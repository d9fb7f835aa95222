----------------------------- MODULE Calculation -----------------------------
(***************************************************************************)
(* A pure calculation as a specification: an initial state for each of its *)
(* inputs, and no step.                                                    *)
(***************************************************************************)
VARIABLE case

CalculationOver(inputs) == case \in inputs /\ [][UNCHANGED case]_case

=============================================================================
