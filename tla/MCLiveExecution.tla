-------------------------- MODULE MCLiveExecution --------------------------
(***************************************************************************)
(* Small instances of LiveExecution for TLC.                               *)
(***************************************************************************)
EXTENDS LiveExecution, TLC

UnitQuote == [p \in Proposals |-> IF p \in LiveExits THEN 0 ELSE 1]

\* Processes and candidates are interchangeable.
Symmetry == Permutations(Workers) \cup Permutations(Candidates)

=============================================================================
