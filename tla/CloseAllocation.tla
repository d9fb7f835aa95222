-------------------------- MODULE CloseAllocation --------------------------
(***************************************************************************)
(* How a manual PAPER close divides the quantity to sell among the open    *)
(* tranches of a symbol (Ledger.execute_paper_close): in proportion to     *)
(* what each holds, rounded down to the exchange's quantity step, the      *)
(* residual then handed out one step at a time by largest remainder.       *)
(* Quantities are whole numbers of some unit finer than the step.          *)
(***************************************************************************)
EXTENDS Integers, FiniteSets, FiniteSetsExt, Functions

CONSTANT Step        \* market step_size

ASSUME StepAssumption == Step \in Nat \ {0}

TotalOf(held) == MapThenSumSet(LAMBDA t : held[t], DOMAIN held)

\* The proportional share of tranche t, rounded down to the step, and what
\* the rounding left over (as a numerator over the total).
Base(held, q, t) == ((q * held[t]) \div (TotalOf(held) * Step)) * Step
Remainder(held, q, t) == q * held[t] - Base(held, q, t) * TotalOf(held)

HasRoom(held, q, t) == held[t] - Base(held, q, t) >= Step

Residual(held, q) ==
    q - TotalOf([t \in DOMAIN held |-> Base(held, q, t)])

\* Mutant: smaller remainder first.
Behind(held, q, u, t) ==
    \/ Remainder(held, q, u) < Remainder(held, q, t)
    \/ Remainder(held, q, u) = Remainder(held, q, t) /\ u > t

\* The order of the handout: larger remainder first, then larger identifier.
Before(held, q, u, t) ==
    \/ Remainder(held, q, u) > Remainder(held, q, t)
    \/ Remainder(held, q, u) = Remainder(held, q, t) /\ u > t

\* The tranches with room that are served before t.
Ahead(held, q, t) ==
    {u \in DOMAIN held : HasRoom(held, q, u) /\ Before(held, q, u, t)}

\* Mutant: the first tranche with room receives the whole residual.
WholeResidual(held, q, t) ==
    IF HasRoom(held, q, t) /\ Ahead(held, q, t) = {}
    THEN Residual(held, q) ELSE 0

\* The single pass over the ordered tranches gives t one step if it has room
\* and the tranches ahead of it have not used the residual up.
Extra(held, q, t) ==
    IF /\ HasRoom(held, q, t)
       /\ Residual(held, q) - Cardinality(Ahead(held, q, t)) * Step >= Step
    THEN Step ELSE 0

Allocation(held, q) ==
    IF q = TotalOf(held) THEN held
    ELSE [t \in DOMAIN held |-> Base(held, q, t) + Extra(held, q, t)]

\* The close is refused when a residual remains.
Allocatable(held, q) ==
    /\ 0 < q /\ q <= TotalOf(held)
    /\ TotalOf(Allocation(held, q)) = q

=============================================================================
