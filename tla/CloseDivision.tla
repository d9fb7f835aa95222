---------------------------- MODULE CloseDivision ----------------------------
(***************************************************************************)
(* The division of a close over the tranches of a symbol, for each holding *)
(* and each quantity that may be asked, next to the loop of                *)
(* Ledger.execute_paper_close as it is written.                            *)
(***************************************************************************)
EXTENDS CloseAllocation, Calculation

CONSTANT Holdings    \* net_quantity of the open tranches of a symbol, by number

ASSUME HoldingAssumption ==
    \A h \in Holdings :
      /\ DOMAIN h \subseteq Nat /\ IsFiniteSet(DOMAIN h)
      /\ h \in [DOMAIN h -> Nat \ {0}]

\* A partial close asks for whole steps, a full one for everything.
CloseCases ==
    UNION {[kind : {"close"}, held : {h},
            asked : {q \in 1..TotalOf(h) : q % Step = 0 \/ q = TotalOf(h)}] :
           h \in Holdings}

DivisionSpec == CalculationOver(CloseCases)

-----------------------------------------------------------------------------
\* sorted(raw, key=(fraction, id), reverse=True): the rows in the order in
\* which they are served.
Fraction(h, q, t) == (q * h[t]) % (TotalOf(h) * Step)

Served(h, q, u, t) ==
    \/ Fraction(h, q, u) > Fraction(h, q, t)
    \/ Fraction(h, q, u) = Fraction(h, q, t) /\ u > t

Rows(h, q) ==
    CHOOSE r \in [1..Cardinality(DOMAIN h) -> DOMAIN h] :
        \A i, j \in DOMAIN r : i < j => Served(h, q, r[i], r[j])

\* One turn of the loop: a step to the row if it has room, until the residual is
\* less than a step.
Row(h, acc, t) ==
    IF acc.residual >= Step /\ h[t] - acc.given[t] >= Step
    THEN [given    |-> [acc.given EXCEPT ![t] = @ + Step],
          residual |-> acc.residual - Step]
    ELSE acc

HandOut(h, q) ==
    LET turn[n \in 0..Cardinality(DOMAIN h)] ==
            IF n = 0
            THEN [given    |-> [t \in DOMAIN h |-> Base(h, q, t)],
                  residual |-> Residual(h, q)]
            ELSE Row(h, turn[n - 1], Rows(h, q)[n])
    IN  turn[Cardinality(DOMAIN h)]

-----------------------------------------------------------------------------
\* The allocation is the one the loop over the sorted rows computes, and is
\* refused exactly when the loop leaves a residual.
AgreesWithLoop ==
    case.kind = "close" /\ case.asked < TotalOf(case.held) =>
        LET out == HandOut(case.held, case.asked)
        IN  /\ Allocation(case.held, case.asked) = out.given
            /\ Allocatable(case.held, case.asked) <=> out.residual = 0

\* A partial close is fair: each tranche gives its exact proportional share, to
\* within one quantity step, and no more than it holds.
FairToAStep ==
    case.kind = "close" /\ Allocatable(case.held, case.asked) =>
        \A t \in DOMAIN case.held :
            LET given  == Allocation(case.held, case.asked)[t]
                total  == TotalOf(case.held)
                excess == given * total - case.asked * case.held[t]
            IN  /\ given \in 0..case.held[t]
                /\ -Step * total < excess /\ excess <= Step * total

=============================================================================
