----------------------------- MODULE SessionLoss -----------------------------
(***************************************************************************)
(* The realized loss of a session, for each history of the fills of a      *)
(* symbol, against its definition: each unit sold is set against the unit  *)
(* that was bought in the same place.                                      *)
(***************************************************************************)
EXTENDS LiveEntry, Calculation

CONSTANT Histories   \* live.risk_fill events of one epoch and symbol, in order

\* The fields that _live_session_accounting has checked before it counts a fill.
ASSUME HistoryAssumption ==
    \A h \in Histories :
      h \in Seq([side : {"BUY", "SELL"}, quantity : Nat \ {0}, value : Nat,
                 fee : Nat \cup {Absent}, inPeriod : BOOLEAN])

SessionCases == [kind : {"session"}, fills : Histories]

SessionSpec == CalculationOver(SessionCases)

-----------------------------------------------------------------------------
\* Units bought, or sold, by the first n fills.
Units(h, side, n) ==
    SumFunctionOnSet([i \in DOMAIN h |-> IF h[i].side = side THEN h[i].quantity ELSE 0], 1..n)

\* The purchase that the k-th unit came with, and what each unit has cost.
Purchase(h, k) ==
    CHOOSE i \in DOMAIN h : Units(h, "BUY", i - 1) < k /\ k <= Units(h, "BUY", i)

UnitCosts(h) ==
    [k \in 1..Units(h, "BUY", Len(h)) |->
        LET p == h[Purchase(h, k)] IN (p.value + p.fee) \div p.quantity]

\* The n-th fill, a sale, set against the units in its places.
LossOfSale(h, n) ==
    LET sold == Units(h, "SELL", n - 1)
        cost == SumFunctionOnSet(UnitCosts(h), (sold + 1)..(sold + h[n].quantity))
    IN  NonNegative(cost - (h[n].value - h[n].fee))

\* The accounting is complete unless a fee has no known value or more was sold
\* than bought before; then its loss is that of each unit sold against the unit
\* bought in the same place, each sale of the period by itself.
SessionLossIsFirstInFirstOut ==
    case.kind = "session" =>
        LET h   == case.fills
            acc == SessionAccounting(h)
        IN  /\ acc.complete <=>
                 /\ \A i \in DOMAIN h : h[i].fee # Absent
                 /\ \A n \in DOMAIN h : Units(h, "SELL", n) <= Units(h, "BUY", n)
            /\ acc.complete =>
                 acc.loss =
                   SumFunctionOnSet(
                     [n \in DOMAIN h |-> IF h[n].side = "SELL" /\ h[n].inPeriod
                                         THEN LossOfSale(h, n) ELSE 0],
                     DOMAIN h)

=============================================================================
