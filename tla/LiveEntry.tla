------------------------------- MODULE LiveEntry -------------------------------
(***************************************************************************)
(* A LIVE entry as numbers: the proposal rounded to the exchange's filters *)
(* (_prepare_live_entry_proposal), the check of the account it must pass   *)
(* (_validate_live_entry_limits), the same check at approval and execution *)
(* (_revalidate_live_buy_entry), the fill it may be credited with          *)
(* (_verified_live_fill) and the realized loss of the session              *)
(* (_live_session_accounting).                                             *)
(***************************************************************************)
EXTENDS RiskPolicy, Sequences, Functions

NoTerms == [quote |-> 0]

\* Mutant: the risk is taken as the reward over the ratio.
RiskOfReward(s, list) ==
    (list.quantity * (list.target - list.stop) * Whole) \div s.rewardRisk

\* Risk of a protected holding: its entry is inferred from the bracket and the
\* configured reward/risk ratio, entry = (target + ratio * stop) / (1 + ratio).
InferredRisk(s, list) ==
    (list.quantity * (list.target - list.stop) * Whole) \div (Whole + s.rewardRisk)

\* The check of limits at equity min(current, proposalEquity). The sizing runs
\* only under a percentage policy and is skipped by the preview that sizes.
LiveProjection(a, t, fee) ==
    [requested   |-> t.quote,
     exposure    |-> a.exposure + t.quote,
     posExposure |-> a.posExposure + t.quote,
     posRisk     |-> a.posRisk + t.quantity * (t.entry - t.stop),
     aggregate   |-> a.risk + t.quantity * (t.entry - t.stop),
     positions   |-> a.positions + (IF a.held THEN 0 ELSE 1),
     fee         |-> fee]

AccountAdmits(s, a) ==
    /\ a.tranches + 1 <= s.maxTranches
    /\ a.accounted
    /\ a.entriesToday < s.maxEntriesPerDay

ValidateLiveEntry(s, a, t, proposalEquity) ==
    LET ctx == Context(s, "live", a, proposalEquity)
        fee == IF PercentageBased(s) THEN s.fee ELSE 0
    IN  /\ AccountAdmits(s, a)
        /\ ~EquityDrifted(s, proposalEquity, Equity(a))
        /\ PercentageBased(s) =>
               SizeEntry(ctx, t.entry, t.stop, t.quote, s.fee).accepted
        /\ Reasons(ctx, LiveProjection(a, t, fee)) = {}

-----------------------------------------------------------------------------
\* _prepare_live_entry_proposal. The limit is the ask plus the slippage cap,
\* rounded down to a tick; the amount buys whole steps and is rounded down to
\* what they cost; the protective quantity is what the fee leaves of them.

\* Mutant: the amount buys any quantity.
AnyLot(quote, limit, step) == quote \div limit

Lot(quote, limit, step) == (quote \div (limit * step)) * step

LimitPrice(s, m) == FloorTo(m.ask + Part(m.ask, s.slippageCap), m.tick)

\* The allowance of an automatic amount: what one unit at these prices may be
\* scaled to in this account.
Allowance(s, a, limit, stop, requested) ==
    IF requested = AutoSize /\ PercentageBased(s)
    THEN IF AccountAdmits(s, a)
         THEN SizeEntry(Context(s, "live", a, Absent), limit, stop, AutoSize, s.fee).notional
         ELSE 0
    ELSE requested

LiveTerms(s, a, m, e, requested) ==
    LET limit    == LimitPrice(s, m)
        stop     == FloorTo(e.stop, m.tick)
        target   == limit + Part(limit - stop, s.rewardRisk)
        allowed  == Allowance(s, a, limit, stop, requested)
        quantity == Lot(allowed, limit, m.step)
    IN  [entry     |-> limit,
         stop      |-> stop,
         target    |-> target,
         ratio     |-> <<s.rewardRisk, Whole>>,
         allowance |-> allowed,
         quantity  |-> quantity,
         quote     |-> quantity * limit,
         pending   |-> FloorTo(Part(quantity, Whole - s.fee), m.step),
         equity    |-> Equity(a),
         policy    |-> Fingerprint(s, "live")]

\* Whether the exchange's filters, the bracket and the account let the terms
\* be proposed.
Proposable(s, a, m, requested, t) ==
    /\ QuoteAllowed(s, "live", requested)
    /\ m.ask <= t.entry
    /\ 0 < t.stop /\ t.stop < t.entry /\ t.entry < t.target
    /\ 0 < t.quantity /\ m.minNotional <= t.quote
    /\ 0 < t.pending
    /\ UsesBackstop(s) =>
           t.quantity * (t.entry - t.stop) <= HardLimits(s, "live").positionRisk
    /\ ValidateLiveEntry(s, a, t, Absent)

PrepareLive(s, a, m, price, noise, requested) ==
    LET e == EntryTerms(s, "live", m, price, noise)
        t == LiveTerms(s, a, m, e, requested)
    IN  IF e.accepted /\ Proposable(s, a, m, requested, t) THEN t ELSE NoTerms

-----------------------------------------------------------------------------
\* Approval and execution: the same terms against a new reading of the market
\* and of the account. The proposal's equity counts only in a percentage policy.
\* Approval looks at the terms themselves as well.

MarketAdmits(m, t) ==
    /\ m.ask <= t.entry
    /\ t.quantity % m.step = 0
    /\ t.entry % m.tick = 0 /\ t.stop % m.tick = 0 /\ t.target % m.tick = 0
    /\ m.minNotional <= t.quantity * t.entry

Revalidated(s, a, m, t) ==
    /\ t.policy = Fingerprint(s, "live")
    /\ MarketAdmits(m, t)
    /\ ValidateLiveEntry(s, a, t,
                         IF PercentageBased(s) THEN t.equity ELSE Absent)

ApproveLive(s, a, m, t) == ClaimableTerms(s, "live", t) /\ Revalidated(s, a, m, t)

-----------------------------------------------------------------------------
\* The evidence of an execution, in parts with price, quantity, fee and the
\* asset of the fee. A part above the approved limit voids it, and so do fees
\* in more than one asset; a fee in a third asset has no value in quote.

NoFill == [quantity |-> 0]

WithinLimit(t, parts) == \A i \in DOMAIN parts : parts[i].price <= t.entry

VerifiedFill(t, parts) ==
    LET quantity == MapThenSumSet(LAMBDA i : parts[i].quantity, DOMAIN parts)
        value    == MapThenSumSet(LAMBDA i : parts[i].quantity * parts[i].price, DOMAIN parts)
        fee      == MapThenSumSet(LAMBDA i : parts[i].fee, DOMAIN parts)
        assets   == {parts[i].asset : i \in DOMAIN parts}
    IN  IF quantity > 0 /\ WithinLimit(t, parts) /\ Cardinality(assets) = 1
        THEN [side |-> "BUY", quantity |-> quantity, value |-> value,
              fee |-> CASE assets = {"quote"} -> fee
                        [] assets = {"base"}  -> (fee * value) \div quantity
                        [] OTHER              -> Absent]
        ELSE NoFill

-----------------------------------------------------------------------------
\* Realized loss of the session: the recorded fills in the order in which they
\* were stored, matched first in, first out, the fee of a purchase spread over
\* its units. A sale of more than the recorded purchases makes the accounting
\* incomplete, and every entry is refused.

\* Mutant: a later purchase is matched first.
SpendLast(lots, sold) ==
    LET n == Len(lots)
    IN  IF lots[n].quantity > sold
        THEN <<[lots EXCEPT ![n].quantity = @ - sold], sold * lots[n].cost, 0>>
        ELSE <<SubSeq(lots, 1, n - 1), lots[n].quantity * lots[n].cost,
               sold - lots[n].quantity>>

\* One turn of the loop: the first lot, or the part of it that is sold.
SpendFirst(lots, sold) ==
    IF lots[1].quantity > sold
    THEN <<[lots EXCEPT ![1].quantity = @ - sold], sold * lots[1].cost, 0>>
    ELSE <<Tail(lots), lots[1].quantity * lots[1].cost, sold - lots[1].quantity>>

\* The loop over what remains of the lots, their cost, and what is not yet matched.
Turn(sale) ==
    IF sale[3] = 0 \/ sale[1] = <<>> THEN sale
    ELSE LET step == SpendFirst(sale[1], sale[3])
         IN  <<step[1], sale[2] + step[2], step[3]>>

\* The sale of `sold` units out of `lots`.
Matched(lots, sold) ==
    LET turn[n \in 0..Len(lots)] ==
            IF n = 0 THEN <<lots, 0, sold>> ELSE Turn(turn[n - 1])
    IN  turn[Len(lots)]

EmptyBook == [lots |-> <<>>, loss |-> 0, complete |-> TRUE]

\* A fill has side, quantity, value, fee, and whether it counts in the period.
Book(acc, fill) ==
    IF ~acc.complete \/ fill.fee = Absent THEN [acc EXCEPT !.complete = FALSE]
    ELSE IF fill.side = "BUY"
    THEN [acc EXCEPT !.lots = Append(@,
             [quantity |-> fill.quantity,
              cost     |-> (fill.value + fill.fee) \div fill.quantity])]
    ELSE LET sale == Matched(acc.lots, fill.quantity)
             pnl  == fill.value - fill.fee - sale[2]
         IN  IF sale[3] > 0 THEN [acc EXCEPT !.complete = FALSE]
             ELSE [acc EXCEPT !.lots = sale[1],
                              !.loss = IF fill.inPeriod /\ pnl < 0 THEN @ - pnl ELSE @]

SessionAccounting(fills) ==
    LET after[n \in 0..Len(fills)] ==
            IF n = 0 THEN EmptyBook ELSE Book(after[n - 1], fills[n])
    IN  after[Len(fills)]

=============================================================================
