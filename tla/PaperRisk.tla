------------------------------- MODULE PaperRisk -------------------------------
(***************************************************************************)
(* The risk of a PAPER entry as numbers: the bracket that is persisted     *)
(* (policy._canonical_paper_bracket), what a fill risks at its stop after  *)
(* fees and slippage (paper.build_fill_risk), what a stop really pays      *)
(* (paper.exit_values), the projection over the tranches of a symbol       *)
(* (_paper_risk_projection), and the three moments at which an entry is    *)
(* held against the policy: creation, approval and fill.                   *)
(*                                                                         *)
(* A tranche is [symbol, net, spent, fill, stop, target, risk]; `rows` is  *)
(* the set of the open ones.                                               *)
(***************************************************************************)
EXTENDS RiskPolicy, Functions, Sequences

NoEntry == [quote |-> 0]

\* The target is rounded up, so that the persisted ratio keeps the minimum.
PaperBracket(s, e) ==
    [entry  |-> e.entry, stop |-> e.stop,
     target |-> e.entry + CeilPart(e.entry - e.stop, s.rewardRisk)]

\* Sale of `net` units at `trigger`: adverse slippage, then the fee.
ExitProceeds(s, net, trigger) ==
    (net * trigger * (Whole - s.slippage) * (Whole - s.fee)) \div (Whole * Whole)

StopProceeds(s, net, stop) ==
    (net * stop * (Whole - s.slippage) * (Whole - s.fee)) \div (Whole * Whole)

\* build_fill_risk: the approved distance below the price of the fill.
FillRisk(s, t, symbol, fill, gross) ==
    LET net  == gross - Part(gross, s.fee)
        stop == fill - (t.entry - t.stop)
    IN  [symbol |-> symbol, net |-> net, spent |-> gross * fill, fill |-> fill,
         stop   |-> stop,
         target |-> fill + Part(t.entry - t.stop, s.rewardRisk),
         risk   |-> gross * fill - StopProceeds(s, net, stop)]

FillAllowed(s, f) ==
    /\ 0 < f.stop /\ 0 < f.net /\ 0 < f.risk
    /\ UsesBackstop(s) => f.risk <= s.maxRiskPerTrade

-----------------------------------------------------------------------------
\* The tranches of one symbol as one position: the highest stop is everyone's.

SumOf(field, rows) == SumFunctionOnSet([r \in rows |-> r[field]], rows)
ValueOf(rows)      == SumFunctionOnSet([r \in rows |-> r.fill * r.net], rows)
HighestStop(rows)  == Max({r.stop : r \in rows})
Of(symbol, rows)   == {r \in rows : r.symbol = symbol}

EconomicRisk(s, rows) ==
    IF rows = {} THEN 0
    ELSE SumOf("spent", rows) - StopProceeds(s, SumOf("net", rows), HighestStop(rows))

\* A scale-in keeps the stop of the tranches before it.
ProjectedStop(held, f) == IF held = {} THEN f.stop ELSE HighestStop(held)

\* Mutant: a scale-in is held against the limits on its own.
RiskOfFill(s, held, f) == f.risk

ProjectedRisk(s, held, f) ==
    IF held = {} THEN f.risk
    ELSE SumOf("spent", held) + f.spent
           - StopProceeds(s, SumOf("net", held) + f.net, ProjectedStop(held, f))

SymbolsOf(rows) == {r.symbol : r \in rows}

AggregateOf(s, rows, symbols) ==
    SumFunctionOnSet([x \in symbols |-> EconomicRisk(s, Of(x, rows))], symbols)

\* Over all symbols, the projected one replacing what is held of it.
ProjectedAggregate(s, rows, f) ==
    AggregateOf(s, rows, SymbolsOf(rows) \ {f.symbol})
        + ProjectedRisk(s, Of(f.symbol, rows), f)

\* A persisted position whose average entry fell to its stop, or that cannot
\* lose, needs repair and blocks every projection.
Sound(s, rows) ==
    /\ HighestStop(rows) * SumOf("net", rows) < ValueOf(rows)
    /\ 0 < EconomicRisk(s, rows)

-----------------------------------------------------------------------------
\* The bracket of a position of `net` units with value `value` at their prices.
\* A target is a quotient, since it follows from a weighted average.

\* stop + (1 + ratio) * (average - stop).
TargetOf(value, net, stop, ratio) ==
    [num |-> value * ratio[2] + (value - stop * net) * ratio[1],
     den |-> net * ratio[2]]

\* validate_long_bracket: the target is at the ratio, to BRACKET_RR_TOLERANCE =
\* 1/10000.
ValidBracket(value, net, stop, target, ratio) ==
    LET risk      == value - stop * net
        excess    == target.num * net * ratio[2]
                       - target.den * (value * ratio[2] + risk * ratio[1])
        tolerance == (target.den * ratio[2] * risk) \div 10000
    IN  /\ 0 < risk
        /\ value * target.den < target.num * net
        /\ -tolerance <= excess /\ excess <= tolerance

\* A first entry has the target of its fill, which follows the configured ratio;
\* with further ones it is set anew from the average and the proposal's ratio.
ProjectedTarget(held, ratio, f) ==
    IF held = {} THEN [num |-> f.target, den |-> 1]
    ELSE TargetOf(ValueOf(held) + f.fill * f.net, SumOf("net", held) + f.net,
                  ProjectedStop(held, f), ratio)

\* _paper_risk_projection: the merged bracket must be a bracket around the
\* book at the proposal's ratio, and the two risks within their limits.
ProjectionAllowed(s, ctx, rows, ratio, f, m) ==
    LET held   == Of(f.symbol, rows)
        net    == SumOf("net", held) + f.net
        value  == ValueOf(held) + f.fill * f.net
        stop   == ProjectedStop(held, f)
        target == ProjectedTarget(held, ratio, f)
    IN  /\ \A x \in SymbolsOf(rows) : Sound(s, Of(x, rows))
        /\ ValidBracket(value, net, stop, target, ratio)
        /\ stop < m.bid /\ m.ask * target.den < target.num
        /\ 0 < ProjectedRisk(s, held, f)
        /\ ProjectedRisk(s, held, f) <= ctx.limits.positionRisk
        /\ ProjectedAggregate(s, rows, f) <= ctx.limits.aggregateRisk

-----------------------------------------------------------------------------
\* The account as _paper_policy_context reads it, for an entry in `symbol`. A
\* policy values what is held at the bid, without one it counts at cost.
PaperAccount(s, free, rows, marks, loss, symbol) ==
    [free        |-> free,
     locked      |-> IF s.policy = "legacy" THEN SumOf("spent", rows) ELSE 0,
     assets      |-> IF s.policy = "legacy" THEN 0
                     ELSE SumFunctionOnSet([r \in rows |-> r.net * marks[r.symbol]], rows),
     exposure    |-> SumOf("spent", rows),
     risk        |-> SumOf("risk", rows),
     daily       |-> loss,
     weekly      |-> loss,
     positions   |-> Cardinality(SymbolsOf(rows)),
     held        |-> Of(symbol, rows) # {},
     posExposure |-> SumOf("spent", Of(symbol, rows)),
     posRisk     |-> SumOf("risk", Of(symbol, rows))]

\* The evaluator, given the projected exposures and risks.
PaperAdmits(s, ctx, requested, exposure, posExposure, posRisk, aggregate) ==
    Reasons(ctx,
      [requested   |-> requested,
       exposure    |-> exposure,
       posExposure |-> posExposure,
       posRisk     |-> posRisk,
       aggregate   |-> aggregate,
       positions   |-> ctx.a.positions + (IF ctx.a.held THEN 0 ELSE 1),
       fee         |-> IF PercentageBased(s) THEN s.fee ELSE 0]) = {}

Sized(s, ctx, t, requested) ==
    PercentageBased(s) =>
        SizeEntry(ctx, t.entry, t.stop, requested, s.fee).accepted

Gross(quote, price, step) == (quote \div (price * step)) * step

\* The amount buys whole steps that the exchange would accept. Creation from a
\* candidate looks at the exchange's filters only under a percentage policy,
\* creation by hand always.
LotAllowed(gross, price, m) == 0 < gross /\ m.minNotional <= gross * price

\* Mutant: creation divides without regard to the exchange's step.
AnyStep(s, m, manual) == 1

ProposalStep(s, m, manual) == IF manual \/ PercentageBased(s) THEN m.step ELSE 1

\* The terms before they are judged.
PaperTerms(s, ctx, m, e, symbol, requested, rows, manual) ==
    LET b     == PaperBracket(s, e)
        quote == IF PercentageBased(s)
                 THEN SizeEntry(ctx, e.entry, e.stop, requested, s.fee).notional
                 ELSE requested
        gross == Gross(quote, m.ask, ProposalStep(s, m, manual))
        f     == FillRisk(s, b, symbol, m.ask, gross)
    IN  [entry     |-> b.entry, stop |-> b.stop, target |-> b.target,
         ratio     |-> <<b.target - b.entry, b.entry - b.stop>>,
         quote     |-> quote,
         gross     |-> gross,
         plan      |-> f,
         posRisk   |-> ProjectedRisk(s, Of(symbol, rows), f),
         aggregate |-> ProjectedAggregate(s, rows, f),
         usedRisk  |-> ctx.a.risk,
         equity    |-> Equity(ctx.a),
         policy    |-> Fingerprint(s, "paper")]

\* create_proposal from a candidate at `price` with the given noise, and
\* create_manual_buy_proposal, which takes the price of the moment and always
\* an amount.
ProposePaper(s, a, m, price, noise, symbol, requested, rows, manual) ==
    LET ctx == Context(s, "paper", a, Absent)
        e   == EntryTerms(s, "paper", m, price, noise)
        t   == PaperTerms(s, ctx, m, e, symbol, requested, rows, manual)
    IN  IF /\ manual => requested # AutoSize
           /\ requested # AutoSize =>
                  PaperAdmits(s, ctx, requested, a.exposure + requested,
                              Absent, Absent, Absent)
           /\ e.accepted
           /\ Sized(s, ctx, e, requested)
           /\ manual \/ PercentageBased(s) => LotAllowed(t.gross, m.ask, m)
           /\ QuoteAllowed(s, "paper", t.quote)
           /\ FillAllowed(s, t.plan)
           /\ ProjectionAllowed(s, ctx, rows, t.ratio, t.plan, m)
           /\ PaperAdmits(s, ctx, t.quote, a.exposure + t.quote,
                          a.posExposure + t.plan.spent, t.posRisk, t.aggregate)
        THEN t ELSE NoEntry

ApprovalContext(s, a, t) ==
    Context(s, "paper", a, IF PercentageBased(s) THEN t.equity ELSE Absent)

\* The proposal's snapshot still speaks for these settings and this equity.
SnapshotHolds(s, a, t) ==
    /\ t.policy = Fingerprint(s, "paper")
    /\ PercentageBased(s) => ~EquityDrifted(s, t.equity, Equity(a))

\* What the entry added to the aggregate at creation, on what is open now.
RefreshedAggregate(a, t) == a.risk + NonNegative(t.aggregate - t.usedRisk)

\* validate_claim and _revalidate_paper_entry_policy.
ApprovePaper(s, a, m, t) ==
    LET ctx == ApprovalContext(s, a, t)
    IN  /\ ClaimableTerms(s, "paper", t)
        /\ SnapshotHolds(s, a, t)
        /\ PercentageBased(s) => LotAllowed(Gross(t.quote, m.ask, m.step), m.ask, m)
        /\ Sized(s, ctx, t, t.quote)
        /\ PaperAdmits(s, ctx, t.quote, a.exposure + t.quote,
                       a.posExposure + t.quote, t.posRisk, RefreshedAggregate(a, t))

PriceDrifted(s, t, price) ==
    LET drift == IF price >= t.entry THEN price - t.entry ELSE t.entry - price
    IN  drift * Whole > s.maxEntryDrift * t.entry

\* _execute_claimed_paper: the tranche, or NoEntry if the fill is refused.
FillPaper(s, a, m, t, symbol, rows) ==
    LET gross == Gross(t.quote, m.ask, m.step)
        f     == FillRisk(s, t, symbol, m.ask, gross)
        ctx   == ApprovalContext(s, a, t)
    IN  IF /\ ~PriceDrifted(s, t, m.ask)
           /\ LotAllowed(gross, m.ask, m)
           /\ FillAllowed(s, f)
           /\ SnapshotHolds(s, a, t)
           /\ Sized(s, ctx, t, t.quote)
           /\ ProjectionAllowed(s, ctx, rows, t.ratio, f, m)
           /\ PaperAdmits(s, ctx, t.quote, a.exposure + f.spent,
                          a.posExposure + f.spent,
                          ProjectedRisk(s, Of(symbol, rows), f),
                          ProjectedAggregate(s, rows, f))
        THEN f ELSE NoEntry

=============================================================================
