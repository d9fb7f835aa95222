------------------------------ MODULE RiskPolicy ------------------------------
(***************************************************************************)
(* The risk policy shared by PAPER and LIVE: the limits an equity allows   *)
(* (risk_policy/limits.py), the size of an entry (sizing.py), the verdict  *)
(* on it (evaluator.py), the terms of a proposal (policy.py) and the LIVE  *)
(* proposal that is rounded to the exchange's filters, approved later and  *)
(* checked again at that moment (service.py).                              *)
(*                                                                         *)
(* Money, prices and quantities are whole numbers of their smallest        *)
(* persisted unit; a rate is a whole number of 1/Whole. `s` stands for the *)
(* Settings object, `a` for one reading of the account, `m` for one        *)
(* reading of the market, `t` for the terms of a proposal.                 *)
(***************************************************************************)
EXTENDS Integers, FiniteSets, FiniteSetsExt

CONSTANT Whole

ASSUME WholeAssumption == Whole \in Nat \ {0}

Absent == -1           \* None: no proposal equity, no weekly cap
AutoSize == 0              \* no amount was requested

Part(x, rate) == (x * rate) \div Whole
CeilPart(x, rate) == -Part(-x, rate)
FloorTo(x, step) == (x \div step) * step
NonNegative(x) == IF x > 0 THEN x ELSE 0
Smaller(x, y) == IF x <= y THEN x ELSE y

MoneyLimits == {"entry", "exposure", "positionRisk", "aggregateRisk",
                "daily", "weekly"}

-----------------------------------------------------------------------------
\* Limits (limits.py).

PercentageBased(s) == s.policy = "percentage"

HardLimits(s, mode) ==
    [s.hard[mode] EXCEPT !.entry  = Smaller(s.maxQuotePerTrade, @),
                         !.weekly = IF mode = "paper" THEN Absent ELSE @]

UsesBackstop(s) == ~PercentageBased(s) \/ s.backstop

PercentageLimits(s, mode, basis) ==
    [l \in MoneyLimits |->
        LET value   == Part(basis, s.rate[l])
            ceiling == HardLimits(s, mode)[l]
        IN  IF s.backstop /\ ceiling # Absent THEN Smaller(value, ceiling)
                                              ELSE value]

\* Schema 1 scales the absolute caps down with equity, never up; without a
\* policy they stand as they are.
AbsoluteLimits(s, mode, basis) ==
    [l \in MoneyLimits |->
        LET cap == HardLimits(s, mode)[l]
        IN  IF cap = Absent \/ s.policy = "legacy" \/ basis >= s.reference
            THEN cap
            ELSE (cap * basis) \div s.reference]

LimitsFor(s, mode, basis) ==
    IF PercentageBased(s) THEN PercentageLimits(s, mode, basis)
                          ELSE AbsoluteLimits(s, mode, basis)

MaxPositions(s, mode) ==
    IF PercentageBased(s) THEN s.maxOpen ELSE s.hard[mode].positions

Reserve(s, mode, basis) ==
    CASE PercentageBased(s)   -> Part(basis, s.reserveRate)
      [] s.policy = "linear"  -> s.reserveQuote
      [] OTHER                -> IF mode = "live" THEN s.liveReserve ELSE 0

-----------------------------------------------------------------------------
\* One reading of the account (capital.py, _paper_policy_context,
\* _validate_live_entry_limits): the limits follow the smaller of the present
\* equity and the equity of the proposal, if there is one.

Equity(a) == a.free + a.locked + a.assets

\* Mutant: the present equity alone.
CurrentBasis(a, proposalEquity) == Equity(a)

EffectiveEquity(a, proposalEquity) ==
    IF proposalEquity = Absent THEN Equity(a)
                               ELSE Smaller(Equity(a), proposalEquity)

Context(s, mode, a, proposalEquity) ==
    LET basis == EffectiveEquity(a, proposalEquity)
    IN  [a         |-> a,
         limits    |-> LimitsFor(s, mode, basis),
         positions |-> MaxPositions(s, mode),
         buying    |-> NonNegative(a.free - Reserve(s, mode, basis))]

EquityDrifted(s, proposalEquity, current) ==
    /\ proposalEquity # Absent
    /\ (proposalEquity - current) * Whole > s.maxDrift * proposalEquity

-----------------------------------------------------------------------------
\* size_entry: an explicit amount is accepted or refused, never changed; with
\* none the largest safe amount is chosen.

CapitalCapacity(buying, fee) == (buying * Whole) \div (Whole + fee)

\* Mutant: the risk already open is not subtracted.
FreshRisk(ctx) == Smaller(ctx.limits.aggregateRisk, ctx.limits.positionRisk)

UsableRisk(ctx) ==
    Smaller(NonNegative(ctx.limits.aggregateRisk - ctx.a.risk),
            NonNegative(ctx.limits.positionRisk - ctx.a.posRisk))

SafeNotional(ctx, entry, stop, fee) ==
    LET asNotional(risk) == (risk * entry) \div (entry - stop)
    IN  Min({asNotional(ctx.limits.positionRisk),
             ctx.limits.entry,
             NonNegative(ctx.limits.entry - ctx.a.posExposure),
             NonNegative(ctx.limits.exposure - ctx.a.exposure),
             asNotional(UsableRisk(ctx)),
             CapitalCapacity(ctx.buying, fee)})

SizeEntry(ctx, entry, stop, requested, fee) ==
    LET safe     == SafeNotional(ctx, entry, stop, fee)
        selected == IF requested = AutoSize THEN safe ELSE requested
    IN  [accepted |-> 0 < selected /\ selected <= safe, notional |-> selected]

-----------------------------------------------------------------------------
\* evaluate_entry: the codes of the reasons to refuse projected terms p. A
\* projection that the caller does not have is Absent.

WithinBuyingPower(ctx, p) ==
    p.requested * (Whole + p.fee) <= ctx.buying * Whole

Reasons(ctx, p) ==
    LET when(failed, code) == IF failed THEN {code} ELSE {}
    IN  UNION {
          when(p.requested <= 0, "REVALIDATION_FAILED"),
          when(p.requested > ctx.limits.entry, "MAX_POSITION_EXCEEDED"),
          when(~WithinBuyingPower(ctx, p), "MIN_FREE_RESERVE_VIOLATION"),
          when(p.posExposure > ctx.limits.entry, "MAX_POSITION_EXCEEDED"),
          when(p.exposure > ctx.limits.exposure, "MAX_TOTAL_EXPOSURE_EXCEEDED"),
          when(p.posRisk > ctx.limits.positionRisk, "MAX_POSITION_EXCEEDED"),
          when(\/ p.aggregate > ctx.limits.aggregateRisk
               \/ p.aggregate = Absent /\ ctx.a.risk >= ctx.limits.aggregateRisk,
               "MAX_AGGREGATE_RISK_EXCEEDED"),
          when(ctx.a.daily >= ctx.limits.daily, "DAILY_LOSS_LIMIT_REACHED"),
          when(/\ ctx.limits.weekly # Absent
               /\ ctx.a.weekly >= ctx.limits.weekly, "WEEKLY_LOSS_LIMIT_REACHED"),
          when(p.positions > ctx.positions, "MAX_OPEN_POSITIONS_REACHED")}

-----------------------------------------------------------------------------
\* The terms of a proposal (entry_policy_terms): prices from the book, a stop
\* below the reference by the noise (ATR times its multiplier) or the minimum
\* distance; refused if the spread, the drift from the candidate's price or
\* the stop distance is too large. The stop is persisted rounded down.

EntryTerms(s, mode, m, price, noise) ==
    LET ref      == IF mode = "live" THEN m.ask + Part(m.ask, s.slippage) ELSE m.ask
        distance == Max({noise, CeilPart(ref, s.minStop)})
        drift    == IF ref >= price THEN ref - price ELSE price - ref
    IN  [accepted |-> /\ 0 < m.bid /\ m.bid <= m.ask
                      /\ 2 * (m.ask - m.bid) * Whole <= s.maxSpread * (m.ask + m.bid)
                      /\ drift * Whole <= s.maxEntryDrift * price
                      /\ Max({noise * Whole, ref * s.minStop}) <= s.maxStop * ref
                      /\ 0 < distance /\ distance < ref,
         entry    |-> ref,
         stop     |-> ref - distance,
         target   |-> ref + Part(distance, s.rewardRisk)]

\* The absolute ceiling of an entry, where the settings use one.
UnderCeiling(s, mode, quote) ==
    UsesBackstop(s) => quote <= HardLimits(s, mode).entry

\* The amount an entry may be proposed with, and claimed with.
QuoteAllowed(s, mode, quote) ==
    /\ PercentageBased(s) \/ quote >= s.minQuote
    /\ UnderCeiling(s, mode, quote)

StopInRange(s, t) ==
    LET risk == t.entry - t.stop
    IN  s.minStop * t.entry <= risk * Whole /\ risk * Whole <= s.maxStop * t.entry

\* validate_claim of a BUY: bracket, ratio and distance once more.
ClaimableTerms(s, mode, t) ==
    /\ QuoteAllowed(s, mode, t.quote)
    /\ t.ratio[1] * Whole >= s.rewardRisk * t.ratio[2]
    /\ t.stop < t.entry /\ t.entry < t.target
    /\ t.ratio[1] * (t.entry - t.stop) = t.ratio[2] * (t.target - t.entry)
    /\ StopInRange(s, t)

\* What policy_fingerprint covers: another value voids a pending proposal.
Fingerprint(s, mode) ==
    <<s.policy, s.backstop, HardLimits(s, mode), s.rate, s.reserveRate,
      s.reserveQuote, s.reference, s.maxOpen, s.maxDrift>>

=============================================================================
