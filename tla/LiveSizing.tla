------------------------------ MODULE LiveSizing ------------------------------
(***************************************************************************)
(* A LIVE entry judged by several readings: prepared in one reading of     *)
(* configuration, market and account, approved in the same one or in       *)
(* another.  An input is an entry with its reading and, where it is judged *)
(* late, the later one.                                                    *)
(***************************************************************************)
EXTENDS LiveEntry, Calculation

CONSTANTS
    Configurations,   \* config.json, before and after an edit
    Accounts,         \* readings of the account
    Markets,          \* readings of the book and of the exchange's filters
    Prices,           \* of the candidate
    Noises,           \* ATR of the candidate times atr_stop_multiplier
    Amounts           \* quote requested; AutoSize leaves it to the policy

\* What load_settings lets pass.
ASSUME ConfigurationAssumption ==
    \A s \in Configurations :
      /\ s.policy \in {"percentage", "linear", "legacy"}
      /\ s.backstop \in BOOLEAN
      /\ s.rate \in [MoneyLimits -> Nat]
      /\ s.hard["live"] \in [MoneyLimits \cup {"positions"} -> Nat \cup {Absent}]
      /\ {s.reference, s.rewardRisk} \subseteq Nat \ {0}
      /\ {s.fee, s.slippage, s.slippageCap, s.minStop, s.maxStop, s.minQuote,
          s.maxQuotePerTrade, s.maxDrift, s.reserveRate, s.reserveQuote,
          s.liveReserve} \subseteq Nat

\* Amounts, exposures and risks of an account are never negative.
ASSUME ReadingAssumption ==
    /\ \A a \in Accounts :
         {a.free, a.locked, a.assets, a.exposure, a.posExposure, a.risk,
          a.posRisk, a.positions} \subseteq Nat
    /\ \A m \in Markets :
         /\ {m.bid, m.minNotional} \subseteq Nat
         /\ {m.ask, m.tick, m.step} \subseteq Nat \ {0}
    /\ Prices \subseteq Nat \ {0} /\ Noises \subseteq Nat /\ Amounts \subseteq Nat

EntryCases ==
    [kind : {"entry"}, s : Configurations, a : Accounts, m : Markets,
     price : Prices, noise : Noises]

LateCases ==
    [kind : {"late"}, s : Configurations, a : Accounts, m : Markets,
     price : Prices, noise : Noises,
     under : Configurations, now : Accounts, book : Markets]

SizingSpec == CalculationOver(EntryCases \cup LateCases)

-----------------------------------------------------------------------------
Prepared(requested) ==
    PrepareLive(case.s, case.a, case.m, case.price, case.noise, requested)

\* The reasons that are about the size of an entry: not those that the day, the
\* week or the number of positions gives.
SizeReasons ==
    {"REVALIDATION_FAILED", "MAX_POSITION_EXCEEDED", "MIN_FREE_RESERVE_VIOLATION",
     "MAX_TOTAL_EXPOSURE_EXCEEDED", "MAX_AGGREGATE_RISK_EXCEEDED"}

\* The sizing and the evaluator, written apart from each other, give one
\* verdict on the terms of a bracket: no entry that one accepts is refused by the
\* other for its size, its exposure, its risk or the free balance.
SizingAgreesWithEvaluator ==
    case.kind = "entry" /\ PercentageBased(case.s) =>
        LET ctx == Context(case.s, "live", case.a, Absent)
            e   == EntryTerms(case.s, "live", case.m, case.price, case.noise)
        IN  \A amount \in Amounts \ {AutoSize} :
              LET t == LiveTerms(case.s, case.a, case.m, e, amount)
              IN  0 < t.stop /\ t.stop < t.entry /\ 0 < t.quantity =>
                    (SizeEntry(ctx, t.entry, t.stop, t.quote, case.s.fee).accepted
                       <=> Reasons(ctx, LiveProjection(case.a, t, case.s.fee))
                             \cap SizeReasons = {})

\* The target is where the ratio puts it, without a rounding.
ExactTarget(s, t) == (t.target - t.entry) * Whole = (t.entry - t.stop) * s.rewardRisk

\* Terms that creation accepts pass the approval as long as neither account nor
\* book changes, but for what the rounding to tick and step may spoil: the
\* distance of the stop, the smallest amount of a policy without percentages,
\* and the tick of a target at a broken ratio.
PreparedTermsRevalidate ==
    case.kind = "entry" =>
        \A amount \in Amounts :
            LET t == Prepared(amount)
            IN  t # NoTerms /\ ExactTarget(case.s, t) =>
                  (ApproveLive(case.s, case.a, case.m, t)
                     <=> /\ StopInRange(case.s, t)
                         /\ PercentageBased(case.s) \/ t.quote >= case.s.minQuote
                         /\ t.target % case.m.tick = 0)

\* An approved entry that passes its last check fits the limits of the equity
\* it was proposed with and of the equity it is executed with, costs no more
\* than what the reserve leaves free, and its limit reaches the book.
LateEntryWithinBothEquities ==
    case.kind = "late" =>
        \A amount \in Amounts :
            LET t    == Prepared(amount)
                s    == case.under
                now  == case.now
                risk == t.quantity * (t.entry - t.stop)
                equities == {Equity(now)} \cup
                              (IF PercentageBased(s) THEN {t.equity} ELSE {})
            IN  t # NoTerms /\ Revalidated(s, now, case.book, t) =>
                  /\ \A equity \in equities :
                       LET limits == LimitsFor(s, "live", equity)
                       IN  /\ now.posExposure + t.quote <= limits.entry
                           /\ now.exposure + t.quote <= limits.exposure
                           /\ now.posRisk + risk <= limits.positionRisk
                           /\ now.risk + risk <= limits.aggregateRisk
                           /\ UsesBackstop(s) =>
                                 \A l \in MoneyLimits :
                                    LET hard == HardLimits(s, "live")[l]
                                    IN  hard = Absent \/ limits[l] <= hard
                  /\ t.quote <= now.free - Reserve(s, "live", Min(equities))
                  /\ case.book.ask <= t.entry

\* Of a holding the next check sees only the protective list, and infers its
\* entry from it: the risk it counts is the one that was approved.
InferredRiskIsApproved ==
    case.kind = "entry" =>
        \A amount \in Amounts :
            LET t    == Prepared(amount)
                list == [quantity |-> t.pending, stop |-> t.stop, target |-> t.target]
            IN  t # NoTerms /\ ExactTarget(case.s, t) =>
                  InferredRisk(case.s, list) = t.pending * (t.entry - t.stop)

=============================================================================
