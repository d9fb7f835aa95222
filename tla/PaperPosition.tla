----------------------------- MODULE PaperPosition -----------------------------
(***************************************************************************)
(* What a PAPER position is worth and risks over its life: an entry is     *)
(* proposed at one price and filled at another, further entries merge into *)
(* the position (finish_paper_and_open), a close by hand takes a part of   *)
(* every tranche (execute_paper_close), the monitor sells the whole symbol *)
(* when its stop or target is reached (monitor_paper_positions).           *)
(*                                                                         *)
(* PaperBook has the same tables with several processes at work; here one  *)
(* process acts at a time, and stops, targets, risk and the account count. *)
(***************************************************************************)
EXTENDS PaperRisk, CloseAllocation

CONSTANTS
    Settings,        \* config.json
    Symbols,         \* market.symbols
    TrancheCap,      \* paper.max_active_tranches
    EntryBound, CloseBound, MoveBound,   \* bounds of one behaviour
    Prices,          \* what a book, or an edge of a candle, can be
    Noises,          \* ATR of a candidate times atr_stop_multiplier
    Requests,        \* amounts asked for; AutoSize leaves it to the policy
    Percentages,     \* of a close by hand
    InitialBalance,  \* paper.initial_balance_usdt
    MinNotional

ASSUME PositionAssumption ==
    /\ TrancheCap \in Nat /\ {EntryBound, CloseBound, MoveBound} \subseteq Nat
    /\ Prices \subseteq Nat \ {0}
    /\ Noises \subseteq Nat
    /\ Requests \subseteq Nat
    /\ Percentages \subseteq 1..100
    /\ InitialBalance \in Nat
    /\ MinNotional \in Nat

\* What load_settings lets pass.
ASSUME SettingsAssumption ==
    /\ Settings.policy \in {"percentage", "linear", "legacy"}
    /\ Settings.backstop \in BOOLEAN
    /\ Settings.rate \in [MoneyLimits -> Nat]
    /\ Settings.hard["paper"] \in [MoneyLimits \cup {"positions"} -> Nat \cup {Absent}]
    /\ Settings.reference \in Nat \ {0}
    /\ Settings.rewardRisk \in Nat \ {0}
    /\ {Settings.fee, Settings.slippage, Settings.minStop, Settings.maxStop,
        Settings.maxQuotePerTrade, Settings.reserveRate, Settings.reserveQuote,
        Settings.maxDrift, Settings.maxEntryDrift} \subseteq Nat

VARIABLES
    price,       \* the book of each symbol, bid and ask in one
    rows,        \* paper_positions: the open tranches
    free,        \* paper_account: free_usdt
    lost,        \* realized losses of the day
    proposal,    \* the one active proposal, or NoEntry
    opened,      \* entries so far: the identifiers of the positions
    closes,      \* manual closes so far
    moves,       \* price moves so far
    trimmed      \* ghost: symbols closed in part since their last entry

positionVars == <<price, rows, free, lost, proposal, opened, closes, moves, trimmed>>

Market(x) ==
    [bid |-> price[x], ask |-> price[x], step |-> Step, minNotional |-> MinNotional]

Account(x) == PaperAccount(Settings, free, rows, price, lost, x)

HeldSymbols == SymbolsOf(rows)

-----------------------------------------------------------------------------
\* The economic position: the tranches of one symbol.

\* What the monitor asks of a stored position, at the configured ratio.
Monitorable(s, tranches) ==
    ValidBracket(ValueOf(tranches), SumOf("net", tranches), HighestStop(tranches),
                 (CHOOSE r \in tranches : TRUE).target, <<s.rewardRisk, Whole>>)

\* Mutant: the new tranche and the position keep the target of the fill.
TargetOfFill(held, ratio, f) == [num |-> f.target, den |-> 1]

\* Computed once more with the rows that are merged.
MergedTarget(held, ratio, f) == ProjectedTarget(held, ratio, f)

\* Mutant: each tranche keeps the risk of its own fill.
OwnRisk(risk, r, net) == r.risk

SharedRisk(risk, r, net) == (risk * r.net) \div net

\* finish_paper_and_open: all tranches of the symbol get the stop of those
\* before, one target, and their share of the risk by quantity.
MergedRows(s, t, held, f) ==
    LET target == MergedTarget(held, t.ratio, f)
        fresh  == [id |-> opened + 1, symbol |-> f.symbol,
                   net |-> f.net, spent |-> f.spent, fill |-> f.fill,
                   stop |-> f.stop, target |-> target, risk |-> f.risk]
        risk   == ProjectedRisk(s, held, f)
        net    == SumOf("net", held) + f.net
    IN  {[r EXCEPT !.stop = ProjectedStop(held, f), !.target = target,
                   !.risk = SharedRisk(risk, r, net)] : r \in held \cup {fresh}}

\* execute_paper_close of `part[id]` units of each tranche.
RowAfter(r, part) ==
    [r EXCEPT !.net   = @ - part[r.id],
              !.spent = @ - (r.spent * part[r.id]) \div r.net,
              !.risk  = (@ * (r.net - part[r.id])) \div r.net]

LossOf(s, tranches, part, trigger) ==
    SumFunctionOnSet([r \in tranches |->
                        NonNegative((r.spent * part[r.id]) \div r.net
                                      - ExitProceeds(s, part[r.id], trigger))],
                     tranches)

PaidFor(s, tranches, part, trigger) ==
    SumFunctionOnSet([r \in tranches |-> ExitProceeds(s, part[r.id], trigger)], tranches)

NetOf(tranches) ==
    [i \in {r.id : r \in tranches} |-> (CHOOSE r \in tranches : r.id = i).net]

\* create_paper_close_proposal and approve_paper_close at one price: enough to
\* sell, and no dust left behind.
Closable(x, q) ==
    LET remaining == SumOf("net", Of(x, rows)) - q
    IN  /\ 0 < q /\ MinNotional <= q * price[x]
        /\ remaining > 0 => /\ Step <= remaining
                            /\ MinNotional <= remaining * price[x]
        /\ Allocatable(NetOf(Of(x, rows)), q)

\* The verdict of the monitor on one candle: the price of the exit, or Absent.
Trigger(tranches, open, low, high) ==
    LET stop   == HighestStop(tranches)
        target == (CHOOSE r \in tranches : TRUE).target
    IN  CASE open <= stop -> open
          [] open > stop /\ low <= stop -> stop
          [] open > stop /\ low > stop /\ target.num <= high * target.den ->
                 target.num \div target.den
          [] OTHER -> Absent

-----------------------------------------------------------------------------
PositionInit ==
    /\ price \in [Symbols -> Prices]
    /\ rows = {}
    /\ free = InitialBalance
    /\ lost = 0
    /\ proposal = NoEntry
    /\ opened = 0 /\ closes = 0 /\ moves = 0
    /\ trimmed = {}

PriceMoves(x, p) ==
    /\ price[x] # p
    /\ moves < MoveBound
    /\ moves' = moves + 1
    /\ price' = [price EXCEPT ![x] = p]
    /\ UNCHANGED <<rows, free, lost, proposal, opened, closes, trimmed>>

\* create_proposal from a candidate of the present price, or
\* create_manual_buy_proposal.
ProposeEntry(x, noise, requested, manual) ==
    LET t == ProposePaper(Settings, Account(x), Market(x), price[x], noise, x,
                          requested, rows, manual)
    IN  /\ proposal = NoEntry
        /\ opened < EntryBound
        /\ t # NoEntry
        /\ proposal' = t
        /\ UNCHANGED <<price, rows, free, lost, opened, closes, moves, trimmed>>

\* What finish_paper_and_open checks beside what has been checked before: room
\* for a tranche, and an average below the target of the position it adds to.
Commits(x) ==
    LET held == Of(x, rows)
    IN  /\ Cardinality(rows) < TrancheCap
        /\ \A r \in held :
              ValueOf(held) * r.target.den < r.target.num * SumOf("net", held)

\* Approval and execution, one after the other; a refusal ends the proposal.
Execute ==
    LET x == proposal.plan.symbol
        f == FillPaper(Settings, Account(x), Market(x), proposal, x, rows)
    IN  /\ proposal # NoEntry
        /\ proposal' = NoEntry
        /\ IF /\ ApprovePaper(Settings, Account(x), Market(x), proposal)
              /\ f # NoEntry
              /\ Commits(x)
           THEN /\ rows' = (rows \ Of(x, rows))
                             \cup MergedRows(Settings, proposal, Of(x, rows), f)
                /\ free' = free - f.spent
                /\ opened' = opened + 1
                /\ trimmed' = trimmed \ {x}
           ELSE UNCHANGED <<rows, free, opened, trimmed>>
        /\ UNCHANGED <<price, lost, closes, moves>>

\* A close by hand of a percentage of the position.
Close(x, percentage) ==
    LET held == Of(x, rows)
        net  == SumOf("net", held)
        q    == IF percentage = 100 THEN net
                ELSE FloorTo((net * percentage) \div 100, Step)
        part == Allocation(NetOf(held), q)
        left == {RowAfter(r, part) : r \in {r \in held : part[r.id] < r.net}}
    IN  /\ x \in HeldSymbols
        /\ closes < CloseBound
        /\ closes' = closes + 1
        /\ Closable(x, q)
        /\ rows' = (rows \ held) \cup left
        /\ free' = free + PaidFor(Settings, held, part, price[x])
        /\ lost' = lost + LossOf(Settings, held, part, price[x])
        /\ trimmed' = IF left = {} THEN trimmed \ {x} ELSE trimmed \cup {x}
        /\ UNCHANGED <<price, proposal, opened, moves>>

\* monitor_paper_positions on a candle that ends at the present price. A bracket
\* that does not validate is reported and nothing is sold.
MonitorExit(x, open, low, high) ==
    LET held    == Of(x, rows)
        trigger == Trigger(held, open, low, high)
    IN  /\ x \in HeldSymbols
        /\ {open, price[x]} \subseteq low..high
        /\ Monitorable(Settings, held)
        /\ trigger # Absent
        /\ rows' = rows \ held
        /\ free' = free + PaidFor(Settings, held, NetOf(held), trigger)
        /\ lost' = lost + LossOf(Settings, held, NetOf(held), trigger)
        /\ trimmed' = trimmed \ {x}
        /\ UNCHANGED <<price, proposal, opened, closes, moves>>

\* backup_and_repair_paper_bracket. The stop that the fills recorded is the stop
\* of the position; the target is set anew. The risk is held against the
\* absolute limits of config.json, whatever the policy.
Repair(x) ==
    LET held   == Of(x, rows)
        net    == SumOf("net", held)
        stop   == HighestStop(held)
        target == TargetOf(ValueOf(held), net, stop, <<Settings.rewardRisk, Whole>>)
        risk   == EconomicRisk(Settings, held)
        others == AggregateOf(Settings, rows, HeldSymbols \ {x})
    IN  /\ x \in HeldSymbols
        /\ ~Monitorable(Settings, held)
        /\ \A y \in HeldSymbols \ {x} : Monitorable(Settings, Of(y, rows))
        /\ stop < price[x] /\ price[x] * target.den < target.num
        /\ 0 < risk /\ risk <= Settings.hard["paper"].positionRisk
        /\ risk + others <= Settings.hard["paper"].aggregateRisk
        /\ rows' = (rows \ held) \cup
                {[r EXCEPT !.stop = stop, !.target = target,
                           !.risk = SharedRisk(risk, r, net)] : r \in held}
        /\ trimmed' = trimmed \ {x}
        /\ UNCHANGED <<price, free, lost, proposal, opened, closes, moves>>

PositionNext ==
    \/ Execute
    \/ \E x \in Symbols :
        \/ \E p \in Prices : PriceMoves(x, p)
        \/ \E noise \in Noises, requested \in Requests, manual \in BOOLEAN :
              ProposeEntry(x, noise, requested, manual)
        \/ \E percentage \in Percentages : Close(x, percentage)
        \/ \E open, low, high \in Prices : MonitorExit(x, open, low, high)
        \/ Repair(x)

PositionSpec == PositionInit /\ [][PositionNext]_positionVars

-----------------------------------------------------------------------------
\* Every position that no partial close has touched since its last entry has a
\* bracket the monitor accepts: whatever the prices of its fills, the merge
\* leaves its stop executable.
EntriesStayMonitorable ==
    \A x \in HeldSymbols \ trimmed : Monitorable(Settings, Of(x, rows))

\* The monitor can execute the stop of every open position. A partial close
\* leaves stop and target as they are while it moves the average entry.
MonitorCanExit ==
    \A x \in HeldSymbols : Monitorable(Settings, Of(x, rows))

\* The risks recorded on the tranches, by which later entries are admitted, add
\* up to what the position loses if its stop is executed (less than one unit
\* per tranche is lost to rounding).
RecordedRiskIsLossAtStop ==
    \A x \in HeldSymbols \ trimmed :
        LET held == Of(x, rows)
        IN  EconomicRisk(Settings, held) - SumOf("risk", held)
                \in 0..Cardinality(held)

\* An entry leaves the position, all positions together and the exposure within
\* the limits of the equity at its fill and, under a percentage policy, of the
\* equity at its proposal, the free balance above the reserve of the smaller of
\* the two, and opens on no exhausted day.
FillWithin(equity) ==
    LET limits == LimitsFor(Settings, "paper", equity)
        x      == proposal.plan.symbol
    IN  /\ EconomicRisk(Settings, Of(x, rows')) <= limits.positionRisk
        /\ AggregateOf(Settings, rows', SymbolsOf(rows')) <= limits.aggregateRisk
        /\ SumOf("spent", Of(x, rows')) <= limits.entry
        /\ SumOf("spent", rows') <= limits.exposure
        /\ lost < limits.daily

EntryWithinBothEquities ==
    [][opened' > opened =>
          LET now == Equity(Account(proposal.plan.symbol))
              equities == {now} \cup (IF PercentageBased(Settings)
                                      THEN {proposal.equity} ELSE {})
          IN  /\ \A equity \in equities : FillWithin(equity)
              /\ \E equity \in equities :
                   /\ \A other \in equities : equity <= other
                   /\ Reserve(Settings, "paper", equity) <= free']_positionVars

\* A proposal that is approved at once, at the market and account it was made
\* of, is filled: creation checks all that approval and execution check before
\* the transaction of the fill, which checks again for itself (Commits).
SteadyProposalFills ==
    [][proposal = NoEntry /\ proposal' # NoEntry =>
          LET x == proposal'.plan.symbol
          IN  /\ ApprovePaper(Settings, Account(x), Market(x), proposal')
              /\ FillPaper(Settings, Account(x), Market(x), proposal', x, rows)
                    # NoEntry]_positionVars

=============================================================================
