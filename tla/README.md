# A TLA+ model of RiskPilot

RiskPilot (Python package `spotguard`) is an assistant for Binance Spot
trading. Scanners find candidates, an agent reviews a candidate, a policy turns
it into a proposal, the owner approves or rejects it from Telegram, and an
approved proposal is executed: simulated (PAPER) or through an exchange session
(LIVE). Afterwards a timer watches the open PAPER positions and closes them when
a candle touches their bracket; LIVE positions are protected by OCO orders at the
exchange.

There is no server. Every CLI call, every button callback and every timer is a
**process of its own**. The processes share one SQLite file and a few state
files, and each of them reads, asks the market or the exchange and writes in
separate transactions. Almost everything that is hard in this code follows from
that, so most models are about processes whose steps interleave and which may
die between any two of them. The rest is arithmetic that is written twice, once
when a trade is proposed and once when it is executed, and those models are about
amounts.

Names like `db.py` and `service.py` stand for `src/spotguard/db.py`,
`src/spotguard/service.py`; documents are under `docs/`.

## 1. Inventory

| Part | Code | State | Operations | Model |
|---|---|---|---|---|
| Proposal ledger | `db.py` | tables `candidates`, `proposals`; leases; execution outcome | create, dismiss, propose, reject, expire, claim (button or code), finish, fail, reconcile, housekeeping, reset | `ProposalLedger` |
| PAPER book | `db.py` | tables `paper_account`, `paper_positions`, `paper_close_proposals` | open, scale in, automatic exit, close by hand, repair, expire, reconcile, reset | `PaperBook`, `PaperPosition` |
| Division of a partial close | `db.py` 1300-1330 | none | largest-remainder allocation | `CloseAllocation`, `CloseDivision` |
| PAPER approval and execution | `service.py`, `cli.py` | local variables of a call | propose, approve, refuse, claim, execute, fail, reject | `PaperApproval` |
| PAPER monitor and manual close | `service.py` | local variables of a call | monitor, propose a close, approve, reject | `PaperBook`, `PaperPosition` |
| LIVE execution, reconciliation | `service.py`, `live_execution.py` | evidence and fill events, orders on the exchange | approve, execute, record, submit, reconcile, mark unreconcilable | `LiveExecution` |
| LIVE authorization, challenges, arm | `service.py`, `security.py`, `db.py` | challenge, authorization, arm file, proofs, tickets | challenge, activate, preflight, attest, grant, expire, revoke, arm, disarm, recover | `LiveSession` |
| LIVE risk epochs, accounting | `service.py` | `live.risk_epoch` and `live.risk_fill` events | ensure, hold, finalize; FIFO loss of a session | `LiveSession`, `LiveEntry`, `SessionLoss` |
| LIVE entry | `service.py` | none | prepare, limits, approve, revalidate, verify a fill | `LiveEntry`, `LiveSizing` |
| LIVE exits and protection | `service.py`, `live_execution.py` | OCO lists on the exchange | partial exit, close, cancel, restore | `ExitProtection` |
| Risk policy | `risk_policy/*` | none | effective limits, sizing, evaluation, drift | `RiskPolicy` |
| Proposal policy, fill risk | `policy.py`, `paper.py` | none | brackets, projection, fill risk, exit values | `PaperRisk`, `PaperPosition` |
| Candidate review | `service.py`, `codex_bridge.py`, `extensions/riskpilot-direct-review/index.js` | candidate, agent process, dispatch, watchdog | scan, confirm, review, retry, propose, deliver, time out, answer | `CandidateReview` |
| Agent OS transport | `live_execution.py`, `codex_bridge.py` | circuit file | call, rate-limit circuit | circuit in `LiveSession`, outcome of a call in `CandidateReview` |
| Scores, indicators | `score_engine.py`, `indicators.py`, `strategy.py` | none | floating-point signals | no |
| Market data | `market.py` | none | HTTP reads | a choice |
| Smart scanner | `scripts/riskpilot-smart-scanner.py` | scan state file | rank symbols, hand one over | no |
| Command line | `cli.py` | none | parse, dispatch | dispatch of approvals only |
| Telegram, presentation, intent | `telegram.py`, `presentation.py`, `intent.py` | none | wording, delivery | whether a message arrives |
| Configuration, utilities | `config.py`, `util.py` | none | parse, validate | CONSTANTS |
| Installation, timers | `scripts/`, `systemd/` | unit files | start every five minutes | a fairness assumption |

How the parts meet:

* **One writer at a time.** `Ledger.transaction` issues `BEGIN IMMEDIATE` on a
  WAL database with a busy timeout of 8 s. A transaction is atomic, and one that
  raises is rolled back, including what it wrote before it raised.
* **No lock spans two transactions.** A PAPER approval is a row read, a quota
  read, a policy check against the market, a claim, a lease check, and a fill: six
  points between which others run.
* **Clocks.** Some transactions read the clock before they wait for the write
  lock, some after.
* **Leases.** A claim hands its process a random token with an expiry. Nothing
  wakes a process whose lease runs out; its next write finds out, or does not.
* **Housekeeping is a passenger.** Stale proposals expire and lost PAPER
  executions are recovered only inside approve, reject, propose and status calls.
* **Restart is recovery.** Each constructor calls `reconcile_paper_state`, which
  takes any EXECUTING close for a crash leftover, and expires an elapsed LIVE
  authorization in three steps that nobody repeats if it dies between them.
* **A gate over unlocked switches.** A LIVE entry rests on a database row
  (authorization), a file (arm), two events (proofs), the newest of a chain of
  events (epoch) and another file (circuit), each read at its own moment.
* **The exchange moves on.** Its answers are of the past, and an answer that is
  lost says nothing about the write.

What is hard, and what correctness means there:

| Part | Hard behaviour | Correct means |
|---|---|---|
| Ledger | expiry, recovery, policy refusal and reset cross an execution in flight | a decision is made once and never undone; a position exists exactly behind a filled proposal; slots are never overrun, nor the day's LIVE quote but by a claim across midnight; whatever executes can be recovered |
| Approval | the state a decision rests on is older than the decision | the tranche limit holds for every race; the daily quota is exceeded by less than the number of slots |
| Book | exits, closes by hand, resets and restarts compute with what they read earlier | account and positions balance; a close sells what was shown, once; a close is resolved even if its process is gone |
| Position | every fill, close and merge rounds | a stop stays executable; the recorded risk is the loss at the stop; limits hold for both equities |
| Sizing | sizing and evaluator, creation and revalidation are separate code | they agree, and what was approved fits the limits at execution |
| LIVE execution | a write with an unknown outcome; a lease that ends while the write is under way; an order that moves on meanwhile | an approval reaches the exchange once; what the ledger claims of an order is so |
| LIVE session | calls, expiry and rate limits between any two readings of the gate | no order without each switch having been in force since the claim |
| LIVE exits | three writes of which any may be refused, lost or carried out late; two exits on one bracket | EXECUTED means all of it; nothing is sold while its list is in force; lost protection is visible |
| Review | the candle may close, the agent hang, the watchdog fire, the message fail at any moment | decisions rest on the right candle; every review is answered, and when it is answered it is over |

`PROJECT.json` lists each hazard at the line where it bites, with the properties
that would catch it.

## 2. Modules

```
ApprovalContract <-- refined by -- ProposalLedger --extended by--> PaperApproval
                                                  |--------------> LiveExecution
                                                  \--------------> CandidateReview

RiskPolicy --extended by--> PaperRisk --extended by--> PaperPosition <--extends-- CloseAllocation
           \--------------> LiveEntry                                    PaperBook <--extends--/

Calculation --extended by--> CloseDivision  (with CloseAllocation)
            |--------------> LiveSizing     (with LiveEntry)
            \--------------> SessionLoss    (with LiveEntry)

LiveSession        ExitProtection            (each the whole of its subject)
```

**`ProposalLedger`** has one variable per column of `proposals` that a decision
depends on (`status`, `source`, `expires`, `approvedAt`, `lease`, `leaseEnd`,
`executedAt`, `exec`, `submitted`), the candidates, the status of the position
that belongs to a proposal, and the clock. One action is one committed
transaction of `db.py`; a call that raises changes nothing, so it needs no
action. The callers are arbitrary: any process may call any operation at any
time. The housekeeping inside a transaction is part of the action. Columns no
decision reads are left out; a lease hash is the process that holds the token.
A claim reads the clock several times before `BEGIN IMMEDIATE`: for the expiry of
its lease (`service.py:3022`), for the day whose quota it counts
(`service.py:3030`) and for `approved_at` (`db.py:715`). `ClaimProposal` has a
reading for each (`l`, `d`, `t`), and the commit follows the first by at most
`LockWait`. A midnight may fall between any two of them; `SinceMidnight` says how
much of the first day has passed when the clock starts.

**`ApprovalContract`** is the abstract specification: offered, approved once,
settled for good, filled at most once and only after approval, at most `Slots`
in play. `ProposalLedger` implements it with `phase` and `filled` computed from
the columns.

**`PaperApproval`** extends the ledger with the procedures that call it. A
process is a program counter, the proposal it works on, how it was asked
(`button` or `code`), and the status it read. Each ledger transaction of
`claim`, `_paper_text_approve`, `execute_paper`, `reject` and
`_ensure_paper_entry_available` is a step; `Stop` is a crash or an unhandled
exception at any of them. The verdict of risk, sizing, drift and filters is a
choice, which `PaperPosition` has as numbers.

**`LiveExecution`** extends the ledger with a LIVE approval: `approve_live_button`,
`claim`, `execute_live` and `uncertain_execution` as the steps of a process,
`reconcile_live_execution` and `mark_live_execution_unreconcilable` as those of
another. Four kinds of proposal differ in what follows the write: an entry may
wait for its fill, a sale must be FILLED, a cancellation is read back, restored
protection has no fill. The exchange is `order` and `writes`; `OrderMoves` lets
an order fill or be canceled at any time, so an answer is always of the past. A
write may fail on the way, arrive unanswered, or be answered. `phase` and `fill`
stand for the events `live.execution_evidence` and `live.risk_fill`. A write is
one write here; `ExitProtection` opens the three of a partial exit. The gate
before it is a choice here; `LiveSession` opens it.

**`LiveSession`** has every switch behind a LIVE entry: the rows of
`live_authorizations`, the open challenges, the arm file with its scope, the two
proofs, the prepared, consumed and invalidated tickets, the recovery ticket, the
chain of epoch events, the circuit file and the configuration's switch. A process
is one call: one of thirteen commands (activation, deactivation, preflight,
arming, recovery, epoch finalization, verification, proposal, approval), and a
step is one transaction, one file operation or one network exchange with the
reads directly before it. `proc[w]` holds what the call has read. `ExpireThen` is
the expiry that every constructor and every gate performs when it meets an elapsed
authorization. `seen` is a history of what a gate has found since the claim. What
becomes of the order is `LiveExecution`'s subject.

**`ExitProtection`** has the coins of one holding, free or locked in OCO lists,
and the exit proposals on them: `create_partial_exit`, close, cancel and restore,
and `execute_partial_exit` with its cancel, verify, sell and re-arm. A request to
the exchange is under way between its sending and its effect, may be refused,
answered vaguely, lost, or carried out after its process died; legs fill at any
time; several proposals work on one bracket.

**`CandidateReview`** extends the ledger with the way from a closed candle to
buttons in the owner's chat: `scan` and its confirmation by the agent, the
command that reviews a candidate (at most two calls of the agent), the proposal,
its delivery, and the extension that spawns the command, watches it, kills it and
answers the owner. `read` is when the agent read the market, which is before the
moment at which its answer is judged.

**`PaperBook`** has the account, the tranches and the close proposals, with the
procedures `monitor_paper_positions`, `create_paper_close_proposal`,
`approve_paper_close` and `reject_paper_close` as steps of processes. `Start` is
the constructor with its reconciliation. `seen` is what a process has read and
still computes with. `sold` has no column: it counts what exits were credited
for, so that a credit can be compared with a purchase. Prices and quantities are
small whole numbers, fees are part of the net price; whether an exit triggers is
a choice.

**`RiskPolicy`**, **`LiveEntry`** and **`PaperRisk`** are operators: the limits an
equity allows under each kind of policy, reserve, sizing and evaluation; the
preparation, limit check, revalidation and fill verification of a LIVE entry and
the first-in-first-out loss of a session; the bracket, fill risk and projection
of a PAPER entry. Money, price and quantity are whole numbers of their smallest
unit and a rate is a whole number of `1/Whole`, with each rounding where and in
the direction the code has it.

**`PaperPosition`** puts `PaperRisk` and `CloseAllocation` to work over the life of
positions of several symbols: one process at a time proposes, approves, fills,
closes in part, exits and repairs, while the prices move. `Commits` is what
`finish_paper_and_open` checks again in its transaction beyond what the projection
has checked. `trimmed` is a history: the symbols a close by hand has touched since
their last entry, exit or repair.

**`CloseAllocation`** is the arithmetic of a partial close; `PaperBook` and
`PaperPosition` execute closes with it.

**`Calculation`** makes a specification of a pure calculation: `CalculationOver`
has an initial state for each input and no step, so that a statement about every
input is an invariant which TLC checks over small sets of inputs and a proof
covers for all of them. **`CloseDivision`** is the division of a close, next to the
loop of `execute_paper_close` written as it runs (`Rows` is the sorted list, `Row`
one turn). **`LiveSizing`** is a LIVE entry prepared in one reading of configuration,
account and market and judged in the same or in another. **`SessionLoss`** is the
realized loss of a session over every history of fills, next to its definition by
units. Their inputs are constant sets (`Holdings`, `Configurations`, `Accounts`,
`Markets`, `Histories`, ...) of which they assume what the code has checked before
it calculates.

The modules `MC...` give the constants values for TLC. `MCSizing` extends the three
modules of calculations and has the inputs of all of them. Definitions commented `Mutant:`
are variants with a plausible mistake; each one is a change of a definition that
the property named in `PROJECT.json` must reject.

## 3. Runs

| Run | Question | Instance |
|---|---|---|
| `Ledger` | Do fills, positions and the daily LIVE quote agree whatever interleaves, and is the contract implemented? | 1 PAPER proposal and 2 LIVE entries of which a day's quote admits one, 2 candidates, 1 process, 2 slots, clock 0..2 with a midnight after the first tick, lease 1, lock wait 1 |
| `BookRaces` | Do account and positions agree, does a close sell what was shown, once? | 2 tranches (2 and 1 units), 2 closes, 2 processes, clock 0..1 |
| `BookRecovers` | Is a claimed close resolved? | 1 tranche, 1 close, timer and one process, with fairness |
| `BookOversell` | Is an automatic exit atomic? **No.** | as `BookRaces`, 1 close |
| `ApprovalRaces` | By how much can racing approvals exceed quota, tranche limit and slots? | 3 proposals for 2 slots, 2 processes, quota 1, limit 1, clock 0..1, each lifetime 1 |
| `LiveRaces` | Is there one write per approval, and is what is recorded of it true? | one of entry, sale, cancellation, restored protection; 2 processes, clock 0..3, lease 1, lock wait 1 |
| `LiveSession` | Is every switch seen in force between claim and order? | 2 calls at a time about one entry, each lifetime 1, clock 0..1, 2 authorizations, 1 ticket, 3 epoch events |
| `ExitProtection` | Is EXECUTED complete, is nothing sold under an active list, is lost protection visible? | one partial exit of 50 %, cancellation, restoration and close on a holding of 2 beside 1 other coin |
| `Sizing` | Do the calculations agree with each other? | 65 535 inputs: holdings of up to 3 tranches of up to 7 units in steps of 2; 4 configurations, 15 accounts, 2 books, 3 distances, 4 amounts, and each of these entries against each later configuration, account and book; sessions of up to 5 fills |
| `PaperRisk` | Do limits, stops and recorded risk survive every fill, merge and move? | 2 symbols, 3 entries, 1 close, 2 moves among 3 prices, three amounts |
| `BracketLost` | Can the monitor execute the stop of every position? **No.** | as `PaperRisk` |
| `CandidateReview` | Does every review rest on its candle, get its answer, and end with it? | 2 candidates of two candles, 1 proposal, 2 processes, 2 dispatches, clock 0..2, with fairness |

What each property of a passing run says beyond a unit test:

* `FillsMatchPositions`, `OpenPositionsSinceReset`, `DecisionIsFinal`: an
  executor that lost its claim to a refusal, a recovery or a reset finds nothing
  to fill, however late it commits.
* `ActiveWithinCap`: a count taken in one transaction cannot be overrun, because
  rows of others that are still executing count too.
* `LiveQuotaRespected`: the same of the day's LIVE quote, with the exception that
  the clock readings of a claim leave. A claim that started before midnight is
  weighed with the old day and recorded on the new one, so at the start of a day
  the ceiling can be exceeded. Any claim dated `LockWait` or more after midnight
  has weighed its own day, so from the first such approval on the day's ceiling
  holds for good. Both cases are in the instance: without the restriction TLC finds
  the claim across midnight.
* `ExecutingIsRecoverable`: recovery never meets a row without lease or expiry.
* `OneProposalPerCandidate`: a candidate is spent once, whatever becomes of its
  proposal.
* `ContractSpec`: refinement, of the contract by the ledger.
* `EntriesWithinLimits`: the quota is counted before the claim and not again, so
  approvals that hold a slot together may each fill one more; never more than
  that, however long they were under way, and with one slot not even that. Two
  executions that race for the last tranche are both past every check when they
  ask the market; `finish_paper_and_open` checks the tranches again inside its
  transaction. In the instance a day does see two entries with a quota of one.
* `BookBalances`, `SellsWhatWasShown`, `CloseIsFinal`, `OneActiveClose`: the book
  under two processes that monitor, close, reset, crash and reconcile each
  other's work. `CloseIsResolved`: a restart resolves a close that lost its process.
* `OneWritePerApproval`: approvals that race, crash, lose their lease or their
  answer, and reconcilers beside them, send one write per proposal.
* `OutcomeMatchesExchange`: FAILED means that no order exists, EXECUTED that one
  does, FILLED that it is filled, although every record is written after the
  order could move. `FillIsEvidenced`: a fill enters the accounting only behind
  evidence of one.
* `SentVouched` (authorization, arm, permission proof, decimal proof, epoch, rate
  limit): an activation, a deactivation, an expiry, another preflight or a
  rate limit may fall between any two readings of the gate; still each switch was
  found in force at some moment between the claim and the order. It is all the
  gate can promise: nothing holds them in force together.
* `ExecutedIsComplete`: an exit marked EXECUTED has given up its list, sold all it
  had to and protected all of the rest. `SoldOnlyReleased`: a sale never runs
  beside the list that reserves its coins. `ReleasedIsKnown`: coins without
  protection are accompanied by an exit in flight or in doubt, or by a
  cancellation the owner wanted.
* `AgreesWithLoop`, `FairToAStep`: the closed form equals the loop of the code, and
  the loop is a fair division. A tranche gives at most one step more than its exact
  share, and less than one step less.
* `SizingAgreesWithEvaluator`, `PreparedTermsRevalidate`, `InferredRiskIsApproved`:
  code that computes one thing in two places gets one result, all roundings
  included. `PreparedTermsRevalidate` is exact: in an account and book that stay as
  they are, an entry whose target needed no rounding passes its approval if and
  only if three conditions hold that creation does not check on the rounded terms
  (section 5). `LateEntryWithinBothEquities`: approved earlier, executed later, within
  the limits of both moments. `SessionLossIsFirstInFirstOut`: the lots of the
  accounting against a unit-by-unit definition of the loss.
* `EntryWithinBothEquities`, `SteadyProposalFills`: the same for PAPER over the life
  of positions. Under a percentage policy the equity of the proposal counts as well
  as that of the fill; under the others the code looks at the present one only.
  `RecordedRiskIsLossAtStop`: what later entries are admitted by is what the stop
  would lose. `EntriesStayMonitorable`: an entry never leaves a bracket that the
  monitor refuses.
* `AnsweredMeansEnded`, `SilenceMeansButtons`, `RestsOnItsCandle`, `ReviewIsAnswered`:
  the dispatch, whatever the agent, the watchdog, the clock and the messenger do.

**Bounds.** `MaxTime` bounds the clock; past it nothing expires any more, so it is
at least as long as the longest lifetime whose end matters to the run. One tick
of `LockWait` lets any deadline pass between the reading of the clock and the
commit. Two processes suffice for a pairwise race; in `Ledger` the operations are
transactions and a process is only the holder of a lease, so one suffices there
and the proofs cover any number. Two tranches make an aggregate. In
`ApprovalRaces` three proposals contend for two slots, so that two race while the
third has to wait; its instance ends before a midnight, which `LimitsHold` covers. Symbols are kept apart by construction in `PaperBook`, so
it has one; `PaperRisk` has two, because limits are shared. `DayLength` is 2 so
that a day has a tick that is `LockWait` after its midnight. In `LiveRaces` each behaviour
is about one proposal of any of the four kinds: LIVE proposals meet only in the
slot count, the quote and the cap, which `Ledger` checks. `LiveSession` starts from
a new installation or from a session that was activated before (its epoch active,
on hold, or active again), so that a single authorization's length of clock
contains activation, use and expiry; `MaxLaunches` is two overlapping calls.
`ExitProtection` has one proposal of each kind; that is where two of them meet on
one bracket. `EntryBound`, `CloseBound` and `MoveBound` bound the length of a
behaviour of `PaperRisk`. The runs take from seconds to about two minutes.

**Symmetry** is used for identifiers of one kind in runs that check safety only
(`Ledger`, `BookRaces`, `ApprovalRaces`, `LiveRaces`, `LiveSession`, `PaperRisk`,
`BracketLost`).

**Deadlock** is checked where a process can always start again. It is not in
`CandidateReview`, `ExitProtection`, `LiveSession`, `PaperRisk` and `BracketLost`,
whose bounds (dispatches, one proposal of each kind, launches, entries and moves)
end every behaviour.

**Fairness** is assumed twice. In `BookRecovers` for the timer only:
`systemd/spotguard-monitor.timer` starts a scan every five minutes, whose
constructor reconciles, and a run that hangs is stopped by its unit; so
`Start(Timer)` and `Stop(Timer) \/ ProcessStep(Timer)` are weakly fair, and no
other process is assumed to make progress. In `CandidateReview` a reviewing
process keeps taking steps, because each of its waits has a timeout (the agent's,
the database's, the messenger's); an overdue command is terminated by its
watchdog and a finished one answered, because the extension's event loop runs
the callbacks that are due: `ReviewStep`, `Terminate` and `Answer` are weakly fair
for each process.

## 4. Proofs

Eight modules hold proofs: seven about components, with the refinements between
them, and `SumLaws`, the laws of sums, orders and recursive functions that they
share. All hold for every set of proposals, candidates, processes, tranches,
symbols and lists, every number of slots, every lifetime, price and amount, every history of fills, and
every bound on the clock. They assume only the
named assumptions of their modules (identifiers of different kinds are disjoint,
sets that are counted are finite, times and amounts are naturals where the
configuration demands them, NULL is no value), which TLC evaluates in every run of
the module. `SettingsAssumption` says of the settings what `load_settings` lets
pass, and no more: fee, slippage and rates are naturals without an upper bound.
Two theorems assume more: `BracketsStayValid` a
whole ratio of reward to risk, `SteadyProposalsFill` a percentage policy and that
the least stop distance of a price, rounded up to a unit, is no more than the
widest. `config.example.json` has a ratio of 2.0;
`load_settings` demands that the least distance is below the widest
(`config.py:366`), which leaves the rounding room at every price but the smallest.

None of the properties below is inductive as it stands. Each component has a
strengthened invariant, and the argument goes by action and, within an action, by
row, process, proposal or symbol: those the step leaves alone keep their part by a
frame lemma, the one it touches gets a step per disturbed conjunct.

| Module | Invariant | What it adds to the properties, and why it is needed |
|---|---|---|
| `ProposalLedgerProofs` | `LedgerInv`: `RowInv` of every row | a PENDING PAPER row is no older than the last reset, an EXECUTING one was approved since: a claim may be dated before the commit that makes it, and a fill may be late; an undecided row has no approval and was never submitted |
| `ProposalLedgerProofs` (quote) | `QuotaInv` | approvals on record are past: with it, an approval that is `LockWait` or more into its day was not recorded before a claim of that day was weighed (`SameDay`) |
| `PaperEntryProofs` (approval) | `LimitInv` | a proposal is armed when an approval of it has passed the quota check and it may still be filled. An armed proposal holds a slot; once the quota of today is used up nobody is armed any more and a fill disarms, so that entries and armed proposals together stay below quota plus slots |
| `PaperEntryProofs` (position) | `PositionInv`, `SettledInv` | tranches have one identifier each, which later entries do not reuse, so that sums over them can be split at a symbol; a proposal's stop is below its entry and its equity positive. A position that no close has trimmed has shares of one risk and a bracket at the configured ratio |
| `PaperBookProofs` | `CloseInv`, `BookInv` | two undecided closes whose tranches are of one symbol are the same; what was sold of a tranche and what it still holds add up to what was bought, and a tranche that was never opened has sold nothing |
| `ExitProtectionProofs` | `ExitInv`: `RowInv` of every exit; `CoinInv` | each write is sent once and in turn, a confirmation means that the effect took place, a list that is gone stays gone; the free coins are at most those of others plus what each proposal released and neither sold nor reserved again |
| `LiveEntryProofs` (execution) | `LiveInv` | before its write a process owns the claim alone; what a process has heard of an order is still so, or the order has only moved forward |
| `LiveSessionProofs` | `SessionInv` | an authorization in force is the newest; a call that carries one which has not elapsed has seen it in force since the claim; each later label of the gate has its facts in the history |
| `CandidateReviewProofs` | `ReviewInv`: `CallInv` of every process | what a call has compared stays compared, and a proposal, a verdict and a delivery exist only where the program counter says |

| Theorem | Statement |
|---|---|
| `TypeCorrect`, `LedgerInvariant` | `Spec => []TypeOK`, `Spec => []LedgerInv` |
| `FillsCorrect`, `RecoveryPossible`, `ResetIsClean` | `[]FillsMatchPositions`, `[]ExecutingIsRecoverable`, `[]OpenPositionsSinceReset` |
| `DecisionsAreFinal`, `CapRespected`, `CandidatesAreSpentOnce` | `DecisionIsFinal`, `[]ActiveWithinCap`, `[]OneProposalPerCandidate` |
| `DailyCeiling` | `[]LiveQuotaRespected` |
| `ImplementsContract` | `Spec => ContractSpec` |
| `LimitsHold` | `ApprovalSpec => []EntriesWithinLimits` |
| `PositionInvariant`, `EntriesAreWithinLimits` | `PositionSpec => []PositionInv`, `EntryWithinBothEquities` |
| `RecordedRiskIsRight`, `BracketsStayValid` | `[]RecordedRiskIsLossAtStop`, `[]EntriesStayMonitorable` if the ratio is whole |
| `SteadyProposalsFill` | `SteadyProposalFills` under a percentage policy |
| `CloseInvariant`, `OneCloseAtATime`, `ClosesAreFinal` | `[]CloseInv`, `[]OneActiveClose`, `CloseIsFinal` |
| `BookInvariant`, `BookTypeCorrect`, `AccountBalances`, `ShownIsSold` | `[]BookInv`, `[]TypeOK`, `[]BookBalances`, `SellsWhatWasShown` |
| `PartialCloseIsFair`, `DivisionIsTheLoop` | `DivisionSpec => []FairToAStep`, `DivisionSpec => []AgreesWithLoop` |
| `ExitInvariant`, `ExecutedMeansComplete`, `SaleNeedsRelease` | `[]ExitInv`, `[]ExecutedIsComplete`, `[]SoldOnlyReleased` |
| `CoinInvariant`, `ReleaseIsKnown` | `[]CoinInv`, `[]ReleasedIsKnown` |
| `LiveInvariant` | `LiveSpec => []LiveInv` |
| `WrittenOnce`, `OutcomesAreTrue`, `FillsAreEvidenced` | `[]OneWritePerApproval`, `[]OutcomeMatchesExchange`, `[]FillIsEvidenced` |
| `LateEntriesAreWithinLimits`, `SizingAndEvaluatorAgree` | `SizingSpec => []LateEntryWithinBothEquities`, `[]SizingAgreesWithEvaluator` |
| `PreparedTermsPassApproval`, `InferredRiskIsExact` | `SizingSpec => []PreparedTermsRevalidate`, `[]InferredRiskIsApproved` |
| `SessionLossIsExact` | `SessionSpec => []SessionLossIsFirstInFirstOut` |
| `SessionInvariant`, `OrdersAreVouched` | `[]SessionInv`, `[]SentVouched` |
| `ReviewInvariant`, `AnsweredIsOver`, `SilenceIsJustified`, `CandlesAreTheRightOnes` | `[]ReviewInv`, `[]AnsweredMeansEnded`, `SilenceMeansButtons`, `RestsOnItsCandle` |

The theorems of the ledger hold of the PAPER, the LIVE and the review processes,
whose steps are the ledger's by construction (lemmas `ApprovalIsLedger`,
`LiveIsLedger`; `ReviewInvariant` states `ReviewSpec => Spec` as well). That is how
the proofs about processes use `LedgerInv` and `CapRespected`.

**The ceiling.** A claim adds its quote to the day of `approved_at` and weighs the day
of an earlier reading. Where the two differ the claim is dated less than `LockWait`
after a midnight (`SameDay`). So if an approval of a day is `LockWait` or more into it
and a claim is now recorded on that day, the claim was weighed with it: its
first reading is no earlier than `now - LockWait`, and that approval is past
(`ClaimWeighs`). Every other step only takes away from what counts.

**The quota.** `LimitInv` counts two things against one bound: the entries of today and
the proposals that may still become one. While today's entries are below the quota
nothing is demanded. The fill that reaches the quota disarms its own proposal and
leaves at most `MaxActive - 1` armed (`ArmedHoldSlots`); from then on the check turns
approvals away (`CalmArms`) and each fill moves one from the armed to the entries.

**Sums.** Quotas, balances, quantities and risks are sums over sets, and a sum is a
fold. `SumLaws` proves what the other modules need of it (a sum does not depend on
the order, is monotone, splits, scales, survives a renaming). Each law is an
induction over subsets, told as the search for a smallest counterexample: the set
of subsets for which the law fails, if it is not empty, has a member of which no
proper subset fails, and taking one element away contradicts that. The library's
induction theorems, which take a predicate as a parameter, are not used.

**The entry within its limits.** The evaluator admits numbers that are projected
before the fill. `FillFacts` collects what a fill that is not refused has passed,
`MergeFacts` proves that the tranches the transaction then writes are the
projection: the same quantity, cost, stop, target and risk. `LimitsMonotone` says
that under a percentage policy the limits grow with the equity, so that those of
the smaller of the two equities are the tighter ones (`BasisIsSmallest`); the
reserve needs no such argument, because it is held against that equity itself.

**The risk on record.** Each tranche has its share of the risk, rounded down.
`SharesAddUp` puts the sum of the shares between the risk and the risk less one
unit per tranche.

**The bracket.** The persisted target is rounded up to a unit, so the ratio that is
persisted with a proposal can exceed the configured one, by less the wider the
stop. Merged targets follow the persisted ratio (`db.py:1218-1220`), the monitor
asks for the configured one to 1/10000 (`service.py:1381`). With a whole ratio
there is nothing to round and the two are equal, which is what `BracketsStayValid`
uses (`Exact`). With another ratio and a stop of few units an entry can leave a
bracket the monitor refuses; decimals of eight digits make such stops unlikely.

**Filled as proposed.** Creation, approval and execution judge a PAPER entry with
three readings of one account. `SteadyProposalsFill` goes through what approval and
execution ask and names where creation has asked it: the size that was accepted is
accepted again and leaves room in the position for the whole amount (`SizedFacts`),
the bracket keeps ratio and distance through its rounding (`BracketFacts`), and the
evaluator, which saw what is spent, would also admit the amount, and the aggregate
held against the risk on record (`AdmittedToo`). The step from "size" to "room" is
the one that other policies lack.

**The LIVE entry.** `LateEntryWithinBothEquities` has no hypothesis about what
happened between two readings: account, market, configuration and reserve may all
be others. The proof needs of the first reading only that the terms are a lot at a
limit (`TermsFacts`); everything else is in the last check, because the basis of
the limits is the smaller equity and limits are monotone in it. For
`SizingAgreesWithEvaluator` the largest safe amount, a minimum of six quotients, is
opened into the inequalities the evaluator writes (`SixMin`): an amount is below a
quotient rounded down exactly if its product is below the dividend.

**Recursive functions.** The loops of the code (`HandOut`, `SpendFirst`,
`SessionAccounting`) are recursive functions, and TLA+ defines such a function as
*some* function that satisfies its equation. `RecursionExists` proves that one does,
`RunsAlike` that two agree, `SortedOrderExists` that a finite set has the sorted
list that a `CHOOSE` asks for; each looks for the smallest number at which it would
fail. After that the equation can be used, and statements about a loop are proved
like invariants.

**The division.** With the loop unfolded, the first `n` rows of the sorted list have
had their turn after `n` turns, and the residual says how many steps were left. The
closed form counts, for each row, those before it that have room, which is what
these turns have used up.

**The loss of a session.** After each fill the lots of the accounting stand for the
units that were bought and not yet sold, in their order: lot by lot they have the
cost of their places among the units of the definition. A purchase puts its units
behind, a sale takes as many off the front; a sale that finds too few ends in an
incomplete accounting, which is when the definition finds more sold than bought.

Only model-checked: liveness (`CloseIsResolved`, `ReviewIsAnswered`), which is out of
reach of the prover.

## 5. Where code and text disagree

Two runs end in a violation:

1. **An automatic exit can sell what was already sold** (`BookOversell`,
   `db.py:1357`). The monitor computes the proceeds of an exit from the
   quantities it read before it asked the market; `close_paper_symbol` checks
   that the tranches are the same but not their quantities. A partial close in
   between is credited twice. `EVALUATION.md:18` promises an atomic PAPER exit.
2. **A partial close can leave a position the monitor refuses to close**
   (`BracketLost`, `db.py:1338`). Rounding each tranche's share moves the weighted
   average entry of the rest, while stop and target stay; the monitor recomputes
   the average and rejects a ratio that is off by more than 1/10000. Until a
   repair or a further entry neither stop nor target is executed.

Others were met while modelling and have no run.

*Ledger and PAPER.* `claim_proposal` compares with a clock it read before it
waited for the write lock, up to 8 s, so it can commit after expiry
(`db.py:715`); `SECURITY.md:18` says expiry is validated transactionally. The
daily quota is read in one transaction and spent in another that does not look
again (`service.py:2893`): with `n` slots up to `n - 1` entries beyond it are
accepted (`EVALUATION.md:21`). A LIVE claim across midnight is weighed with the quote
of the day before (`service.py:3030`) and recorded on the new day (`db.py:715`), so
with several slots the new day's ceiling can be exceeded at its start. A refusal
decided on a row read as PENDING is applied to the
row as it is now, EXECUTING included, so the loser of a race of two approvals
ends the winner's execution (`service.py:636`). For PAPER the winner then has nothing
to fill; for LIVE its order may have been sent, and then stands at the exchange behind
a REJECTED row that no reconciler looks at. The read-only count leaves out
elapsed LIVE rows that recovery would keep (`db.py:548`). `claim_paper_close`
expires and claims in two transactions (`db.py:1421`). A reset dates its event
before it waits for the lock (`db.py:931`). The cooldown of a symbol is checked
before the agent is asked, so two scans across a candle's close create two
candidates.

*Policy.* `RISKPILOT_POLICY.md` says a proposal without an amount receives the
risk-calculated one; for PAPER, an amount bound by the risk budget is refused by
its own projection, which adds fee and slippage (`service.py:2708-2772`). The LIVE
target is on a tick only for whole-number reward ratios, so with 1.5 the
revalidation refuses proposals an odd number of ticks wide
(`service.py:2146-2152`). In the same account and book a LIVE approval refuses two
more kinds of proposal that creation offers: the distance of the stop was checked on
a reference price with `paper.slippage_pct` and without ticks, while `validate_claim`
measures it from the limit, which has the slippage cap added, to a stop rounded down
to a tick; and the smallest amount was compared with what was asked for, not with
what the rounding to steps left of it (`PreparedTermsRevalidate` names all three).
Without percentages a PAPER approval counts the whole amount against the position,
while creation counts what is spent, and creation from a candidate divides without
the exchange's step: a proposal can be offered that execution refuses in a market
that has not moved (`SteadyProposalFills` is a percentage policy's; in the instance
of `PaperRisk` with a linear policy an amount of 310 buys 17 units, of which the
exchange takes 15, below its minimum). The policy fingerprint
covers neither fee nor reward ratio nor slippage cap nor tranche limit. A fee
in a third asset makes the session's accounting incomplete and blocks entries.

*LIVE execution.* `uncertain_execution` first verifies the lease
(`service.py:3857`); when it has run out, or when the read-back of open orders
raises (`service.py:3125`), the proposal stays EXECUTING where `SECURITY.md:36`
promises RECONCILE. It is not sent again all the same. Evidence of a partial fill
gets phase FILLED (`service.py:3300`), after which the rest of the order is never
reconciled. The reconciler looks for `order_id` where the evidence has `orderId`
(`service.py:3499`). The monitor of LIVE executions stops at the first proposal it
cannot reconcile (`service.py:3534`). `reconcile_live_risk_fill` compares a status
with `"active"` that is always upper case (`service.py:3434`), so it does nothing.

*LIVE session.* An activation that overlaps a deactivation can leave a FULL arm
after "LIVE disarmed"; entries are still blocked, for want of an authorization.
An expiry that dies between its steps leaves the arm; one that resumes late
removes the arm of a newer activation. Ensuring, holding and finalizing an epoch
read the newest event and append another: a stale mark brings a closed epoch
back, and a finalization can close one while an entry becomes PENDING
(`service.py:3556`). Two calls of `arm_live` can use one ticket, and a recovery
ticket can be used again. With a stale decimal proof and a valid permission the
preflight has no market for its order test and raises (`service.py:4069`, against
the comment at 149). A recovery arm that appears before an execution raises
outside its `try` and leaves the entry EXECUTING.

*LIVE exits.* With other coins of the kind in the account, two partial exits
approved for one list can both sell. A restoration does not check again at
execution that no list is active. Fills of protective legs never become
`live.risk_fill` events (`AUDIT_CHECKPOINTS.md:25-27`).

*Review.* The extension says "No proposal was created" also when the proposal was
committed and only its message failed. A review after the candle has changed
always fails while its candidate stays ACTIVE.

## 6. Not modelled, and why

* Wording, parsing and hashing. A token that does not match is a call that raises.
* Floating-point signals and scores: no state, no property beyond ranges.
* HTTP and the child process protocol: their outcome is a choice.
* The smart scanner: one process under a lock file, whose state is a request
  budget and a cooldown; what it hands over is a scan, which is modelled.
* The command line beyond its dispatch of approvals, configuration and
  installation: parsing and shell scripts.
* In `LiveExecution`: `execution complete` and `execution fail`, by which an operator
  reports an outcome of his own knowledge (the second writes FAILED without asking
  whether an order was sent, `service.py:3849`); epochs in the key of an evidence
  event; answers in which an entry is neither open nor filled.
* In `CandidateReview`: `proposal create`, the demonstration and scans of synthetic
  or fixture data, which ask no agent; what the extension does to deliver its
  answer, which in the model is given when it returns.
* In `LiveSession`: where a proof comes from. `SentVouched` asks for a valid proof,
  not for one of the caller's own preflight.
* In `LiveEntry` the ratio of reward to risk is the configured one; the code keeps it
  with the proposal, rounded to four decimals.
* In `SteadyProposalFills`: what the transaction of the fill checks once more
  (`Commits`: room for a tranche, the average below the position's target).
* In `LiveSession`: `live enable` of the command line and the HMAC of the arm file.
* In `ExitProtection`: several holdings, prices. Full exits by percentage are in the
  model, but not in the instance.
* Backfill of positions of older schemas, validation of the policy's schema,
  `resend_paper_proposal`.
* SQLite itself: that `BEGIN IMMEDIATE` serialises writers is assumed.

## 7. What could follow

1. The scanner's state file and request budget, with the circuit it shares.
2. `PaperBook` and `PaperPosition` as one: amounts with several processes.
3. `LiveSession` as the gate of `LiveExecution`, and `ExitProtection` as its partial
   exit, joined by refinement.
4. Decimals: prices and amounts are whole numbers here, as multiples of the
   exchange's precision; that change of unit is not itself modelled.
