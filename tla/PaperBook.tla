----------------------------- MODULE PaperBook -----------------------------
(***************************************************************************)
(* The simulated book: PAPER positions (tranches of a symbol), the account *)
(* and the proposals to close a position by hand, as the processes of      *)
(* src/spotguard/service.py use the tables of src/spotguard/db.py.         *)
(*                                                                         *)
(* A process starts (the constructor reconciles), reads, talks to the      *)
(* market and writes in separate transactions; others run in between, and  *)
(* it may stop anywhere.  How an approved entry comes to open a tranche is *)
(* the business of ProposalLedger; stops, targets and risk are left out.   *)
(***************************************************************************)
EXTENDS CloseAllocation

CONSTANTS
    Tranches,         \* numbers, ordered as the position identifiers are
    Closes,           \* identifiers of close proposals
    Processes,        \* CLI calls, button callbacks and timers
    Timer,            \* the process systemd starts every five minutes
    SymbolOf,         \* symbol of each tranche
    Bought,           \* net quantity each tranche is opened with
    UnitCost,         \* quote_spent per unit of quantity
    Prices,           \* net proceeds per unit an exit may fetch
    InitialBalance,   \* initial_balance_usdt, also of a reset
    CloseTTL,         \* paper.close_proposal_ttl_seconds
    MaxTime,          \* bound on the clock
    None              \* SQL NULL, no job

ASSUME BookAssumption ==
    /\ Tranches \subseteq Nat /\ IsFiniteSet(Tranches)
    /\ Timer \in Processes
    /\ None \notin Tranches \cup Closes
    /\ Bought \in [Tranches -> Nat \ {0}]
    /\ UnitCost \in [Tranches -> Nat]
    /\ Prices \subseteq Nat
    /\ InitialBalance \in Nat
    /\ CloseTTL \in Nat \ {0}
    /\ MaxTime \in Nat

Symbols == {SymbolOf[t] : t \in Tranches}
HeldStatus == {"ABSENT", "OPEN", "CLOSED"}
CloseStatus ==
    {"ABSENT", "PENDING", "EXECUTING", "EXECUTED", "REJECTED", "EXPIRED",
     "FAILED"}
Pc == {"off", "ready", "monitor", "draft", "reject", "approve", "checked",
       "expired", "claimed", "failing"}

VARIABLES
    now,            \* the wall clock, in ticks
    held,           \* paper_positions: status of each tranche,
    quantity,       \*   net_quantity,
    sold,           \*   quantity its exits have been paid for so far
    free,           \* paper_account: free_usdt,
    realized,       \*   realized_pnl
    closeStatus,    \* paper_close_proposals: status,
    closeTranche,   \*   position_id,
    closeQty,       \*   close_quantity,
    closeShown,     \*   aggregate_quantity of the payload,
    closeExpires,   \*   expires_at
    pc,             \* where each process is
    job,            \* the close or tranche it works on
    seen            \* the open quantities it has read

positions == <<held, quantity, sold>>
account   == <<free, realized>>
payload   == <<closeTranche, closeQty, closeShown, closeExpires>>
locals    == <<pc, job, seen>>
vars == <<now, positions, account, closeStatus, payload, locals>>

Of(s) == {t \in Tranches : SymbolOf[t] = s}
OpenOf(s) == {t \in Of(s) : held[t] = "OPEN"}
Sum(f, S) == MapThenSumSet(LAMBDA t : f[t], S)
Nothing == [t \in Tranches |-> 0]

\* list_paper_positions(open_only=True), as the quantities it shows.
OpenQuantities ==
    [t \in Tranches |-> IF held[t] = "OPEN" THEN quantity[t] ELSE 0]

CostOf(sale) == Sum([t \in Tranches |-> sale[t] * UnitCost[t]], Tranches)

StaleClose(c) == closeStatus[c] = "PENDING" /\ closeExpires[c] <= now

\* expire_stale_paper_close_proposals, also inside create_paper_close_proposal.
ExpiredCloses ==
    [c \in Closes |-> IF StaleClose(c) THEN "EXPIRED" ELSE closeStatus[c]]

Active(s, status) ==
    {c \in Closes : /\ status[c] \in {"PENDING", "EXECUTING"}
                    /\ SymbolOf[closeTranche[c]] = s}

Init ==
    /\ now = 0
    /\ held = [t \in Tranches |-> "ABSENT"]
    /\ quantity = Nothing
    /\ sold = Nothing
    /\ free = InitialBalance
    /\ realized = 0
    /\ closeStatus = [c \in Closes |-> "ABSENT"]
    /\ closeTranche = [c \in Closes |-> None]
    /\ closeQty = [c \in Closes |-> 0]
    /\ closeShown = [c \in Closes |-> 0]
    /\ closeExpires = [c \in Closes |-> 0]
    /\ pc = [w \in Processes |-> "off"]
    /\ job = [w \in Processes |-> None]
    /\ seen = [w \in Processes |-> Nothing]

Tick ==
    /\ now < MaxTime
    /\ now' = now + 1
    /\ UNCHANGED <<positions, account, closeStatus, payload, locals>>

(***************************************************************************)
(* Local steps of a process.                                               *)
(***************************************************************************)
Goto(w, label, j, view) ==
    /\ pc' = [pc EXCEPT ![w] = label]
    /\ job' = [job EXCEPT ![w] = j]
    /\ seen' = [seen EXCEPT ![w] = view]

Leave(w) == Goto(w, "off", None, Nothing)

\* A crash, a kill, or an error before anything is written.
Stop(w) ==
    /\ pc[w] # "off"
    /\ Leave(w)
    /\ UNCHANGED <<now, positions, account, closeStatus, payload>>

\* Mutant: looks at positions only.
StartWithoutReconcile(w) ==
    /\ pc[w] = "off"
    /\ Goto(w, "ready", None, Nothing)
    /\ UNCHANGED <<now, positions, account, closeStatus, payload>>

\* The constructor runs reconcile_paper_state, which takes every executing
\* close, also one of a process still at work, for the leftover of a crash.
\* No committed row is ever CLOSING, so positions are left alone.
Start(w) ==
    /\ pc[w] = "off"
    /\ Goto(w, "ready", None, Nothing)
    /\ closeStatus' = [c \in Closes |->
          IF closeStatus[c] # "EXECUTING" THEN closeStatus[c]
          ELSE IF held[closeTranche[c]] = "CLOSED" THEN "EXECUTED"
          ELSE "FAILED"]
    /\ UNCHANGED <<now, positions, account, payload>>

(***************************************************************************)
(* Entries and resets.                                                     *)
(***************************************************************************)
\* finish_paper_and_open, seen from the book.
OpenTranche(w, t) ==
    /\ pc[w] = "ready"
    /\ held[t] = "ABSENT"
    /\ free >= Bought[t] * UnitCost[t]
    /\ held' = [held EXCEPT ![t] = "OPEN"]
    /\ quantity' = [quantity EXCEPT ![t] = Bought[t]]
    /\ free' = free - Bought[t] * UnitCost[t]
    /\ Leave(w)
    /\ UNCHANGED <<now, sold, realized, closeStatus, payload>>

\* Mutant: leaves the open positions open.
ResetAccountOnly(w) ==
    /\ pc[w] = "ready"
    /\ free' = InitialBalance
    /\ realized' = 0
    /\ Leave(w)
    /\ UNCHANGED <<now, positions, closeStatus, payload>>

\* reset_paper_account: a reset is not a sale.
ResetPaperAccount(w) ==
    /\ pc[w] = "ready"
    /\ held' = [t \in Tranches |->
                  IF held[t] = "OPEN" THEN "CLOSED" ELSE held[t]]
    /\ closeStatus' = [c \in Closes |->
                         IF closeStatus[c] \in {"PENDING", "EXECUTING"}
                         THEN "EXPIRED" ELSE closeStatus[c]]
    /\ free' = InitialBalance
    /\ realized' = 0
    /\ Leave(w)
    /\ UNCHANGED <<now, quantity, sold, payload>>

(***************************************************************************)
(* The monitor: one read of all open tranches, then for each symbol a call *)
(* to the market and an automatic exit if a candle touched the bracket.    *)
(***************************************************************************)
BeginMonitor(w) ==
    /\ pc[w] = "ready"
    /\ Goto(w, "monitor", None, OpenQuantities)
    /\ UNCHANGED <<now, positions, account, closeStatus, payload>>

SeenOf(w, s) == {t \in Of(s) : seen[w][t] > 0}

\* The monitor is done with symbol s.
Handled(w, s) ==
    seen' = [seen EXCEPT ![w] = [t \in Tranches |->
                IF SymbolOf[t] = s THEN 0 ELSE seen[w][t]]]

\* Sell the quantities of sale at the price and book the result.
Book(sale, price) ==
    /\ sold' = [t \in Tranches |-> sold[t] + sale[t]]
    /\ free' = free + price * Sum(sale, Tranches)

\* close_paper_symbol: the set of tranches must be the one that was read, but
\* the proceeds were computed from the quantities that were read.
MonitorExit(w, s, price) ==
    /\ pc[w] = "monitor"
    /\ OpenOf(s) # {}
    /\ SeenOf(w, s) = OpenOf(s)
    /\ closeStatus' = [c \in Closes |->
          IF closeStatus[c] = "PENDING" /\ SymbolOf[closeTranche[c]] = s
          THEN "FAILED" ELSE closeStatus[c]]
    /\ held' = [t \in Tranches |-> IF t \in OpenOf(s) THEN "CLOSED" ELSE held[t]]
    /\ LET sale == [t \in Tranches |-> IF t \in OpenOf(s) THEN seen[w][t] ELSE 0]
           cost == [t \in Tranches |-> IF t \in OpenOf(s) THEN quantity[t] ELSE 0]
       IN  /\ Book(sale, price)
           /\ realized' = realized + price * Sum(sale, Tranches) - CostOf(cost)
    /\ Handled(w, s)
    /\ UNCHANGED <<now, quantity, payload, pc, job>>

\* No candle touched the bracket, or the exit was refused: on to the next.
MonitorSkip(w, s) ==
    /\ pc[w] = "monitor"
    /\ SeenOf(w, s) # {}
    /\ Handled(w, s)
    /\ UNCHANGED <<now, positions, account, closeStatus, payload, pc, job>>

EndMonitor(w) ==
    /\ pc[w] = "monitor"
    /\ seen[w] = Nothing
    /\ Leave(w)
    /\ UNCHANGED <<now, positions, account, closeStatus, payload>>

(***************************************************************************)
(* Closing by hand.                                                        *)
(***************************************************************************)
\* SpotGuard.create_paper_close_proposal up to the call of the ledger.
BeginDraft(w, t) ==
    /\ pc[w] = "ready"
    /\ held[t] = "OPEN"
    /\ Goto(w, "draft", t,
            [u \in Tranches |->
               IF u \in OpenOf(SymbolOf[t]) THEN quantity[u] ELSE 0])
    /\ UNCHANGED <<now, positions, account, closeStatus, payload>>

\* Mutant: looks for an active close of the same tranche only.
CreatePerTranche(w, c, q) ==
    /\ pc[w] = "draft"
    /\ closeStatus[c] = "ABSENT"
    /\ held[job[w]] = "OPEN"
    /\ \A d \in Closes : ExpiredCloses[d] \in {"PENDING", "EXECUTING"}
                            => closeTranche[d] # job[w]
    /\ q \in 1..Sum(seen[w], Tranches)
    /\ closeStatus' = [ExpiredCloses EXCEPT ![c] = "PENDING"]
    /\ closeTranche' = [closeTranche EXCEPT ![c] = job[w]]
    /\ closeQty' = [closeQty EXCEPT ![c] = q]
    /\ closeShown' = [closeShown EXCEPT ![c] = Sum(seen[w], Tranches)]
    /\ closeExpires' = [closeExpires EXCEPT ![c] = now + CloseTTL]
    /\ Leave(w)
    /\ UNCHANGED <<now, positions, account>>

\* Ledger.create_paper_close_proposal: the payload shows what was read.
CreateClose(w, c, q) ==
    /\ pc[w] = "draft"
    /\ closeStatus[c] = "ABSENT"
    /\ held[job[w]] = "OPEN"
    /\ Active(SymbolOf[job[w]], ExpiredCloses) = {}
    /\ q \in 1..Sum(seen[w], Tranches)
    /\ closeStatus' = [ExpiredCloses EXCEPT ![c] = "PENDING"]
    /\ closeTranche' = [closeTranche EXCEPT ![c] = job[w]]
    /\ closeQty' = [closeQty EXCEPT ![c] = q]
    /\ closeShown' = [closeShown EXCEPT ![c] = Sum(seen[w], Tranches)]
    /\ closeExpires' = [closeExpires EXCEPT ![c] = now + CloseTTL]
    /\ Leave(w)
    /\ UNCHANGED <<now, positions, account>>

\* A transaction that writes the close's status and nothing else.
SetClose(c, s) == closeStatus' = [closeStatus EXCEPT ![c] = s]

\* reject_paper_close: expire what is stale, then reject what is pending.
BeginReject(w, c) ==
    /\ pc[w] = "ready"
    /\ closeStatus[c] # "ABSENT"
    /\ closeStatus' = ExpiredCloses
    /\ Goto(w, "reject", c, Nothing)
    /\ UNCHANGED <<now, positions, account, payload>>

RejectClose(w) ==
    /\ pc[w] = "reject"
    /\ closeStatus[job[w]] = "PENDING"
    /\ SetClose(job[w], "REJECTED")
    /\ Leave(w)
    /\ UNCHANGED <<now, positions, account, payload>>

\* get_active_paper_close_for_position: the fallback by confirmation code
\* expires what is stale and looks the pending close up.
FindClose(w, c) ==
    /\ pc[w] = "ready"
    /\ ExpiredCloses[c] = "PENDING"
    /\ closeStatus' = ExpiredCloses
    /\ Goto(w, "approve", c, Nothing)
    /\ UNCHANGED <<now, positions, account, payload>>

\* approve_paper_close reads the payload ...
BeginApprove(w, c) ==
    /\ pc[w] = "ready"
    /\ closeStatus[c] # "ABSENT"
    /\ Goto(w, "approve", c, Nothing)
    /\ UNCHANGED <<now, positions, account, closeStatus, payload>>

ShownTotal(c) == Sum(quantity, OpenOf(SymbolOf[closeTranche[c]]))

\* ... and the positions, which must add up to the quantity it shows ...
CheckClose(w) ==
    /\ pc[w] = "approve"
    /\ ShownTotal(job[w]) = closeShown[job[w]]
    /\ Goto(w, "checked", job[w], Nothing)
    /\ UNCHANGED <<now, positions, account, closeStatus, payload>>

\* ... or the close is terminalized, as it is when the price has drifted or a
\* filter fails, whoever may have claimed it meanwhile ...
TerminalizeClose(w) ==
    /\ pc[w] = "approve"
    /\ closeStatus[job[w]] \in {"PENDING", "EXECUTING"}
    /\ SetClose(job[w], "FAILED")
    /\ Leave(w)
    /\ UNCHANGED <<now, positions, account, payload>>

\* ... claim_paper_close then expires what is stale ...
ExpireCloses(w) ==
    /\ pc[w] = "checked"
    /\ closeStatus' = ExpiredCloses
    /\ Goto(w, "expired", job[w], Nothing)
    /\ UNCHANGED <<now, positions, account, payload>>

\* Mutant: does not ask whether the close is still pending.
ClaimAnyClose(w) ==
    /\ pc[w] = "expired"
    /\ held[closeTranche[job[w]]] = "OPEN"
    /\ SetClose(job[w], "EXECUTING")
    /\ Goto(w, "claimed", job[w], Nothing)
    /\ UNCHANGED <<now, positions, account, payload>>

\* ... and claims in a second transaction, which does not look at the clock.
ClaimClose(w) ==
    /\ pc[w] = "expired"
    /\ closeStatus[job[w]] = "PENDING"
    /\ held[closeTranche[job[w]]] = "OPEN"
    /\ SetClose(job[w], "EXECUTING")
    /\ Goto(w, "claimed", job[w], Nothing)
    /\ UNCHANGED <<now, positions, account, payload>>

\* What the open tranches of the close's symbol hold.
HeldFor(c) ==
    [t \in OpenOf(SymbolOf[closeTranche[c]]) |-> quantity[t]]

\* Mutant: the aggregate may have changed since the approval.
ExecutableNow(c) ==
    /\ closeStatus[c] = "EXECUTING"
    /\ Allocatable(HeldFor(c), closeQty[c])

Executable(c) ==
    /\ closeStatus[c] = "EXECUTING"
    /\ ShownTotal(c) = closeShown[c]
    /\ Allocatable(HeldFor(c), closeQty[c])

\* What an execution at the price writes when it takes sale from the tranches
\* and leaves those of kept open.
Sell(w, sale, kept, price) ==
    /\ quantity' = [t \in Tranches |-> quantity[t] - sale[t]]
    /\ held' = [t \in Tranches |->
                  IF sale[t] > 0 /\ t \notin kept THEN "CLOSED" ELSE held[t]]
    /\ Book(sale, price)
    /\ realized' = realized + price * Sum(sale, Tranches) - CostOf(sale)
    /\ SetClose(job[w], "EXECUTED")
    /\ Leave(w)
    /\ UNCHANGED <<now, payload>>

\* Mutant: takes the whole quantity from every open tranche.
TakenFromEach(c) ==
    [t \in Tranches |-> IF t \in DOMAIN HeldFor(c) THEN closeQty[c] ELSE 0]

\* The part of the close that is taken from each tranche.
Taken(c) ==
    LET part == Allocation(HeldFor(c), closeQty[c])
    IN  [t \in Tranches |-> IF t \in DOMAIN part THEN part[t] ELSE 0]

\* execute_paper_close: sell the allocated part of every tranche and close
\* those that are empty.
ExecuteClose(w, price) ==
    /\ pc[w] = "claimed"
    /\ Executable(job[w])
    /\ LET sale == Taken(job[w])
       IN  Sell(w, sale, {t \in Tranches : sale[t] < quantity[t]}, price)

\* The execution raised: the close no longer executes, the aggregate changed,
\* the residual cannot be allocated, or the database failed.
ExecuteRaises(w) ==
    /\ pc[w] = "claimed"
    /\ Goto(w, "failing", job[w], Nothing)
    /\ UNCHANGED <<now, positions, account, closeStatus, payload>>

\* finish_paper_close_proposal: UPDATE ... WHERE status='EXECUTING'.
FailClose(w) ==
    /\ pc[w] = "failing"
    /\ closeStatus' = [closeStatus EXCEPT ![job[w]] =
                         IF @ = "EXECUTING" THEN "FAILED" ELSE @]
    /\ Leave(w)
    /\ UNCHANGED <<now, positions, account, payload>>

(***************************************************************************)
(* The next-state relation.                                                *)
(***************************************************************************)
MonitorStep(w) ==
    \/ BeginMonitor(w)
    \/ \E s \in Symbols :
         \/ \E price \in Prices : MonitorExit(w, s, price)
         \/ MonitorSkip(w, s)
    \/ EndMonitor(w)

EntryStep(w) ==
    \/ \E t \in Tranches : OpenTranche(w, t)
    \/ ResetPaperAccount(w)

CloseStep(w) ==
    \/ \E t \in Tranches : BeginDraft(w, t)
    \/ \E c \in Closes : \/ \E q \in 1..Sum(seen[w], Tranches) :
                               CreateClose(w, c, q)
                         \/ BeginReject(w, c)
                         \/ FindClose(w, c)
                         \/ BeginApprove(w, c)
    \/ RejectClose(w)
    \/ CheckClose(w)
    \/ TerminalizeClose(w)
    \/ ExpireCloses(w)
    \/ ClaimClose(w)
    \/ \E price \in Prices : ExecuteClose(w, price)
    \/ ExecuteRaises(w)
    \/ FailClose(w)

ProcessStep(w) == MonitorStep(w) \/ EntryStep(w) \/ CloseStep(w)

Next ==
    \/ Tick
    \/ \E w \in Processes : Start(w) \/ Stop(w) \/ ProcessStep(w)

Spec == Init /\ [][Next]_vars

\* systemd starts the timer's process again and again, and a process that
\* runs gets on with its work or is stopped.
Fairness ==
    /\ WF_vars(Start(Timer))
    /\ WF_vars(Stop(Timer) \/ ProcessStep(Timer))

LiveSpec == Spec /\ Fairness

-----------------------------------------------------------------------------
(***************************************************************************)
(* Properties.                                                             *)
(***************************************************************************)
\* Every column and every local variable holds a value its type allows.
TypeOK ==
    /\ now \in 0..MaxTime
    /\ held \in [Tranches -> HeldStatus]
    /\ quantity \in [Tranches -> Nat]
    /\ sold \in [Tranches -> Nat]
    /\ free \in Int /\ realized \in Int
    /\ closeStatus \in [Closes -> CloseStatus]
    /\ closeTranche \in [Closes -> Tranches \cup {None}]
    /\ closeQty \in [Closes -> Nat]
    /\ closeShown \in [Closes -> Nat]
    /\ closeExpires \in [Closes -> 0..(MaxTime + CloseTTL)]
    /\ pc \in [Processes -> Pc]
    /\ job \in [Processes -> Tranches \cup Closes \cup {None}]
    /\ seen \in [Processes -> [Tranches -> Nat]]

\* The account and the positions agree, whatever partial closes, automatic exits
\* and resets were interleaved: free quote plus what the open tranches cost is
\* the initial balance plus the realized result, and what an open tranche holds
\* and what was sold from it add up to what was bought.
BookBalances ==
    /\ free + CostOf(OpenQuantities) = InitialBalance + realized
    /\ \A t \in Tranches : held[t] = "OPEN" =>
           quantity[t] > 0 /\ quantity[t] + sold[t] = Bought[t]

\* At most one close proposal of a symbol is undecided, whichever of its
\* tranches they name.
OneActiveClose ==
    \A s \in Symbols : Cardinality(Active(s, closeStatus)) <= 1

\* A close by hand sells exactly the approved quantity, out of exactly the
\* aggregate its owner was shown.
SellsWhatWasShown ==
    [][\A c \in Closes :
        /\ closeStatus[c] = "EXECUTING" /\ closeStatus'[c] = "EXECUTED"
        /\ sold' # sold
        => /\ ShownTotal(c) = closeShown[c]
           /\ Sum(sold', Tranches) = Sum(sold, Tranches) + closeQty[c]]_vars

\* A close proposal is decided once: it is claimed from PENDING only and its
\* outcome never changes, whatever rejections, timeouts, restarts, automatic
\* exits and resets cross it.
CloseIsFinal ==
    [][\A c \in Closes :
        /\ closeStatus'[c] = "EXECUTING" /\ closeStatus[c] # "EXECUTING"
             => closeStatus[c] = "PENDING"
        /\ closeStatus[c] \in {"EXECUTED", "REJECTED", "EXPIRED", "FAILED"}
             => closeStatus'[c] = closeStatus[c]]_vars

\* EVALUATION.md:18: "atomic PAPER exit".  No tranche is ever sold beyond what
\* was bought.
NoOversell == \A t \in Tranches : sold[t] <= Bought[t]

\* A claimed close does not stay undecided for ever, even if its process is
\* gone: the timer's next start reconciles it.
CloseIsResolved ==
    \A c \in Closes :
        closeStatus[c] = "EXECUTING" ~> closeStatus[c] # "EXECUTING"

=============================================================================
