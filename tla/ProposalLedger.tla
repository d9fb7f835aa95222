--------------------------- MODULE ProposalLedger ---------------------------
(***************************************************************************)
(* The proposal tables of the RiskPilot ledger (src/spotguard/db.py): the  *)
(* candidates, the proposals with their approval, lease and outcome        *)
(* columns, and the existence of the PAPER position a fill creates.        *)
(*                                                                         *)
(* Every CLI call, button callback and timer is a process of its own, and  *)
(* the processes share one SQLite file.  Ledger.transaction opens          *)
(* BEGIN IMMEDIATE, so writers are serialised and a transaction that       *)
(* raises is rolled back: one action below is one committed transaction,   *)
(* and a call that raises is a step that changes nothing.  The callers are *)
(* arbitrary: any process may call any operation at any moment, with the   *)
(* lease it holds.  What the service does between two calls is the         *)
(* business of the modules that compose this one.                          *)
(***************************************************************************)
EXTENDS Integers, FiniteSets, FiniteSetsExt

CONSTANTS
    PaperProposals,   \* identifiers of proposals whose mode is 'paper'
    LiveProposals,    \* identifiers of proposals whose mode is 'live'
    LiveExits,        \*   those among them that sell or protect, side SELL
    Candidates,       \* identifiers of scanner or manual candidates
    Workers,          \* processes; each claim gives its process a fresh lease
    MaxActive,        \* risk.max_active_proposals
    ProposalTTL,      \* lifetime of an unapproved proposal
    CandidateTTL,     \* lifetime of an unused candidate
    LeaseTime,        \* risk.execution_lease_seconds
    LockWait,         \* longest time from a claim's first look at the clock to
                      \*   its commit: the wait for SQLite's lock (busy_timeout)
    DayLength,        \* ticks in one UTC day
    SinceMidnight,    \* ticks of the first day that have passed at time 0
    Quote,            \* quote_amount of each proposal
    MaxDailyQuote,    \* ceiling on the quote LIVE claims may commit in a day
    MaxTime,          \* bound on the clock
    None              \* SQL NULL

ASSUME LedgerAssumption ==
    /\ PaperProposals \cap LiveProposals = {}
    /\ LiveExits \subseteq LiveProposals
    /\ IsFiniteSet(PaperProposals \cup LiveProposals)
    /\ MaxActive \in Nat \ {0}
    /\ ProposalTTL \in Nat \ {0}
    /\ CandidateTTL \in Nat \ {0}
    /\ LeaseTime \in Nat \ {0}
    /\ LockWait \in Nat
    /\ DayLength \in Nat \ {0}
    /\ SinceMidnight \in Nat
    /\ Quote \in [PaperProposals \cup LiveProposals -> Nat]
    /\ MaxDailyQuote \in Nat
    /\ MaxTime \in Nat

Proposals == PaperProposals \cup LiveProposals

ASSUME NoneAssumption ==
    None \notin Workers \cup Candidates \cup Proposals \cup Int
                   \cup {"OPEN", "CLOSED", "FILLED"}

Status ==
    {"ABSENT", "PENDING", "EXECUTING", "EXECUTED", "RECONCILE", "REJECTED",
     "EXPIRED", "FAILED"}
CandidateStatus == {"ABSENT", "ACTIVE", "PROPOSED", "DISMISSED", "EXPIRED"}
ExecutionStatus ==
    {None, "EXEC_STARTED", "FILLED", "OTHER", "RECONCILE"}
PositionStatus == {None, "OPEN", "CLOSED"}

VARIABLES
    now,            \* the wall clock, in ticks
    candStatus,     \* table candidates: status
    candExpires,    \*   and expiry
    status,         \* table proposals, one variable per column: status,
    source,         \*   candidate_id,
    expires,        \*   expires_at,
    approvedAt,     \*   approved_at,
    lease,          \*   execution_lease_hash: the process that holds it,
    leaseEnd,       \*   execution_lease_expires_at,
    executedAt,     \*   executed_at,
    exec,           \*   execution_status,
    submitted,      \*   whether execution_status was ever EXEC_STARTED
    position,       \* table paper_positions: status of a proposal's position
    lastReset       \* when the last reset_paper_account committed

candidates == <<candStatus, candExpires>>
terms      == <<source, expires>>
leases     == <<lease, leaseEnd>>
outcome    == <<executedAt, exec, submitted>>
account    == <<position, lastReset>>
vars == <<now, candidates, status, terms, approvedAt, leases, outcome, account>>

Time == 0..MaxTime
Expiry == 0..(MaxTime + ProposalTTL + CandidateTTL + LeaseTime)

(***************************************************************************)
(* Views of the tables.                                                    *)
(***************************************************************************)
\* The rows that occupy one of the max_active_proposals slots.
ActiveIn(s) == {p \in Proposals : s[p] \in {"PENDING", "EXECUTING"}}

DayOf(t) == (t + SinceMidnight) \div DayLength

ApprovedOn(S, d) ==
    {p \in Proposals :
        status[p] \in S /\ approvedAt[p] # None /\ DayOf(approvedAt[p]) = d}

QuoteOf(P) == MapThenSumSet(LAMBDA p : Quote[p], P)

\* Mutant: forgets what was executed.
CommittedUntilDone(d) == QuoteOf(ApprovedOn({"EXECUTING", "RECONCILE"}, d))

\* daily_committed_quote: quote of what was approved on day d and not undone.
CommittedOn(d) ==
    QuoteOf(ApprovedOn({"EXECUTING", "EXECUTED", "RECONCILE"}, d))

(***************************************************************************)
(* Housekeeping, run inside several transactions: unapproved proposals     *)
(* past their lifetime expire, and a PAPER execution whose lease has run   *)
(* out is resolved by looking for the position it may have created.        *)
(***************************************************************************)
Stale(p) ==
    /\ status[p] = "PENDING"
    /\ approvedAt[p] = None
    /\ executedAt[p] = None
    /\ expires[p] <= now

LeaseRanOut(p) == leaseEnd[p] # None /\ leaseEnd[p] <= now

Lost(p) ==
    /\ p \in PaperProposals
    /\ status[p] = "EXECUTING"
    /\ LeaseRanOut(p)

\* What an execution without a lease turned out to be.
Recovered(p) == IF position[p] = None THEN "FAILED" ELSE "EXECUTED"

HousekeptStatus ==
    [p \in Proposals |->
        IF Stale(p) THEN "EXPIRED"
        ELSE IF Lost(p) THEN Recovered(p)
        ELSE status[p]]

RecoverLostColumns ==
    /\ lease' = [p \in Proposals |-> IF Lost(p) THEN None ELSE lease[p]]
    /\ leaseEnd' = [p \in Proposals |-> IF Lost(p) THEN None ELSE leaseEnd[p]]
    /\ exec' = [p \in Proposals |->
                  IF Lost(p) /\ position[p] # None THEN "FILLED" ELSE exec[p]]
    /\ executedAt' = [p \in Proposals |->
                        IF /\ Lost(p) /\ position[p] # None
                           /\ executedAt[p] = None
                        THEN now ELSE executedAt[p]]

HousekeptCandidates ==
    [c \in Candidates |->
        IF candStatus[c] = "ACTIVE" /\ candExpires[c] <= now
        THEN "EXPIRED" ELSE candStatus[c]]

Init ==
    /\ now = 0
    /\ candStatus = [c \in Candidates |-> "ABSENT"]
    /\ candExpires = [c \in Candidates |-> 0]
    /\ status = [p \in Proposals |-> "ABSENT"]
    /\ source = [p \in Proposals |-> None]
    /\ expires = [p \in Proposals |-> 0]
    /\ approvedAt = [p \in Proposals |-> None]
    /\ lease = [p \in Proposals |-> None]
    /\ leaseEnd = [p \in Proposals |-> None]
    /\ executedAt = [p \in Proposals |-> None]
    /\ exec = [p \in Proposals |-> None]
    /\ submitted = [p \in Proposals |-> FALSE]
    /\ position = [p \in Proposals |-> None]
    /\ lastReset = 0

Tick ==
    /\ now < MaxTime
    /\ now' = now + 1
    /\ UNCHANGED <<candidates, status, terms, approvedAt, leases, outcome,
                   account>>

(***************************************************************************)
(* Candidates.                                                             *)
(***************************************************************************)
\* create_candidate: INSERT OR IGNORE on the fingerprint, so once only.
CreateCandidate(c) ==
    /\ candStatus[c] = "ABSENT"
    /\ candStatus' = [candStatus EXCEPT ![c] = "ACTIVE"]
    /\ candExpires' = [candExpires EXCEPT ![c] = now + CandidateTTL]
    /\ UNCHANGED <<now, status, terms, approvedAt, leases, outcome, account>>

\* dismiss_candidate: leaves the proposal of the candidate as it is.
DismissCandidate(c) ==
    /\ candStatus[c] \in {"ACTIVE", "PROPOSED"}
    /\ candStatus' = [candStatus EXCEPT ![c] = "DISMISSED"]
    /\ UNCHANGED <<now, candExpires, status, terms, approvedAt, leases, outcome,
                   account>>

(***************************************************************************)
(* Proposals before approval.                                              *)
(***************************************************************************)
\* expire_stale_active_proposals, active_proposal_count and
\* active_proposals_status.
Housekeep ==
    /\ status' = HousekeptStatus
    /\ RecoverLostColumns
    /\ candStatus' = HousekeptCandidates
    /\ UNCHANGED <<now, candExpires, terms, approvedAt, submitted, account>>

\* Mutant: counts waiting proposals only.
CreateBesideExecuting(p, c) ==
    /\ status[p] = "ABSENT"
    /\ Cardinality({q \in Proposals : HousekeptStatus[q] = "PENDING"}) < MaxActive
    /\ HousekeptCandidates[c] = "ACTIVE"
    /\ status' = [HousekeptStatus EXCEPT ![p] = "PENDING"]
    /\ source' = [source EXCEPT ![p] = c]
    /\ expires' = [expires EXCEPT ![p] = now + ProposalTTL]
    /\ RecoverLostColumns
    /\ candStatus' = [HousekeptCandidates EXCEPT ![c] = "PROPOSED"]
    /\ UNCHANGED <<now, candExpires, approvedAt, submitted, account>>

\* Mutant: leaves the candidate ACTIVE.
CreateKeepsCandidate(p, c) ==
    /\ status[p] = "ABSENT"
    /\ Cardinality(ActiveIn(HousekeptStatus)) < MaxActive
    /\ HousekeptCandidates[c] = "ACTIVE"
    /\ status' = [HousekeptStatus EXCEPT ![p] = "PENDING"]
    /\ source' = [source EXCEPT ![p] = c]
    /\ expires' = [expires EXCEPT ![p] = now + ProposalTTL]
    /\ RecoverLostColumns
    /\ candStatus' = HousekeptCandidates
    /\ UNCHANGED <<now, candExpires, approvedAt, submitted, account>>

\* create_proposal: housekeeping, slot check, candidate check and insert.  The
\* caller dates the terms before the write lock is granted; that wait only
\* shortens the lifetime and is left out.
CreateProposal(p, c) ==
    /\ status[p] = "ABSENT"
    /\ Cardinality(ActiveIn(HousekeptStatus)) < MaxActive
    /\ HousekeptCandidates[c] = "ACTIVE"
    /\ status' = [HousekeptStatus EXCEPT ![p] = "PENDING"]
    /\ source' = [source EXCEPT ![p] = c]
    /\ expires' = [expires EXCEPT ![p] = now + ProposalTTL]
    /\ RecoverLostColumns
    /\ candStatus' = [HousekeptCandidates EXCEPT ![c] = "PROPOSED"]
    /\ UNCHANGED <<now, candExpires, approvedAt, submitted, account>>

\* A step that writes the status column and nothing else.
SetStatus(p, s) ==
    /\ status' = [status EXCEPT ![p] = s]
    /\ UNCHANGED <<now, candidates, terms, approvedAt, leases, outcome, account>>

\* A step that ends an execution and takes its lease away.
EndWithoutLease(p, s) ==
    /\ status' = [status EXCEPT ![p] = s]
    /\ lease' = [lease EXCEPT ![p] = None]
    /\ leaseEnd' = [leaseEnd EXCEPT ![p] = None]
    /\ UNCHANGED <<now, candidates, terms, approvedAt, outcome, account>>

\* A step that gives every proposal of P the status s.
SetStatusOf(P, s) ==
    status' = [p \in Proposals |-> IF p \in P THEN s ELSE status[p]]

\* reject_proposal: the owner's rejection; the token is checked in the same
\* transaction.
RejectProposal(p) ==
    /\ status[p] = "PENDING"
    /\ SetStatus(p, "REJECTED")

\* Mutant: no check of the status.
RejectAnyByPolicy(p) ==
    /\ status[p] # "ABSENT"
    /\ EndWithoutLease(p, "REJECTED")

\* reject_proposal_by_policy: needs no lease, also ends a claimed proposal.
RejectByPolicy(p) ==
    /\ status[p] \in {"PENDING", "EXECUTING"}
    /\ EndWithoutLease(p, "REJECTED")

\* terminalize_paper_proposal: the daily quota; leaves the lease columns.
TerminalizePaper(p) ==
    /\ p \in PaperProposals
    /\ status[p] \in {"PENDING", "EXECUTING"}
    /\ SetStatus(p, "REJECTED")

\* reject_all_pending_paper.
RejectAllPendingPaper ==
    /\ SetStatusOf({p \in PaperProposals : status[p] = "PENDING"}, "REJECTED")
    /\ UNCHANGED <<now, candidates, terms, approvedAt, leases, outcome, account>>

\* invalidate_pending_live_entries: the authorization ended.  Exits stay.
InvalidatePendingLiveEntries ==
    /\ SetStatusOf({p \in LiveProposals \ LiveExits : status[p] = "PENDING"},
                   "EXPIRED")
    /\ UNCHANGED <<now, candidates, terms, approvedAt, leases, outcome, account>>

(***************************************************************************)
(* Approval.                                                               *)
(***************************************************************************)
\* Mutant: stores the lease without its expiry.
ApproveWithoutExpiry(p, w, l, t) ==
    /\ status' = [status EXCEPT ![p] = "EXECUTING"]
    /\ approvedAt' = [approvedAt EXCEPT ![p] = t]
    /\ lease' = [lease EXCEPT ![p] = w]
    /\ UNCHANGED <<now, candidates, terms, leaseEnd, outcome, account>>

Approve(p, w, l, t) ==
    /\ status' = [status EXCEPT ![p] = "EXECUTING"]
    /\ approvedAt' = [approvedAt EXCEPT ![p] = t]
    /\ lease' = [lease EXCEPT ![p] = w]
    /\ leaseEnd' = [leaseEnd EXCEPT ![p] = l + LeaseTime]
    /\ UNCHANGED <<now, candidates, terms, outcome, account>>

\* A claim looks at the clock several times before BEGIN IMMEDIATE: at l for the
\* expiry of the lease, at d for the day of the quota and at t for approved_at.
\* The write lock may be granted up to LockWait later; l is no earlier than the
\* proposal, whose row the caller has read.
Claimable(p, l, t) ==
    /\ status[p] = "PENDING"
    /\ expires[p] - ProposalTTL <= l
    /\ l <= t /\ t <= now /\ now <= l + LockWait

\* claim_proposal: expiry is compared with t, the quota is that of the day of d.
\* The EXPIRED write of a refused claim is undone by the exception that follows.
ClaimProposal(p, w, l, d, t) ==
    /\ Claimable(p, l, t)
    /\ l <= d /\ d <= t
    /\ expires[p] > t
    /\ p \in LiveProposals =>
         CommittedOn(DayOf(d)) + Quote[p] <= MaxDailyQuote
    /\ Approve(p, w, l, t)

\* Mutant: the status is not checked again inside the transaction.
ClaimByCodeStale(p, w, l, t) ==
    /\ p \in PaperProposals
    /\ status[p] # "ABSENT"
    /\ l <= t /\ t <= now /\ now <= l + LockWait
    /\ expires[p] > now
    /\ Approve(p, w, l, t)

\* claim_proposal_by_confirmation_code: PAPER only; expiry is compared with a
\* clock read inside the transaction.
ClaimByConfirmationCode(p, w, l, t) ==
    /\ p \in PaperProposals
    /\ Claimable(p, l, t)
    /\ expires[p] > now
    /\ Approve(p, w, l, t)

(***************************************************************************)
(* Outcome of an execution.                                                *)
(***************************************************************************)
\* Mutant: the lease alone; terminalization and reset do not clear it.
HoldsLease(p, w) == lease[p] = w

Holds(p, w) == status[p] = "EXECUTING" /\ lease[p] = w

Finish(p, final, x) ==
    /\ status' = [status EXCEPT ![p] = final]
    /\ executedAt' = [executedAt EXCEPT ![p] = now]
    /\ exec' = [exec EXCEPT ![p] = x]
    /\ submitted' = [submitted EXCEPT ![p] = @ \/ x = "EXEC_STARTED"]
    /\ UNCHANGED <<now, candidates, terms, approvedAt, leases, account>>

\* finish_execution by the process that holds the lease; like the code it
\* asks neither for the mode nor for an unexpired lease.  EXEC_STARTED is the
\* list status of a protected LIVE order.
FinishExecution(p, w, final, x) ==
    /\ Holds(p, w)
    /\ x = "EXEC_STARTED" => p \in LiveProposals
    /\ Finish(p, final, x)

\* finish_execution with allow_legacy_unresolved, called by the reconciler
\* with the lease it read from the row of a submitted LIVE order.
FinishUnresolved(p, final, x) ==
    /\ p \in LiveProposals
    /\ submitted[p]
    /\ \/ status[p] = "EXECUTING"
       \/ status[p] = "EXECUTED" /\ exec[p] = "EXEC_STARTED"
    /\ Finish(p, final, x)

\* Mutant: the exchange's word becomes the row's status.
RecordSubmittedStatus(p, w) ==
    /\ p \in LiveProposals
    /\ Holds(p, w)
    /\ SetStatus(p, "EXEC_STARTED")

\* record_execution_submitted: accepted by the exchange, not filled yet.
RecordExecutionSubmitted(p, w) ==
    /\ p \in LiveProposals
    /\ Holds(p, w)
    /\ exec' = [exec EXCEPT ![p] = "EXEC_STARTED"]
    /\ submitted' = [submitted EXCEPT ![p] = TRUE]
    /\ UNCHANGED <<now, candidates, status, terms, approvedAt, leases,
                   executedAt, account>>

\* mark_live_execution_unreconcilable: the ledger checks the mode only; its
\* caller saw an unresolved submission at some earlier moment.
MarkUnreconcilable(p) ==
    /\ p \in LiveProposals
    /\ submitted[p]
    /\ status' = [status EXCEPT ![p] = "RECONCILE"]
    /\ exec' = [exec EXCEPT ![p] = "RECONCILE"]
    /\ UNCHANGED <<now, candidates, terms, approvedAt, leases, executedAt,
                   submitted, account>>

\* Mutant: puts the proposal back for a retry.
FailRequeues(p, w) ==
    /\ Holds(p, w)
    /\ EndWithoutLease(p, "PENDING")

\* fail_execution.
FailExecution(p, w) ==
    /\ Holds(p, w)
    /\ EndWithoutLease(p, "FAILED")

\* finish_paper_and_open: position row, proposal row and account in one
\* transaction; the position's proposal_id is UNIQUE.
FinishPaperAndOpen(p, w) ==
    /\ p \in PaperProposals
    /\ Holds(p, w)
    /\ position[p] = None
    /\ position' = [position EXCEPT ![p] = "OPEN"]
    /\ status' = [status EXCEPT ![p] = "EXECUTED"]
    /\ executedAt' = [executedAt EXCEPT ![p] = now]
    /\ exec' = [exec EXCEPT ![p] = "FILLED"]
    /\ lease' = [lease EXCEPT ![p] = None]
    /\ leaseEnd' = [leaseEnd EXCEPT ![p] = None]
    /\ UNCHANGED <<now, candidates, terms, approvedAt, submitted, lastReset>>

\* Any full exit of the position (close_paper_symbol and its relatives).
ClosePosition(p) ==
    /\ position[p] = "OPEN"
    /\ position' = [position EXCEPT ![p] = "CLOSED"]
    /\ UNCHANGED <<now, candidates, status, terms, approvedAt, leases, outcome,
                   lastReset>>

\* reset_paper_account: closes every position and rejects every PAPER
\* proposal that is still undecided; the lease columns stay.
ResetPaperAccount ==
    /\ position' = [p \in Proposals |->
                      IF position[p] = "OPEN" THEN "CLOSED" ELSE position[p]]
    /\ SetStatusOf({p \in PaperProposals :
                      status[p] \in {"PENDING", "EXECUTING", "RECONCILE"}},
                   "REJECTED")
    /\ lastReset' = now
    /\ UNCHANGED <<now, candidates, terms, approvedAt, leases, outcome>>

(***************************************************************************)
(* The next-state relation: one disjunct per ledger operation.             *)
(***************************************************************************)
CandidateStep(c) == CreateCandidate(c) \/ DismissCandidate(c)

LeaseStep(p, w) ==
    \/ \E l, d, t \in Time : ClaimProposal(p, w, l, d, t)
    \/ \E l, t \in Time : ClaimByConfirmationCode(p, w, l, t)
    \/ \E final \in {"EXECUTED", "RECONCILE"} :
         \E x \in {"EXEC_STARTED", "FILLED", "OTHER"} :
            FinishExecution(p, w, final, x)
    \/ RecordExecutionSubmitted(p, w)
    \/ FailExecution(p, w)
    \/ FinishPaperAndOpen(p, w)

RowStep(p) ==
    \/ \E c \in Candidates : CreateProposal(p, c)
    \/ RejectProposal(p)
    \/ RejectByPolicy(p)
    \/ TerminalizePaper(p)
    \/ \E final \in {"EXECUTED", "RECONCILE"}, x \in {"FILLED", "OTHER"} :
            FinishUnresolved(p, final, x)
    \/ MarkUnreconcilable(p)
    \/ ClosePosition(p)

TableStep ==
    \/ Housekeep
    \/ RejectAllPendingPaper
    \/ InvalidatePendingLiveEntries
    \/ ResetPaperAccount

Next ==
    \/ Tick
    \/ \E c \in Candidates : CandidateStep(c)
    \/ TableStep
    \/ \E p \in Proposals : RowStep(p)
    \/ \E p \in Proposals, w \in Workers : LeaseStep(p, w)

Spec == Init /\ [][Next]_vars

-----------------------------------------------------------------------------
(***************************************************************************)
(* Properties.                                                             *)
(***************************************************************************)
\* Every column holds a value its type allows.
TypeOK ==
    /\ now \in Time
    /\ candStatus \in [Candidates -> CandidateStatus]
    /\ candExpires \in [Candidates -> Expiry]
    /\ status \in [Proposals -> Status]
    /\ source \in [Proposals -> Candidates \cup {None}]
    /\ expires \in [Proposals -> Expiry]
    /\ approvedAt \in [Proposals -> Time \cup {None}]
    /\ lease \in [Proposals -> Workers \cup {None}]
    /\ leaseEnd \in [Proposals -> Expiry \cup {None}]
    /\ executedAt \in [Proposals -> Time \cup {None}]
    /\ exec \in [Proposals -> ExecutionStatus]
    /\ submitted \in [Proposals -> BOOLEAN]
    /\ position \in [Proposals -> PositionStatus]
    /\ lastReset \in Time

\* A position exists only for a PAPER proposal that is EXECUTED and FILLED:
\* recovery, rejection and reset never leave a position behind a proposal
\* they ended, and an executor that lost its claim to one of them cannot
\* open the position afterwards.
FillsMatchPositions ==
    \A p \in Proposals : position[p] # None =>
        p \in PaperProposals /\ status[p] = "EXECUTED" /\ exec[p] = "FILLED"

\* At most max_active_proposals proposals wait or execute, whatever creations
\* and recoveries interleave.
ActiveWithinCap == Cardinality(ActiveIn(status)) <= MaxActive

\* An executing proposal carries the lease and the expiry recovery needs; one
\* without them would hold its slot for ever.
ExecutingIsRecoverable ==
    \A p \in Proposals : status[p] = "EXECUTING" =>
        /\ lease[p] \in Workers
        /\ approvedAt[p] # None
        /\ leaseEnd[p] # None

\* A reset starts a clean epoch: no position that is open now comes from an
\* approval given before the reset, however late its executor commits.
OpenPositionsSinceReset ==
    \A p \in Proposals : position[p] = "OPEN" => approvedAt[p] >= lastReset

\* The inductive invariant behind the three previous properties, proposal by
\* proposal.  A proposal that is still undecided carries no approval and, being
\* PAPER, is younger than the last reset: this is what makes a late claim and a
\* late fill sound.
RowInv(p) ==
    /\ position[p] # None =>
         p \in PaperProposals /\ status[p] = "EXECUTED" /\ exec[p] = "FILLED"
    /\ position[p] = "OPEN" => approvedAt[p] >= lastReset
    /\ status[p] = "EXECUTING" =>
         /\ lease[p] \in Workers
         /\ approvedAt[p] # None
         /\ leaseEnd[p] # None
    /\ status[p] \in {"ABSENT", "PENDING"}
         => approvedAt[p] = None /\ ~ submitted[p]
    /\ p \in PaperProposals /\ status[p] = "PENDING"
         => expires[p] - ProposalTTL >= lastReset
    /\ p \in PaperProposals /\ status[p] = "EXECUTING"
         => approvedAt[p] >= lastReset

LedgerInv == lastReset <= now /\ \A p \in Proposals : RowInv(p)

\* The ceiling on LIVE quote, however claims race with each other and with
\* executions that have not finished: from a LIVE approval on, LockWait or more
\* into a day, what was approved on that day and executes or has executed is
\* within the ceiling.  Before that it need not be, because a claim that counts
\* yesterday's quote may be recorded today.
Committing(d) == ApprovedOn({"EXECUTING", "EXECUTED"}, d) \cap LiveProposals

CountsToday(p) ==
    approvedAt[p] # None /\ (approvedAt[p] + SinceMidnight) % DayLength >= LockWait

LiveQuotaRespected ==
    \A p \in LiveProposals : CountsToday(p) =>
        QuoteOf(Committing(DayOf(approvedAt[p]))) <= MaxDailyQuote

\* A candidate is the source of at most one proposal.
OneProposalPerCandidate ==
    \A p, q \in Proposals : source[p] # None /\ source[p] = source[q] => p = q

\* Approval is single use and decisions are final: a proposal starts to
\* execute from PENDING only and unapproved; a PAPER outcome never changes,
\* and a LIVE one changes only for a submission the exchange has accepted.
SettledStatus == {"EXECUTED", "REJECTED", "EXPIRED", "FAILED"}

DecisionIsFinal ==
    [][\A p \in Proposals :
        /\ status'[p] = "EXECUTING" /\ status[p] # "EXECUTING"
             => status[p] = "PENDING" /\ approvedAt[p] = None
        /\ status[p] \in SettledStatus /\ status'[p] # status[p]
             => p \in LiveProposals /\ submitted[p]
                  /\ status'[p] = "RECONCILE"]_vars

(***************************************************************************)
(* The ledger implements the contract of the approval workflow.            *)
(***************************************************************************)
PhaseOf(s) ==
    IF s = "ABSENT" THEN "none"
    ELSE IF s = "PENDING" THEN "offered"
    ELSE IF s = "EXECUTING" THEN "approved"
    ELSE "settled"

Contract == INSTANCE ApprovalContract WITH
    Slots  <- MaxActive,
    phase  <- [p \in Proposals |-> PhaseOf(status[p])],
    filled <- {p \in Proposals : position[p] # None}

ContractSpec == Contract!Spec

=============================================================================
