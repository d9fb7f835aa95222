--------------------------- MODULE PaperApproval ---------------------------
(***************************************************************************)
(* Proposing, approving and executing a PAPER entry, as the processes of   *)
(* src/spotguard/service.py do it: each reads, decides, asks the market and *)
(* writes in separate transactions of the ledger, and others run between   *)
(* any two of them.  The button and the typed confirmation code are two    *)
(* ways to approve the same proposal.  Risk, sizing, drift and exchange    *)
(* filters are a choice: they accept or refuse.                            *)
(***************************************************************************)
EXTENDS ProposalLedger

CONSTANTS
    MaxTranches,      \* paper.max_active_tranches
    MaxEntries        \* paper.max_successful_entries_per_utc_day

ASSUME ApprovalAssumption ==
    MaxTranches \in Nat \ {0} /\ MaxEntries \in Nat \ {0}

VARIABLES
    pc,       \* where each process is
    job,      \* the proposal, or the candidate, it works on
    method,   \* how it was asked to approve
    saw       \* the status of the proposal it decides on

locals == <<pc, job, method, saw>>
allVars == <<vars, locals>>

Pc == {"off", "drafting", "entered", "quota", "terminalizing", "policy",
       "refusing", "claiming", "claimed", "executing", "failing", "rejecting"}

ApprovalInit ==
    /\ Init
    /\ pc = [w \in Workers |-> "off"]
    /\ job = [w \in Workers |-> None]
    /\ method = [w \in Workers |-> None]
    /\ saw = [w \in Workers |-> None]

(***************************************************************************)
(* Local steps.                                                            *)
(***************************************************************************)
Enter(w, label, j, how) ==
    /\ pc' = [pc EXCEPT ![w] = label]
    /\ job' = [job EXCEPT ![w] = j]
    /\ method' = [method EXCEPT ![w] = how]
    /\ UNCHANGED saw

Go(w, label) ==
    /\ pc' = [pc EXCEPT ![w] = label]
    /\ UNCHANGED <<job, method, saw>>

Leave(w) ==
    /\ pc' = [pc EXCEPT ![w] = "off"]
    /\ job' = [job EXCEPT ![w] = None]
    /\ method' = [method EXCEPT ![w] = None]
    /\ saw' = [saw EXCEPT ![w] = None]

\* A crash, or an exception nobody handles.
Stop(w) ==
    /\ pc[w] # "off"
    /\ Leave(w)
    /\ UNCHANGED vars

(***************************************************************************)
(* What the limits count.                                                  *)
(***************************************************************************)
\* successful_paper_entries: fills of day d since the last reset.
EntriesOn(d) ==
    Cardinality({p \in PaperProposals :
        /\ status[p] = "EXECUTED" /\ exec[p] = "FILLED"
        /\ executedAt[p] >= lastReset /\ DayOf(executedAt[p]) = d})

OpenTranches == {p \in PaperProposals : position[p] = "OPEN"}

(***************************************************************************)
(* Proposing.                                                              *)
(***************************************************************************)
\* _ensure_paper_entry_available: housekeeping and every limit, before the
\* market is asked; create_proposal looks at the slots again, not at these.
BeginProposal(w, c) ==
    /\ pc[w] = "off"
    /\ Cardinality(OpenTranches) < MaxTranches
    /\ Cardinality(ActiveIn(HousekeptStatus)) < MaxActive
    /\ EntriesOn(DayOf(now)) < MaxEntries
    /\ Housekeep
    /\ Enter(w, "drafting", c, None)

Propose(w, p) ==
    /\ pc[w] = "drafting"
    /\ p \in PaperProposals
    /\ CreateProposal(p, job[w])
    /\ Leave(w)

(***************************************************************************)
(* Approving: claim and _paper_text_approve.                               *)
(***************************************************************************)
BeginApproval(w, p, how) ==
    /\ pc[w] = "off"
    /\ status[p] # "ABSENT"
    /\ Housekeep
    /\ Enter(w, "entered", p, how)

\* The row is read once.  The code asks for a pending, unexpired proposal, the
\* button only for one that is not marked EXPIRED.
ReadProposal(w) ==
    /\ pc[w] = "entered"
    /\ IF method[w] = "code"
       THEN status[job[w]] = "PENDING" /\ expires[job[w]] > now
       ELSE status[job[w]] # "EXPIRED"
    /\ saw' = [saw EXCEPT ![w] = status[job[w]]]
    /\ pc' = [pc EXCEPT ![w] = "quota"]
    /\ UNCHANGED <<vars, job, method>>

\* _enforce_paper_daily_entry_quota.
CheckQuota(w) ==
    /\ pc[w] = "quota"
    /\ \/ /\ EntriesOn(DayOf(now)) < MaxEntries
          /\ Go(w, "policy")
       \/ /\ EntriesOn(DayOf(now)) >= MaxEntries
          /\ saw[w] \in {"PENDING", "EXECUTING"}
          /\ Go(w, "terminalizing")
    /\ UNCHANGED vars

TerminalizeAtQuota(w) ==
    /\ pc[w] = "terminalizing"
    /\ TerminalizePaper(job[w])
    /\ Leave(w)

\* validate_claim and _revalidate_paper_entry_policy decide on the row that
\* was read, and on the clock and the market of now.
PolicyAccepts(w) ==
    /\ pc[w] = "policy"
    /\ saw[w] = "PENDING"
    /\ expires[job[w]] > now
    /\ Go(w, "claiming")
    /\ UNCHANGED vars

PolicyRefuses(w) ==
    /\ pc[w] = "policy"
    /\ saw[w] = "PENDING"
    /\ Go(w, "refusing")
    /\ UNCHANGED vars

\* _policy_reject, which reads the row again and takes an EXECUTING proposal
\* for its own.
PolicyReject(w) ==
    /\ pc[w] = "refusing"
    /\ RejectByPolicy(job[w])
    /\ Leave(w)

Claim(w) ==
    /\ pc[w] = "claiming"
    /\ \E l, d, t \in Time :
         IF method[w] = "code"
         THEN ClaimByConfirmationCode(job[w], w, l, t)
         ELSE ClaimProposal(job[w], w, l, d, t)
    /\ Go(w, "claimed")

(***************************************************************************)
(* Executing: execute_paper.                                               *)
(***************************************************************************)
\* _verify_execution_lease; what it refuses stays EXECUTING.
VerifyLease(w) ==
    /\ pc[w] = "claimed"
    /\ Holds(job[w], w)
    /\ leaseEnd[job[w]] > now
    /\ Go(w, "executing")
    /\ UNCHANGED vars

\* Mutant: the limits are looked at only before the market is asked.
FillUnchecked(w) ==
    /\ pc[w] = "executing"
    /\ FinishPaperAndOpen(job[w], w)
    /\ Leave(w)

\* finish_paper_and_open looks at the limits inside its transaction, at the
\* daily quota no more.
Fill(w) ==
    /\ pc[w] = "executing"
    /\ Cardinality(OpenTranches) < MaxTranches
    /\ FinishPaperAndOpen(job[w], w)
    /\ Leave(w)

ExecutionRaises(w) ==
    /\ pc[w] = "executing"
    /\ Go(w, "failing")
    /\ UNCHANGED vars

\* The handler of execute_paper: by policy if a sizing policy is configured.
EndExecution(w) ==
    /\ pc[w] = "failing"
    /\ status[job[w]] = "EXECUTING"
    /\ RejectByPolicy(job[w]) \/ FailExecution(job[w], w)
    /\ Leave(w)

(***************************************************************************)
(* Rejecting: reject and paper_text_reject.                                *)
(***************************************************************************)
BeginRejection(w, p) ==
    /\ pc[w] = "off"
    /\ status[p] # "ABSENT"
    /\ Housekeep
    /\ Enter(w, "rejecting", p, None)

Reject(w) ==
    /\ pc[w] = "rejecting"
    /\ RejectProposal(job[w])
    /\ Leave(w)

(***************************************************************************)
(* The next-state relation.                                                *)
(***************************************************************************)
ProcessStep(w) ==
    \/ \E c \in Candidates : BeginProposal(w, c)
    \/ \E p \in PaperProposals :
         \/ Propose(w, p)
         \/ \E how \in {"button", "code"} : BeginApproval(w, p, how)
         \/ BeginRejection(w, p)
    \/ ReadProposal(w)
    \/ CheckQuota(w)
    \/ TerminalizeAtQuota(w)
    \/ PolicyAccepts(w)
    \/ PolicyRefuses(w)
    \/ PolicyReject(w)
    \/ Claim(w)
    \/ VerifyLease(w)
    \/ Fill(w)
    \/ ExecutionRaises(w)
    \/ EndExecution(w)
    \/ Reject(w)
    \/ Stop(w)

\* Scans find candidates, positions are closed, the account is reset.
Surroundings ==
    \/ Tick
    \/ \E c \in Candidates : CreateCandidate(c)
    \/ \E p \in PaperProposals : ClosePosition(p)
    \/ ResetPaperAccount

ApprovalNext ==
    \/ \E w \in Workers : ProcessStep(w)
    \/ Surroundings /\ UNCHANGED locals

ApprovalSpec == ApprovalInit /\ [][ApprovalNext]_allVars

-----------------------------------------------------------------------------
(***************************************************************************)
(* Properties.                                                             *)
(***************************************************************************)
\* The daily quota is counted before the claim and not again: approvals that
\* hold a slot when the day's last entry is filled may each fill one more, and
\* nobody beyond them, however long they were under way; with one slot the
\* quota of README.md:372 and EVALUATION.md:21 is exact.  The open tranches are
\* counted in the transaction that fills and stay within their limit.
EntriesWithinLimits ==
    /\ \A d \in {DayOf(t) : t \in Time} : EntriesOn(d) < MaxEntries + MaxActive
    /\ Cardinality(OpenTranches) <= MaxTranches

=============================================================================
