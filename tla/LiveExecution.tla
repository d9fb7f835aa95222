--------------------------- MODULE LiveExecution ---------------------------
(***************************************************************************)
(* Approving, executing and reconciling a LIVE proposal, as the processes  *)
(* of src/spotguard/service.py do it: execute_live writes to the exchange  *)
(* between two transactions of the ledger, and the answer may be lost,     *)
(* unusable or late; the lease may run out, the process may die, and the   *)
(* order lives on at the exchange meanwhile.                               *)
(*                                                                         *)
(* One write stands for the request of a proposal, also for the cancel,    *)
(* sell and re-arm of a partial exit.  Authorization, risk and readiness   *)
(* are a choice: they accept or refuse.                                    *)
(***************************************************************************)
EXTENDS ProposalLedger

CONSTANTS
    Cancels,      \* proposals that cancel an OCO, read back afterwards
    Restores      \* proposals that place an OCO again, without a fill

ASSUME LiveAssumption ==
    Cancels \cup Restores \subseteq LiveExits /\ Cancels \cap Restores = {}

VARIABLES
    pc,       \* where each process is
    job,      \* the proposal it works on
    saw,      \* the status of the proposal it decides on
    reply,    \* the exchange's latest answer
    order,    \* what the exchange holds for each proposal
    writes,   \* how many writes of the proposal have been sent
    phase,    \* phase of its latest execution evidence
    fill      \* whether its fill is in the risk accounting

locals   == <<pc, job, saw, reply>>
exchange == <<order, writes>>
evidence == <<phase, fill>>
liveVars == <<vars, locals, exchange, evidence>>

Entries == LiveProposals \ LiveExits
Sells == LiveExits \ (Cancels \cup Restores)

Pc == {"off", "entered", "policy", "refusing", "claiming", "claimed", "leased",
       "checked", "sent", "uncertain", "answered", "evidenced", "filling",
       "raised", "asking", "learned", "concluding", "marking"}
Live == {"NEW", "PARTIALLY_FILLED", "FILLED"}
OrderStatus == {"none", "CANCELED"} \cup Live
Reply == {None, "lost", "UNKNOWN", "CANCELED"} \cup Live

LiveInit ==
    /\ Init
    /\ pc = [w \in Workers |-> "off"]
    /\ job = [w \in Workers |-> None]
    /\ saw = [w \in Workers |-> None]
    /\ reply = [w \in Workers |-> None]
    /\ order = [p \in LiveProposals |-> "none"]
    /\ writes = [p \in LiveProposals |-> 0]
    /\ phase = [p \in LiveProposals |-> None]
    /\ fill = [p \in LiveProposals |-> FALSE]

(***************************************************************************)
(* Local steps.                                                            *)
(***************************************************************************)
Enter(w, label, p) ==
    /\ pc' = [pc EXCEPT ![w] = label]
    /\ job' = [job EXCEPT ![w] = p]
    /\ UNCHANGED <<saw, reply>>

Go(w, label) ==
    /\ pc' = [pc EXCEPT ![w] = label]
    /\ UNCHANGED <<job, saw, reply>>

Leave(w) ==
    /\ pc' = [pc EXCEPT ![w] = "off"]
    /\ job' = [job EXCEPT ![w] = None]
    /\ saw' = [saw EXCEPT ![w] = None]
    /\ reply' = [reply EXCEPT ![w] = None]

Hears(w, label, r) ==
    /\ pc' = [pc EXCEPT ![w] = label]
    /\ reply' = [reply EXCEPT ![w] = r]
    /\ UNCHANGED <<job, saw>>

\* A crash; or the end of a call whose exception nobody handles.
Stop(w) ==
    /\ pc[w] # "off"
    /\ Leave(w)
    /\ UNCHANGED <<vars, exchange, evidence>>

(***************************************************************************)
(* Approving: approve_live_button and claim.                               *)
(***************************************************************************)
BeginApproval(w, p) ==
    /\ pc[w] = "off"
    /\ p \in LiveProposals /\ status[p] # "ABSENT"
    /\ Housekeep
    /\ Enter(w, "entered", p)
    /\ UNCHANGED <<exchange, evidence>>

ReadProposal(w) ==
    /\ pc[w] = "entered"
    /\ status[job[w]] # "EXPIRED"
    /\ saw' = [saw EXCEPT ![w] = status[job[w]]]
    /\ pc' = [pc EXCEPT ![w] = "policy"]
    /\ UNCHANGED <<vars, job, reply, exchange, evidence>>

\* validate_claim, authorization, readiness and the risk of an entry.
PolicyAccepts(w) ==
    /\ pc[w] = "policy"
    /\ saw[w] = "PENDING"
    /\ expires[job[w]] > now
    /\ Go(w, "claiming")
    /\ UNCHANGED <<vars, exchange, evidence>>

PolicyRefuses(w) ==
    /\ pc[w] = "policy"
    /\ saw[w] = "PENDING"
    /\ Go(w, "refusing")
    /\ UNCHANGED <<vars, exchange, evidence>>

\* _policy_reject, which also ends a claim that another press has made meanwhile.
PolicyReject(w) ==
    /\ pc[w] = "refusing"
    /\ RejectByPolicy(job[w])
    /\ Leave(w)
    /\ UNCHANGED <<exchange, evidence>>

\* Mutant: does not ask whether the proposal is still pending.
ClaimAgain(w) ==
    /\ pc[w] = "claiming"
    /\ Approve(job[w], w, now, now)
    /\ Go(w, "claimed")
    /\ UNCHANGED <<exchange, evidence>>

Claim(w) ==
    /\ pc[w] = "claiming"
    /\ \E l, d, t \in Time : ClaimProposal(job[w], w, l, d, t)
    /\ Go(w, "claimed")
    /\ UNCHANGED <<exchange, evidence>>

(***************************************************************************)
(* Executing: execute_live up to the write.                                *)
(***************************************************************************)
\* What _verify_execution_lease asks of the row.
LeaseInForce(w) == Holds(job[w], w) /\ leaseEnd[job[w]] > now

VerifyLease(w) ==
    /\ pc[w] = "claimed"
    /\ LeaseInForce(w)
    /\ Go(w, "leased")
    /\ UNCHANGED <<vars, exchange, evidence>>

\* Not authorized, disabled or unarmed; or the owner gives the claim up.
FailBeforeWrite(w) ==
    /\ pc[w] = "leased"
    /\ FailExecution(job[w], w)
    /\ Leave(w)
    /\ UNCHANGED <<exchange, evidence>>

\* _revalidate_live_buy_entry refuses an entry.
Refuse(w) ==
    /\ pc[w] = "leased"
    /\ job[w] \in Entries
    /\ RejectByPolicy(job[w])
    /\ Leave(w)
    /\ UNCHANGED <<exchange, evidence>>

Checked(w) ==
    /\ pc[w] = "leased"
    /\ Go(w, "checked")
    /\ UNCHANGED <<vars, exchange, evidence>>

\* execute and execute_partial_exit.  The write, or a read before it, may fail
\* on the way; what arrives may be answered or not; and the answer must be
\* usable, which for a sale means FILLED.  (Of a cancellation: done.)
Send(w) ==
    /\ pc[w] = "checked"
    /\ \/ /\ Hears(w, "sent", "lost")
          /\ UNCHANGED exchange
       \/ \E s \in Live :
            /\ order' = [order EXCEPT ![job[w]] = s]
            /\ writes' = [writes EXCEPT ![job[w]] = @ + 1]
            /\ \/ Hears(w, "sent", "lost")
               \/ /\ job[w] \in Entries \cup Restores \/ s = "FILLED"
                  /\ Hears(w, "sent", s)
    /\ UNCHANGED <<vars, evidence>>

(***************************************************************************)
(* Executing: what execute_live makes of the answer.                       *)
(***************************************************************************)
\* Mutant: a transport error counts as a rejection.
LostMeansFailed(w) ==
    /\ pc[w] = "uncertain"
    /\ FailExecution(job[w], w)
    /\ Leave(w)
    /\ UNCHANGED <<exchange, evidence>>

\* uncertain_execution verifies the lease again ...
Uncertain(w) ==
    /\ pc[w] \in {"leased", "sent"}
    /\ pc[w] = "sent" => reply[w] = "lost"
    /\ LeaseInForce(w)
    /\ Go(w, "uncertain")
    /\ UNCHANGED <<vars, exchange, evidence>>

\* ... before it records the outcome.
RecordUncertain(w) ==
    /\ pc[w] = "uncertain"
    /\ FinishExecution(job[w], w, "RECONCILE", "OTHER")
    /\ Leave(w)
    /\ UNCHANGED <<exchange, evidence>>

\* The open orders are read after a cancellation: the list is gone, it is still
\* there, or the read fails, which nobody handles.
ReadBack(w) ==
    /\ pc[w] = "sent" /\ reply[w] # "lost" /\ job[w] \in Cancels
    /\ \/ Go(w, "answered")
       \/ Hears(w, "sent", "lost")
       \/ Go(w, "raised")
    /\ UNCHANGED <<vars, exchange, evidence>>

PhaseFor(s) ==
    IF s \in {"FILLED", "PARTIALLY_FILLED"} THEN "FILLED" ELSE "SUBMITTED"

\* _persist_live_execution_evidence: one event per order and phase.
Persist(p, s) ==
    phase' = [phase EXCEPT ![p] =
                IF @ = "FILLED" THEN @ ELSE PhaseFor(s)]

RecordEvidence(w) ==
    /\ pc[w] = "sent" /\ reply[w] # "lost" /\ job[w] \in Entries \cup Sells
    /\ Persist(job[w], reply[w])
    /\ Go(w, "evidenced")
    /\ UNCHANGED <<vars, exchange, fill>>

EvidenceFails(w) ==
    /\ pc[w] = "sent" /\ reply[w] # "lost" /\ job[w] \in Entries \cup Sells
    /\ FinishExecution(job[w], w, "RECONCILE", "OTHER")
    /\ Leave(w)
    /\ UNCHANGED <<exchange, evidence>>

\* An entry without a verified fill waits for the reconciler.
RecordSubmitted(w) ==
    /\ pc[w] = "evidenced"
    /\ job[w] \in Entries
    /\ reply[w] \in {"NEW", "PARTIALLY_FILLED"}
    /\ RecordExecutionSubmitted(job[w], w)
    /\ Leave(w)
    /\ UNCHANGED <<exchange, evidence>>

\* What the response calls the execution: the list status of a protected order,
\* which the ledger stores as it is, the status of a sale, nothing for a cancel.
Named(p) ==
    IF p \in Sells THEN {"FILLED"}
    ELSE IF p \in Cancels THEN {"OTHER"}
    ELSE {"EXEC_STARTED", "OTHER"}

\* A fill, verified or, when complete, without provenance.
FinishFilled(w) ==
    /\ pc[w] = "evidenced"
    /\ reply[w] \in {"FILLED", "PARTIALLY_FILLED"}
    /\ \E x \in Named(job[w]) : FinishExecution(job[w], w, "EXECUTED", x)
    /\ \/ Go(w, "filling")
       \/ reply[w] = "FILLED" /\ Leave(w)
    /\ UNCHANGED <<exchange, evidence>>

\* Cancellations and restored protection have no fill, and the answer to any
\* other write may lack the order itself.
FinishUnreported(w) ==
    /\ \/ pc[w] = "answered"
       \/ pc[w] = "sent" /\ reply[w] # "lost" /\ job[w] \notin Cancels
    /\ \E x \in Named(job[w]) : FinishExecution(job[w], w, "EXECUTED", x)
    /\ Leave(w)
    /\ UNCHANGED <<exchange, evidence>>

\* _persist_live_risk_fill; when it fails the call ends (Stop).
RecordFill(w) ==
    /\ pc[w] = "filling"
    /\ fill' = [fill EXCEPT ![job[w]] = TRUE]
    /\ Leave(w)
    /\ UNCHANGED <<vars, exchange, phase>>

\* The ledger refuses an outcome whose claim is gone, and uncertain_execution
\* one whose lease has run out.
Raise(w) ==
    /\ \/ pc[w] \in {"uncertain", "answered", "evidenced"} /\ ~ Holds(job[w], w)
       \/ pc[w] = "sent" /\ reply[w] = "lost" /\ ~ LeaseInForce(w)
    /\ Go(w, "raised")
    /\ UNCHANGED <<vars, exchange, evidence>>

(***************************************************************************)
(* Reconciling: the owner's reconcile_live_execution.                      *)
(***************************************************************************)
\* _is_unresolved_live_execution.
Unresolved(p) ==
    /\ exec[p] = "EXEC_STARTED"
    /\ status[p] \notin {"REJECTED", "FAILED", "EXPIRED", "RECONCILE"}
    /\ phase[p] = "SUBMITTED"
    /\ ~ fill[p]

BeginReconcile(w, p) ==
    /\ pc[w] = "off"
    /\ Unresolved(p)
    /\ Enter(w, "asking", p)
    /\ UNCHANGED <<vars, exchange, evidence>>

\* The exchange names the order's status, or one the code does not know.
AskExchange(w) ==
    /\ pc[w] = "asking"
    /\ \E r \in {order[job[w]], "UNKNOWN"} : Hears(w, "learned", r)
    /\ UNCHANGED <<vars, exchange, evidence>>

RecordLearned(w) ==
    /\ pc[w] = "learned"
    /\ Persist(job[w], reply[w])
    /\ IF reply[w] \in {"NEW", "PARTIALLY_FILLED"}
       THEN Leave(w) ELSE Go(w, "concluding")
    /\ UNCHANGED <<vars, exchange, fill>>

\* Mutant: takes an order it does not understand for a filled one.
ConcludeAnything(w) ==
    /\ pc[w] = "concluding"
    /\ FinishUnresolved(job[w], "EXECUTED", "FILLED")
    /\ Go(w, "filling")
    /\ UNCHANGED <<exchange, evidence>>

Conclude(w) ==
    /\ pc[w] = "concluding"
    /\ \/ /\ reply[w] = "FILLED"
          /\ FinishUnresolved(job[w], "EXECUTED", "FILLED")
          /\ Go(w, "filling") \/ Leave(w)
       \/ /\ reply[w] # "FILLED"
          /\ FinishUnresolved(job[w], "RECONCILE", "OTHER")
          /\ Leave(w)
    /\ UNCHANGED <<exchange, evidence>>

\* mark_live_execution_unreconcilable reads the row and the evidence ...
BeginMark(w, p) ==
    /\ pc[w] = "off"
    /\ exec[p] = "EXEC_STARTED" /\ phase[p] = "SUBMITTED" /\ ~ fill[p]
    /\ Enter(w, "marking", p)
    /\ UNCHANGED <<vars, exchange, evidence>>

\* ... and marks it in another transaction.
Mark(w) ==
    /\ pc[w] = "marking"
    /\ MarkUnreconcilable(job[w])
    /\ Leave(w)
    /\ UNCHANGED <<exchange, evidence>>

(***************************************************************************)
(* The next-state relation.                                                *)
(***************************************************************************)
ProcessStep(w) ==
    \/ \E p \in LiveProposals :
         \/ BeginApproval(w, p)
         \/ BeginReconcile(w, p)
         \/ BeginMark(w, p)
    \/ ReadProposal(w)
    \/ PolicyAccepts(w)
    \/ PolicyRefuses(w)
    \/ PolicyReject(w)
    \/ Claim(w)
    \/ VerifyLease(w)
    \/ FailBeforeWrite(w)
    \/ Refuse(w)
    \/ Checked(w)
    \/ Send(w)
    \/ Uncertain(w)
    \/ RecordUncertain(w)
    \/ ReadBack(w)
    \/ RecordEvidence(w)
    \/ EvidenceFails(w)
    \/ RecordSubmitted(w)
    \/ FinishFilled(w)
    \/ FinishUnreported(w)
    \/ RecordFill(w)
    \/ Raise(w)
    \/ AskExchange(w)
    \/ RecordLearned(w)
    \/ Conclude(w)
    \/ Mark(w)
    \/ Stop(w)

\* An order at the exchange fills or is canceled there.
OrderMoves(p) ==
    /\ \/ order[p] = "NEW"
          /\ \E s \in {"PARTIALLY_FILLED", "FILLED", "CANCELED"} :
                order' = [order EXCEPT ![p] = s]
       \/ order[p] = "PARTIALLY_FILLED"
          /\ \E s \in {"FILLED", "CANCELED"} : order' = [order EXCEPT ![p] = s]
    /\ UNCHANGED <<vars, locals, writes, evidence>>

\* Scans propose, the owner rejects, the authorization ends.
Surroundings ==
    \/ Tick
    \/ \E c \in Candidates : CreateCandidate(c)
    \/ \E p \in LiveProposals :
         \/ \E c \in Candidates : CreateProposal(p, c)
         \/ RejectProposal(p)
    \/ InvalidatePendingLiveEntries

LiveNext ==
    \/ \E w \in Workers : ProcessStep(w)
    \/ \E p \in LiveProposals : OrderMoves(p)
    \/ Surroundings /\ UNCHANGED <<locals, exchange, evidence>>

LiveSpec == LiveInit /\ [][LiveNext]_liveVars

-----------------------------------------------------------------------------
(***************************************************************************)
(* Properties.                                                             *)
(***************************************************************************)
\* LIVE_EXECUTION_SETUP.md:83: a write is never retried.  However approvals
\* race, crash, time out and reconcile, an approval reaches the exchange once.
OneWritePerApproval == \A p \in LiveProposals : writes[p] <= 1

\* What the ledger claims of an order is true at the exchange: EXECUTED has an
\* order, FAILED has none, and FILLED is filled.
OutcomeMatchesExchange ==
    \A p \in LiveProposals :
        /\ status[p] = "EXECUTED" => order[p] # "none"
        /\ status[p] = "FAILED" => order[p] = "none"
        /\ exec[p] = "FILLED" => order[p] = "FILLED"

\* A fill enters the accounting only behind evidence of a fill, and only of an
\* order that has traded, by whichever of the two paths it comes.
FillIsEvidenced ==
    \A p \in LiveProposals :
        fill[p] => phase[p] = "FILLED" /\ order[p] \notin {"none", "NEW"}

=============================================================================
