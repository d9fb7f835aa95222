--------------------------- MODULE LiveEntryProofs ---------------------------
(***************************************************************************)
(* Theorems about a LIVE entry, for every value of the constants: each     *)
(* approval is written to the exchange at most once (LiveExecution); its   *)
(* terms stay within the limits, agree with the evaluator and can be       *)
(* approved (LiveSizing); and the loss of its session is that of the units *)
(* it sold (SessionLoss).                                                  *)
(***************************************************************************)
EXTENDS LiveExecution, LiveSizing, SessionLoss, ProposalLedgerProofs, SequenceTheorems

-----------------------------------------------------------------------------
(***************************************************************************)
(* Every step of a process is one of the ledger's, so what is proved of    *)
(* the ledger holds here.                                                  *)
(***************************************************************************)

\* A process that is at work has a LIVE proposal in hand.
JobInv ==
    /\ pc \in [Workers -> Pc]
    /\ job \in [Workers -> LiveProposals \cup {None}]
    /\ \A w \in Workers : pc[w] # "off" => job[w] \in LiveProposals

\* Every step keeps that.
LEMMA JobStep == JobInv /\ [LiveNext]_liveVars => JobInv'
<1> SUFFICES ASSUME JobInv, [LiveNext]_liveVars PROVE JobInv'
  OBVIOUS
<1> USE DEF JobInv, Pc, locals
<1>1. ASSUME NEW w \in Workers, ProcessStep(w) PROVE JobInv'
  <2>1. ASSUME NEW p \in LiveProposals,
               BeginApproval(w, p) \/ BeginReconcile(w, p) \/ BeginMark(w, p)
        PROVE  JobInv'
    BY <2>1 DEF BeginApproval, BeginReconcile, BeginMark, Enter
  <2>2. CASE \/ ReadProposal(w) \/ PolicyAccepts(w) \/ PolicyRefuses(w)
             \/ PolicyReject(w) \/ Claim(w) \/ VerifyLease(w)
    BY <2>2 DEF ReadProposal, PolicyAccepts, PolicyRefuses, PolicyReject, Claim,
       VerifyLease, Go, Leave
  <2>3. CASE \/ FailBeforeWrite(w) \/ Refuse(w) \/ Checked(w) \/ Send(w)
             \/ Uncertain(w) \/ RecordUncertain(w) \/ ReadBack(w)
    BY <2>3 DEF FailBeforeWrite, Refuse, Checked, Send, Uncertain,
       RecordUncertain, ReadBack, Go, Leave, Hears
  <2>4. CASE \/ RecordEvidence(w) \/ EvidenceFails(w) \/ RecordSubmitted(w)
             \/ FinishFilled(w) \/ FinishUnreported(w) \/ RecordFill(w)
    BY <2>4 DEF RecordEvidence, EvidenceFails, RecordSubmitted, FinishFilled,
       FinishUnreported, RecordFill, Go, Leave
  <2>5. CASE \/ Raise(w) \/ AskExchange(w) \/ RecordLearned(w) \/ Conclude(w)
             \/ Mark(w) \/ Stop(w)
    BY <2>5 DEF Raise, AskExchange, RecordLearned, Conclude, Mark, Stop, Go,
       Leave, Hears
  <2> QED BY <1>1, <2>1, <2>2, <2>3, <2>4, <2>5 DEF ProcessStep
<1>2. ASSUME NEW p \in LiveProposals, OrderMoves(p) PROVE JobInv'
  BY <1>2 DEF OrderMoves
<1>3. CASE UNCHANGED locals
  BY <1>3
<1> QED BY <1>1, <1>2, <1>3 DEF LiveNext, liveVars

\* So it always holds.
LEMMA JobCorrect == LiveSpec => []JobInv
<1>1. LiveInit => JobInv
  BY DEF LiveInit, JobInv, Pc
<1> QED BY <1>1, JobStep, PTL DEF LiveSpec

\* Each step is a step of the ledger, or none.
LEMMA LiveStepIsLedgerStep == JobInv /\ [LiveNext]_liveVars => [Next]_vars
<1> SUFFICES ASSUME JobInv, [LiveNext]_liveVars PROVE Next \/ UNCHANGED vars
  OBVIOUS
<1> USE DEF JobInv
<1>0. LiveProposals \subseteq Proposals
  BY DEF Proposals
<1>1. ASSUME NEW w \in Workers, ProcessStep(w) PROVE Next \/ UNCHANGED vars
  <2>1. ASSUME NEW p \in LiveProposals,
               BeginApproval(w, p) \/ BeginReconcile(w, p) \/ BeginMark(w, p)
        PROVE  Next \/ UNCHANGED vars
    BY <2>1 DEF BeginApproval, BeginReconcile, BeginMark, Next, TableStep
  <2>2. CASE \/ ReadProposal(w) \/ PolicyAccepts(w) \/ PolicyRefuses(w)
             \/ VerifyLease(w) \/ Checked(w) \/ Send(w) \/ Uncertain(w)
             \/ ReadBack(w) \/ RecordEvidence(w) \/ RecordFill(w) \/ Raise(w)
             \/ AskExchange(w) \/ RecordLearned(w) \/ Stop(w)
    BY <2>2 DEF ReadProposal, PolicyAccepts, PolicyRefuses, VerifyLease, Checked,
       Send, Uncertain, ReadBack, RecordEvidence, RecordFill, Raise, AskExchange,
       RecordLearned, Stop
  <2>3. CASE PolicyReject(w) \/ Refuse(w)
    BY <1>0, <2>3 DEF PolicyReject, Refuse, Next, RowStep
  <2>4. CASE Claim(w)
    BY <1>0, <2>4 DEF Claim, Next, LeaseStep
  <2>5. CASE FailBeforeWrite(w)
    BY <1>0, <2>5 DEF FailBeforeWrite, Next, LeaseStep
  <2>6. CASE RecordUncertain(w) \/ EvidenceFails(w)
    BY <1>0, <2>6 DEF RecordUncertain, EvidenceFails, Next, LeaseStep
  <2>7. CASE RecordSubmitted(w)
    BY <1>0, <2>7 DEF RecordSubmitted, Next, LeaseStep
  <2>8. CASE FinishFilled(w) \/ FinishUnreported(w)
    BY <1>0, <2>8 DEF FinishFilled, FinishUnreported, Named, Next, LeaseStep
  <2>9. CASE Conclude(w)
    BY <1>0, <2>9 DEF Conclude, Next, RowStep
  <2>10. CASE Mark(w)
    BY <1>0, <2>10 DEF Mark, Next, RowStep
  <2> QED
    BY <1>1, <2>1, <2>2, <2>3, <2>4, <2>5, <2>6, <2>7, <2>8, <2>9, <2>10
    DEF ProcessStep
<1>2. ASSUME NEW p \in LiveProposals, OrderMoves(p) PROVE UNCHANGED vars
  BY <1>2 DEF OrderMoves
<1>3. CASE Surroundings
  BY <1>0, <1>3 DEF Surroundings, Next, CandidateStep, TableStep, RowStep
<1>4. CASE UNCHANGED liveVars
  BY <1>4 DEF liveVars
<1> QED BY <1>1, <1>2, <1>3, <1>4 DEF LiveNext

\* The laws of the ledger hold of the processes.
LEMMA LiveIsLedger == LiveSpec => Spec
<1>1. LiveInit => Init
  BY DEF LiveInit
<1> QED
  BY <1>1, JobCorrect, LiveStepIsLedgerStep, PTL DEF LiveSpec, Spec

-----------------------------------------------------------------------------
(***************************************************************************)
(* One write for each approval, and an outcome the exchange confirms.  The *)
(* invariant says of a process before its write that nobody else works on  *)
(* the claim and nothing was sent, and of a process that has heard from    *)
(* the exchange that the order is still what it heard, or further.         *)
(***************************************************************************)
BeforeWrite == {"claimed", "leased", "checked"}

LiveType ==
    /\ reply \in [Workers -> Reply \cup OrderStatus]
    /\ order \in [LiveProposals -> OrderStatus]
    /\ writes \in [LiveProposals -> {0, 1}]
    /\ phase \in [LiveProposals -> {None, "SUBMITTED", "FILLED"}]
    /\ fill \in [LiveProposals -> BOOLEAN]

Traded(p) == order[p] \notin {"none", "NEW"}

WorkerInv(w) ==
    /\ pc[w] \in BeforeWrite =>
         /\ approvedAt[job[w]] # None
         /\ writes[job[w]] = 0
         /\ status[job[w]] # "FAILED"
         /\ \A v \in Workers :
               pc[v] \in BeforeWrite /\ job[v] = job[w] => v = w
    /\ pc[w] \in {"sent", "answered", "evidenced"} /\ reply[w] # "lost" =>
         /\ reply[w] \in Live
         /\ order[job[w]] # "none"
         /\ reply[w] # "NEW" => Traded(job[w])
         /\ reply[w] = "FILLED" => order[job[w]] = "FILLED"
         /\ job[w] \in Sells \cup Cancels => reply[w] = "FILLED"
    /\ pc[w] \in {"answered", "evidenced"} => reply[w] # "lost"
    /\ pc[w] = "evidenced" /\ reply[w] \in {"FILLED", "PARTIALLY_FILLED"}
         => phase[job[w]] = "FILLED"
    /\ pc[w] \in {"learned", "concluding"} /\ reply[w] = "FILLED"
         => order[job[w]] = "FILLED"
    /\ pc[w] = "concluding" /\ reply[w] = "FILLED" => phase[job[w]] = "FILLED"
    /\ pc[w] = "filling" => phase[job[w]] = "FILLED" /\ Traded(job[w])

OrderInv(p) ==
    /\ writes[p] = 0 <=> order[p] = "none"
    /\ writes[p] # 0 => approvedAt[p] # None
    /\ status[p] = "EXECUTED" => order[p] # "none"
    /\ status[p] = "FAILED" => order[p] = "none"
    /\ exec[p] = "FILLED" => order[p] = "FILLED"
    /\ fill[p] => phase[p] = "FILLED" /\ Traded(p)

LiveInv ==
    /\ LiveType
    /\ \A w \in Workers : WorkerInv(w)
    /\ \A p \in LiveProposals : OrderInv(p)

\* What steps of others mean to a LIVE proposal: none executes or fails.
QuietFor(p) ==
    /\ status'[p] \in {status[p], "PENDING", "EXPIRED", "REJECTED"}
    /\ exec'[p] = exec[p]
    /\ approvedAt'[p] = approvedAt[p]

LEMMA OthersAreQuiet ==
    ASSUME TypeOK, Housekeep \/ Surroundings, NEW p \in LiveProposals
    PROVE  QuietFor(p)
<1> USE LedgerAssumption
    DEF TypeOK, QuietFor, candidates, terms, leases, outcome, account, Proposals
<1>1. CASE Housekeep
  BY <1>1 DEF Housekeep, HousekeptStatus, RecoverLostColumns, Lost
<1>2. CASE Tick \/ InvalidatePendingLiveEntries
  BY <1>2 DEF Tick, InvalidatePendingLiveEntries, SetStatusOf
<1>3. ASSUME NEW c \in Candidates, CreateCandidate(c) PROVE QuietFor(p)
  BY <1>3 DEF CreateCandidate
<1>4. ASSUME NEW q \in LiveProposals, NEW c \in Candidates, CreateProposal(q, c)
      PROVE  QuietFor(p)
  BY <1>4 DEF CreateProposal, HousekeptStatus, RecoverLostColumns, Lost
<1>5. ASSUME NEW q \in LiveProposals, RejectProposal(q) PROVE QuietFor(p)
  BY <1>5 DEF RejectProposal, SetStatus
<1> QED BY <1>1, <1>2, <1>3, <1>4, <1>5 DEF Surroundings

\* A step that leaves the processes, the exchange and the evidence alone, or only
\* sends a process on its way.
LEMMA QuietStepKeeps ==
    ASSUME LiveInv, JobInv, UNCHANGED <<exchange, evidence>>,
           \A p \in LiveProposals : QuietFor(p),
           NEW w \in Workers,
           \/ UNCHANGED locals
           \/ Leave(w)
           \/ \E p \in LiveProposals :
                \E label \in {"entered", "asking", "marking"} : Enter(w, label, p)
    PROVE  LiveInv'
BY DEF LiveInv, LiveType, JobInv, WorkerInv, OrderInv, Traded, QuietFor, BeforeWrite,
       locals, exchange, evidence, Leave, Enter, Reply

\* Approving: only a claim gives a process the right to write.
LEMMA ApprovalKeeps ==
    ASSUME LiveInv, JobInv, TypeOK, LedgerInv, NEW w \in Workers,
           \/ ReadProposal(w) \/ PolicyAccepts(w) \/ PolicyRefuses(w)
           \/ PolicyReject(w) \/ Claim(w)
    PROVE  LiveInv'
<1> USE DEF LiveInv, LiveType, JobInv, WorkerInv, OrderInv, Traded, BeforeWrite,
        exchange, evidence
<1>1. CASE ReadProposal(w) \/ PolicyAccepts(w) \/ PolicyRefuses(w)
  BY <1>1 DEF ReadProposal, PolicyAccepts, PolicyRefuses, Go, vars, terms, leases,
     outcome
<1>2. CASE PolicyReject(w)
  <2>1. \A p \in LiveProposals : QuietFor(p)
    BY <1>2 DEF PolicyReject, RejectByPolicy, EndWithoutLease, QuietFor, TypeOK,
       outcome, Proposals
  <2> QED BY <1>2, <2>1, QuietStepKeeps DEF PolicyReject
<1>3. CASE Claim(w)
  <2>1. PICK l \in Time, d \in Time, t \in Time : ClaimProposal(job[w], w, l, d, t)
    BY <1>3 DEF Claim
  <2>2. /\ job[w] \in LiveProposals
        /\ approvedAt[job[w]] = None
    BY <1>3, <2>1 DEF Claim, ClaimProposal, Claimable, LedgerInv, RowInv, Proposals
  <2>3. /\ t # None
        /\ approvedAt' = [approvedAt EXCEPT ![job[w]] = t]
        /\ status' = [status EXCEPT ![job[w]] = "EXECUTING"]
        /\ exec' = exec
    BY <2>1, NoneAssumption DEF ClaimProposal, Approve, Time, outcome
  <2>4. /\ UNCHANGED <<job, reply, order, writes, phase, fill>>
        /\ pc' = [pc EXCEPT ![w] = "claimed"]
    BY <1>3 DEF Claim, Go
  <2>5. /\ approvedAt \in [Proposals -> Time \cup {None}]
        /\ status \in [Proposals -> Status]
        /\ LiveProposals \subseteq Proposals
    BY DEF TypeOK, Proposals
  <2>6. \A p \in LiveProposals : OrderInv(p)'
    BY <2>2, <2>3, <2>4, <2>5
  <2>7. \A v \in Workers : WorkerInv(v)'
    BY <2>2, <2>3, <2>4, <2>5
  <2> QED BY <2>4, <2>6, <2>7
<1> QED BY <1>1, <1>2, <1>3

\* Executing up to the write: the one that sends has sent nothing before.
LEMMA WriteKeeps ==
    ASSUME LiveInv, JobInv, TypeOK, LedgerInv, NEW w \in Workers,
           \/ VerifyLease(w) \/ FailBeforeWrite(w) \/ Refuse(w) \/ Checked(w)
           \/ Send(w)
    PROVE  LiveInv'
<1> USE DEF LiveInv, LiveType, JobInv, WorkerInv, OrderInv, Traded, BeforeWrite,
        exchange, evidence
<1>1. CASE VerifyLease(w) \/ Checked(w)
  BY <1>1 DEF VerifyLease, Checked, Go, vars, leases, outcome
<1>2. CASE Refuse(w)
  <2>1. \A p \in LiveProposals : QuietFor(p)
    BY <1>2 DEF Refuse, RejectByPolicy, EndWithoutLease, QuietFor, TypeOK, outcome,
       Proposals
  <2> QED BY <1>2, <2>1, QuietStepKeeps DEF Refuse
<1>3. CASE FailBeforeWrite(w)
  <2>1. /\ status' = [status EXCEPT ![job[w]] = "FAILED"]
        /\ UNCHANGED <<approvedAt, exec>>
    BY <1>3 DEF FailBeforeWrite, FailExecution, EndWithoutLease, outcome
  <2>2. /\ status \in [Proposals -> Status]
        /\ LiveProposals \subseteq Proposals
    BY DEF TypeOK, Proposals
  <2> QED BY <1>3, <2>1, <2>2 DEF FailBeforeWrite, Leave, Reply
<1>4. CASE Send(w)
  <2>1. UNCHANGED <<status, approvedAt, exec, job, phase, fill>>
    BY <1>4 DEF Send, Hears, vars, outcome
  <2>2. CASE Hears(w, "sent", "lost") /\ UNCHANGED exchange
    BY <1>4, <2>1, <2>2 DEF Send, Hears, Reply
  <2>3. ASSUME NEW s \in Live,
               /\ order' = [order EXCEPT ![job[w]] = s]
               /\ writes' = [writes EXCEPT ![job[w]] = @ + 1],
               \/ Hears(w, "sent", "lost")
               \/ /\ job[w] \in Entries \cup Restores \/ s = "FILLED"
                  /\ Hears(w, "sent", s)
        PROVE  LiveInv'
    <3>1. pc[w] = "checked" /\ job[w] \in LiveProposals /\ writes[job[w]] = 0
      BY <1>4 DEF Send
    <3>2. LiveType'
      BY <2>1, <2>3, <3>1 DEF Hears, Reply, Live, OrderStatus
    <3>3. \A p \in LiveProposals : OrderInv(p)'
      BY <2>1, <2>3, <3>1 DEF Live
    <3>4. \A v \in Workers : WorkerInv(v)'
      BY <2>1, <2>3, <3>1, LiveAssumption DEF Hears, Live, Entries, Sells, Reply
    <3> QED BY <3>2, <3>3, <3>4
  <2> QED BY <1>4, <2>2, <2>3 DEF Send
<1> QED BY <1>1, <1>2, <1>3, <1>4

\* Executing after the write: what is recorded is what was heard.
LEMMA AnswerKeeps ==
    ASSUME LiveInv, JobInv, TypeOK, LedgerInv, NEW w \in Workers,
           \/ Uncertain(w) \/ RecordUncertain(w) \/ ReadBack(w)
           \/ RecordEvidence(w) \/ EvidenceFails(w) \/ RecordSubmitted(w)
           \/ FinishFilled(w) \/ FinishUnreported(w) \/ RecordFill(w)
           \/ Raise(w) \/ Stop(w)
    PROVE  LiveInv'
<1> USE DEF LiveInv, LiveType, JobInv, WorkerInv, OrderInv, Traded, BeforeWrite,
        exchange, evidence
<1>1. /\ status \in [Proposals -> Status]
      /\ exec \in [Proposals -> ExecutionStatus]
      /\ LiveProposals \subseteq Proposals
  BY DEF TypeOK, Proposals
<1>2. CASE Uncertain(w) \/ Raise(w)
  BY <1>2 DEF Uncertain, Raise, Go, vars, leases, outcome
<1>3. CASE ReadBack(w)
  BY <1>3 DEF ReadBack, Go, Hears, Reply, vars, leases, outcome
<1>4. CASE RecordUncertain(w) \/ EvidenceFails(w)
  <2>1. /\ status' = [status EXCEPT ![job[w]] = "RECONCILE"]
        /\ exec' = [exec EXCEPT ![job[w]] = "OTHER"]
        /\ UNCHANGED approvedAt
    BY <1>4 DEF RecordUncertain, EvidenceFails, FinishExecution, Finish
  <2> QED BY <1>1, <1>4, <2>1 DEF RecordUncertain, EvidenceFails, Leave, Reply
<1>5. CASE RecordEvidence(w)
  BY <1>5 DEF RecordEvidence, Persist, PhaseFor, Go, vars, leases, outcome, Live
<1>6. CASE RecordSubmitted(w)
  <2>1. /\ exec' = [exec EXCEPT ![job[w]] = "EXEC_STARTED"]
        /\ UNCHANGED <<status, approvedAt>>
    BY <1>6 DEF RecordSubmitted, RecordExecutionSubmitted
  <2> QED BY <1>1, <1>6, <2>1 DEF RecordSubmitted, Leave, Reply
<1>7. CASE FinishFilled(w) \/ FinishUnreported(w)
  <2>1. PICK x \in Named(job[w]) :
           /\ status' = [status EXCEPT ![job[w]] = "EXECUTED"]
           /\ exec' = [exec EXCEPT ![job[w]] = x]
           /\ UNCHANGED approvedAt
    BY <1>7 DEF FinishFilled, FinishUnreported, FinishExecution, Finish
  <2>2. /\ pc[w] \in {"sent", "answered", "evidenced"}
        /\ reply[w] # "lost"
    BY <1>7 DEF FinishFilled, FinishUnreported
  <2>3. /\ order[job[w]] # "none"
        /\ x = "FILLED" => order[job[w]] = "FILLED"
    BY <2>2 DEF Named
  <2>4. \/ Leave(w)
        \/ Go(w, "filling") /\ phase[job[w]] = "FILLED" /\ Traded(job[w])
    BY <1>7, <2>2 DEF FinishFilled, FinishUnreported
  <2>5. UNCHANGED <<order, writes, phase, fill>>
    BY <1>7 DEF FinishFilled, FinishUnreported
  <2> QED BY <1>1, <2>1, <2>2, <2>3, <2>4, <2>5 DEF Go, Leave, Reply
<1>8. CASE RecordFill(w)
  BY <1>8 DEF RecordFill, Leave, Reply, vars, leases, outcome
<1>9. CASE Stop(w)
  <2>1. \A p \in LiveProposals : QuietFor(p)
    BY <1>9 DEF Stop, QuietFor, vars, outcome
  <2> QED BY <1>9, <2>1, QuietStepKeeps DEF Stop
<1> QED BY <1>2, <1>3, <1>4, <1>5, <1>6, <1>7, <1>8, <1>9

\* Reconciling: an order that the exchange calls filled stays so.
LEMMA ReconcileKeeps ==
    ASSUME LiveInv, JobInv, TypeOK, LedgerInv, NEW w \in Workers,
           AskExchange(w) \/ RecordLearned(w) \/ Conclude(w) \/ Mark(w)
    PROVE  LiveInv'
<1> USE DEF LiveInv, LiveType, JobInv, WorkerInv, OrderInv, Traded, BeforeWrite,
        exchange, evidence
<1>1. /\ status \in [Proposals -> Status]
      /\ exec \in [Proposals -> ExecutionStatus]
      /\ LiveProposals \subseteq Proposals
  BY DEF TypeOK, Proposals
<1>2. CASE AskExchange(w)
  BY <1>2 DEF AskExchange, Hears, OrderStatus, Reply, vars, leases, outcome
<1>3. CASE RecordLearned(w)
  BY <1>3 DEF RecordLearned, Persist, PhaseFor, Go, Leave, Reply, vars, leases,
     outcome
<1>4. CASE Conclude(w)
  <2>1. ASSUME reply[w] = "FILLED", FinishUnresolved(job[w], "EXECUTED", "FILLED"),
               Go(w, "filling") \/ Leave(w)
        PROVE  LiveInv'
    BY <1>1, <1>4, <2>1 DEF Conclude, FinishUnresolved, Finish, Go, Leave, Reply
  <2>2. ASSUME FinishUnresolved(job[w], "RECONCILE", "OTHER"), Leave(w)
        PROVE  LiveInv'
    BY <1>1, <1>4, <2>2 DEF Conclude, FinishUnresolved, Finish, Leave, Reply
  <2> QED BY <1>4, <2>1, <2>2 DEF Conclude
<1>5. CASE Mark(w)
  <2>1. /\ status' = [status EXCEPT ![job[w]] = "RECONCILE"]
        /\ exec' = [exec EXCEPT ![job[w]] = "RECONCILE"]
        /\ UNCHANGED approvedAt
    BY <1>5 DEF Mark, MarkUnreconcilable
  <2> QED BY <1>1, <1>5, <2>1 DEF Mark, Leave, Reply
<1> QED BY <1>2, <1>3, <1>4, <1>5

\* The exchange: an order only moves on.
LEMMA OrderMovesKeep ==
    ASSUME LiveInv, JobInv, NEW p \in LiveProposals, OrderMoves(p)
    PROVE  LiveInv'
BY DEF LiveInv, LiveType, JobInv, WorkerInv, OrderInv, Traded, BeforeWrite,
   OrderMoves, OrderStatus, Live, vars, locals, evidence, leases, outcome

\* Every step keeps the invariant.
LEMMA LiveInvStep ==
    TypeOK /\ LedgerInv /\ JobInv /\ LiveInv /\ [LiveNext]_liveVars => LiveInv'
<1> SUFFICES ASSUME TypeOK, LedgerInv, JobInv, LiveInv, [LiveNext]_liveVars
             PROVE  LiveInv'
  OBVIOUS
<1>1. ASSUME NEW w \in Workers, ProcessStep(w) PROVE LiveInv'
  <2>1. ASSUME NEW p \in LiveProposals, BeginApproval(w, p) PROVE LiveInv'
    <3>1. \A q \in LiveProposals : QuietFor(q)
      BY <2>1, OthersAreQuiet DEF BeginApproval
    <3> QED BY <2>1, <3>1, QuietStepKeeps DEF BeginApproval
  <2>2. ASSUME NEW p \in LiveProposals, BeginReconcile(w, p) \/ BeginMark(w, p)
        PROVE  LiveInv'
    <3>1. \A q \in LiveProposals : QuietFor(q)
      BY <2>2 DEF BeginReconcile, BeginMark, QuietFor, vars, outcome
    <3> QED BY <2>2, <3>1, QuietStepKeeps DEF BeginReconcile, BeginMark
  <2> QED
    BY <1>1, <2>1, <2>2, ApprovalKeeps, WriteKeeps, AnswerKeeps, ReconcileKeeps
    DEF ProcessStep
<1>2. ASSUME NEW p \in LiveProposals, OrderMoves(p) PROVE LiveInv'
  BY <1>2, OrderMovesKeep
<1>3. ASSUME Surroundings, UNCHANGED <<locals, exchange, evidence>> PROVE LiveInv'
  <2>1. \A p \in LiveProposals : QuietFor(p)
    BY <1>3, OthersAreQuiet
  <2> QED
    BY <1>3, <2>1 DEF LiveInv, LiveType, WorkerInv, OrderInv, Traded, QuietFor,
       BeforeWrite, JobInv, locals, exchange, evidence
<1>4. CASE UNCHANGED liveVars
  <2>1. \A p \in LiveProposals : QuietFor(p)
    BY <1>4 DEF QuietFor, liveVars, vars, outcome
  <2> QED
    BY <1>4, <2>1 DEF LiveInv, LiveType, WorkerInv, OrderInv, Traded, QuietFor,
       BeforeWrite, JobInv, liveVars, locals, exchange, evidence
<1> QED BY <1>1, <1>2, <1>3, <1>4 DEF LiveNext

\* The inductive invariant of the LIVE workflow holds in every reachable state.
THEOREM LiveInvariant == LiveSpec => []LiveInv
<1>1. LiveInit => LiveInv
  <2> SUFFICES ASSUME LiveInit PROVE LiveInv
    OBVIOUS
  <2>1. LiveType
    BY DEF LiveInit, LiveType, Reply, OrderStatus
  <2>2. ASSUME NEW w \in Workers PROVE WorkerInv(w)
    BY DEF LiveInit, WorkerInv, BeforeWrite
  <2>3. ASSUME NEW p \in LiveProposals PROVE OrderInv(p)
    BY NoneAssumption DEF LiveInit, Init, OrderInv, Proposals
  <2> QED BY <2>1, <2>2, <2>3 DEF LiveInv
<1> QED
  BY <1>1, LiveIsLedger, TypeCorrect, LedgerInvariant, JobCorrect,
     LiveInvStep, PTL DEF LiveSpec

\* A write is never repeated: an approval reaches the exchange at most once.
THEOREM WrittenOnce == LiveSpec => []OneWritePerApproval
<1>1. LiveInv => OneWritePerApproval
  BY DEF LiveInv, LiveType, OneWritePerApproval
<1> QED BY <1>1, LiveInvariant, PTL

\* The ledger claims no outcome that the exchange contradicts.
THEOREM OutcomesAreTrue == LiveSpec => []OutcomeMatchesExchange
<1>1. LiveInv => OutcomeMatchesExchange
  BY DEF LiveInv, OrderInv, OutcomeMatchesExchange
<1> QED BY <1>1, LiveInvariant, PTL

\* Only fills of which there is evidence enter the accounting.
THEOREM FillsAreEvidenced == LiveSpec => []FillIsEvidenced
<1>1. LiveInv => FillIsEvidenced
  BY DEF LiveInv, OrderInv, Traded, FillIsEvidenced
<1> QED BY <1>1, LiveInvariant, PTL

-----------------------------------------------------------------------------
(***************************************************************************)
(* The limits of an equity.                                                *)
(***************************************************************************)
\* A rate of an amount is whole, and rises with the amount.
LEMMA PartType ==
    ASSUME NEW rate \in Nat, NEW x \in Int
    PROVE  Part(x, rate) \in Int /\ (x \in Nat => Part(x, rate) \in Nat)
<1>1. x * rate \in Int /\ (x \in Nat => x * rate \in Nat)
  OBVIOUS
<1>2. \A z \in Int : z \div Whole \in Int /\ (z \in Nat => z \div Whole \in Nat)
  BY WholeAssumption
<1> QED BY <1>1, <1>2 DEF Part

LEMMA PartMonotone ==
    ASSUME NEW rate \in Nat, NEW x \in Int, NEW y \in Int, x <= y
    PROVE  Part(x, rate) <= Part(y, rate)
<1>1. x * rate \in Int /\ y * rate \in Int /\ x * rate <= y * rate
  OBVIOUS
<1> QED BY <1>1, WholeAssumption, DivisionMonotone DEF Part

\* What load_settings lets pass, by field.
LEMMA ConfigurationTypes ==
    ASSUME NEW s \in Configurations
    PROVE  /\ Whole \in Nat \ {0}
           /\ s.fee \in Nat /\ s.slippage \in Nat /\ s.slippageCap \in Nat
           /\ s.minStop \in Nat /\ s.maxStop \in Nat /\ s.minQuote \in Nat
           /\ s.maxQuotePerTrade \in Nat /\ s.maxDrift \in Nat
           /\ s.reserveRate \in Nat /\ s.reserveQuote \in Nat /\ s.liveReserve \in Nat
           /\ s.reference \in Nat \ {0} /\ s.rewardRisk \in Nat \ {0}
           /\ \A l \in MoneyLimits : s.rate[l] \in Nat
BY WholeAssumption, ConfigurationAssumption

LEMMA AccountTypes ==
    ASSUME NEW a \in Accounts
    PROVE  /\ a.free \in Nat /\ a.locked \in Nat /\ a.assets \in Nat
           /\ a.exposure \in Nat /\ a.posExposure \in Nat
           /\ a.risk \in Nat /\ a.posRisk \in Nat /\ a.positions \in Nat
           /\ Equity(a) \in Nat
BY ReadingAssumption DEF Equity

\* The absolute limits are integers; Absent is -1.
LEMMA HardTypes ==
    ASSUME NEW s \in Configurations
    PROVE  \A l \in MoneyLimits : HardLimits(s, "live")[l] \in Nat \cup {Absent}
<1> DEFINE h == s.hard["live"]
<1>1. /\ h \in [MoneyLimits \cup {"positions"} -> Nat \cup {Absent}]
      /\ s.maxQuotePerTrade \in Nat
  BY ConfigurationAssumption
<1>2. HardLimits(s, "live")
        = [h EXCEPT !["entry"] = Smaller(s.maxQuotePerTrade, h["entry"]),
                    !["weekly"] = h["weekly"]]
  BY DEF HardLimits
<1> HIDE DEF h
<1> QED BY <1>1, <1>2 DEF Smaller, Absent, MoneyLimits

\* The limits of an equity are integers and, where an absolute limit applies,
\* within it.
LEMMA LimitTypes ==
    ASSUME NEW s \in Configurations, NEW b \in Nat, NEW l \in MoneyLimits
    PROVE  /\ LimitsFor(s, "live", b)[l] \in Int
           /\ UsesBackstop(s) => \/ HardLimits(s, "live")[l] = Absent
                                 \/ LimitsFor(s, "live", b)[l] <= HardLimits(s, "live")[l]
<1> DEFINE cap == HardLimits(s, "live")[l]
           x   == Part(b, s.rate[l])
           y   == (cap * b) \div s.reference
<1>1. cap \in Nat \cup {Absent} /\ s.rate[l] \in Nat /\ s.reference \in Nat \ {0}
  BY HardTypes, ConfigurationTypes
<1>2. LimitsFor(s, "live", b)[l]
        = IF PercentageBased(s)
          THEN IF s.backstop /\ cap # Absent THEN Smaller(x, cap) ELSE x
          ELSE IF cap = Absent \/ s.policy = "legacy" \/ b >= s.reference
               THEN cap ELSE y
  BY DEF LimitsFor, PercentageLimits, AbsoluteLimits
<1>3. x \in Int
  <2>1. s.rate[l] \in Nat /\ b \in Int
    BY <1>1
  <2> QED BY <2>1, PartType
<1>4. y \in Int /\ (cap # Absent /\ ~ (b >= s.reference) => y <= cap)
  <2> HIDE DEF cap
  <2>1. cap \in Int /\ cap * b \in Int
    BY <1>1 DEF Absent
  <2>2. y \in Int /\ y * s.reference <= cap * b
    BY <1>1, <2>1, Division
  <2>3. ASSUME cap # Absent, ~ (b >= s.reference) PROVE y <= cap
    <3>1. cap \in Nat /\ b <= s.reference
      BY <1>1, <2>3
    <3>2. cap * b <= cap * s.reference
      BY <1>1, <3>1
    <3>3. cap * b \in Int /\ cap * s.reference \in Int /\ y * s.reference \in Int
      BY <1>1, <2>2, <3>1
    <3>4. y * s.reference <= cap * s.reference
      BY <2>2, <3>2, <3>3
    <3> HIDE DEF y
    <3> QED BY <1>1, <2>2, <3>1, <3>4
  <2> QED BY <2>2, <2>3
<1> HIDE DEF cap, x, y
<1> SUFFICES /\ LimitsFor(s, "live", b)[l] \in Int
             /\ UsesBackstop(s) => cap = Absent \/ LimitsFor(s, "live", b)[l] <= cap
  BY DEF cap
<1> QED BY <1>1, <1>2, <1>3, <1>4 DEF UsesBackstop, Smaller, Absent

\* Under a percentage policy more equity allows no less.
LEMMA LimitsMonotone ==
    ASSUME NEW s \in Configurations, PercentageBased(s),
           NEW b \in Nat, NEW c \in Nat, b <= c, NEW l \in MoneyLimits
    PROVE  LimitsFor(s, "live", b)[l] <= LimitsFor(s, "live", c)[l]
<1> DEFINE cap == HardLimits(s, "live")[l]
           x == Part(b, s.rate[l])
           y == Part(c, s.rate[l])
<1>1. cap \in Nat \cup {Absent} /\ x \in Int /\ y \in Int /\ x <= y
  <2>1. cap \in Nat \cup {Absent} /\ s.rate[l] \in Nat /\ b \in Int /\ c \in Int
    BY HardTypes, ConfigurationTypes
  <2> QED BY <2>1, PartType, PartMonotone
<1>2. /\ LimitsFor(s, "live", b)[l]
           = IF s.backstop /\ cap # Absent THEN Smaller(x, cap) ELSE x
      /\ LimitsFor(s, "live", c)[l]
           = IF s.backstop /\ cap # Absent THEN Smaller(y, cap) ELSE y
  BY DEF LimitsFor, PercentageLimits
<1> HIDE DEF cap, x, y
<1> QED BY <1>1, <1>2 DEF Smaller, Absent

\* The reserve is an integer.
LEMMA ReserveType ==
    ASSUME NEW s \in Configurations, NEW b \in Nat
    PROVE  Reserve(s, "live", b) \in Nat
<1>1. Part(b, s.reserveRate) \in Nat
  <2>1. s.reserveRate \in Nat /\ b \in Int
    BY ConfigurationTypes
  <2> QED BY <2>1, PartType
<1> QED BY <1>1, ConfigurationTypes DEF Reserve

-----------------------------------------------------------------------------
(***************************************************************************)
(* What the sizing and the evaluator accept.                               *)
(***************************************************************************)
\* The size of an entry, as the evaluator sees it.
FitsInSize(ctx, p) ==
    /\ ~ (p.requested <= 0)
    /\ ~ (p.requested > ctx.limits.entry)
    /\ WithinBuyingPower(ctx, p)
    /\ ~ (p.posExposure > ctx.limits.entry)
    /\ ~ (p.exposure > ctx.limits.exposure)
    /\ ~ (p.posRisk > ctx.limits.positionRisk)
    /\ ~ (\/ p.aggregate > ctx.limits.aggregateRisk
          \/ p.aggregate = Absent /\ ctx.a.risk >= ctx.limits.aggregateRisk)

LEMMA SizeVerdict ==
    ASSUME NEW ctx, NEW p
    PROVE  Reasons(ctx, p) \cap SizeReasons = {} <=> FitsInSize(ctx, p)
<1>1. Reasons(ctx, p) \cap SizeReasons = {} => FitsInSize(ctx, p)
  BY Zenon DEF Reasons, SizeReasons, FitsInSize
<1>2. ASSUME FitsInSize(ctx, p) PROVE Reasons(ctx, p) \cap SizeReasons = {}
  BY <1>2, SMTT(30) DEF Reasons, SizeReasons, FitsInSize
<1> QED BY <1>1, <1>2

\* An amount is within the safe one if what it adds is within what is left of
\* each limit.
LEMMA SafeAmount ==
    ASSUME NEW ctx, \A l \in MoneyLimits : ctx.limits[l] \in Int,
           ctx.a.risk \in Nat, ctx.a.posRisk \in Nat, ctx.a.exposure \in Nat,
           ctx.a.posExposure \in Nat, ctx.buying \in Nat,
           NEW entry \in Nat, NEW stop \in Int, stop < entry, NEW fee \in Nat,
           NEW quantity \in Nat, quantity * entry > 0
    PROVE  LET quote == quantity * entry
               risk  == quantity * (entry - stop)
           IN  quote <= SafeNotional(ctx, entry, stop, fee)
                 <=> /\ ctx.a.posExposure + quote <= ctx.limits.entry
                     /\ ctx.a.exposure + quote <= ctx.limits.exposure
                     /\ ctx.a.posRisk + risk <= ctx.limits.positionRisk
                     /\ ctx.a.risk + risk <= ctx.limits.aggregateRisk
                     /\ quote * (Whole + fee) <= ctx.buying * Whole
<1> DEFINE asNotional(risk) == (risk * entry) \div (entry - stop)
           quote == quantity * entry
           risk  == quantity * (entry - stop)
           L  == ctx.limits
           n1 == asNotional(L.positionRisk)
           n2 == L.entry
           n3 == NonNegative(L.entry - ctx.a.posExposure)
           n4 == NonNegative(L.exposure - ctx.a.exposure)
           n5 == asNotional(UsableRisk(ctx))
           n6 == CapitalCapacity(ctx.buying, fee)
<1>1. /\ L.positionRisk \in Int /\ L.entry \in Int
      /\ L.exposure \in Int /\ L.aggregateRisk \in Int
  BY DEF MoneyLimits
<1>2. quantity > 0 /\ entry > 0 /\ quote \in Nat \ {0} /\ risk \in Nat \ {0}
  <2>1. quantity # 0 /\ entry # 0
    OBVIOUS
  <2>2. quantity \in Nat \ {0} /\ entry \in Nat \ {0} /\ entry - stop \in Nat \ {0}
    BY <2>1
  <2>3. \A x, y \in Nat \ {0} : x * y \in Nat \ {0}
    OBVIOUS
  <2> QED BY <2>2, <2>3
<1>3. \A r \in Int : asNotional(r) \in Int /\ (quote <= asNotional(r) <=> risk <= r)
  <2> SUFFICES ASSUME NEW r \in Int
               PROVE  asNotional(r) \in Int /\ (quote <= asNotional(r) <=> risk <= r)
    OBVIOUS
  <2> DEFINE d == entry - stop
             re == r * entry
  <2>1. d \in Nat \ {0} /\ re \in Int /\ quote \in Int
    BY <1>2
  <2>2. re \div d \in Int /\ (quote <= re \div d <=> quote * d <= re)
    <3> HIDE DEF d, re, quote
    <3> QED BY <2>1, Division, AtMostQuotient
  <2>3. quote * d = risk * entry
    BY <2>1
  <2>4. risk * entry <= r * entry <=> risk <= r
    <3> HIDE DEF risk
    <3>1. risk \in Int /\ entry \in Nat \ {0}
      BY <1>2
    <3>2. ASSUME risk <= r PROVE risk * entry <= r * entry
      BY <3>1, <3>2
    <3>3. ASSUME r < risk PROVE r * entry < risk * entry
      BY <3>1, <3>3
    <3>4. risk * entry \in Int /\ r * entry \in Int
      BY <3>1
    <3>5. ~ (r < risk) => risk <= r
      BY <3>1
    <3>6. r * entry < risk * entry => ~ (risk * entry <= r * entry)
      BY <3>4
    <3> QED BY <3>2, <3>3, <3>5, <3>6
  <2> QED BY <2>2, <2>3, <2>4
<1>4. UsableRisk(ctx) \in Int
      /\ (risk <= UsableRisk(ctx)
            <=> ctx.a.risk + risk <= L.aggregateRisk /\ ctx.a.posRisk + risk <= L.positionRisk)
  <2> HIDE DEF risk
  <2> QED BY <1>1, <1>2 DEF UsableRisk, Smaller, NonNegative
<1>5. n6 \in Int /\ (quote <= n6 <=> quote * (Whole + fee) <= ctx.buying * Whole)
  <2>1. ctx.buying * Whole \in Int /\ Whole + fee \in Nat \ {0} /\ quote \in Int
    BY <1>2, WholeAssumption
  <2> HIDE DEF quote
  <2> QED BY <2>1, Division, AtMostQuotient DEF CapitalCapacity
<1>6. /\ n3 \in Int /\ n4 \in Int
      /\ quote <= n3 <=> ctx.a.posExposure + quote <= L.entry
      /\ quote <= n4 <=> ctx.a.exposure + quote <= L.exposure
  <2> HIDE DEF quote
  <2> QED BY <1>1, <1>2 DEF NonNegative
<1>7. /\ n1 \in Int /\ n5 \in Int
      /\ quote <= n1 <=> risk <= L.positionRisk
      /\ quote <= n5 <=> risk <= UsableRisk(ctx)
  <2> HIDE DEF asNotional, quote, risk
  <2> QED BY <1>1, <1>3, <1>4
<1>8. SafeNotional(ctx, entry, stop, fee) = Min({n1, n2, n3, n4, n5, n6})
  BY DEF SafeNotional
<1>9. n2 \in Int
  BY <1>1
<1> HIDE DEF n1, n3, n4, n5, n6
<1>10. quote \in Int /\ risk \in Int
  BY <1>2
<1> HIDE DEF quote, risk, n2
<1>11. quote <= SafeNotional(ctx, entry, stop, fee)
         <=> /\ quote <= n1 /\ quote <= n2 /\ quote <= n3
             /\ quote <= n4 /\ quote <= n5 /\ quote <= n6
  <2>1. /\ n1 \in Int /\ n2 \in Int /\ n3 \in Int
        /\ n4 \in Int /\ n5 \in Int /\ n6 \in Int
    BY <1>5, <1>6, <1>7, <1>9
  <2>2. quote <= Min({n1, n2, n3, n4, n5, n6})
          <=> /\ quote <= n1 /\ quote <= n2 /\ quote <= n3
              /\ quote <= n4 /\ quote <= n5 /\ quote <= n6
    BY <1>10, <2>1, AtMostSix, ZenonT(60)
  <2> QED BY <1>8, <2>2
<1>12. ctx.a.posRisk + risk <= L.positionRisk => risk <= L.positionRisk
  BY <1>1, <1>10
<1>13. ctx.a.posExposure + quote <= L.entry => quote <= n2
  BY <1>1, <1>10 DEF n2
<1>14. quote <= SafeNotional(ctx, entry, stop, fee)
         <=> /\ ctx.a.posExposure + quote <= L.entry
             /\ ctx.a.exposure + quote <= L.exposure
             /\ ctx.a.posRisk + risk <= L.positionRisk
             /\ ctx.a.risk + risk <= L.aggregateRisk
             /\ quote * (Whole + fee) <= ctx.buying * Whole
  BY <1>4, <1>5, <1>6, <1>7, <1>11, <1>12, <1>13
<1> QED BY <1>14 DEF quote, risk

\* The account and the limits that an entry is held against.
LEMMA ContextTypes ==
    ASSUME NEW s \in Configurations, NEW a \in Accounts, NEW pe \in Nat \cup {Absent}
    PROVE  LET b   == EffectiveEquity(a, pe)
               ctx == Context(s, "live", a, pe)
           IN  /\ b \in Nat /\ b <= Equity(a) /\ (pe # Absent => b <= pe)
               /\ b = IF pe = Absent THEN Equity(a) ELSE Smaller(Equity(a), pe)
               /\ ctx.a = a /\ ctx.limits = LimitsFor(s, "live", b)
               /\ ctx.buying = NonNegative(a.free - Reserve(s, "live", b))
               /\ ctx.buying \in Nat
               /\ \A l \in MoneyLimits : ctx.limits[l] \in Int
<1> DEFINE b == EffectiveEquity(a, pe)
           ctx == Context(s, "live", a, pe)
<1>1. Equity(a) \in Nat /\ a.free \in Nat
  BY AccountTypes
<1>2. /\ b \in Nat /\ b <= Equity(a) /\ (pe # Absent => b <= pe)
      /\ b = IF pe = Absent THEN Equity(a) ELSE Smaller(Equity(a), pe)
  BY <1>1 DEF EffectiveEquity, Smaller, Absent
<1>3. /\ ctx.a = a /\ ctx.limits = LimitsFor(s, "live", b)
      /\ ctx.buying = NonNegative(a.free - Reserve(s, "live", b))
  BY DEF Context
<1> HIDE DEF b, ctx
<1>4. Reserve(s, "live", b) \in Nat
  BY <1>2, ReserveType
<1>5. ctx.buying \in Nat
  BY <1>1, <1>3, <1>4 DEF NonNegative
<1>6. \A l \in MoneyLimits : ctx.limits[l] \in Int
  BY <1>2, <1>3, LimitTypes
<1> QED BY <1>2, <1>3, <1>5, <1>6 DEF b, ctx

\* The terms of a LIVE entry, as far as their size goes.
Sized(t) ==
    /\ t.quantity \in Nat \ {0} /\ t.entry \in Nat \ {0} /\ t.stop \in Int
    /\ t.stop < t.entry
    /\ t.quote = t.quantity * t.entry

LEMMA SizedFacts ==
    ASSUME NEW t, Sized(t)
    PROVE  /\ t.quote \in Nat \ {0}
           /\ t.quantity * (t.entry - t.stop) \in Nat \ {0}
<1>1. \A x, y \in Nat \ {0} : x * y \in Nat \ {0}
  OBVIOUS
<1>2. t.entry - t.stop \in Nat \ {0}
  BY DEF Sized
<1> QED BY <1>1, <1>2 DEF Sized

\* What fits in size, in numbers.
LEMMA FitsInNumbers ==
    ASSUME NEW s \in Configurations, NEW a \in Accounts, NEW pe \in Nat \cup {Absent},
           NEW t, Sized(t), NEW fee \in Nat
    PROVE  LET ctx  == Context(s, "live", a, pe)
               risk == t.quantity * (t.entry - t.stop)
           IN  FitsInSize(ctx, LiveProjection(a, t, fee))
                 <=> /\ a.posExposure + t.quote <= ctx.limits.entry
                     /\ a.exposure + t.quote <= ctx.limits.exposure
                     /\ a.posRisk + risk <= ctx.limits.positionRisk
                     /\ a.risk + risk <= ctx.limits.aggregateRisk
                     /\ t.quote * (Whole + fee) <= ctx.buying * Whole
<1> DEFINE ctx  == Context(s, "live", a, pe)
           risk == t.quantity * (t.entry - t.stop)
           p    == LiveProjection(a, t, fee)
<1>1. /\ p.requested = t.quote /\ p.exposure = a.exposure + t.quote
      /\ p.posExposure = a.posExposure + t.quote
      /\ p.posRisk = a.posRisk + risk /\ p.aggregate = a.risk + risk
      /\ p.fee = fee
  BY DEF LiveProjection
<1>2. t.quote \in Nat \ {0} /\ risk \in Nat \ {0}
  BY SizedFacts
<1>3. /\ a.exposure \in Nat /\ a.posExposure \in Nat /\ a.risk \in Nat /\ a.posRisk \in Nat
  BY AccountTypes
<1>4. /\ ctx.limits.entry \in Int /\ ctx.limits.exposure \in Int
      /\ ctx.limits.positionRisk \in Int /\ ctx.limits.aggregateRisk \in Int
  BY ContextTypes DEF MoneyLimits
<1> HIDE DEF ctx, risk, p
<1>5. p.aggregate # Absent
  BY <1>1, <1>2, <1>3 DEF Absent
<1>6. FitsInSize(ctx, p)
        <=> /\ a.posExposure + t.quote <= ctx.limits.entry
            /\ a.exposure + t.quote <= ctx.limits.exposure
            /\ a.posRisk + risk <= ctx.limits.positionRisk
            /\ a.risk + risk <= ctx.limits.aggregateRisk
            /\ t.quote * (Whole + fee) <= ctx.buying * Whole
  <2>1. ~ (t.quote <= 0)
    BY <1>2
  <2>2. a.posExposure + t.quote <= ctx.limits.entry => t.quote <= ctx.limits.entry
    BY <1>2, <1>3, <1>4
  <2>3. FitsInSize(ctx, p)
          <=> /\ ~ (t.quote > ctx.limits.entry)
              /\ t.quote * (Whole + fee) <= ctx.buying * Whole
              /\ ~ (a.posExposure + t.quote > ctx.limits.entry)
              /\ ~ (a.exposure + t.quote > ctx.limits.exposure)
              /\ ~ (a.posRisk + risk > ctx.limits.positionRisk)
              /\ ~ (a.risk + risk > ctx.limits.aggregateRisk)
    BY <1>1, <1>5, <2>1 DEF FitsInSize, WithinBuyingPower
  <2> QED BY <1>2, <1>3, <1>4, <2>2, <2>3
<1> QED BY <1>6 DEF ctx, risk, p

\* An amount within the buying power leaves the reserve.
LEMMA ReserveLeft ==
    ASSUME NEW quote \in Nat \ {0}, NEW available \in Int, NEW fee \in Nat,
           quote * (Whole + fee) <= NonNegative(available) * Whole
    PROVE  quote <= available
<1> DEFINE b == NonNegative(available)
<1>1. Whole \in Nat \ {0} /\ b \in Nat /\ (b = available \/ b = 0)
  BY WholeAssumption DEF NonNegative
<1> HIDE DEF b
<1>2. quote * (Whole + fee) <= b * Whole
  BY DEF b
<1>3. quote * Whole <= quote * (Whole + fee)
  BY <1>1
<1>4. quote * Whole \in Int /\ quote * (Whole + fee) \in Int /\ b * Whole \in Int
  BY <1>1
<1>5. quote * Whole <= b * Whole
  BY <1>2, <1>3, <1>4
<1>6. quote <= b
  BY <1>1, <1>5
<1> QED BY <1>1, <1>6

\* An entry that passes the check of the account fits the limits of the equity
\* it is held against.
LEMMA ValidatedFits ==
    ASSUME NEW s \in Configurations, NEW a \in Accounts, NEW pe \in Nat \cup {Absent},
           NEW t, Sized(t), ValidateLiveEntry(s, a, t, pe)
    PROVE  LET b    == EffectiveEquity(a, pe)
               L    == LimitsFor(s, "live", b)
               risk == t.quantity * (t.entry - t.stop)
           IN  /\ a.posExposure + t.quote <= L.entry
               /\ a.exposure + t.quote <= L.exposure
               /\ a.posRisk + risk <= L.positionRisk
               /\ a.risk + risk <= L.aggregateRisk
               /\ t.quote <= a.free - Reserve(s, "live", b)
<1> DEFINE ctx == Context(s, "live", a, pe)
           fee == IF PercentageBased(s) THEN s.fee ELSE 0
           b   == EffectiveEquity(a, pe)
           available == a.free - Reserve(s, "live", b)
<1>1. fee \in Nat
  BY ConfigurationTypes
<1>2. Reasons(ctx, LiveProjection(a, t, fee)) = {}
  BY DEF ValidateLiveEntry
<1> HIDE DEF fee
<1>3. FitsInSize(ctx, LiveProjection(a, t, fee))
  BY <1>2, SizeVerdict
<1>4. /\ b \in Nat
      /\ ctx.limits = LimitsFor(s, "live", b)
      /\ ctx.buying = NonNegative(available)
  BY ContextTypes
<1>5. available \in Int
  BY <1>4, AccountTypes, ReserveType
<1> HIDE DEF available, ctx, b
<1>6. /\ a.posExposure + t.quote <= ctx.limits.entry
      /\ a.exposure + t.quote <= ctx.limits.exposure
      /\ a.posRisk + t.quantity * (t.entry - t.stop) <= ctx.limits.positionRisk
      /\ a.risk + t.quantity * (t.entry - t.stop) <= ctx.limits.aggregateRisk
      /\ t.quote * (Whole + fee) <= ctx.buying * Whole
  BY <1>1, <1>3, FitsInNumbers DEF ctx
<1>7. t.quote <= available
  BY <1>1, <1>4, <1>5, <1>6, SizedFacts, ReserveLeft
<1> QED BY <1>4, <1>6, <1>7 DEF available, b

-----------------------------------------------------------------------------
(***************************************************************************)
(* The terms that creation accepts.                                        *)
(***************************************************************************)
LEMMA FloorFacts ==
    ASSUME NEW x \in Int, NEW step \in Nat \ {0}
    PROVE  FloorTo(x, step) \in Int /\ FloorTo(x, step) % step = 0
<1> DEFINE k == x \div step
<1>1. k \in Int
  OBVIOUS
<1>2. FloorTo(x, step) = k * step
  BY DEF FloorTo
<1> HIDE DEF k
<1> QED BY <1>1, <1>2, MultipleHasNoRest

\* The safe amount is whole.
LEMMA SafeType ==
    ASSUME NEW ctx, \A l \in MoneyLimits : ctx.limits[l] \in Int,
           ctx.a.risk \in Nat, ctx.a.posRisk \in Nat, ctx.a.exposure \in Nat,
           ctx.a.posExposure \in Nat, ctx.buying \in Nat,
           NEW entry \in Nat, NEW stop \in Int, stop < entry, NEW fee \in Nat
    PROVE  SafeNotional(ctx, entry, stop, fee) \in Int
<1> DEFINE asNotional(risk) == (risk * entry) \div (entry - stop)
           n1 == asNotional(ctx.limits.positionRisk)
           n2 == ctx.limits.entry
           n3 == NonNegative(ctx.limits.entry - ctx.a.posExposure)
           n4 == NonNegative(ctx.limits.exposure - ctx.a.exposure)
           n5 == asNotional(UsableRisk(ctx))
           n6 == CapitalCapacity(ctx.buying, fee)
<1>1. /\ ctx.limits.positionRisk \in Int /\ ctx.limits.entry \in Int
      /\ ctx.limits.exposure \in Int /\ ctx.limits.aggregateRisk \in Int
  BY DEF MoneyLimits
<1>2. \A risk \in Int : asNotional(risk) \in Int
  <2> SUFFICES ASSUME NEW risk \in Int PROVE (risk * entry) \div (entry - stop) \in Int
    OBVIOUS
  <2>1. entry - stop \in Nat \ {0} /\ risk * entry \in Int
    OBVIOUS
  <2> QED BY <2>1, Division
<1>3. UsableRisk(ctx) \in Int
  BY <1>1 DEF UsableRisk, Smaller, NonNegative
<1>4. n6 \in Int
  <2>1. ctx.buying * Whole \in Int /\ Whole + fee \in Nat \ {0}
    BY WholeAssumption
  <2> QED BY <2>1, Division DEF CapitalCapacity
<1>5. n2 \in Int /\ n3 \in Int /\ n4 \in Int
  BY <1>1 DEF NonNegative
<1>6. n1 \in Int /\ n5 \in Int
  <2> HIDE DEF asNotional
  <2> QED BY <1>1, <1>2, <1>3
<1>7. SafeNotional(ctx, entry, stop, fee) = Min({n1, n2, n3, n4, n5, n6})
  BY DEF SafeNotional
<1> HIDE DEF n1, n2, n3, n4, n5, n6
<1>8. Min({n1, n2, n3, n4, n5, n6}) \in {n1, n2, n3, n4, n5, n6}
  BY <1>4, <1>5, <1>6, SixMin
<1> QED BY <1>4, <1>5, <1>6, <1>7, <1>8

\* The allowance is whole.
LEMMA AllowanceType ==
    ASSUME NEW s \in Configurations, NEW a \in Accounts, NEW limit \in Nat,
           NEW stop \in Int, stop < limit, NEW requested \in Nat
    PROVE  Allowance(s, a, limit, stop, requested) \in Int
<1> DEFINE ctx == Context(s, "live", a, Absent)
<1>1. /\ ctx.a = a /\ ctx.buying \in Nat
      /\ \A l \in MoneyLimits : ctx.limits[l] \in Int
  BY ContextTypes
<1>2. /\ a.exposure \in Nat /\ a.posExposure \in Nat /\ a.risk \in Nat /\ a.posRisk \in Nat
  BY AccountTypes
<1> HIDE DEF ctx
<1>3. SafeNotional(ctx, limit, stop, s.fee) \in Int
  BY <1>1, <1>2, SafeType, ConfigurationTypes
<1>4. SizeEntry(ctx, limit, stop, AutoSize, s.fee).notional
        = SafeNotional(ctx, limit, stop, s.fee)
  BY DEF SizeEntry
<1> QED BY <1>3, <1>4 DEF Allowance, ctx

\* Stop and limit before the exchange's filters.
LEMMA PriceTypes ==
    ASSUME NEW s \in Configurations, NEW m \in Markets, NEW price, NEW noise \in Nat
    PROVE  /\ LimitPrice(s, m) \in Nat
           /\ EntryTerms(s, "live", m, price, noise).stop \in Int
<1>1. /\ m.ask \in Nat \ {0} /\ m.tick \in Nat \ {0}
      /\ s.slippage \in Nat /\ s.slippageCap \in Nat /\ s.minStop \in Nat
  BY ReadingAssumption, ConfigurationTypes
<1>2. Part(m.ask, s.slippage) \in Nat /\ Part(m.ask, s.slippageCap) \in Nat
  <2>1. m.ask \in Int /\ m.ask \in Nat
    BY <1>1
  <2> QED BY <1>1, <2>1, PartType
<1>3. LimitPrice(s, m) \in Nat
  <2> DEFINE x == m.ask + Part(m.ask, s.slippageCap)
  <2>1. x \in Nat
    BY <1>1, <1>2
  <2> HIDE DEF x
  <2>2. x \div m.tick \in Nat
    BY <1>1, <2>1
  <2> QED BY <1>1, <2>2 DEF LimitPrice, FloorTo, x
<1>4. EntryTerms(s, "live", m, price, noise).stop \in Int
  <2> DEFINE ref == m.ask + Part(m.ask, s.slippage)
  <2>1. ref \in Nat /\ -ref \in Int
    BY <1>1, <1>2
  <2> HIDE DEF ref
  <2>2. CeilPart(ref, s.minStop) \in Int
    <3>1. Part(-ref, s.minStop) \in Int
      BY <1>1, <2>1, PartType
    <3> QED BY <3>1 DEF CeilPart
  <2>3. Max({noise, CeilPart(ref, s.minStop)}) \in Int
    BY <2>2, PairMax
  <2>4. EntryTerms(s, "live", m, price, noise).stop
          = ref - Max({noise, CeilPart(ref, s.minStop)})
    BY DEF EntryTerms, ref
  <2> QED BY <2>1, <2>3, <2>4
<1> QED BY <1>3, <1>4

\* The terms as their definition gives them, and what the rounding makes of them
\* if they are a bracket.
LEMMA TermsFacts ==
    ASSUME NEW s \in Configurations, NEW a \in Accounts, NEW m \in Markets, NEW price,
           NEW noise \in Nat, NEW requested \in Nat, NEW t,
           t = LiveTerms(s, a, m, EntryTerms(s, "live", m, price, noise), requested),
           0 < t.stop, t.stop < t.entry, 0 < t.quantity
    PROVE  /\ Sized(t)
           /\ t.target = t.entry + Part(t.entry - t.stop, s.rewardRisk)
           /\ t.ratio = <<s.rewardRisk, Whole>> /\ t.policy = Fingerprint(s, "live")
           /\ t.equity = Equity(a)
           /\ t.pending \in Int
           /\ t.quantity % m.step = 0 /\ t.entry % m.tick = 0 /\ t.stop % m.tick = 0
<1> DEFINE e == EntryTerms(s, "live", m, price, noise)
           limit   == LimitPrice(s, m)
           stop    == FloorTo(e.stop, m.tick)
           allowed == Allowance(s, a, limit, stop, requested)
<1>1. e.stop \in Int /\ limit \in Nat
  BY PriceTypes
<1>2. t = LiveTerms(s, a, m, e, requested)
  OBVIOUS
<1> HIDE DEF e, limit
<1>3. /\ t.entry = limit /\ t.stop = stop
      /\ t.target = limit + Part(limit - stop, s.rewardRisk)
      /\ t.ratio = <<s.rewardRisk, Whole>> /\ t.policy = Fingerprint(s, "live")
      /\ t.equity = Equity(a)
      /\ t.quantity = Lot(allowed, limit, m.step)
      /\ t.quote = t.quantity * limit
      /\ t.pending = FloorTo(Part(t.quantity, Whole - s.fee), m.step)
  BY <1>2 DEF LiveTerms, limit, allowed, stop
<1>4. m.tick \in Nat \ {0} /\ m.step \in Nat \ {0}
  BY ReadingAssumption
<1>5. stop \in Int /\ stop % m.tick = 0
  BY <1>1, <1>4, FloorFacts
<1>6. limit % m.tick = 0
  <2> DEFINE x == m.ask + Part(m.ask, s.slippageCap)
  <2>1. x \in Int
    <3>1. m.ask \in Int /\ s.slippageCap \in Nat
      BY ReadingAssumption, ConfigurationTypes
    <3>2. Part(m.ask, s.slippageCap) \in Int
      BY <3>1, PartType
    <3> QED BY <3>1, <3>2
  <2>2. limit = FloorTo(x, m.tick)
    BY DEF limit, LimitPrice
  <2> HIDE DEF x
  <2> QED BY <1>4, <2>1, <2>2, FloorFacts
<1> HIDE DEF stop
<1>7. limit \in Nat \ {0} /\ stop \in Nat /\ stop < limit
  BY <1>1, <1>3, <1>5
<1>8. t.quantity \in Nat \ {0} /\ t.quantity % m.step = 0
  <2>1. allowed \in Int
    BY <1>5, <1>7, AllowanceType
  <2> HIDE DEF allowed
  <2> DEFINE lot == limit * m.step
             k   == allowed \div lot
  <2>2. \A x, y \in Nat \ {0} : x * y \in Nat \ {0}
    OBVIOUS
  <2>3. lot \in Nat \ {0}
    BY <1>4, <1>7, <2>2
  <2>4. Lot(allowed, limit, m.step) = k * m.step
    BY DEF Lot
  <2> HIDE DEF lot
  <2>5. k \in Int
    BY <2>1, <2>3
  <2> HIDE DEF k
  <2>6. t.quantity = k * m.step
    BY <1>3, <2>4
  <2>7. (k * m.step) % m.step = 0 /\ k * m.step \in Int
    BY <1>4, <2>5, MultipleHasNoRest
  <2> QED BY <2>6, <2>7
<1>9. Sized(t)
  BY <1>3, <1>7, <1>8 DEF Sized
<1>10. t.pending \in Int
  <2>1. Whole \in Nat \ {0} /\ t.quantity * (Whole - s.fee) \in Int
    BY <1>8, ConfigurationTypes
  <2>2. Part(t.quantity, Whole - s.fee) \in Int
    BY <2>1, Division DEF Part
  <2> QED BY <1>3, <1>4, <2>2, FloorFacts
<1> QED BY <1>3, <1>5, <1>6, <1>8, <1>9, <1>10

\* Terms that creation accepts have passed every check, and suit the market and
\* the absolute ceiling.
Fresh(s, a, m, t) ==
    /\ Sized(t)
    /\ t.target = t.entry + Part(t.entry - t.stop, s.rewardRisk)
    /\ t.entry < t.target
    /\ t.ratio = <<s.rewardRisk, Whole>> /\ t.policy = Fingerprint(s, "live")
    /\ t.equity = Equity(a)
    /\ t.pending \in Nat \ {0}
    /\ m.ask <= t.entry /\ m.minNotional <= t.quote
    /\ t.quantity % m.step = 0 /\ t.entry % m.tick = 0 /\ t.stop % m.tick = 0
    /\ UnderCeiling(s, "live", t.quote)
    /\ ValidateLiveEntry(s, a, t, Absent)

LEMMA PreparedFacts ==
    ASSUME NEW s \in Configurations, NEW a \in Accounts, NEW m \in Markets, NEW price,
           NEW noise \in Nat, NEW requested \in Nat,
           PrepareLive(s, a, m, price, noise, requested) # NoTerms
    PROVE  Fresh(s, a, m, PrepareLive(s, a, m, price, noise, requested))
<1> DEFINE t == PrepareLive(s, a, m, price, noise, requested)
           e == EntryTerms(s, "live", m, price, noise)
<1>1. t = LiveTerms(s, a, m, e, requested) /\ Proposable(s, a, m, requested, t)
  BY DEF PrepareLive
<1> HIDE DEF t
<1>2. /\ QuoteAllowed(s, "live", requested)
      /\ m.ask <= t.entry
      /\ 0 < t.stop /\ t.stop < t.entry /\ t.entry < t.target
      /\ 0 < t.quantity /\ m.minNotional <= t.quote
      /\ 0 < t.pending
      /\ ValidateLiveEntry(s, a, t, Absent)
  BY <1>1 DEF Proposable
<1>3. /\ Sized(t)
      /\ t.target = t.entry + Part(t.entry - t.stop, s.rewardRisk)
      /\ t.ratio = <<s.rewardRisk, Whole>> /\ t.policy = Fingerprint(s, "live")
      /\ t.equity = Equity(a)
      /\ t.pending \in Int
      /\ t.quantity % m.step = 0 /\ t.entry % m.tick = 0 /\ t.stop % m.tick = 0
  BY <1>1, <1>2, TermsFacts
<1>4. UnderCeiling(s, "live", t.quote)
  <2> DEFINE hard == HardLimits(s, "live").entry
             L    == LimitsFor(s, "live", EffectiveEquity(a, Absent)).entry
  <2>1. SUFFICES ASSUME UsesBackstop(s) PROVE t.quote <= hard
    BY DEF UnderCeiling
  <2>2. "entry" \in MoneyLimits /\ Absent \in Nat \cup {Absent}
    BY DEF MoneyLimits
  <2>3. requested <= hard
    BY <1>2, <2>1 DEF QuoteAllowed, UnderCeiling
  <2>4. hard \in Nat \cup {Absent}
    BY <2>2, HardTypes
  <2>5. EffectiveEquity(a, Absent) \in Nat
    BY <2>2, ContextTypes
  <2>6. L \in Int /\ (hard = Absent \/ L <= hard)
    BY <2>1, <2>2, <2>5, LimitTypes
  <2>7. a.posExposure + t.quote <= L
    BY <1>2, <1>3, <2>2, ValidatedFits
  <2>8. a.posExposure \in Nat /\ t.quote \in Nat
    BY <1>3, AccountTypes, SizedFacts
  <2> HIDE DEF hard, L
  <2> QED BY <2>3, <2>4, <2>6, <2>7, <2>8 DEF Absent
<1> QED BY <1>2, <1>3, <1>4 DEF Fresh, t

-----------------------------------------------------------------------------
(***************************************************************************)
(* The properties, for every input.                                        *)
(***************************************************************************)
SizingInput == case \in EntryCases \cup LateCases

LEMMA InputCorrect == SizingSpec => []SizingInput
<1>1. SizingInput /\ [UNCHANGED case]_case => SizingInput'
  BY DEF SizingInput
<1> QED BY <1>1, PTL DEF SizingSpec, CalculationOver, SizingInput

LEMMA EntryInput ==
    ASSUME SizingInput, case.kind = "entry"
    PROVE  /\ case.s \in Configurations /\ case.a \in Accounts /\ case.m \in Markets
           /\ case.noise \in Nat
           /\ \A amount \in Amounts : amount \in Nat
BY ReadingAssumption DEF SizingInput, EntryCases, LateCases

LEMMA LateInput ==
    ASSUME SizingInput, case.kind = "late"
    PROVE  /\ case.s \in Configurations /\ case.a \in Accounts /\ case.m \in Markets
           /\ case.noise \in Nat
           /\ case.under \in Configurations /\ case.now \in Accounts
           /\ case.book \in Markets
           /\ \A amount \in Amounts : amount \in Nat
BY ReadingAssumption DEF SizingInput, EntryCases, LateCases

\* Under a percentage policy, or with one equity, the smallest equity is the one
\* the check takes its limits from.
LEMMA SmallestEquity ==
    ASSUME NEW s \in Configurations, NEW a \in Accounts, NEW equity \in Nat
    PROVE  LET pe       == IF PercentageBased(s) THEN equity ELSE Absent
               equities == {Equity(a)} \cup (IF PercentageBased(s) THEN {equity} ELSE {})
               b        == EffectiveEquity(a, pe)
           IN  /\ b \in Nat /\ Min(equities) = b
               /\ \A x \in equities :
                    /\ x \in Nat
                    /\ \A l \in MoneyLimits :
                         LimitsFor(s, "live", b)[l] <= LimitsFor(s, "live", x)[l]
<1> DEFINE pe       == IF PercentageBased(s) THEN equity ELSE Absent
           equities == {Equity(a)} \cup (IF PercentageBased(s) THEN {equity} ELSE {})
           b        == EffectiveEquity(a, pe)
           n        == Equity(a)
<1>1. n \in Nat
  BY AccountTypes
<1>2. CASE ~ PercentageBased(s)
  <2>1. b = n /\ equities = {n}
    BY <1>2 DEF EffectiveEquity
  <2>2. Min({n}) = n
    BY <1>1 DEF Min
  <2>3. \A l \in MoneyLimits : LimitsFor(s, "live", n)[l] \in Int
    BY <1>1, LimitTypes
  <2> HIDE DEF b, equities, n
  <2>4. /\ b \in Nat /\ Min(equities) = b
        /\ \A x \in equities : x = n
    BY <1>1, <2>1, <2>2
  <2>5. \A l \in MoneyLimits : LimitsFor(s, "live", n)[l] <= LimitsFor(s, "live", n)[l]
    BY <2>3
  <2>6. \A x \in equities :
          x \in Nat /\ \A l \in MoneyLimits :
                          LimitsFor(s, "live", b)[l] <= LimitsFor(s, "live", x)[l]
    BY <1>1, <2>1, <2>4, <2>5
  <2> QED BY <2>4, <2>6 DEF b, equities
<1>3. CASE PercentageBased(s)
  <2>1. b = Smaller(n, equity) /\ equities = {n, equity}
    BY <1>3 DEF EffectiveEquity, Absent
  <2> HIDE DEF b, equities, n
  <2>2. b \in Nat /\ b \in {n, equity} /\ b <= n /\ b <= equity
    BY <1>1, <2>1 DEF Smaller
  <2>3. Min({n, equity}) = b
    <3>1. \A x \in {n, equity} : (\A y \in {n, equity} : x <= y) => x = b
      BY <1>1, <2>2
    <3>2. \A y \in {n, equity} : b <= y
      BY <2>2
    <3> QED BY <2>2, <3>1, <3>2 DEF Min
  <2>4. \A x \in {n, equity} : x \in Nat /\ b <= x
    BY <1>1, <2>2
  <2>5. \A x \in {n, equity} : \A l \in MoneyLimits :
          LimitsFor(s, "live", b)[l] <= LimitsFor(s, "live", x)[l]
    BY <1>3, <2>2, <2>4, LimitsMonotone
  <2> QED BY <2>1, <2>2, <2>3, <2>4, <2>5 DEF b, equities
<1> QED BY <1>2, <1>3

\* An entry that passes its last check is within both equities, whatever market,
\* account and configuration became of those it was proposed in.
LEMMA LateFits == SizingInput => LateEntryWithinBothEquities
<1> SUFFICES ASSUME SizingInput, case.kind = "late", NEW amount \in Amounts
             PROVE  LET t    == Prepared(amount)
                        s    == case.under
                        late  == case.now
                        risk == t.quantity * (t.entry - t.stop)
                        equities == {Equity(late)} \cup
                                      (IF PercentageBased(s) THEN {t.equity} ELSE {})
                    IN  t # NoTerms /\ Revalidated(s, late, case.book, t) =>
                          /\ \A equity \in equities :
                               LET limits == LimitsFor(s, "live", equity)
                               IN  /\ late.posExposure + t.quote <= limits.entry
                                   /\ late.exposure + t.quote <= limits.exposure
                                   /\ late.posRisk + risk <= limits.positionRisk
                                   /\ late.risk + risk <= limits.aggregateRisk
                                   /\ UsesBackstop(s) =>
                                         \A l \in MoneyLimits :
                                            LET hard == HardLimits(s, "live")[l]
                                            IN  hard = Absent \/ limits[l] <= hard
                          /\ t.quote <= late.free - Reserve(s, "live", Min(equities))
                          /\ case.book.ask <= t.entry
  BY DEF LateEntryWithinBothEquities
<1> DEFINE t == Prepared(amount)
           s == case.under
           late == case.now
           risk == t.quantity * (t.entry - t.stop)
           equities == {Equity(late)} \cup (IF PercentageBased(s) THEN {t.equity} ELSE {})
           pe == IF PercentageBased(s) THEN t.equity ELSE Absent
           b == EffectiveEquity(late, pe)
<1> SUFFICES ASSUME t # NoTerms, Revalidated(s, late, case.book, t)
             PROVE  /\ \A equity \in equities :
                         LET limits == LimitsFor(s, "live", equity)
                         IN  /\ late.posExposure + t.quote <= limits.entry
                             /\ late.exposure + t.quote <= limits.exposure
                             /\ late.posRisk + risk <= limits.positionRisk
                             /\ late.risk + risk <= limits.aggregateRisk
                             /\ UsesBackstop(s) =>
                                   \A l \in MoneyLimits :
                                      LET hard == HardLimits(s, "live")[l]
                                      IN  hard = Absent \/ limits[l] <= hard
                    /\ t.quote <= late.free - Reserve(s, "live", Min(equities))
                    /\ case.book.ask <= t.entry
  OBVIOUS
<1>1. /\ case.s \in Configurations /\ case.a \in Accounts /\ case.m \in Markets
      /\ case.noise \in Nat /\ amount \in Nat
      /\ s \in Configurations /\ late \in Accounts
  BY LateInput
<1>2. t = PrepareLive(case.s, case.a, case.m, case.price, case.noise, amount)
  BY DEF Prepared
<1>3. case.book.ask <= t.entry /\ ValidateLiveEntry(s, late, t, pe)
  BY DEF Revalidated, MarketAdmits
<1> HIDE DEF t
<1>4. Sized(t) /\ t.equity = Equity(case.a)
  <2>1. Fresh(case.s, case.a, case.m, t)
    BY <1>1, <1>2, PreparedFacts
  <2> QED BY <2>1 DEF Fresh
<1>5. t.equity \in Nat /\ pe \in Nat \cup {Absent}
  BY <1>1, <1>4, AccountTypes
<1> HIDE DEF s, late
<1>6. /\ b \in Nat /\ Min(equities) = b
      /\ \A x \in equities :
           /\ x \in Nat
           /\ \A l \in MoneyLimits :
                LimitsFor(s, "live", b)[l] <= LimitsFor(s, "live", x)[l]
  BY <1>1, <1>5, SmallestEquity
<1> HIDE DEF equities, pe
<1>7. /\ late.posExposure + t.quote <= LimitsFor(s, "live", b).entry
      /\ late.exposure + t.quote <= LimitsFor(s, "live", b).exposure
      /\ late.posRisk + risk <= LimitsFor(s, "live", b).positionRisk
      /\ late.risk + risk <= LimitsFor(s, "live", b).aggregateRisk
      /\ t.quote <= late.free - Reserve(s, "live", b)
  BY <1>1, <1>3, <1>4, <1>5, ValidatedFits
<1>8. /\ late.posExposure \in Nat /\ late.exposure \in Nat
      /\ late.posRisk \in Nat /\ late.risk \in Nat
      /\ t.quote \in Nat /\ risk \in Nat
  BY <1>1, <1>4, AccountTypes, SizedFacts
<1> HIDE DEF b, risk
<1>9. ASSUME NEW equity \in equities
      PROVE  LET limits == LimitsFor(s, "live", equity)
             IN  /\ late.posExposure + t.quote <= limits.entry
                 /\ late.exposure + t.quote <= limits.exposure
                 /\ late.posRisk + risk <= limits.positionRisk
                 /\ late.risk + risk <= limits.aggregateRisk
                 /\ UsesBackstop(s) =>
                       \A l \in MoneyLimits :
                          LET hard == HardLimits(s, "live")[l]
                          IN  hard = Absent \/ limits[l] <= hard
  <2> DEFINE L == LimitsFor(s, "live", b)
             M == LimitsFor(s, "live", equity)
  <2>1. equity \in Nat /\ \A l \in MoneyLimits : L[l] <= M[l]
    BY <1>6
  <2>2. \A l \in MoneyLimits :
          /\ L[l] \in Int /\ M[l] \in Int
          /\ UsesBackstop(s) => \/ HardLimits(s, "live")[l] = Absent
                                \/ M[l] <= HardLimits(s, "live")[l]
    BY <1>1, <1>6, <2>1, LimitTypes
  <2> HIDE DEF L, M
  <2>3. /\ L.entry <= M.entry /\ L.exposure <= M.exposure
        /\ L.positionRisk <= M.positionRisk /\ L.aggregateRisk <= M.aggregateRisk
        /\ L.entry \in Int /\ L.exposure \in Int /\ L.positionRisk \in Int
        /\ L.aggregateRisk \in Int
        /\ M.entry \in Int /\ M.exposure \in Int /\ M.positionRisk \in Int
        /\ M.aggregateRisk \in Int
    BY <2>1, <2>2 DEF MoneyLimits
  <2>4. /\ late.posExposure + t.quote <= L.entry
        /\ late.exposure + t.quote <= L.exposure
        /\ late.posRisk + risk <= L.positionRisk
        /\ late.risk + risk <= L.aggregateRisk
    BY <1>7 DEF L
  <2>5. /\ late.posExposure + t.quote <= M.entry
        /\ late.exposure + t.quote <= M.exposure
        /\ late.posRisk + risk <= M.positionRisk
        /\ late.risk + risk <= M.aggregateRisk
    BY <1>8, <2>3, <2>4
  <2> QED BY <2>2, <2>5 DEF M
<1> QED BY <1>3, <1>6, <1>7, <1>9

\* An entry executed late fits the limits of the equity it was proposed with and of
\* the equity it is executed with, and what the reserve leaves free.
THEOREM LateEntriesAreWithinLimits == SizingSpec => []LateEntryWithinBothEquities
BY InputCorrect, LateFits, PTL

\* The sizing and the evaluator check the same five inequalities.
LEMMA SizingAgrees == SizingInput => SizingAgreesWithEvaluator
<1> DEFINE s   == case.s
           a   == case.a
           ctx == Context(s, "live", a, Absent)
           e   == EntryTerms(s, "live", case.m, case.price, case.noise)
<1> SUFFICES ASSUME SizingInput, case.kind = "entry",
                    NEW amount \in Amounts \ {AutoSize}, NEW t,
                    t = LiveTerms(s, a, case.m, e, amount),
                    0 < t.stop, t.stop < t.entry, 0 < t.quantity
             PROVE  SizeEntry(ctx, t.entry, t.stop, t.quote, s.fee).accepted
                      <=> Reasons(ctx, LiveProjection(a, t, s.fee)) \cap SizeReasons = {}
  BY DEF SizingAgreesWithEvaluator
<1>1. /\ s \in Configurations /\ a \in Accounts /\ case.m \in Markets
      /\ case.noise \in Nat /\ amount \in Nat
  BY EntryInput
<1>2. Sized(t) /\ s.fee \in Nat /\ Absent \in Nat \cup {Absent}
  BY <1>1, TermsFacts, ConfigurationTypes
<1>3. ctx.a = a /\ ctx.buying \in Nat /\ \A l \in MoneyLimits : ctx.limits[l] \in Int
  BY <1>1, <1>2, ContextTypes
<1>4. /\ a.exposure \in Nat /\ a.posExposure \in Nat /\ a.risk \in Nat /\ a.posRisk \in Nat
  BY <1>1, AccountTypes
<1> HIDE DEF s, a
<1> DEFINE risk == t.quantity * (t.entry - t.stop)
           Fits == /\ a.posExposure + t.quote <= ctx.limits.entry
                   /\ a.exposure + t.quote <= ctx.limits.exposure
                   /\ a.posRisk + risk <= ctx.limits.positionRisk
                   /\ a.risk + risk <= ctx.limits.aggregateRisk
                   /\ t.quote * (Whole + s.fee) <= ctx.buying * Whole
<1>5. FitsInSize(ctx, LiveProjection(a, t, s.fee)) <=> Fits
  BY <1>1, <1>2, FitsInNumbers
<1> HIDE DEF ctx
<1>6. t.quote <= SafeNotional(ctx, t.entry, t.stop, s.fee) <=> Fits
  <2>1. /\ t.quantity \in Nat /\ t.entry \in Nat /\ t.stop \in Int /\ t.stop < t.entry
        /\ t.quote = t.quantity * t.entry /\ t.quantity * t.entry > 0
    <3>1. t.quote \in Nat \ {0}
      BY <1>2, SizedFacts
    <3> QED BY <1>2, <3>1 DEF Sized
  <2> DEFINE quote == t.quantity * t.entry
  <2>2. quote <= SafeNotional(ctx, t.entry, t.stop, s.fee)
          <=> /\ ctx.a.posExposure + quote <= ctx.limits.entry
              /\ ctx.a.exposure + quote <= ctx.limits.exposure
              /\ ctx.a.posRisk + risk <= ctx.limits.positionRisk
              /\ ctx.a.risk + risk <= ctx.limits.aggregateRisk
              /\ quote * (Whole + s.fee) <= ctx.buying * Whole
    BY <1>2, <1>3, <1>4, <2>1, SafeAmount
  <2> QED BY <1>3, <2>1, <2>2
<1>7. SizeEntry(ctx, t.entry, t.stop, t.quote, s.fee).accepted
        <=> t.quote <= SafeNotional(ctx, t.entry, t.stop, s.fee)
  <2>1. t.quote # AutoSize /\ 0 < t.quote
    BY <1>2, SizedFacts DEF AutoSize
  <2> QED BY <2>1 DEF SizeEntry
<1> QED BY <1>5, <1>6, <1>7, SizeVerdict

\* Terms that creation accepts pass the approval in the same reading, but for
\* what the rounding may spoil.
LEMMA PreparedRevalidate == SizingInput => PreparedTermsRevalidate
<1> DEFINE s == case.s
           a == case.a
           m == case.m
<1> SUFFICES ASSUME SizingInput, case.kind = "entry", NEW amount \in Amounts, NEW t,
                    t = Prepared(amount), t # NoTerms, ExactTarget(s, t)
             PROVE  ApproveLive(s, a, m, t)
                      <=> /\ StopInRange(s, t)
                          /\ PercentageBased(s) \/ t.quote >= s.minQuote
                          /\ t.target % m.tick = 0
  BY DEF PreparedTermsRevalidate
<1>1. /\ s \in Configurations /\ a \in Accounts /\ m \in Markets
      /\ case.noise \in Nat /\ amount \in Nat
  BY EntryInput
<1>2. Fresh(s, a, m, t)
  BY <1>1, PreparedFacts DEF Prepared
<1>3. s.rewardRisk \in Nat /\ s.maxDrift \in Nat /\ Whole \in Nat /\ Equity(a) \in Nat
  BY <1>1, ConfigurationTypes, AccountTypes
<1> HIDE DEF s, a, m
<1>4. ClaimableTerms(s, "live", t)
        <=> StopInRange(s, t) /\ (PercentageBased(s) \/ t.quote >= s.minQuote)
  <2>1. /\ t.ratio[1] = s.rewardRisk /\ t.ratio[2] = Whole
        /\ t.entry < t.target /\ t.stop < t.entry
        /\ UnderCeiling(s, "live", t.quote)
    BY <1>2 DEF Fresh, Sized
  <2>2. t.ratio[1] * Whole >= s.rewardRisk * t.ratio[2]
    BY <1>3, <2>1
  <2>3. t.ratio[1] * (t.entry - t.stop) = t.ratio[2] * (t.target - t.entry)
    <3>1. t.entry \in Int /\ t.stop \in Int
      BY <1>2 DEF Fresh, Sized
    <3>2. t.target \in Int
      <4>1. t.entry - t.stop \in Int
        BY <3>1
      <4>2. Part(t.entry - t.stop, s.rewardRisk) \in Int
        BY <1>3, <4>1, PartType
      <4> QED BY <1>2, <3>1, <4>2 DEF Fresh
    <3>3. (t.target - t.entry) * Whole = (t.entry - t.stop) * s.rewardRisk
      BY DEF ExactTarget
    <3>4. \A x, y \in Int : x * y = y * x
      OBVIOUS
    <3> QED BY <1>3, <2>1, <3>1, <3>2, <3>3, <3>4
  <2> QED BY <2>1, <2>2, <2>3 DEF ClaimableTerms, QuoteAllowed
<1>5. MarketAdmits(m, t) <=> t.target % m.tick = 0
  BY <1>2 DEF Fresh, Sized, MarketAdmits
<1>6. ValidateLiveEntry(s, a, t, IF PercentageBased(s) THEN t.equity ELSE Absent)
  <2>1. t.equity = Equity(a) /\ ValidateLiveEntry(s, a, t, Absent)
    BY <1>2 DEF Fresh
  <2>2. EffectiveEquity(a, Equity(a)) = EffectiveEquity(a, Absent)
    BY DEF EffectiveEquity, Smaller
  <2>3. Context(s, "live", a, Equity(a)) = Context(s, "live", a, Absent)
    BY <2>2 DEF Context
  <2>4. ~ EquityDrifted(s, Equity(a), Equity(a))
    <3>1. (Equity(a) - Equity(a)) * Whole = 0 /\ 0 <= s.maxDrift * Equity(a)
      BY <1>3
    <3>2. s.maxDrift * Equity(a) \in Int
      BY <1>3
    <3> QED BY <3>1, <3>2 DEF EquityDrifted
  <2> QED BY <2>1, <2>3, <2>4 DEF ValidateLiveEntry
<1>7. t.policy = Fingerprint(s, "live")
  BY <1>2 DEF Fresh
<1> QED BY <1>4, <1>5, <1>6, <1>7 DEF ApproveLive, Revalidated

\* With an exact target the inference gives back the entry, and the risk.
LEMMA InferenceExact == SizingInput => InferredRiskIsApproved
<1> DEFINE s == case.s
<1> SUFFICES ASSUME SizingInput, case.kind = "entry", NEW amount \in Amounts, NEW t,
                    t = Prepared(amount), t # NoTerms, ExactTarget(s, t)
             PROVE  InferredRisk(s, [quantity |-> t.pending, stop |-> t.stop,
                                     target |-> t.target])
                      = t.pending * (t.entry - t.stop)
  BY DEF InferredRiskIsApproved
<1>1. /\ s \in Configurations /\ case.a \in Accounts /\ case.m \in Markets
      /\ case.noise \in Nat /\ amount \in Nat
  BY EntryInput
<1>2. Fresh(s, case.a, case.m, t)
  BY <1>1, PreparedFacts DEF Prepared
<1>3. s.rewardRisk \in Nat /\ Whole \in Nat \ {0}
  BY <1>1, ConfigurationTypes
<1> HIDE DEF s
<1> DEFINE d == t.entry - t.stop
           r == t.target - t.entry
           q == t.pending
           n == Whole + s.rewardRisk
<1>4. t.entry \in Int /\ t.stop \in Int /\ q \in Nat
  BY <1>2 DEF Fresh, Sized
<1>5. d \in Int /\ n \in Nat \ {0}
  BY <1>3, <1>4
<1>6. t.target \in Int
  <2>1. Part(d, s.rewardRisk) \in Int
    BY <1>3, <1>5, PartType
  <2> QED BY <1>2, <1>4, <2>1 DEF Fresh
<1>7. t.target - t.stop = d + r /\ r \in Int /\ r * Whole = d * s.rewardRisk
  BY <1>4, <1>6 DEF ExactTarget
<1>8. InferredRisk(s, [quantity |-> q, stop |-> t.stop, target |-> t.target])
        = (q * (t.target - t.stop) * Whole) \div n
  BY DEF InferredRisk
<1> HIDE DEF d, r, q
<1>9. (q * (d + r)) * Whole = (q * d) * n
  <2>1. (d + r) * Whole = d * n
    <3>1. (d + r) * Whole = d * Whole + r * Whole
      BY <1>3, <1>5, <1>7
    <3>2. d * n = d * Whole + d * s.rewardRisk
      BY <1>3, <1>5
    <3> QED BY <1>7, <3>1, <3>2
  <2>2. (q * (d + r)) * Whole = q * ((d + r) * Whole)
    BY <1>3, <1>4, <1>5, <1>7
  <2>3. q * (d * n) = (q * d) * n
    BY <1>3, <1>4, <1>5
  <2> QED BY <2>1, <2>2, <2>3
<1>10. ((q * d) * n) \div n = q * d
  <2>1. q * d \in Int
    BY <1>4, <1>5
  <2> HIDE DEF n
  <2> QED BY <1>5, <2>1, MultipleHasNoRest
<1> QED BY <1>7, <1>8, <1>9, <1>10 DEF d, q

\* The sizing and the evaluator of limits give one verdict on the size, exposure,
\* risk and free balance of every bracket.
THEOREM SizingAndEvaluatorAgree == SizingSpec => []SizingAgreesWithEvaluator
BY InputCorrect, SizingAgrees, PTL

\* Terms that creation accepts pass the approval in the same account and book, but
\* for what the rounding to tick and step may spoil.
THEOREM PreparedTermsPassApproval == SizingSpec => []PreparedTermsRevalidate
BY InputCorrect, PreparedRevalidate, PTL

\* The risk inferred from the bracket of a holding is the risk that was approved.
THEOREM InferredRiskIsExact == SizingSpec => []InferredRiskIsApproved
BY InputCorrect, InferenceExact, PTL

-----------------------------------------------------------------------------
(***************************************************************************)
(* Lots, and the units they stand for.                                     *)
(***************************************************************************)
Lots == Seq([quantity : Nat \ {0}, cost : Int])

\* The lots are the units after from up to to of u, in order; e are their ends.
Stands(lots, e, u, from, to) ==
    /\ e \in [0..Len(lots) -> Int]
    /\ e[0] = from /\ e[Len(lots)] = to
    /\ \A i \in 1..Len(lots) :
         /\ e[i] = e[i - 1] + lots[i].quantity
         /\ \A k \in (e[i - 1] + 1)..e[i] : u[k] = lots[i].cost

LEMMA LotFacts ==
    ASSUME NEW lots \in Lots
    PROVE  /\ Len(lots) \in Nat
           /\ lots \in [1..Len(lots) -> [quantity : Nat \ {0}, cost : Int]]
           /\ \A i \in 1..Len(lots) : lots[i].quantity \in Nat \ {0} /\ lots[i].cost \in Int
           /\ lots = <<>> <=> Len(lots) = 0
<1>1. Len(lots) \in Nat /\ lots \in [1..Len(lots) -> [quantity : Nat \ {0}, cost : Int]]
  BY LenProperties DEF Lots
<1>2. \A i \in 1..Len(lots) : lots[i] \in [quantity : Nat \ {0}, cost : Int]
  BY <1>1
<1>3. lots = <<>> <=> Len(lots) = 0
  BY EmptySeq DEF Lots
<1> QED BY <1>1, <1>2, <1>3

\* The ends rise.
LEMMA EndsRise ==
    ASSUME NEW lots \in Lots, NEW e, NEW u, NEW from \in Int, NEW to,
           Stands(lots, e, u, from, to)
    PROVE  to \in Int /\ from <= to
<1> DEFINE n == Len(lots)
           Bad == {i \in 0..n : ~ (from <= e[i])}
<1>1. /\ n \in Nat /\ e \in [0..n -> Int] /\ e[0] = from /\ e[n] = to
      /\ \A i \in 1..n : e[i] = e[i - 1] + lots[i].quantity /\ lots[i].quantity \in Nat
  BY LotFacts DEF Stands
<1> HIDE DEF n
<1>2. Bad = {}
  <2> SUFFICES ASSUME Bad # {} PROVE FALSE
    OBVIOUS
  <2>1. Bad \in SUBSET Nat
    OBVIOUS
  <2>2. PICK i \in Bad : \A j \in Bad : i <= j
    <3> HIDE DEF Bad
    <3> QED BY <2>1, LeastNatural
  <2>3. i \in 1..n /\ i - 1 \in 0..n /\ ~ (i <= i - 1)
    BY <1>1
  <2>4. from <= e[i - 1]
    BY <2>2, <2>3
  <2>5. e[i - 1] \in Int /\ lots[i].quantity \in Nat /\ e[i] = e[i - 1] + lots[i].quantity
    BY <1>1, <2>3
  <2> QED BY <2>4, <2>5
<1>3. n \in 0..n
  BY <1>1
<1> QED BY <1>1, <1>2, <1>3

\* The first lot goes.
LEMMA WithoutFirst ==
    ASSUME NEW lots \in Lots, lots # <<>>, NEW e, NEW u, NEW from, NEW to,
           Stands(lots, e, u, from, to)
    PROVE  /\ Tail(lots) \in Lots /\ Len(Tail(lots)) = Len(lots) - 1
           /\ \E f : Stands(Tail(lots), f, u, from + lots[1].quantity, to)
<1> DEFINE n == Len(lots)
           f == [i \in 0..(n - 1) |-> e[i + 1]]
<1>1. n \in Nat \ {0}
  BY LotFacts
<1>2. /\ Tail(lots) \in Lots /\ Len(Tail(lots)) = n - 1
      /\ \A i \in 1..(n - 1) : Tail(lots)[i] = lots[i + 1]
  BY HeadTailProperties DEF Lots
<1>3. /\ e \in [0..n -> Int] /\ e[0] = from /\ e[n] = to
      /\ \A i \in 1..n : /\ e[i] = e[i - 1] + lots[i].quantity
                         /\ \A k \in (e[i - 1] + 1)..e[i] : u[k] = lots[i].cost
  BY DEF Stands
<1> HIDE DEF n
<1>4. f \in [0..(n - 1) -> Int] /\ \A i \in 0..(n - 1) : f[i] = e[i + 1]
  <2>1. \A i \in 0..(n - 1) : i + 1 \in 0..n
    BY <1>1
  <2> QED BY <1>3, <2>1
<1> HIDE DEF f
<1>5. f[0] = from + lots[1].quantity /\ f[n - 1] = to
  <2>1. 0 \in 0..(n - 1) /\ n - 1 \in 0..(n - 1) /\ 1 \in 1..n
        /\ 0 + 1 = 1 /\ (n - 1) + 1 = n /\ 1 - 1 = 0
    BY <1>1
  <2> QED BY <1>3, <1>4, <2>1
<1>6. \A i \in 1..(n - 1) : /\ f[i] = f[i - 1] + Tail(lots)[i].quantity
                            /\ \A k \in (f[i - 1] + 1)..f[i] : u[k] = Tail(lots)[i].cost
  <2> TAKE i \in 1..(n - 1)
  <2>1. /\ i \in 0..(n - 1) /\ i - 1 \in 0..(n - 1) /\ i + 1 \in 1..n
        /\ (i - 1) + 1 = i /\ (i + 1) - 1 = i
    BY <1>1
  <2>2. f[i] = e[i + 1] /\ f[i - 1] = e[i] /\ Tail(lots)[i] = lots[i + 1]
    BY <1>2, <1>4, <2>1
  <2> QED BY <1>3, <2>1, <2>2
<1>7. Stands(Tail(lots), f, u, from + lots[1].quantity, to)
  BY <1>2, <1>4, <1>5, <1>6 DEF Stands
<1> QED BY <1>2, <1>7 DEF n

\* What is left of the lots.
LEMMA PartOfFirst ==
    ASSUME NEW lots \in Lots, lots # <<>>, NEW s \in Nat, s < lots[1].quantity
    PROVE  LET rest == [lots EXCEPT ![1].quantity = @ - s]
           IN  /\ rest \in Lots /\ Len(rest) = Len(lots)
               /\ rest[1].quantity = lots[1].quantity - s
               /\ rest[1].cost = lots[1].cost
               /\ \A i \in 2..Len(lots) : rest[i] = lots[i]
<1> DEFINE n == Len(lots)
           rest == [lots EXCEPT ![1].quantity = @ - s]
           first == [lots[1] EXCEPT !.quantity = @ - s]
<1>1. /\ n \in Nat \ {0} /\ lots \in [1..n -> [quantity : Nat \ {0}, cost : Int]]
      /\ 1 \in 1..n
  BY LotFacts
<1>2. first \in [quantity : Nat \ {0}, cost : Int]
      /\ first.quantity = lots[1].quantity - s /\ first.cost = lots[1].cost
  BY <1>1
<1>3. rest = [lots EXCEPT ![1] = first]
  OBVIOUS
<1>4. rest \in Lots /\ Len(rest) = n /\ rest[1] = first
      /\ \A i \in 2..n : rest[i] = lots[i]
  <2> HIDE DEF first, rest
  <2>1. rest \in Lots /\ Len(rest) = n
    BY <1>1, <1>2, <1>3, ExceptSeq DEF Lots
  <2> QED BY <1>1, <1>3, <2>1
<1> QED BY <1>2, <1>4

\* A part of the first lot goes.
LEMMA WithoutPart ==
    ASSUME NEW lots \in Lots, lots # <<>>, NEW e, NEW u, NEW from, NEW to,
           Stands(lots, e, u, from, to), NEW s \in Nat, s < lots[1].quantity
    PROVE  LET rest == [lots EXCEPT ![1].quantity = @ - s]
           IN  /\ rest \in Lots /\ Len(rest) = Len(lots)
               /\ \E f : Stands(rest, f, u, from + s, to)
<1> DEFINE n == Len(lots)
           rest == [lots EXCEPT ![1].quantity = @ - s]
           f == [e EXCEPT ![0] = from + s]
<1>1. n \in Nat \ {0} /\ 1 \in 1..n /\ \A i \in 1..n : lots[i].quantity \in Nat
  BY LotFacts
<1>4. /\ rest \in Lots /\ Len(rest) = n
      /\ rest[1].quantity = lots[1].quantity - s /\ rest[1].cost = lots[1].cost
      /\ \A i \in 2..n : rest[i] = lots[i]
  BY PartOfFirst
<1>5. /\ e \in [0..n -> Int] /\ e[0] = from /\ e[n] = to
      /\ \A i \in 1..n : /\ e[i] = e[i - 1] + lots[i].quantity
                         /\ \A k \in (e[i - 1] + 1)..e[i] : u[k] = lots[i].cost
  BY DEF Stands
<1> HIDE DEF n, rest
<1>6. /\ f \in [0..n -> Int] /\ f[0] = from + s
      /\ \A i \in 1..n : f[i] = e[i]
  <2>1. 0 \in 0..n /\ from \in Int /\ from + s \in Int /\ (\A i \in 1..n : i # 0 /\ i \in 0..n)
    BY <1>1, <1>5
  <2> QED BY <1>5, <2>1
<1> HIDE DEF f
<1>7. f[n] = to
  BY <1>1, <1>5, <1>6
<1>8. \A i \in 1..n : /\ f[i] = f[i - 1] + rest[i].quantity
                      /\ \A k \in (f[i - 1] + 1)..f[i] : u[k] = rest[i].cost
  <2> TAKE i \in 1..n
  <2>1. f[i] = e[i] /\ e[i] = e[i - 1] + lots[i].quantity
        /\ \A k \in (e[i - 1] + 1)..e[i] : u[k] = lots[i].cost
    BY <1>5, <1>6
  <2>2. CASE i = 1
    <3>1. /\ f[1] = from + lots[1].quantity /\ f[0] = from + s /\ e[0] = from
          /\ 1 - 1 = 0 /\ from \in Int /\ lots[1].quantity \in Int
      BY <1>1, <1>5, <1>6, <2>1, <2>2
    <3>2. f[1] = f[0] + rest[1].quantity
      BY <1>4, <3>1
    <3>3. \A k \in (f[0] + 1)..f[1] : u[k] = lots[1].cost
      <4>1. \A k \in (from + s + 1)..(from + lots[1].quantity) :
              k \in (from + 1)..(from + lots[1].quantity)
        BY <3>1
      <4> QED BY <2>1, <2>2, <3>1, <4>1
    <3> QED BY <1>4, <2>2, <3>1, <3>2, <3>3
  <2>3. CASE i # 1
    <3>1. i \in 2..n /\ i - 1 \in 1..n
      BY <1>1, <2>3
    <3>2. rest[i] = lots[i] /\ f[i - 1] = e[i - 1]
      BY <1>4, <1>6, <3>1
    <3> QED BY <2>1, <3>2
  <2> QED BY <2>2, <2>3
<1>9. Stands(rest, f, u, from + s, to)
  BY <1>4, <1>6, <1>7, <1>8 DEF Stands
<1> QED BY <1>4, <1>9 DEF rest, n

\* A lot is added.
LEMMA WithLot ==
    ASSUME NEW lots \in Lots, NEW e, NEW u, NEW from, NEW to,
           Stands(lots, e, u, from, to),
           NEW lot \in [quantity : Nat \ {0}, cost : Int],
           \A k \in (to + 1)..(to + lot.quantity) : u[k] = lot.cost
    PROVE  /\ Append(lots, lot) \in Lots
           /\ \E f : Stands(Append(lots, lot), f, u, from, to + lot.quantity)
<1> DEFINE n == Len(lots)
           more == Append(lots, lot)
           f == [i \in 0..(n + 1) |-> IF i <= n THEN e[i] ELSE to + lot.quantity]
<1>1. n \in Nat
  BY LotFacts
<1>2. /\ more \in Lots /\ Len(more) = n + 1
      /\ \A i \in 1..n : more[i] = lots[i]
      /\ more[n + 1] = lot
  BY AppendProperties DEF Lots
<1>3. /\ e \in [0..n -> Int] /\ e[0] = from /\ e[n] = to
      /\ \A i \in 1..n : /\ e[i] = e[i - 1] + lots[i].quantity
                         /\ \A k \in (e[i - 1] + 1)..e[i] : u[k] = lots[i].cost
  BY DEF Stands
<1> HIDE DEF n, more
<1>4. to \in Int /\ lot.quantity \in Nat
  BY <1>1, <1>3
<1>5. /\ f \in [0..(n + 1) -> Int] /\ f[n + 1] = to + lot.quantity
      /\ \A i \in 0..n : f[i] = e[i]
  <2>1. /\ n + 1 \in 0..(n + 1) /\ ~ (n + 1 <= n)
        /\ \A i \in 0..n : i \in 0..(n + 1) /\ i <= n
        /\ \A i \in 0..(n + 1) : i <= n => i \in 0..n
    BY <1>1
  <2> QED BY <1>3, <1>4, <2>1
<1> HIDE DEF f
<1>6. \A i \in 1..(n + 1) : /\ f[i] = f[i - 1] + more[i].quantity
                            /\ \A k \in (f[i - 1] + 1)..f[i] : u[k] = more[i].cost
  <2> TAKE i \in 1..(n + 1)
  <2>1. CASE i \in 1..n
    <3>1. i \in 0..n /\ i - 1 \in 0..n
      BY <1>1, <2>1
    <3> QED BY <1>2, <1>3, <1>5, <2>1, <3>1
  <2>2. CASE i = n + 1
    <3>1. i - 1 = n /\ n \in 0..n
      BY <1>1, <2>2
    <3>2. f[i] = to + lot.quantity /\ f[i - 1] = to /\ more[i] = lot
      BY <1>2, <1>3, <1>5, <2>2, <3>1
    <3> QED BY <1>4, <3>2
  <2>3. i \in 1..n \/ i = n + 1
    BY <1>1
  <2> QED BY <2>1, <2>2, <2>3
<1>7. f[0] = from
  BY <1>1, <1>3, <1>5
<1>8. Stands(more, f, u, from, to + lot.quantity)
  BY <1>2, <1>5, <1>6, <1>7 DEF Stands
<1> QED BY <1>2, <1>8 DEF more

\* The last lot gone, nothing is left; and the sum over units of one cost.
LEMMA NothingLeft ==
    ASSUME NEW lots \in Lots, Len(lots) = 0, NEW e, NEW u, NEW from, NEW to,
           Stands(lots, e, u, from, to)
    PROVE  from = to
BY DEF Stands

LEMMA UnitsOfOneCost ==
    ASSUME NEW u, NEW from \in Int, NEW n \in Nat, NEW cost \in Int,
           \A k \in (from + 1)..(from + n) : u[k] = cost
    PROVE  SumFunctionOnSet(u, (from + 1)..(from + n)) = n * cost
<1> DEFINE K == (from + 1)..(from + n)
           one == [k \in K |-> 1]
<1>1. IsFiniteSet(K) /\ Cardinality(K) = n
  <2>1. from + 1 \in Int /\ from + n \in Int
    OBVIOUS
  <2>2. /\ IsFiniteSet(K)
        /\ Cardinality(K) = IF from + 1 > from + n THEN 0 ELSE from + n - (from + 1) + 1
    BY <2>1, FS_Interval
  <2> QED BY <2>2
<1>2. \A k \in K : one[k] = 1 /\ one[k] \in Int /\ u[k] = cost * one[k]
  OBVIOUS
<1>3. SumFunctionOnSet(one, K) = n
  <2> HIDE DEF K, one
  <2> QED BY <1>1, <1>2, SumOnes
<1>4. SumFunctionOnSet(u, K) = cost * SumFunctionOnSet(one, K)
  <2> HIDE DEF K, one
  <2> QED BY <1>1, <1>2, SumScale
<1> QED BY <1>3, <1>4

-----------------------------------------------------------------------------
(***************************************************************************)
(* One turn, and the sale.                                                 *)
(***************************************************************************)
Sales == Lots \X Int \X Nat

LEMMA SaleOf ==
    ASSUME NEW lots \in Lots, NEW cost \in Int, NEW left \in Nat
    PROVE  <<lots, cost, left>> \in Sales
BY DEF Sales

LEMMA SpendType ==
    ASSUME NEW lots \in Lots, lots # <<>>, NEW sold \in Nat
    PROVE  SpendFirst(lots, sold) \in Sales
<1>1. lots[1].quantity \in Nat \ {0} /\ lots[1].cost \in Int
  BY LotFacts
<1>2. CASE lots[1].quantity > sold
  <2>1. SpendFirst(lots, sold)
          = <<[lots EXCEPT ![1].quantity = @ - sold], sold * lots[1].cost, 0>>
    BY <1>2 DEF SpendFirst
  <2>2. [lots EXCEPT ![1].quantity = @ - sold] \in Lots
    BY <1>1, <1>2, PartOfFirst
  <2>3. sold * lots[1].cost \in Int /\ 0 \in Nat
    BY <1>1
  <2> QED BY <2>1, <2>2, <2>3, SaleOf
<1>3. CASE ~ (lots[1].quantity > sold)
  <2>1. SpendFirst(lots, sold)
          = <<Tail(lots), lots[1].quantity * lots[1].cost, sold - lots[1].quantity>>
    BY <1>3 DEF SpendFirst
  <2>2. Tail(lots) \in Lots
    BY HeadTailProperties DEF Lots
  <2>3. sold - lots[1].quantity \in Nat /\ lots[1].quantity * lots[1].cost \in Int
    BY <1>1, <1>3
  <2> QED BY <2>1, <2>2, <2>3, SaleOf
<1> QED BY <1>2, <1>3

LEMMA TurnType == \A sale \in Sales : Turn(sale) \in Sales
<1> SUFFICES ASSUME NEW sale \in Sales PROVE Turn(sale) \in Sales
  OBVIOUS
<1>1. sale[1] \in Lots /\ sale[2] \in Int /\ sale[3] \in Nat
  BY DEF Sales
<1>2. CASE sale[3] = 0 \/ sale[1] = <<>>
  BY <1>2 DEF Turn
<1>3. CASE ~ (sale[3] = 0 \/ sale[1] = <<>>)
  <2> DEFINE step == SpendFirst(sale[1], sale[3])
  <2>1. step \in Sales
    BY <1>1, <1>3, SpendType
  <2>2. Turn(sale) = <<step[1], sale[2] + step[2], step[3]>>
    BY <1>3 DEF Turn
  <2> HIDE DEF step
  <2>3. step[1] \in Lots /\ step[2] \in Int /\ step[3] \in Nat
    BY <2>1 DEF Sales
  <2>4. sale[2] + step[2] \in Int
    BY <1>1, <2>3
  <2> QED BY <2>2, <2>3, <2>4 DEF Sales
<1> QED BY <1>2, <1>3

\* What a turn takes: the units in the next places, at what they cost.
LEMMA SpendFacts ==
    ASSUME NEW lots \in Lots, lots # <<>>, NEW e, NEW u, NEW from \in Int, NEW to,
           Stands(lots, e, u, from, to), NEW sold \in Nat \ {0}
    PROVE  LET step == SpendFirst(lots, sold)
           IN  /\ step[3] < sold
               /\ \E f : Stands(step[1], f, u, from + (sold - step[3]), to)
               /\ step[2] = SumFunctionOnSet(u, (from + 1)..(from + (sold - step[3])))
               /\ step[3] > 0 => Len(step[1]) = Len(lots) - 1
<1> DEFINE q == lots[1].quantity
           c == lots[1].cost
           step == SpendFirst(lots, sold)
<1>1. q \in Nat \ {0} /\ c \in Int
  BY LotFacts
<1>2. \A k \in (from + 1)..(from + q) : u[k] = c
  <2>1. 1 \in 1..Len(lots) /\ 1 - 1 = 0
    BY LotFacts
  <2>2. /\ e[0] = from /\ e[1] = e[0] + q
        /\ \A k \in (e[0] + 1)..e[1] : u[k] = c
    BY <2>1 DEF Stands
  <2> QED BY <2>2
<1>3. CASE q > sold
  <2>1. step = <<[lots EXCEPT ![1].quantity = @ - sold], sold * c, 0>>
    BY <1>3 DEF SpendFirst
  <2>2. \E f : Stands([lots EXCEPT ![1].quantity = @ - sold], f, u, from + sold, to)
    BY <1>1, <1>3, WithoutPart
  <2> HIDE DEF q, c, step
  <2>3. step[1] = [lots EXCEPT ![1].quantity = @ - sold] /\ step[2] = sold * c /\ step[3] = 0
    BY <2>1
  <2>4. sold - step[3] = sold
    BY <2>3
  <2>5. \A k \in (from + 1)..(from + sold) : u[k] = c
    BY <1>1, <1>2, <1>3
  <2>6. SumFunctionOnSet(u, (from + 1)..(from + sold)) = sold * c
    BY <1>1, <2>5, UnitsOfOneCost
  <2> QED BY <2>2, <2>3, <2>4, <2>6 DEF step
<1>4. CASE ~ (q > sold)
  <2>1. step = <<Tail(lots), q * c, sold - q>>
    BY <1>4 DEF SpendFirst
  <2>2. Len(Tail(lots)) = Len(lots) - 1 /\ \E f : Stands(Tail(lots), f, u, from + q, to)
    BY WithoutFirst
  <2> HIDE DEF q, c, step
  <2>3. step[1] = Tail(lots) /\ step[2] = q * c /\ step[3] = sold - q
    BY <2>1
  <2>4. sold - step[3] = q /\ step[3] < sold
    BY <1>1, <2>3
  <2>5. SumFunctionOnSet(u, (from + 1)..(from + q)) = q * c
    BY <1>1, <1>2, UnitsOfOneCost
  <2> QED BY <2>2, <2>3, <2>4, <2>5 DEF step
<1> QED BY <1>3, <1>4

\* The turns of a sale.
SaleRuns(g, lots, sold) ==
    /\ g \in [0..Len(lots) -> Sales]
    /\ g[0] = <<lots, 0, sold>>
    /\ \A i \in 1..Len(lots) : g[i] = Turn(g[i - 1])

LEMMA MatchedRuns ==
    ASSUME NEW lots \in Lots, NEW sold \in Nat
    PROVE  \E g : SaleRuns(g, lots, sold) /\ Matched(lots, sold) = g[Len(lots)]
<1> DEFINE n == Len(lots)
           start == <<lots, 0, sold>>
           step == [x \in Sales \X (1..n) |-> Turn(x[1])]
           Loop(g) == g = [i \in 0..n |-> IF i = 0 THEN start ELSE Turn(g[i - 1])]
<1>1. n \in Nat /\ start \in Sales
  BY LotFacts, SaleOf
<1>2. Matched(lots, sold) = (CHOOSE g : Loop(g))[n]
  BY DEF Matched
<1> HIDE DEF n, start
<1>3. step \in [Sales \X (1..n) -> Sales]
  BY TurnType
<1>4. PICK g : RunsBy(g, n, Sales, start, step)
  <2> HIDE DEF step
  <2> QED BY <1>1, <1>3, RecursionExists
<1>5. g \in [0..n -> Sales] /\ g[0] = start /\ \A i \in 1..n : g[i] = Turn(g[i - 1])
  <2>1. g \in [0..n -> Sales] /\ g[0] = start /\ \A i \in 1..n : g[i] = step[<<g[i - 1], i>>]
    BY <1>4 DEF RunsBy
  <2>2. ASSUME NEW i \in 1..n PROVE g[i] = Turn(g[i - 1])
    <3>1. i - 1 \in 0..n
      BY <1>1
    <3>2. g[i - 1] \in Sales
      BY <2>1, <3>1
    <3>3. <<g[i - 1], i>> \in Sales \X (1..n)
      BY <3>2
    <3>4. step[<<g[i - 1], i>>] = Turn(g[i - 1])
      BY <3>3
    <3> HIDE DEF step
    <3> QED BY <2>1, <3>4
  <2> QED BY <2>1, <2>2
<1> HIDE DEF step
<1>6. Loop(g)
  <2> DEFINE f == [i \in 0..n |-> IF i = 0 THEN start ELSE Turn(g[i - 1])]
  <2>1. \A i \in 0..n : g[i] = f[i]
    BY <1>1, <1>5
  <2> QED BY <1>5, <2>1
<1> DEFINE c == CHOOSE f : Loop(f)
<1>7. Loop(c)
  <2> HIDE DEF Loop
  <2> QED BY <1>6
<1> HIDE DEF c
<1>8. c[0] = start /\ \A i \in 1..n : c[i] = Turn(c[i - 1])
  BY <1>1, <1>7
<1>9. \A i \in 0..n : c[i] = g[i]
  <2>1. GoAlike(c, g, n)
    BY <1>5, <1>8 DEF GoAlike
  <2> HIDE DEF Loop
  <2> QED BY <1>1, <2>1, RunsAlike
<1>10. c[n] = g[n]
  BY <1>1, <1>9
<1> HIDE DEF Loop
<1>11. SaleRuns(g, lots, sold)
  BY <1>5 DEF SaleRuns, n, start
<1> QED BY <1>2, <1>10, <1>11 DEF c, n

\* After i turns the units that are matched are the first of those that stood.
Served(sale, i, lots, sold, u, from, to) ==
    /\ sale[3] <= sold
    /\ \E f : Stands(sale[1], f, u, from + (sold - sale[3]), to)
    /\ sale[2] = SumFunctionOnSet(u, (from + 1)..(from + (sold - sale[3])))
    /\ sale[3] > 0 => Len(sale[1]) = Len(lots) - i

LEMMA TurnServes ==
    ASSUME NEW lots \in Lots, NEW sold \in Nat, NEW u, NEW from \in Int, NEW to \in Int,
           \A k \in (from + 1)..to : u[k] \in Int,
           NEW i \in 1..Len(lots), NEW sale \in Sales,
           Served(sale, i - 1, lots, sold, u, from, to)
    PROVE  Served(Turn(sale), i, lots, sold, u, from, to)
<1>1. sale[1] \in Lots /\ sale[2] \in Int /\ sale[3] \in Nat /\ sale[3] <= sold
  BY DEF Sales, Served
<1>2. Len(lots) \in Nat
  BY LotFacts
<1>3. sale[3] > 0 => sale[1] # <<>>
  <2> SUFFICES ASSUME sale[3] > 0 PROVE sale[1] # <<>>
    OBVIOUS
  <2>1. Len(sale[1]) = Len(lots) - (i - 1)
    BY DEF Served
  <2>2. Len(sale[1]) # 0
    BY <1>2, <2>1
  <2> QED BY <1>1, <2>2, LotFacts
<1>4. CASE sale[3] = 0
  <2>1. Turn(sale) = sale
    BY <1>4 DEF Turn
  <2> QED BY <1>4, <2>1 DEF Served
<1>5. CASE sale[3] # 0
  <2> DEFINE step == SpendFirst(sale[1], sale[3])
             a == from + (sold - sale[3])
             b == from + (sold - step[3])
  <2>1. sale[3] \in Nat \ {0} /\ sale[3] > 0 /\ sale[1] # <<>> /\ a \in Int
    BY <1>1, <1>3, <1>5
  <2>2. Turn(sale) = <<step[1], sale[2] + step[2], step[3]>>
    BY <1>5, <2>1 DEF Turn
  <2>3. step \in Sales
    BY <1>1, <2>1, SpendType
  <2>4. PICK e : Stands(sale[1], e, u, a, to)
    BY DEF Served
  <2>5. /\ step[3] < sale[3]
        /\ \E f : Stands(step[1], f, u, a + (sale[3] - step[3]), to)
        /\ step[2] = SumFunctionOnSet(u, (a + 1)..(a + (sale[3] - step[3])))
        /\ step[3] > 0 => Len(step[1]) = Len(sale[1]) - 1
    <3> HIDE DEF a
    <3> QED BY <1>1, <2>1, <2>4, SpendFacts
  <2> HIDE DEF step
  <2>6. step[1] \in Lots /\ step[2] \in Int /\ step[3] \in Nat
    BY <2>3 DEF Sales
  <2>7. a + (sale[3] - step[3]) = b /\ b \in Int /\ from <= a /\ a <= b
    <3>1. sale[3] \in Int /\ step[3] \in Int /\ step[3] < sale[3] /\ sale[3] <= sold
      BY <1>1, <2>5, <2>6
    <3> DEFINE x == sale[3]
               y == step[3]
    <3>2. x \in Int /\ y \in Int /\ y < x /\ x <= sold
      BY <3>1
    <3> HIDE DEF x, y
    <3>3. from + (sold - x) + (x - y) = from + (sold - y) /\ from + (sold - y) \in Int
          /\ from <= from + (sold - x) /\ from + (sold - x) <= from + (sold - y)
      BY <3>2
    <3> QED BY <3>3 DEF x, y
  <2>8. b <= to
    <3>1. PICK f : Stands(step[1], f, u, b, to)
      BY <2>5, <2>7
    <3> HIDE DEF b
    <3> QED BY <2>6, <2>7, <3>1, EndsRise
  <2>9. sale[2] = SumFunctionOnSet(u, (from + 1)..a)
    BY DEF Served
  <2>10. step[2] = SumFunctionOnSet(u, (a + 1)..b)
    BY <2>5, <2>7
  <2> HIDE DEF a, b
  <2>11. SumFunctionOnSet(u, (from + 1)..b)
           = SumFunctionOnSet(u, (from + 1)..a) + SumFunctionOnSet(u, (a + 1)..b)
    <3>1. /\ (from + 1)..b = ((from + 1)..a) \cup ((a + 1)..b)
          /\ ((from + 1)..a) \cap ((a + 1)..b) = {}
      BY <2>1, <2>7
    <3>2. \A k \in ((from + 1)..a) \cup ((a + 1)..b) : u[k] \in Int
      BY <2>1, <2>7, <2>8
    <3>3. from + 1 \in Int /\ a + 1 \in Int
      BY <2>1
    <3>4. IsFiniteSet((from + 1)..a) /\ IsFiniteSet((a + 1)..b)
      BY <2>1, <2>7, <3>3, FS_Interval
    <3> DEFINE S == (from + 1)..a
               T == (a + 1)..b
    <3>5. /\ IsFiniteSet(S) /\ IsFiniteSet(T) /\ S \cap T = {}
          /\ \A k \in S \cup T : u[k] \in Int
      BY <3>1, <3>2, <3>4
    <3> HIDE DEF S, T
    <3>6. SumFunctionOnSet(u, S \cup T) = SumFunctionOnSet(u, S) + SumFunctionOnSet(u, T)
      BY <3>5, SumUnion
    <3> QED BY <3>1, <3>6 DEF S, T
  <2> DEFINE after == <<step[1], sale[2] + step[2], step[3]>>
  <2>12. after[1] = step[1] /\ after[2] = sale[2] + step[2] /\ after[3] = step[3]
    OBVIOUS
  <2> HIDE DEF after
  <2>13. after[2] = SumFunctionOnSet(u, (from + 1)..b)
    BY <2>9, <2>10, <2>11, <2>12
  <2>14. \E f : Stands(after[1], f, u, b, to)
    BY <2>5, <2>7, <2>12
  <2>15. after[3] <= sold
    BY <1>1, <2>5, <2>6, <2>12
  <2>16. after[3] > 0 => Len(after[1]) = Len(lots) - i
    <3>1. Len(sale[1]) = Len(lots) - (i - 1)
      BY <2>1 DEF Served
    <3> QED BY <1>2, <2>5, <2>12, <3>1
  <2>17. b = from + (sold - after[3])
    BY <2>12 DEF b
  <2>18. Served(after, i, lots, sold, u, from, to)
    BY <2>13, <2>14, <2>15, <2>16, <2>17 DEF Served
  <2> QED BY <2>2, <2>18 DEF after
<1> QED BY <1>4, <1>5

\* A sale is matched as far as units stand, first in first out.
LEMMA MatchedFacts ==
    ASSUME NEW lots \in Lots, NEW sold \in Nat, NEW u, NEW from \in Int, NEW to \in Int,
           \A k \in (from + 1)..to : u[k] \in Int, NEW e, Stands(lots, e, u, from, to)
    PROVE  LET sale == Matched(lots, sold)
           IN  /\ sale \in Sales
               /\ sale[3] = 0 <=> from + sold <= to
               /\ sale[3] = 0 =>
                    /\ \E f : Stands(sale[1], f, u, from + sold, to)
                    /\ sale[2] = SumFunctionOnSet(u, (from + 1)..(from + sold))
<1> DEFINE n == Len(lots)
<1>1. PICK g : SaleRuns(g, lots, sold) /\ Matched(lots, sold) = g[n]
  BY MatchedRuns
<1>2. n \in Nat
  BY LotFacts
<1>3. /\ g \in [0..n -> Sales] /\ g[0] = <<lots, 0, sold>>
      /\ \A i \in 1..n : g[i] = Turn(g[i - 1])
  BY <1>1 DEF SaleRuns
<1> DEFINE Bad == {i \in 0..n : ~ Served(g[i], i, lots, sold, u, from, to)}
<1>4. Served(g[0], 0, lots, sold, u, from, to)
  <2>1. g[0][1] = lots /\ g[0][2] = 0 /\ g[0][3] = sold
    BY <1>3
  <2>2. from + (sold - g[0][3]) = from
    BY <2>1
  <2>3. (from + 1)..from = {}
    OBVIOUS
  <2>4. Len(lots) = Len(lots) - 0
    BY LotFacts
  <2> QED BY <2>1, <2>2, <2>3, <2>4, SumEmpty DEF Served
<1>5. Bad = {}
  <2> SUFFICES ASSUME Bad # {} PROVE FALSE
    OBVIOUS
  <2>1. Bad \in SUBSET Nat
    OBVIOUS
  <2>2. PICK i \in Bad : \A j \in Bad : i <= j
    <3> HIDE DEF Bad
    <3> QED BY <2>1, LeastNatural
  <2>3. i \in 0..n /\ i # 0
    BY <1>4
  <2>4. i \in 1..n /\ i - 1 \in 0..n /\ ~ (i <= i - 1)
    BY <1>2, <2>3
  <2>5. Served(g[i - 1], i - 1, lots, sold, u, from, to) /\ g[i - 1] \in Sales
    BY <1>3, <2>2, <2>4
  <2>6. Served(Turn(g[i - 1]), i, lots, sold, u, from, to)
    <3> HIDE DEF Bad
    <3> QED BY <2>4, <2>5, TurnServes
  <2> QED BY <1>3, <2>4, <2>6
<1> DEFINE sale == Matched(lots, sold)
<1>6. sale \in Sales /\ Served(sale, n, lots, sold, u, from, to)
  <2>1. n \in 0..n
    BY <1>2
  <2> QED BY <1>1, <1>3, <1>5, <2>1
<1> HIDE DEF sale, Bad
<1>7. sale[1] \in Lots /\ sale[3] \in Nat
  BY <1>6 DEF Sales
<1>8. PICK f : Stands(sale[1], f, u, from + (sold - sale[3]), to)
  BY <1>6 DEF Served
<1>9. from + (sold - sale[3]) <= to
  BY <1>7, <1>8, EndsRise
<1>10. ASSUME sale[3] # 0 PROVE ~ (from + sold <= to)
  <2>1. Len(sale[1]) = 0
    BY <1>2, <1>6, <1>7, <1>10 DEF Served
  <2>2. from + (sold - sale[3]) = to
    BY <1>7, <1>8, <2>1, NothingLeft
  <2> QED BY <1>7, <1>10, <2>2
<1>11. ASSUME sale[3] = 0
       PROVE  /\ from + sold <= to
              /\ \E h : Stands(sale[1], h, u, from + sold, to)
              /\ sale[2] = SumFunctionOnSet(u, (from + 1)..(from + sold))
  <2>1. from + (sold - sale[3]) = from + sold
    BY <1>11
  <2> QED BY <1>6, <1>8, <1>9, <2>1 DEF Served
<1>12. /\ sale \in Sales
       /\ sale[3] = 0 <=> from + sold <= to
       /\ sale[3] = 0 =>
            /\ \E h : Stands(sale[1], h, u, from + sold, to)
            /\ sale[2] = SumFunctionOnSet(u, (from + 1)..(from + sold))
  BY <1>6, <1>10, <1>11
<1> QED BY <1>12 DEF sale

Fill == [side : {"BUY", "SELL"}, quantity : Nat \ {0}, value : Nat,
         fee : Nat \cup {Absent}, inPeriod : BOOLEAN]

\* Units bought, or sold.
LEMMA UnitsFacts ==
    ASSUME NEW h \in Seq(Fill), NEW side \in {"BUY", "SELL"}
    PROVE  /\ Units(h, side, 0) = 0
           /\ \A n \in 0..Len(h) : Units(h, side, n) \in Nat
           /\ \A n \in 1..Len(h) :
                Units(h, side, n) = Units(h, side, n - 1)
                                      + (IF h[n].side = side THEN h[n].quantity ELSE 0)
<1> DEFINE f == [i \in DOMAIN h |-> IF h[i].side = side THEN h[i].quantity ELSE 0]
<1>1. Len(h) \in Nat /\ DOMAIN h = 1..Len(h) /\ \A i \in 1..Len(h) : h[i] \in Fill
  BY LenProperties, ElementOfSeq
<1>2. \A i \in 1..Len(h) : /\ f[i] \in Nat
                           /\ f[i] = IF h[i].side = side THEN h[i].quantity ELSE 0
  BY <1>1 DEF Fill
<1>3. \A n \in Int : Units(h, side, n) = SumFunctionOnSet(f, 1..n)
  BY DEF Units
<1> HIDE DEF f
<1>4. Units(h, side, 0) = 0
  <2>1. 1..0 = {}
    OBVIOUS
  <2> QED BY <1>3, <2>1, SumEmpty
<1>5. ASSUME NEW n \in 0..Len(h) PROVE Units(h, side, n) \in Nat
  <2>1. IsFiniteSet(1..n) /\ \A i \in 1..n : f[i] \in Nat
    BY <1>1, <1>2, FS_Interval
  <2> QED BY <1>3, <2>1, SumNat
<1>6. ASSUME NEW n \in 1..Len(h)
      PROVE  Units(h, side, n) = Units(h, side, n - 1)
                                   + (IF h[n].side = side THEN h[n].quantity ELSE 0)
  <2> DEFINE S == 1..(n - 1)
  <2>0. n \in Int /\ n - 1 \in Int /\ 1 <= n /\ n <= Len(h)
    BY <1>1
  <2>1. IsFiniteSet(S) /\ 1..n = S \cup {n} /\ n \notin S
    <3>1. IsFiniteSet(1..(n - 1))
      BY <2>0, FS_Interval
    <3>2. 1..n = S \cup {n} /\ n \notin S
      BY <2>0
    <3> QED BY <3>1, <3>2
  <2>2. \A i \in S \cup {n} : f[i] \in Int
    BY <1>1, <1>2, <2>0
  <2>3. Units(h, side, n - 1) = SumFunctionOnSet(f, S)
        /\ Units(h, side, n) = SumFunctionOnSet(f, S \cup {n})
    BY <1>3, <2>0, <2>1
  <2> HIDE DEF S
  <2>4. SumFunctionOnSet(f, S \cup {n}) = SumFunctionOnSet(f, S) + f[n]
    BY <2>1, <2>2, SumJoin
  <2> QED BY <1>2, <2>3, <2>4
<1> QED BY <1>4, <1>5, <1>6

\* They rise from fill to fill.
LEMMA UnitsRise ==
    ASSUME NEW h \in Seq(Fill), NEW side \in {"BUY", "SELL"},
           NEW m \in 0..Len(h), NEW n \in 0..Len(h), m <= n
    PROVE  Units(h, side, m) <= Units(h, side, n)
<1> DEFINE Bad == {k \in 0..Len(h) : m <= k /\ ~ (Units(h, side, m) <= Units(h, side, k))}
<1> SUFFICES ASSUME Bad # {} PROVE FALSE
  OBVIOUS
<1>1. Bad \in SUBSET Nat
  OBVIOUS
<1>2. PICK k \in Bad : \A j \in Bad : k <= j
  <2> HIDE DEF Bad
  <2> QED BY <1>1, LeastNatural
<1>3. Len(h) \in Nat /\ Units(h, side, m) \in Nat
  BY LenProperties, UnitsFacts
<1>4. k # m
  BY <1>2, <1>3
<1>5. k \in 1..Len(h) /\ k - 1 \in 0..Len(h) /\ m <= k - 1 /\ ~ (k <= k - 1)
  BY <1>3, <1>4
<1>6. Units(h, side, m) <= Units(h, side, k - 1)
  BY <1>2, <1>5
<1>7. h[k] \in Fill
  BY <1>5, ElementOfSeq
<1>8. (IF h[k].side = side THEN h[k].quantity ELSE 0) \in Nat
  BY <1>7 DEF Fill
<1>9. Units(h, side, k - 1) \in Nat /\ Units(h, side, k) \in Nat
      /\ Units(h, side, k) = Units(h, side, k - 1)
                               + (IF h[k].side = side THEN h[k].quantity ELSE 0)
  BY <1>5, UnitsFacts
<1>10. Units(h, side, m) <= Units(h, side, k)
  BY <1>3, <1>6, <1>8, <1>9
<1> QED BY <1>2, <1>10

\* Each unit came with one purchase.
LEMMA PurchaseFacts ==
    ASSUME NEW h \in Seq(Fill)
    PROVE  /\ \A k \in 1..Units(h, "BUY", Len(h)) : UnitCosts(h)[k] \in Int
           /\ \A n \in 1..Len(h) : \A k \in (Units(h, "BUY", n - 1) + 1)..Units(h, "BUY", n) :
                UnitCosts(h)[k] = (h[n].value + h[n].fee) \div h[n].quantity
<1> DEFINE N == Len(h)
           B(n) == Units(h, "BUY", n)
           Cost(p) == (h[p].value + h[p].fee) \div h[p].quantity
<1>1. N \in Nat /\ DOMAIN h = 1..N /\ \A i \in 1..N : h[i] \in Fill
  BY LenProperties, ElementOfSeq
<1>2. B(0) = 0 /\ \A n \in 0..N : B(n) \in Nat
  BY UnitsFacts
<1>3. \A m, n \in 0..N : m <= n => B(m) <= B(n)
  BY UnitsRise
<1> HIDE DEF B, N
<1>4. ASSUME NEW p \in 1..N PROVE Cost(p) \in Int
  <2>1. h[p].value + h[p].fee \in Int /\ h[p].quantity \in Nat \ {0}
    BY <1>1 DEF Fill, Absent
  <2> QED BY <2>1, Division
<1> HIDE DEF Cost
<1>5. ASSUME NEW n \in 1..N, NEW k \in (B(n - 1) + 1)..B(n)
      PROVE  k \in 1..B(N) /\ UnitCosts(h)[k] = Cost(n)
  <2>0. k \in Int /\ B(n - 1) < k /\ k <= B(n) /\ n - 1 \in 0..N
    BY <1>1, <1>2
  <2>1. k \in 1..B(N)
    <3>1. B(n) <= B(N) /\ B(n - 1) \in Nat /\ B(N) \in Nat /\ B(n) \in Nat
      BY <1>1, <1>2, <1>3
    <3> QED BY <2>0, <3>1
  <2>2. ASSUME NEW i \in 1..N, B(i - 1) < k, k <= B(i) PROVE i = n
    <3>1. /\ i - 1 \in 0..N /\ i \in 0..N /\ n \in 0..N
          /\ B(i - 1) \in Int /\ B(i) \in Int /\ B(n - 1) \in Int /\ B(n) \in Int
      BY <1>1, <1>2
    <3>2. CASE i < n
      <4>1. i <= n - 1
        BY <3>2
      <4>2. B(i) <= B(n - 1)
        BY <1>3, <2>0, <3>1, <4>1
      <4> QED BY <2>0, <2>2, <3>1, <4>2
    <3>3. CASE n < i
      <4>1. n <= i - 1
        BY <3>3
      <4>2. B(n) <= B(i - 1)
        BY <1>3, <3>1, <4>1
      <4> QED BY <2>0, <2>2, <3>1, <4>2
    <3> QED BY <3>2, <3>3
  <2>3. Purchase(h, k) = n
    <3>1. Purchase(h, k) = CHOOSE i \in 1..N : B(i - 1) < k /\ k <= B(i)
      BY <1>1 DEF Purchase, B
    <3>2. \E i \in 1..N : B(i - 1) < k /\ k <= B(i)
      BY <2>0
    <3>3. /\ Purchase(h, k) \in 1..N
          /\ B(Purchase(h, k) - 1) < k /\ k <= B(Purchase(h, k))
      BY <3>1, <3>2
    <3> QED BY <2>2, <3>3
  <2>4. UnitCosts(h)[k] = Cost(Purchase(h, k))
    BY <2>1 DEF UnitCosts, Cost, B, N
  <2> QED BY <2>1, <2>3, <2>4
<1>6. ASSUME NEW k \in 1..B(N) PROVE UnitCosts(h)[k] \in Int
  <2> DEFINE T == {n \in 0..N : k <= B(n)}
  <2>1. T \in SUBSET Nat /\ N \in T
    BY <1>1, <1>2
  <2>2. PICK n \in T : \A m \in T : n <= m
    <3> HIDE DEF T
    <3> QED BY <2>1, LeastNatural
  <2>3. n # 0
    BY <1>2, <2>2
  <2>4. n \in 1..N /\ n - 1 \in 0..N /\ ~ (n <= n - 1)
    BY <1>1, <2>2, <2>3
  <2>5. ~ (k <= B(n - 1))
    BY <2>2, <2>4
  <2>6. B(n - 1) \in Int /\ B(n) \in Int /\ k \in Int /\ k <= B(n)
    BY <1>2, <2>2, <2>4
  <2>7. k \in (B(n - 1) + 1)..B(n)
    BY <2>5, <2>6
  <2> QED BY <1>4, <1>5, <2>4, <2>7
<1> QED BY <1>5, <1>6 DEF B, N, Cost

-----------------------------------------------------------------------------
(***************************************************************************)
(* The books.                                                              *)
(***************************************************************************)
Records == [lots : Lots, loss : Int, complete : BOOLEAN]

LEMMA RecordsOf ==
    ASSUME NEW acc \in Records, NEW lots \in Lots, NEW loss \in Int
    PROVE  /\ [acc EXCEPT !.complete = FALSE] \in Records
           /\ [acc EXCEPT !.lots = lots] \in Records
           /\ [acc EXCEPT !.lots = lots, !.loss = loss] \in Records
BY DEF Records

LEMMA LotOf ==
    ASSUME NEW trade \in Fill, trade.fee # Absent
    PROVE  [quantity |-> trade.quantity,
            cost     |-> (trade.value + trade.fee) \div trade.quantity]
             \in [quantity : Nat \ {0}, cost : Int]
<1>1. trade.value + trade.fee \in Int /\ trade.quantity \in Nat \ {0}
  BY DEF Fill
<1>2. (trade.value + trade.fee) \div trade.quantity \in Int
  BY <1>1, Division
<1> QED BY <1>1, <1>2

\* The book after a fill, case by case.
BookOf(acc, trade, after) ==
    /\ (~ acc.complete \/ trade.fee = Absent) => after = [acc EXCEPT !.complete = FALSE]
    /\ (acc.complete /\ trade.fee # Absent) =>
         /\ trade.side = "BUY" =>
              after = [acc EXCEPT !.lots =
                         Append(acc.lots, [quantity |-> trade.quantity,
                                           cost |-> (trade.value + trade.fee) \div trade.quantity])]
         /\ trade.side = "SELL" =>
              LET sale == Matched(acc.lots, trade.quantity)
                  pnl  == trade.value - trade.fee - sale[2]
              IN  /\ sale[3] > 0 => after = [acc EXCEPT !.complete = FALSE]
                  /\ ~ (sale[3] > 0) =>
                       after = [acc EXCEPT !.lots = sale[1],
                                           !.loss = IF trade.inPeriod /\ pnl < 0
                                                    THEN acc.loss - pnl ELSE acc.loss]

LEMMA BookCases ==
    ASSUME NEW acc \in Records, NEW trade \in Fill
    PROVE  BookOf(acc, trade, Book(acc, trade))
BY DEF BookOf, Book, Records, Fill

LEMMA BookType ==
    ASSUME NEW acc \in Records, NEW trade \in Fill
    PROVE  Book(acc, trade) \in Records
<1> DEFINE after == Book(acc, trade)
<1>1. BookOf(acc, trade, after)
  BY BookCases
<1>2. /\ acc.lots \in Lots /\ acc.loss \in Int /\ acc.complete \in BOOLEAN
      /\ trade.quantity \in Nat /\ trade.side \in {"BUY", "SELL"}
  BY DEF Records, Fill
<1> SUFFICES after \in Records
  OBVIOUS
<1> HIDE DEF after
<1>3. CASE ~ acc.complete \/ trade.fee = Absent
  BY <1>1, <1>2, <1>3, RecordsOf DEF BookOf
<1>4. CASE acc.complete /\ trade.fee # Absent /\ trade.side = "BUY"
  <2> DEFINE lot == [quantity |-> trade.quantity,
                     cost |-> (trade.value + trade.fee) \div trade.quantity]
  <2>1. lot \in [quantity : Nat \ {0}, cost : Int]
    BY <1>4, LotOf
  <2>2. after = [acc EXCEPT !.lots = Append(acc.lots, lot)]
    BY <1>1, <1>4 DEF BookOf
  <2> HIDE DEF lot
  <2>3. Append(acc.lots, lot) \in Lots
    BY <1>2, <2>1, AppendProperties DEF Lots
  <2> QED BY <1>2, <2>2, <2>3, RecordsOf
<1>5. CASE acc.complete /\ trade.fee # Absent /\ trade.side = "SELL"
  <2> DEFINE sale == Matched(acc.lots, trade.quantity)
             pnl == trade.value - trade.fee - sale[2]
             next == IF trade.inPeriod /\ pnl < 0 THEN acc.loss - pnl ELSE acc.loss
  <2>1. sale \in Sales
    <3>1. PICK g : SaleRuns(g, acc.lots, trade.quantity)
                   /\ Matched(acc.lots, trade.quantity) = g[Len(acc.lots)]
      BY <1>2, MatchedRuns
    <3>2. Len(acc.lots) \in 0..Len(acc.lots)
      BY <1>2, LotFacts
    <3> QED BY <3>1, <3>2 DEF SaleRuns
  <2>2. /\ sale[3] > 0 => after = [acc EXCEPT !.complete = FALSE]
        /\ ~ (sale[3] > 0) => after = [acc EXCEPT !.lots = sale[1], !.loss = next]
    BY <1>1, <1>5 DEF BookOf
  <2>3. sale[1] \in Lots /\ sale[2] \in Int
    BY <2>1 DEF Sales
  <2>4. next \in Int
    <3>1. trade.value \in Int /\ trade.fee \in Int
      BY <1>5 DEF Fill
    <3> HIDE DEF sale
    <3> QED BY <1>2, <2>3, <3>1
  <2> HIDE DEF sale, next
  <2> QED BY <2>2, <2>3, <2>4, RecordsOf
<1> QED BY <1>2, <1>3, <1>4, <1>5

\* The books from fill to fill.
BooksRun(g, h) ==
    /\ g \in [0..Len(h) -> Records]
    /\ g[0] = EmptyBook
    /\ \A i \in 1..Len(h) : g[i] = Book(g[i - 1], h[i])

LEMMA AccountingRuns ==
    ASSUME NEW h \in Seq(Fill)
    PROVE  \E g : BooksRun(g, h) /\ SessionAccounting(h) = g[Len(h)]
<1> DEFINE n == Len(h)
           step == [x \in Records \X (1..n) |-> Book(x[1], h[x[2]])]
           Loop(g) == g = [i \in 0..n |-> IF i = 0 THEN EmptyBook ELSE Book(g[i - 1], h[i])]
<1>1. n \in Nat /\ \A i \in 1..n : h[i] \in Fill
  BY LenProperties, ElementOfSeq
<1>2. EmptyBook \in Records
  <2>1. <<>> \in Lots
    BY EmptySeq DEF Lots
  <2> QED BY <2>1 DEF EmptyBook, Records
<1>3. SessionAccounting(h) = (CHOOSE g : Loop(g))[n]
  BY DEF SessionAccounting
<1> HIDE DEF n
<1>4. step \in [Records \X (1..n) -> Records]
  <2>1. ASSUME NEW x \in Records \X (1..n) PROVE Book(x[1], h[x[2]]) \in Records
    <3>1. x[1] \in Records /\ h[x[2]] \in Fill
      BY <1>1
    <3> QED BY <3>1, BookType
  <2> QED BY <2>1
<1>5. PICK g : RunsBy(g, n, Records, EmptyBook, step)
  <2> HIDE DEF step
  <2> QED BY <1>1, <1>2, <1>4, RecursionExists
<1>6. g \in [0..n -> Records] /\ g[0] = EmptyBook
      /\ \A i \in 1..n : g[i] = Book(g[i - 1], h[i])
  <2>1. g \in [0..n -> Records] /\ g[0] = EmptyBook
        /\ \A i \in 1..n : g[i] = step[<<g[i - 1], i>>]
    BY <1>5 DEF RunsBy
  <2>2. ASSUME NEW i \in 1..n PROVE g[i] = Book(g[i - 1], h[i])
    <3>1. i - 1 \in 0..n
      BY <1>1
    <3>2. g[i - 1] \in Records
      BY <2>1, <3>1
    <3>3. <<g[i - 1], i>> \in Records \X (1..n)
      BY <3>2
    <3>4. step[<<g[i - 1], i>>] = Book(g[i - 1], h[i])
      BY <3>3
    <3> HIDE DEF step
    <3> QED BY <2>1, <3>4
  <2> QED BY <2>1, <2>2
<1> HIDE DEF step
<1>7. Loop(g)
  <2> DEFINE f == [i \in 0..n |-> IF i = 0 THEN EmptyBook ELSE Book(g[i - 1], h[i])]
  <2>1. \A i \in 0..n : g[i] = f[i]
    BY <1>1, <1>6
  <2> QED BY <1>6, <2>1
<1> DEFINE c == CHOOSE f : Loop(f)
<1>8. Loop(c)
  <2> HIDE DEF Loop
  <2> QED BY <1>7
<1> HIDE DEF c
<1>9. c[0] = EmptyBook /\ \A i \in 1..n : c[i] = Book(c[i - 1], h[i])
  BY <1>1, <1>8
<1>10. \A i \in 0..n : c[i] = g[i]
  <2>1. GoAlike(c, g, n)
    BY <1>6, <1>9 DEF GoAlike
  <2> HIDE DEF Loop
  <2> QED BY <1>1, <2>1, RunsAlike
<1>11. c[n] = g[n]
  BY <1>1, <1>10
<1> HIDE DEF Loop
<1>12. BooksRun(g, h)
  BY <1>6 DEF BooksRun, n
<1> QED BY <1>3, <1>11, <1>12 DEF c, n

-----------------------------------------------------------------------------
(***************************************************************************)
(* After each fill the lots are the units bought and not sold, and the     *)
(* loss is that of the sales so far.                                       *)
(***************************************************************************)
Losses(h) ==
    [n \in DOMAIN h |-> IF h[n].side = "SELL" /\ h[n].inPeriod THEN LossOfSale(h, n) ELSE 0]

AccountedFor(h, n) ==
    /\ \A i \in 1..n : h[i].fee # Absent
    /\ \A i \in 1..n : Units(h, "SELL", i) <= Units(h, "BUY", i)

BookKept(h, acc, n) ==
    /\ acc.complete <=> AccountedFor(h, n)
    /\ acc.complete =>
         /\ \E e : Stands(acc.lots, e, UnitCosts(h), Units(h, "SELL", n), Units(h, "BUY", n))
         /\ acc.loss = SumFunctionOnSet(Losses(h), 1..n)

LEMMA LossesType ==
    ASSUME NEW h \in Seq(Fill), NEW n \in 1..Len(h), AccountedFor(h, n)
    PROVE  /\ Losses(h)[n] \in Int
           /\ Losses(h)[n] = IF h[n].side = "SELL" /\ h[n].inPeriod
                             THEN LossOfSale(h, n) ELSE 0
<1> DEFINE S(i) == Units(h, "SELL", i)
           B(i) == Units(h, "BUY", i)
<1>1. Len(h) \in Nat /\ DOMAIN h = 1..Len(h) /\ h[n] \in Fill
  BY LenProperties, ElementOfSeq
<1>2. n \in 1..n /\ n - 1 \in 0..Len(h) /\ n \in 0..Len(h) /\ Len(h) \in 0..Len(h) /\ n <= Len(h)
  BY <1>1
<1>3. Losses(h)[n] = IF h[n].side = "SELL" /\ h[n].inPeriod THEN LossOfSale(h, n) ELSE 0
  BY <1>1 DEF Losses
<1>4. ASSUME h[n].side = "SELL" PROVE LossOfSale(h, n) \in Int
  <2> DEFINE a == S(n - 1) + 1
             b == S(n - 1) + h[n].quantity
             cost == SumFunctionOnSet(UnitCosts(h), a..b)
  <2>1. /\ S(n - 1) \in Nat /\ S(n) = S(n - 1) + h[n].quantity
        /\ B(n) \in Nat /\ B(Len(h)) \in Nat /\ S(n) <= B(n) /\ B(n) <= B(Len(h))
    BY <1>2, <1>4, UnitsFacts, UnitsRise DEF AccountedFor
  <2>2. h[n].quantity \in Nat /\ h[n].value \in Int /\ h[n].fee \in Int
    BY <1>1 DEF Fill, Absent
  <2> HIDE DEF S, B
  <2>3. \A k \in a..b : k \in 1..B(Len(h))
    BY <2>1, <2>2
  <2>4. \A k \in a..b : UnitCosts(h)[k] \in Int
    BY <2>3, PurchaseFacts DEF B
  <2>5. a \in Int /\ b \in Int
    BY <2>1, <2>2
  <2>6. LossOfSale(h, n) = NonNegative(cost - (h[n].value - h[n].fee))
    BY DEF LossOfSale, S
  <2> HIDE DEF a, b
  <2>7. IsFiniteSet(a..b)
    BY <2>5, FS_Interval
  <2>8. cost \in Int
    BY <2>4, <2>7, SumInt
  <2> HIDE DEF cost
  <2> QED BY <2>2, <2>6, <2>8 DEF NonNegative
<1> QED BY <1>3, <1>4

LEMMA LossesGrow ==
    ASSUME NEW h \in Seq(Fill), NEW n \in 1..Len(h), AccountedFor(h, n)
    PROVE  /\ SumFunctionOnSet(Losses(h), 1..(n - 1)) \in Int
           /\ SumFunctionOnSet(Losses(h), 1..n)
                = SumFunctionOnSet(Losses(h), 1..(n - 1)) + Losses(h)[n]
<1> DEFINE P == 1..(n - 1)
           f == Losses(h)
<1>1. n \in Int /\ 1 <= n /\ n <= Len(h) /\ Len(h) \in Nat /\ n - 1 \in Int
  BY LenProperties
<1>2. IsFiniteSet(P)
  BY <1>1, FS_Interval
<1>3. 1..n = P \cup {n} /\ n \notin P
  BY <1>1
<1>4. \A i \in P \cup {n} : f[i] \in Int
  <2> TAKE i \in P \cup {n}
  <2>1. i \in 1..Len(h) /\ \A k \in 1..i : k \in 1..n
    BY <1>1
  <2>2. AccountedFor(h, i)
    BY <2>1 DEF AccountedFor
  <2> QED BY <2>1, <2>2, LossesType
<1> HIDE DEF P, f
<1>5. SumFunctionOnSet(f, P \cup {n}) = SumFunctionOnSet(f, P) + f[n]
  BY <1>2, <1>3, <1>4, SumJoin
<1>6. SumFunctionOnSet(f, P) \in Int
  BY <1>2, <1>4, SumInt
<1> QED BY <1>3, <1>5, <1>6 DEF f, P

LEMMA BookIsKept ==
    ASSUME NEW h \in Seq(Fill), NEW n \in 1..Len(h), NEW acc \in Records,
           BookKept(h, acc, n - 1)
    PROVE  BookKept(h, Book(acc, h[n]), n)
<1> DEFINE S(i) == Units(h, "SELL", i)
           B(i) == Units(h, "BUY", i)
           u == UnitCosts(h)
           trade == h[n]
           after == Book(acc, trade)
<1>1. /\ Len(h) \in Nat /\ trade \in Fill
      /\ n \in 0..Len(h) /\ n - 1 \in 0..Len(h) /\ n \in Int
  BY LenProperties, ElementOfSeq
<1>2. BookOf(acc, trade, after)
  BY <1>1, BookCases
<1>3. /\ S(n - 1) \in Nat /\ S(n) \in Nat /\ B(n - 1) \in Nat /\ B(n) \in Nat
      /\ S(n) = S(n - 1) + (IF trade.side = "SELL" THEN trade.quantity ELSE 0)
      /\ B(n) = B(n - 1) + (IF trade.side = "BUY" THEN trade.quantity ELSE 0)
  BY <1>1, UnitsFacts
<1>4. /\ acc.lots \in Lots /\ acc.loss \in Int /\ acc.complete \in BOOLEAN
      /\ trade.quantity \in Nat /\ trade.side \in {"BUY", "SELL"}
  BY <1>1 DEF Records, Fill
<1>5. AccountedFor(h, n) <=> AccountedFor(h, n - 1) /\ trade.fee # Absent /\ S(n) <= B(n)
  <2>1. 1..n = (1..(n - 1)) \cup {n}
    BY <1>1
  <2> QED BY <2>1 DEF AccountedFor
<1>6. acc.complete <=> AccountedFor(h, n - 1)
  BY DEF BookKept
<1>7. acc.complete => /\ \E e : Stands(acc.lots, e, u, S(n - 1), B(n - 1))
                      /\ acc.loss = SumFunctionOnSet(Losses(h), 1..(n - 1))
  BY DEF BookKept
<1>8. acc.complete => S(n - 1) <= B(n - 1)
  <2> HIDE DEF S, B, u
  <2> QED BY <1>3, <1>4, <1>7, EndsRise
<1>9. BookKept(h, after, n) <=>
        /\ after.complete <=> AccountedFor(h, n)
        /\ after.complete => /\ \E e : Stands(after.lots, e, u, S(n), B(n))
                             /\ after.loss = SumFunctionOnSet(Losses(h), 1..n)
  BY DEF BookKept
<1> SUFFICES BookKept(h, after, n)
  OBVIOUS
<1> HIDE DEF after, S, B, u
<1>10. CASE ~ acc.complete \/ trade.fee = Absent
  <2>1. after.complete = FALSE
    BY <1>2, <1>10 DEF BookOf, Records
  <2>2. ~ AccountedFor(h, n)
    BY <1>5, <1>6, <1>10
  <2> QED BY <1>9, <2>1, <2>2
<1>11. CASE acc.complete /\ trade.fee # Absent /\ trade.side = "BUY"
  <2> DEFINE lot == [quantity |-> trade.quantity,
                     cost |-> (trade.value + trade.fee) \div trade.quantity]
  <2>1. lot \in [quantity : Nat \ {0}, cost : Int]
    BY <1>1, <1>11, LotOf
  <2>2. after = [acc EXCEPT !.lots = Append(acc.lots, lot)]
    BY <1>2, <1>11 DEF BookOf
  <2>3. lot.quantity = trade.quantity
        /\ \A k \in (B(n - 1) + 1)..B(n) : u[k] = lot.cost
    BY PurchaseFacts DEF B, u
  <2> HIDE DEF lot
  <2>4. S(n) = S(n - 1) /\ B(n) = B(n - 1) + lot.quantity
    BY <1>3, <1>4, <1>11, <2>3
  <2>5. after.lots = Append(acc.lots, lot) /\ after.loss = acc.loss /\ after.complete
    BY <1>11, <2>2 DEF Records
  <2>6. PICK e : Stands(acc.lots, e, u, S(n - 1), B(n - 1))
    BY <1>7, <1>11
  <2>7. \E f : Stands(after.lots, f, u, S(n), B(n))
    BY <1>4, <2>1, <2>3, <2>4, <2>5, <2>6, WithLot
  <2>8. AccountedFor(h, n)
    BY <1>3, <1>4, <1>5, <1>6, <1>8, <1>11, <2>4
  <2>9. after.loss = SumFunctionOnSet(Losses(h), 1..n)
    <3>1. Losses(h)[n] = 0
      BY <1>11, <2>8, LossesType
    <3> QED BY <1>7, <1>11, <2>5, <2>8, <3>1, LossesGrow
  <2> QED BY <1>9, <2>5, <2>7, <2>8, <2>9
<1>12. CASE acc.complete /\ trade.fee # Absent /\ trade.side = "SELL"
  <2> DEFINE sale == Matched(acc.lots, trade.quantity)
             pnl == trade.value - trade.fee - sale[2]
             next == IF trade.inPeriod /\ pnl < 0 THEN acc.loss - pnl ELSE acc.loss
  <2>1. /\ sale[3] > 0 => after = [acc EXCEPT !.complete = FALSE]
        /\ ~ (sale[3] > 0) => after = [acc EXCEPT !.lots = sale[1], !.loss = next]
    BY <1>2, <1>12 DEF BookOf
  <2>2. PICK e : Stands(acc.lots, e, u, S(n - 1), B(n - 1))
    BY <1>7, <1>12
  <2>3. S(n) = S(n - 1) + trade.quantity /\ B(n) = B(n - 1)
    BY <1>3, <1>4, <1>12
  <2>4. \A k \in (S(n - 1) + 1)..B(n - 1) : u[k] \in Int
    <3>1. Len(h) \in 0..Len(h) /\ n - 1 <= Len(h)
      BY <1>1
    <3>2. B(n - 1) <= B(Len(h)) /\ B(Len(h)) \in Nat
      BY <1>1, <3>1, UnitsRise, UnitsFacts DEF B
    <3>3. \A k \in (S(n - 1) + 1)..B(n - 1) : k \in 1..B(Len(h))
      BY <1>3, <3>2
    <3> QED BY <3>3, PurchaseFacts DEF B, u
  <2>5. /\ sale \in Sales
        /\ sale[3] = 0 <=> S(n) <= B(n)
        /\ sale[3] = 0 =>
             /\ \E f : Stands(sale[1], f, u, S(n), B(n))
             /\ sale[2] = SumFunctionOnSet(u, (S(n - 1) + 1)..S(n))
    <3>1. /\ sale \in Sales
          /\ sale[3] = 0 <=> S(n - 1) + trade.quantity <= B(n - 1)
          /\ sale[3] = 0 =>
               /\ \E f : Stands(sale[1], f, u, S(n - 1) + trade.quantity, B(n - 1))
               /\ sale[2] = SumFunctionOnSet(u, (S(n - 1) + 1)..(S(n - 1) + trade.quantity))
      <4> DEFINE from == S(n - 1)
                 to == B(n - 1)
                 q == trade.quantity
                 lots == acc.lots
      <4>1. /\ lots \in Lots /\ q \in Nat /\ from \in Int /\ to \in Int
            /\ \A k \in (from + 1)..to : u[k] \in Int
            /\ Stands(lots, e, u, from, to)
        BY <1>3, <1>4, <2>2, <2>4
      <4>2. sale = Matched(lots, q)
        OBVIOUS
      <4> HIDE DEF from, to, q, lots, sale
      <4>3. LET m == Matched(lots, q)
            IN  /\ m \in Sales
                /\ m[3] = 0 <=> from + q <= to
                /\ m[3] = 0 =>
                     /\ \E f : Stands(m[1], f, u, from + q, to)
                     /\ m[2] = SumFunctionOnSet(u, (from + 1)..(from + q))
        BY <4>1, MatchedFacts
      <4> QED BY <4>2, <4>3 DEF from, to, q, lots
    <3> HIDE DEF sale
    <3> QED BY <2>3, <3>1
  <2>6. sale[1] \in Lots /\ sale[2] \in Int /\ sale[3] \in Nat
    BY <2>5 DEF Sales
  <2>7. LossOfSale(h, n) =
          NonNegative(SumFunctionOnSet(u, (S(n - 1) + 1)..S(n)) - (trade.value - trade.fee))
    BY <2>3 DEF LossOfSale, S, u
  <2>8. trade.value \in Int /\ trade.fee \in Int /\ trade.inPeriod \in BOOLEAN
    BY <1>1 DEF Fill, Absent
  <2>9. CASE sale[3] > 0
    <3>1. after.complete = FALSE
      BY <2>1, <2>9 DEF Records
    <3>2. ~ AccountedFor(h, n)
      BY <1>5, <2>5, <2>6, <2>9
    <3> QED BY <1>9, <3>1, <3>2
  <2>10. CASE ~ (sale[3] > 0)
    <3>1. sale[3] = 0
      BY <2>6, <2>10
    <3>2. AccountedFor(h, n)
      BY <1>5, <1>6, <1>12, <2>5, <3>1
    <3>3. Losses(h)[n] = IF trade.inPeriod THEN LossOfSale(h, n) ELSE 0
      BY <1>12, <3>2, LossesType
    <3>4. next = acc.loss + Losses(h)[n]
      <4>1. LossOfSale(h, n) = NonNegative(sale[2] - (trade.value - trade.fee))
        BY <2>5, <2>7, <3>1
      <4> HIDE DEF sale
      <4>2. pnl \in Int /\ sale[2] - (trade.value - trade.fee) = -pnl
        BY <2>6, <2>8
      <4> HIDE DEF pnl
      <4>3. LossOfSale(h, n) = IF pnl < 0 THEN -pnl ELSE 0
        BY <4>1, <4>2 DEF NonNegative
      <4> QED BY <1>4, <2>8, <3>3, <4>2, <4>3
    <3> HIDE DEF next, sale
    <3>5. after.lots = sale[1] /\ after.loss = next /\ after.complete
      BY <1>12, <2>1, <2>10 DEF Records
    <3>6. after.loss = SumFunctionOnSet(Losses(h), 1..n)
      BY <1>7, <1>12, <3>2, <3>4, <3>5, LossesGrow
    <3> QED BY <1>9, <2>5, <3>1, <3>2, <3>5, <3>6
  <2> QED BY <2>9, <2>10
<1> QED BY <1>4, <1>10, <1>11, <1>12

LEMMA AccountingKept ==
    ASSUME NEW h \in Seq(Fill)
    PROVE  BookKept(h, SessionAccounting(h), Len(h))
<1> DEFINE n == Len(h)
<1>1. PICK g : BooksRun(g, h) /\ SessionAccounting(h) = g[n]
  BY AccountingRuns
<1>2. n \in Nat
  BY LenProperties
<1>3. /\ g \in [0..n -> Records] /\ g[0] = EmptyBook
      /\ \A i \in 1..n : g[i] = Book(g[i - 1], h[i])
  BY <1>1 DEF BooksRun
<1> DEFINE Bad == {i \in 0..n : ~ BookKept(h, g[i], i)}
<1>4. BookKept(h, g[0], 0)
  <2>1. g[0].complete /\ g[0].lots = <<>> /\ g[0].loss = 0
    BY <1>3 DEF EmptyBook
  <2>2. 1..0 = {}
    OBVIOUS
  <2>3. Units(h, "SELL", 0) = 0 /\ Units(h, "BUY", 0) = 0
    BY UnitsFacts
  <2>4. Stands(<<>>, [i \in 0..0 |-> 0], UnitCosts(h), 0, 0)
    <3>1. Len(<<>>) = 0
      OBVIOUS
    <3> QED BY <2>2, <3>1 DEF Stands
  <2>5. AccountedFor(h, 0)
    BY <2>2 DEF AccountedFor
  <2> QED BY <2>1, <2>2, <2>3, <2>4, <2>5, SumEmpty DEF BookKept
<1>5. Bad = {}
  <2> SUFFICES ASSUME Bad # {} PROVE FALSE
    OBVIOUS
  <2>1. Bad \in SUBSET Nat
    OBVIOUS
  <2>2. PICK i \in Bad : \A j \in Bad : i <= j
    <3> HIDE DEF Bad
    <3> QED BY <2>1, LeastNatural
  <2>3. i \in 0..n /\ i # 0
    BY <1>4
  <2>4. i \in 1..n /\ i - 1 \in 0..n /\ ~ (i <= i - 1)
    BY <1>2, <2>3
  <2>5. BookKept(h, g[i - 1], i - 1) /\ g[i - 1] \in Records
    BY <1>3, <2>2, <2>4
  <2>6. BookKept(h, Book(g[i - 1], h[i]), i)
    <3> HIDE DEF Bad
    <3> QED BY <2>4, <2>5, BookIsKept
  <2> QED BY <1>3, <2>4, <2>6
<1>6. n \in 0..n
  BY <1>2
<1> QED BY <1>1, <1>5, <1>6

-----------------------------------------------------------------------------
(***************************************************************************)
(* Every history of fills.                                                 *)
(***************************************************************************)
SessionInput == case \in SessionCases

LEMMA SessionInputCorrect == SessionSpec => []SessionInput
<1>1. SessionInput /\ [UNCHANGED case]_case => SessionInput'
  BY DEF SessionInput, SessionCases
<1> QED BY <1>1, PTL DEF SessionSpec, CalculationOver, SessionInput

LEMMA SessionCorrect == SessionInput => SessionLossIsFirstInFirstOut
<1> SUFFICES ASSUME SessionInput PROVE SessionLossIsFirstInFirstOut
  OBVIOUS
<1> DEFINE h == case.fills
           acc == SessionAccounting(h)
<1>1. h \in Seq(Fill)
  <2>1. h \in Histories
    BY DEF SessionInput, SessionCases
  <2> QED BY <2>1, HistoryAssumption DEF Fill
<1>2. DOMAIN h = 1..Len(h)
  BY <1>1, LenProperties
<1>3. BookKept(h, acc, Len(h))
  BY <1>1, AccountingKept
<1> HIDE DEF h, acc
<1>4. acc.complete <=> AccountedFor(h, Len(h))
  BY <1>3 DEF BookKept
<1>5. acc.complete => acc.loss = SumFunctionOnSet(Losses(h), DOMAIN h)
  BY <1>2, <1>3 DEF BookKept
<1> QED BY <1>2, <1>4, <1>5
        DEF SessionLossIsFirstInFirstOut, AccountedFor, Losses, h, acc

\* The realized loss that the session's stop is compared with is the sum, over the
\* sales of the period, of what the very units sold had cost more than they
\* brought; it is complete unless a fee is unknown or more was sold than bought.
THEOREM SessionLossIsExact == SessionSpec => []SessionLossIsFirstInFirstOut
BY SessionInputCorrect, SessionCorrect, PTL

=============================================================================
