----------------------- MODULE CandidateReviewProofs -----------------------
(***************************************************************************)
(* Theorems about CandidateReview, for every value of its constants and    *)
(* without its fairness: an answered review is over, silence means that    *)
(* the buttons were delivered, and what is recorded and proposed rests on  *)
(* the candle it names.                                                    *)
(***************************************************************************)
EXTENDS CandidateReview, ProposalLedgerProofs

Pc == {"off"} \cup Scanning \cup Reviewing \cup {"exited"}

\* A process that has compared its candle with what the agent read.
Compared == {"insert", "approved", "propose"}

ReviewType ==
    /\ pc \in [Workers -> Pc]
    /\ job \in [Workers -> Candidates \cup {None}]
    /\ read \in [Workers -> Time \cup {None}]
    /\ made \in [Workers -> Proposals \cup {None}]
    /\ verdict \in [Workers -> Verdicts]
    /\ handler \in [Workers -> {"idle", "waiting", "stopping"}]

\* The proposal a process made is its own for ever: it exists, so nobody can
\* create it again for another candidate.
CallInv(w) ==
    /\ pc[w] # "off" => job[w] \in Candidates
    /\ pc[w] \in Reviewing \cup {"exited"} <=> handler[w] # "idle"
    /\ pc[w] \in {"confirming", "asking"} => read[w] # None
    /\ pc[w] \in Compared =>
         read[w] # None /\ Closed(read[w]) = CandleOf[job[w]]
    /\ made[w] # None => status[made[w]] # "ABSENT" /\ source[made[w]] = job[w]
    /\ pc[w] \in {"off"} \cup Scanning => made[w] = None /\ verdict[w] = None
    /\ pc[w] = "deliver" => made[w] # None
    /\ made[w] # None => pc[w] \in {"deliver", "exited"}
    /\ verdict[w] # None => pc[w] = "exited"
    /\ verdict[w] = "delivered" => made[w] # None /\ made[w] \in shown

ReviewInv == ReviewType /\ \A w \in Workers : CallInv(w)

-----------------------------------------------------------------------------
(***************************************************************************)
(* The processes implement the ledger.                                     *)
(***************************************************************************)

\* Each step is a step of the ledger, or none.
LEMMA ReviewStepIsLedgerStep ==
    ReviewInv /\ [ReviewNext]_allVars => [Next]_vars
<1> SUFFICES ASSUME ReviewInv, [ReviewNext]_allVars PROVE Next \/ UNCHANGED vars
  OBVIOUS
<1> USE DEF ReviewInv, CallInv, ReviewType
<1>1. ASSUME NEW w \in Workers, NEW c \in Candidates, BeginScan(w, c) \/ Dispatch(w, c)
      PROVE  UNCHANGED vars
  BY <1>1 DEF BeginScan, Dispatch
<1>2. ASSUME NEW w \in Workers, ScanStep(w) PROVE Next \/ UNCHANGED vars
  <2>1. CASE AskConfirmation(w) \/ Confirm(w) \/ EndScan(w)
    BY <2>1 DEF AskConfirmation, Confirm, EndScan
  <2>2. CASE RecordCandidate(w)
    BY <2>2 DEF RecordCandidate, Next, CandidateStep
  <2> QED BY <1>2, <2>1, <2>2 DEF ScanStep
<1>3. ASSUME NEW w \in Workers, ReviewStep(w) PROVE Next \/ UNCHANGED vars
  <2>1. CASE \/ ReadCandidate(w) \/ AskAgent(w) \/ RetryEmpty(w) \/ Decide(w)
             \/ Skip(w) \/ Deliver(w) \/ Fail(w)
    BY <2>1 DEF ReadCandidate, AskAgent, RetryEmpty, Decide, Skip, Deliver, Fail
  <2>2. CASE CheckSlots(w)
    BY <2>2 DEF CheckSlots, Next, TableStep
  <2>3. ASSUME NEW p \in Proposals, Propose(w, p) PROVE Next \/ UNCHANGED vars
    BY <2>3 DEF Propose, Next, RowStep
  <2> QED BY <1>3, <2>1, <2>2, <2>3 DEF ReviewStep
<1>4. ASSUME NEW w \in Workers, Watchdog(w) \/ Terminate(w) \/ Answer(w)
      PROVE  UNCHANGED vars
  BY <1>4 DEF Watchdog, Terminate, Answer
<1>5. CASE Surroundings
  BY <1>5 DEF Surroundings, Next, CandidateStep, RowStep
<1>6. CASE UNCHANGED allVars
  BY <1>6 DEF allVars
<1> QED BY <1>1, <1>2, <1>3, <1>4, <1>5, <1>6 DEF ReviewNext

-----------------------------------------------------------------------------
(***************************************************************************)
(* The invariant.                                                          *)
(***************************************************************************)
\* A proposal that exists stays, and stays that of its candidate.
LEMMA SourcesStay ==
    ASSUME TypeOK, [Next]_vars, NEW p \in Proposals, status[p] # "ABSENT"
    PROVE  status'[p] # "ABSENT" /\ source'[p] = source[p]
<1>1. CASE \A q \in Proposals, c \in Candidates : ~ CreateProposal(q, c)
  <2>1. status'[p] # "ABSENT"
    BY <1>1, StatusMoves DEF StatusMove
  <2>2. source' = source
    BY <1>1 DEF Next, Tick, CandidateStep, CreateCandidate, DismissCandidate,
       TableStep, Housekeep, RejectAllPendingPaper, InvalidatePendingLiveEntries,
       ResetPaperAccount, RowStep, RejectProposal, SetStatus, RejectByPolicy,
       EndWithoutLease, TerminalizePaper, FinishUnresolved, Finish,
       MarkUnreconcilable, ClosePosition, LeaseStep, ClaimProposal,
       ClaimByConfirmationCode, Approve, FinishExecution,
       RecordExecutionSubmitted, FailExecution, FinishPaperAndOpen, terms, vars
  <2> QED BY <2>1, <2>2
<1>2. ASSUME NEW q \in Proposals, NEW c \in Candidates, CreateProposal(q, c)
      PROVE  status'[p] # "ABSENT" /\ source'[p] = source[p]
  <2>1. q # p
    BY <1>2 DEF CreateProposal
  <2>2. status'[p] # "ABSENT"
    BY <1>2, <2>1, CreationMoves
  <2>3. source'[p] = source[p]
    BY <1>2, <2>1 DEF CreateProposal, TypeOK
  <2> QED BY <2>2, <2>3
<1> QED BY <1>1, <1>2

\* A step of one call: the others keep what they have.
StepOf(w) ==
    /\ ReviewType'
    /\ shown \subseteq shown'
    /\ \A v \in Workers \ {w} :
         /\ pc'[v] = pc[v] /\ job'[v] = job[v] /\ read'[v] = read[v]
         /\ made'[v] = made[v] /\ verdict'[v] = verdict[v]
         /\ handler'[v] = handler[v]

\* It is enough to look at the call that steps.
LEMMA OthersKeep ==
    ASSUME TypeOK, ReviewInv, [Next]_vars, NEW w \in Workers, StepOf(w),
           CallInv(w)'
    PROVE  ReviewInv'
<1>0. \A p \in Proposals : status[p] # "ABSENT" =>
          status'[p] # "ABSENT" /\ source'[p] = source[p]
  BY SourcesStay
<1>1. ASSUME NEW v \in Workers \ {w} PROVE CallInv(v)'
  <2>1. CallInv(v) /\ made[v] \in Proposals \cup {None}
    BY DEF ReviewInv, ReviewType
  <2> QED BY <1>0, <2>1 DEF StepOf, CallInv
<1> QED BY <1>1 DEF ReviewInv, StepOf

\* Every step keeps the invariant.
LEMMA ReviewInvStep ==
    TypeOK /\ ReviewInv /\ [Next]_vars /\ [ReviewNext]_allVars => ReviewInv'
<1> SUFFICES ASSUME TypeOK, ReviewInv, [Next]_vars, [ReviewNext]_allVars
             PROVE  ReviewInv'
  OBVIOUS
<1>0. \A p \in Proposals : status[p] # "ABSENT" =>
          status'[p] # "ABSENT" /\ source'[p] = source[p]
  BY SourcesStay
<1>t. now \in Time /\ now # None
  BY NoneAssumption DEF TypeOK, Time
<1> USE DEF ReviewType, Pc, Scanning, Reviewing, Verdicts, Compared, process, locals
<1>a. ASSUME NEW w \in Workers,
             StepOf(w), CallInv(w) => CallInv(w)'
      PROVE  ReviewInv'
  BY <1>a, OthersKeep DEF ReviewInv
<1>b. ReviewType /\ \A w \in Workers : CallInv(w)
  BY DEF ReviewInv
<1>1. ASSUME NEW w \in Workers, NEW c \in Candidates, BeginScan(w, c) \/ Dispatch(w, c)
      PROVE  ReviewInv'
  <2>1. StepOf(w)
    BY <1>b, <1>1 DEF StepOf, BeginScan, Dispatch
  <2>2. CallInv(w) => CallInv(w)'
    BY <1>b, <1>0, <1>1 DEF CallInv, BeginScan, Dispatch
  <2> QED BY <1>a, <2>1, <2>2
<1>2. ASSUME NEW w \in Workers, ScanStep(w) PROVE ReviewInv'
  <2>1. CASE AskConfirmation(w)
    <3>1. StepOf(w)
      BY <1>b, <1>t, <2>1 DEF StepOf, AskConfirmation, CallAgent
    <3>2. CallInv(w) => CallInv(w)'
      BY <1>b, <1>0, <1>t, <2>1 DEF CallInv, AskConfirmation, CallAgent
    <3> QED BY <1>a, <3>1, <3>2
  <2>2. CASE Confirm(w)
    <3>1. StepOf(w)
      BY <1>b, <1>t, <2>2 DEF StepOf, Confirm, Matches, Go
    <3>2. CallInv(w) => CallInv(w)'
      BY <1>b, <1>0, <1>t, <2>2 DEF CallInv, Confirm, Matches, Go
    <3> QED BY <1>a, <3>1, <3>2
  <2>3. CASE RecordCandidate(w) \/ EndScan(w)
    <3>1. StepOf(w)
      BY <1>b, <1>t, <2>3 DEF StepOf, RecordCandidate, EndScan, Clear
    <3>2. CallInv(w) => CallInv(w)'
      BY <1>b, <1>0, <1>t, <2>3 DEF CallInv, RecordCandidate, EndScan, Clear
    <3> QED BY <1>a, <3>1, <3>2
  <2> QED BY <1>2, <2>1, <2>2, <2>3 DEF ScanStep
<1>3. ASSUME NEW w \in Workers, ReviewStep(w) PROVE ReviewInv'
  <2>1. CASE ReadCandidate(w)
    <3>1. StepOf(w)
      BY <1>b, <1>t, <2>1 DEF StepOf, ReadCandidate, Go
    <3>2. CallInv(w) => CallInv(w)'
      BY <1>b, <1>0, <1>t, <2>1 DEF CallInv, ReadCandidate, Go
    <3> QED BY <1>a, <3>1, <3>2
  <2>2. CASE AskAgent(w)
    <3>1. StepOf(w)
      BY <1>b, <1>t, <2>2 DEF StepOf, AskAgent, CallAgent
    <3>2. CallInv(w) => CallInv(w)'
      BY <1>b, <1>0, <1>t, <2>2 DEF CallInv, AskAgent, CallAgent
    <3> QED BY <1>a, <3>1, <3>2
  <2>3. CASE RetryEmpty(w)
    <3>1. StepOf(w)
      BY <1>b, <1>t, <2>3 DEF StepOf, RetryEmpty
    <3>2. CallInv(w) => CallInv(w)'
      BY <1>b, <1>0, <1>t, <2>3 DEF CallInv, RetryEmpty
    <3> QED BY <1>a, <3>1, <3>2
  <2>4. CASE Decide(w)
    <3>1. StepOf(w)
      BY <1>b, <1>t, <2>4 DEF StepOf, Decide, Matches, Go, Exit
    <3>2. CallInv(w) => CallInv(w)'
      <4>1. CASE Go(w, "approved")
        BY <1>b, <1>0, <1>t, <2>4, <4>1 DEF CallInv, Decide, Matches, Observed, Go
      <4>2. CASE Exit(w, "declined")
        BY <1>b, <1>0, <1>t, <2>4, <4>2 DEF CallInv, Decide, Exit
      <4> QED BY <2>4, <4>1, <4>2 DEF Decide
    <3> QED BY <1>a, <3>1, <3>2
  <2>5. CASE Skip(w) \/ Fail(w)
    <3>1. StepOf(w)
      BY <1>b, <1>t, <2>5 DEF StepOf, Skip, Fail, Exit
    <3>2. CallInv(w) => CallInv(w)'
      BY <1>b, <1>0, <1>t, <2>5 DEF CallInv, Skip, Fail, Exit
    <3> QED BY <1>a, <3>1, <3>2
  <2>6. CASE CheckSlots(w)
    <3>1. StepOf(w)
      BY <1>b, <1>t, <2>6 DEF StepOf, CheckSlots, Go, Exit
    <3>2. CallInv(w) => CallInv(w)'
      BY <1>b, <1>0, <1>t, <2>6 DEF CallInv, CheckSlots, Go, Exit
    <3> QED BY <1>a, <3>1, <3>2
  <2>7. ASSUME NEW p \in Proposals, Propose(w, p) PROVE ReviewInv'
    <3>1. status'[p] = "PENDING" /\ source'[p] = job[w] /\ p # None
      BY <2>7, HousekeptType, NoneAssumption DEF Propose, CreateProposal, TypeOK
    <3>2. StepOf(w)
      BY <1>b, <2>7 DEF StepOf, Propose
    <3>3. CallInv(w) => CallInv(w)'
      BY <1>b, <2>7, <3>1 DEF CallInv, Propose
    <3> QED BY <1>a, <3>2, <3>3
  <2>8. CASE Deliver(w)
    <3>1. StepOf(w)
      BY <1>b, <1>t, <2>8 DEF StepOf, Deliver, Exit
    <3>2. CallInv(w) => CallInv(w)'
      BY <1>b, <1>0, <1>t, <2>8 DEF CallInv, Deliver, Exit
    <3> QED BY <1>a, <3>1, <3>2
  <2> QED BY <1>3, <2>1, <2>2, <2>3, <2>4, <2>5, <2>6, <2>7, <2>8 DEF ReviewStep
<1>4. ASSUME NEW w \in Workers, Watchdog(w) \/ Terminate(w) \/ Answer(w)
      PROVE  ReviewInv'
  <2>1. StepOf(w)
    BY <1>b, <1>4 DEF StepOf, Watchdog, Terminate, Answer, Exit, Clear
  <2>2. CallInv(w) => CallInv(w)'
    <3>1. CASE Watchdog(w)
      BY <1>b, <1>0, <3>1 DEF CallInv, Watchdog
    <3>2. CASE Terminate(w)
      BY <1>b, <1>0, <3>2 DEF CallInv, Terminate, Exit
    <3>3. CASE Answer(w)
      BY <1>b, <1>0, <3>3, ReviewAssumption DEF CallInv, Answer, Clear
    <3> QED BY <1>4, <3>1, <3>2, <3>3
  <2> QED BY <1>a, <2>1, <2>2
<1>5. ASSUME UNCHANGED locals PROVE ReviewInv'
  <2>1. ReviewType'
    BY <1>b, <1>5
  <2>2. ASSUME NEW w \in Workers PROVE CallInv(w)'
    BY <1>b, <1>0, <1>5 DEF CallInv
  <2> QED BY <2>1, <2>2 DEF ReviewInv
<1> QED BY <1>1, <1>2, <1>3, <1>4, <1>5 DEF ReviewNext, allVars

\* It holds in every reachable state, and each step is one of the ledger.
THEOREM ReviewInvariant == ReviewSpec => Spec /\ []ReviewInv
<1>1. ReviewInit => Init /\ ReviewInv
  <2>1. ReviewInit => ReviewType
    BY NoneAssumption DEF ReviewInit, ReviewType, Pc, Verdicts
  <2> QED
    BY <2>1, ReviewAssumption
       DEF ReviewInit, ReviewInv, CallInv, Compared, Reviewing, Scanning
<1>2. Init => TypeOK
  BY TypeInit
<1>3. TypeOK /\ ReviewInv /\ [ReviewNext]_allVars =>
          TypeOK' /\ ReviewInv' /\ [Next]_vars
  BY TypeStep, ReviewInvStep, ReviewStepIsLedgerStep
<1> QED BY <1>1, <1>2, <1>3, PTL DEF ReviewSpec, Spec

-----------------------------------------------------------------------------
(***************************************************************************)
(* The properties.                                                         *)
(***************************************************************************)
\* Once the extension has answered, its command can create and send no more.
THEOREM AnsweredIsOver == ReviewSpec => []AnsweredMeansEnded
<1>1. ReviewInv => AnsweredMeansEnded
  BY DEF ReviewInv, CallInv, AnsweredMeansEnded
<1> QED BY <1>1, ReviewInvariant, PTL

\* The extension keeps silent only if its command's buttons were delivered, and
\* they are those of a proposal for the candidate under review.
THEOREM SilenceIsJustified == ReviewSpec => SilenceMeansButtons
<1>1. ASSUME ReviewInv, NEW w \in Workers, ReplyTo(w) = "silent"
      PROVE  made[w] \in shown /\ source[made[w]] = job[w]
  <2>1. verdict[w] = "delivered"
    BY <1>1 DEF ReplyTo
  <2> QED BY <1>1, <2>1 DEF ReviewInv, CallInv
<1>2. ReviewInv => [\A w \in Workers :
        handler[w] # "idle" /\ handler'[w] = "idle" /\ ReplyTo(w) = "silent"
            => made[w] \in shown /\ source[made[w]] = job[w]]_allVars
  BY <1>1
<1> QED BY <1>2, ReviewInvariant, PTL DEF SilenceMeansButtons

Rests(c) ==
    \/ candStatus[c] = "ABSENT" /\ candStatus'[c] = "ACTIVE"
    \/ candStatus[c] = "ACTIVE" /\ candStatus'[c] = "PROPOSED"
    => \E w \in Workers :
          /\ pc[w] # pc'[w] /\ job[w] = c
          /\ read[w] # None /\ Closed(read[w]) = CandleOf[c]

\* A candidate is recorded, and a proposal made of it, only by a process whose
\* agent read the market when the candidate's candle was the last one closed.
THEOREM CandlesAreTheRightOnes == ReviewSpec => RestsOnItsCandle
<1>1. ASSUME TypeOK, ReviewInv, [ReviewNext]_allVars, NEW c \in Candidates
      PROVE  Rests(c)
  <2> USE DEF TypeOK, ReviewInv, ReviewType, CallInv, Compared, candidates
  <2>0. (candStatus'[c] = candStatus[c] \/ candStatus'[c] \in {"EXPIRED", "DISMISSED"})
            => Rests(c)
    BY DEF Rests
  <2>1. ASSUME NEW w \in Workers, RecordCandidate(w) PROVE Rests(c)
    <3>1. CASE UNCHANGED vars
      BY <2>0, <3>1 DEF vars
    <3>2. CASE CreateCandidate(job[w])
      <4>1. /\ pc[w] = "insert" /\ pc'[w] = "off"
            /\ candStatus' = [candStatus EXCEPT ![job[w]] = "ACTIVE"]
        BY <1>1, <2>1, <3>2 DEF RecordCandidate, CreateCandidate, Clear
      <4>2. read[w] # None /\ Closed(read[w]) = CandleOf[job[w]]
        BY <1>1, <4>1
      <4>3. CASE c = job[w]
        BY <4>1, <4>2, <4>3 DEF Rests
      <4>4. CASE c # job[w]
        BY <2>0, <4>1, <4>4
      <4> QED BY <4>3, <4>4
    <3> QED BY <2>1, <3>1, <3>2 DEF RecordCandidate
  <2>2. ASSUME NEW w \in Workers, NEW p \in Proposals, Propose(w, p) PROVE Rests(c)
    <3>1. /\ pc[w] = "propose" /\ pc'[w] = "deliver"
          /\ HousekeptCandidates \in [Candidates -> CandidateStatus]
          /\ HousekeptCandidates[c] \in {candStatus[c], "EXPIRED"}
          /\ candStatus' = [HousekeptCandidates EXCEPT ![job[w]] = "PROPOSED"]
      BY <1>1, <2>2, HousekeptType DEF Propose, CreateProposal, HousekeptCandidates
    <3>2. read[w] # None /\ Closed(read[w]) = CandleOf[job[w]]
      BY <1>1, <3>1
    <3>3. CASE c = job[w]
      BY <3>1, <3>2, <3>3 DEF Rests
    <3>4. CASE c # job[w]
      BY <2>0, <3>1, <3>4
    <3> QED BY <3>3, <3>4
  <2>3. ASSUME NEW w \in Workers, CheckSlots(w) PROVE Rests(c)
    BY <2>0, <2>3 DEF CheckSlots, Housekeep, HousekeptCandidates
  <2>4. CASE Surroundings
    <3>1. CASE Tick
      BY <2>0, <3>1 DEF Tick
    <3>2. ASSUME NEW d \in Candidates, DismissCandidate(d) PROVE Rests(c)
      BY <2>0, <3>2 DEF DismissCandidate
    <3>3. ASSUME NEW p \in Proposals, RejectProposal(p) PROVE Rests(c)
      BY <2>0, <3>3 DEF RejectProposal, SetStatus
    <3> QED BY <2>4, <3>1, <3>2, <3>3 DEF Surroundings
  <2>5. CASE UNCHANGED vars
    BY <2>0, <2>5 DEF vars
  <2>6. ASSUME NEW w \in Workers, NEW d \in Candidates, BeginScan(w, d) \/ Dispatch(w, d)
        PROVE  Rests(c)
    BY <2>5, <2>6 DEF BeginScan, Dispatch
  <2>7. ASSUME NEW w \in Workers, ScanStep(w) PROVE Rests(c)
    BY <2>1, <2>5, <2>7 DEF ScanStep, AskConfirmation, Confirm, EndScan
  <2>8. ASSUME NEW w \in Workers, ReviewStep(w) PROVE Rests(c)
    BY <2>2, <2>3, <2>5, <2>8 DEF ReviewStep, ReadCandidate, AskAgent, RetryEmpty,
       Decide, Skip, Deliver, Fail
  <2>9. ASSUME NEW w \in Workers, Watchdog(w) \/ Terminate(w) \/ Answer(w)
        PROVE  Rests(c)
    BY <2>5, <2>9 DEF Watchdog, Terminate, Answer
  <2> QED BY <1>1, <2>4, <2>5, <2>6, <2>7, <2>8, <2>9 DEF ReviewNext, allVars
<1>2. TypeOK /\ ReviewInv /\ [ReviewNext]_allVars => [\A c \in Candidates :
        \/ candStatus[c] = "ABSENT" /\ candStatus'[c] = "ACTIVE"
        \/ candStatus[c] = "ACTIVE" /\ candStatus'[c] = "PROPOSED"
        => \E w \in Workers :
              /\ pc[w] # pc'[w] /\ job[w] = c
              /\ read[w] # None /\ Closed(read[w]) = CandleOf[c]]_allVars
  BY <1>1 DEF Rests
<1> QED
  BY <1>2, TypeCorrect, ReviewInvariant, PTL DEF ReviewSpec, RestsOnItsCandle

=============================================================================
