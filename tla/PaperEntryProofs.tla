--------------------------- MODULE PaperEntryProofs ---------------------------
(***************************************************************************)
(* Theorems about a PAPER entry, for every value of the constants.         *)
(*                                                                         *)
(* PaperApproval: approvals racing for any number of slots exceed the      *)
(* daily quota of entries by less than the number of slots, and the limit  *)
(* on tranches never.                                                      *)
(*                                                                         *)
(* PaperPosition: an entry leaves position, account and day within the     *)
(* limits of the equity at its fill and at its proposal; the risks it      *)
(* records are what the position loses at its stop; its bracket is one the *)
(* monitor accepts.                                                        *)
(***************************************************************************)
EXTENDS PaperApproval, PaperPosition, ProposalLedgerProofs

-----------------------------------------------------------------------------
(***************************************************************************)
(* Every step of a process is one of the ledger's, so what is proved of    *)
(* the ledger holds here.                                                  *)
(***************************************************************************)

\* A process that drafts has a candidate in hand, any other a proposal.
JobInv ==
    /\ pc \in [Workers -> Pc]
    /\ job \in [Workers -> PaperProposals \cup Candidates \cup {None}]
    /\ \A w \in Workers :
         /\ pc[w] = "drafting" => job[w] \in Candidates
         /\ pc[w] \notin {"off", "drafting"} => job[w] \in PaperProposals

\* Every step keeps that.
LEMMA JobStep == JobInv /\ [ApprovalNext]_allVars => JobInv'
<1> SUFFICES ASSUME JobInv, [ApprovalNext]_allVars PROVE JobInv'
  OBVIOUS
<1> USE DEF JobInv, Pc, locals
<1>1. ASSUME NEW w \in Workers, ProcessStep(w) PROVE JobInv'
  <2>1. ASSUME NEW c \in Candidates, BeginProposal(w, c) PROVE JobInv'
    BY <2>1 DEF BeginProposal, Enter
  <2>2. ASSUME NEW p \in PaperProposals,
               \/ BeginRejection(w, p)
               \/ \E how \in {"button", "code"} : BeginApproval(w, p, how)
        PROVE  JobInv'
    BY <2>2 DEF BeginRejection, BeginApproval, Enter
  <2>3. CASE \/ \E p \in PaperProposals : Propose(w, p)
             \/ TerminalizeAtQuota(w) \/ PolicyReject(w) \/ Fill(w)
             \/ EndExecution(w) \/ Reject(w) \/ Stop(w)
    BY <2>3 DEF Propose, TerminalizeAtQuota, PolicyReject, Fill, EndExecution,
       Reject, Stop, Leave
  <2>4. CASE \/ ReadProposal(w) \/ CheckQuota(w) \/ PolicyAccepts(w)
             \/ PolicyRefuses(w) \/ Claim(w) \/ VerifyLease(w)
             \/ ExecutionRaises(w)
    BY <2>4 DEF ReadProposal, CheckQuota, PolicyAccepts, PolicyRefuses, Claim,
       VerifyLease, ExecutionRaises, Go
  <2> QED BY <1>1, <2>1, <2>2, <2>3, <2>4 DEF ProcessStep
<1>2. CASE UNCHANGED locals
  BY <1>2
<1> QED BY <1>1, <1>2 DEF ApprovalNext, allVars

\* So it always holds.
LEMMA JobCorrect == ApprovalSpec => []JobInv
<1>1. ApprovalInit => JobInv
  BY DEF ApprovalInit, JobInv, Pc
<1> QED BY <1>1, JobStep, PTL DEF ApprovalSpec

\* Each step is a step of the ledger, or none.
LEMMA ApprovalStepIsLedgerStep ==
    JobInv /\ [ApprovalNext]_allVars => [Next]_vars
<1> SUFFICES ASSUME JobInv, [ApprovalNext]_allVars PROVE Next \/ UNCHANGED vars
  OBVIOUS
<1> USE DEF JobInv
<1>0. PaperProposals \subseteq Proposals
  BY DEF Proposals
<1>1. ASSUME NEW w \in Workers, ProcessStep(w) PROVE Next \/ UNCHANGED vars
  <2>1. CASE \/ \E c \in Candidates : BeginProposal(w, c)
             \/ \E p \in PaperProposals :
                  \/ BeginRejection(w, p)
                  \/ \E how \in {"button", "code"} : BeginApproval(w, p, how)
    BY <2>1 DEF BeginProposal, BeginRejection, BeginApproval, Next, TableStep
  <2>2. CASE \/ ReadProposal(w) \/ CheckQuota(w) \/ PolicyAccepts(w)
             \/ PolicyRefuses(w) \/ VerifyLease(w) \/ ExecutionRaises(w)
             \/ Stop(w)
    BY <2>2 DEF ReadProposal, CheckQuota, PolicyAccepts, PolicyRefuses,
       VerifyLease, ExecutionRaises, Stop
  <2>3. ASSUME NEW p \in PaperProposals, Propose(w, p)
        PROVE  Next \/ UNCHANGED vars
    BY <1>0, <2>3 DEF Propose, Next, RowStep
  <2>4. CASE TerminalizeAtQuota(w) \/ PolicyReject(w) \/ Reject(w)
    BY <1>0, <2>4 DEF TerminalizeAtQuota, PolicyReject, Reject, Next, RowStep
  <2>5. CASE Claim(w)
    BY <1>0, <2>5 DEF Claim, Next, LeaseStep
  <2>6. CASE Fill(w)
    BY <1>0, <2>6 DEF Fill, Next, LeaseStep
  <2>7. CASE EndExecution(w)
    BY <1>0, <2>7 DEF EndExecution, Next, RowStep, LeaseStep
  <2> QED
    BY <1>1, <2>1, <2>2, <2>3, <2>4, <2>5, <2>6, <2>7 DEF ProcessStep
<1>2. CASE Surroundings
  BY <1>0, <1>2 DEF Surroundings, Next, CandidateStep, TableStep, RowStep
<1>3. CASE UNCHANGED allVars
  BY <1>3 DEF allVars
<1> QED BY <1>1, <1>2, <1>3 DEF ApprovalNext

\* The laws of the ledger hold of the processes.
LEMMA ApprovalIsLedger == ApprovalSpec => Spec
<1>1. ApprovalInit => Init
  BY DEF ApprovalInit
<1> QED
  BY <1>1, JobCorrect, ApprovalStepIsLedgerStep, PTL DEF ApprovalSpec, Spec

-----------------------------------------------------------------------------
(***************************************************************************)
(* The limits.  Only a Fill adds to what they count.  A proposal is armed  *)
(* when an approval of it has passed the check of the quota and it may     *)
(* still be filled; an armed proposal holds a slot.  While the day has     *)
(* room any number may be armed; once it has none nobody is armed any      *)
(* more, and every fill disarms one.                                       *)
(***************************************************************************)
Passed == {"policy", "claiming", "claimed", "executing"}

Armed ==
    {p \in PaperProposals :
        \/ status[p] = "EXECUTING"
        \/ status[p] = "PENDING" /\ \E w \in Workers : pc[w] \in Passed /\ job[w] = p}

IsCounted(p) ==
    status[p] = "EXECUTED" /\ exec[p] = "FILLED" /\ executedAt[p] >= lastReset

FilledOn(d) ==
    {p \in PaperProposals : IsCounted(p) /\ DayOf(executedAt[p]) = d}

LimitInv ==
    /\ \A p \in PaperProposals : status[p] = "EXECUTED" /\ exec[p] = "FILLED" =>
          executedAt[p] # None /\ executedAt[p] <= now
    /\ \A w \in Workers :
          pc[w] \notin {"off", "drafting"} => status[job[w]] # "ABSENT"
    /\ EntriesOn(DayOf(now)) >= MaxEntries =>
          EntriesOn(DayOf(now)) + Cardinality(Armed) < MaxEntries + MaxActive
    /\ \A t \in Time : EntriesOn(DayOf(t)) < MaxEntries + MaxActive
    /\ Cardinality(OpenTranches) <= MaxTranches

\* Numbers of finite sets.
CountsAreNatural ==
    /\ \A d : /\ EntriesOn(d) = Cardinality(FilledOn(d))
              /\ IsFiniteSet(FilledOn(d))
              /\ EntriesOn(d) \in Nat
    /\ IsFiniteSet(OpenTranches) /\ Cardinality(OpenTranches) \in Nat
    /\ IsFiniteSet(Armed) /\ Cardinality(Armed) \in Nat

\* What is counted is a finite set.
LEMMA CountedFinite == CountsAreNatural
<1> USE DEF CountsAreNatural
<1>1. IsFiniteSet(PaperProposals)
  BY LedgerAssumption, FS_Subset
<1>2. ASSUME NEW d
      PROVE  /\ EntriesOn(d) = Cardinality(FilledOn(d))
             /\ IsFiniteSet(FilledOn(d))
             /\ EntriesOn(d) \in Nat
  <2>1. EntriesOn(d) = Cardinality(FilledOn(d))
    <3>1. {p \in PaperProposals :
             /\ status[p] = "EXECUTED" /\ exec[p] = "FILLED"
             /\ executedAt[p] >= lastReset /\ DayOf(executedAt[p]) = d}
          = FilledOn(d)
      BY DEF FilledOn, IsCounted
    <3> QED BY <3>1 DEF EntriesOn
  <2>2. FilledOn(d) \subseteq PaperProposals
    BY DEF FilledOn
  <2> QED BY <1>1, <2>1, <2>2, FS_Subset, FS_CardinalityType
<1>3. OpenTranches \subseteq PaperProposals /\ Armed \subseteq PaperProposals
  BY DEF OpenTranches, Armed
<1> QED BY <1>1, <1>2, <1>3, FS_Subset, FS_CardinalityType

\* Armed proposals hold slots.
LEMMA ArmedHoldSlots ==
    ASSUME ActiveWithinCap
    PROVE  /\ IsFiniteSet(Armed) /\ Cardinality(Armed) \in Nat
           /\ Cardinality(Armed) <= MaxActive
<1>1. Armed \subseteq ActiveIn(status)
  BY DEF Armed, ActiveIn, Proposals
<1>2. IsFiniteSet(ActiveIn(status))
  BY ActiveFinite
<1>3. Cardinality(Armed) <= Cardinality(ActiveIn(status)) /\ IsFiniteSet(Armed)
  BY <1>1, <1>2, FS_Subset
<1>4. Cardinality(Armed) \in Nat /\ Cardinality(ActiveIn(status)) \in Nat
  BY <1>2, <1>3, FS_CardinalityType
<1> QED BY <1>3, <1>4, LedgerAssumption DEF ActiveWithinCap

\* What a step other than a fill does to a proposal.
CalmFor(p) ==
    /\ status'[p] = "EXECUTED" =>
         /\ status[p] = "EXECUTED"
         /\ exec'[p] = exec[p]
         /\ executedAt'[p] = executedAt[p]
    /\ position'[p] = "OPEN" => position[p] = "OPEN"
    /\ status'[p] = "EXECUTING" => p \in Armed
    /\ status'[p] = "PENDING" => status[p] \in {"PENDING", "ABSENT"}
    /\ status'[p] = "ABSENT" => status[p] = "ABSENT"

\* Only a fill adds an entry or opens a position.
LEMMA OthersAreCalm ==
    ASSUME TypeOK, LedgerInv, JobInv, NEW p \in PaperProposals,
           \/ \E w \in Workers : ProcessStep(w) /\ ~ Fill(w)
           \/ Surroundings
    PROVE  CalmFor(p)
<1> USE LedgerAssumption
    DEF TypeOK, LedgerInv, RowInv, CalmFor, Armed, candidates, terms, leases,
        outcome, account, Proposals
<1>1. CASE Housekeep
  BY <1>1 DEF Housekeep, HousekeptStatus, RecoverLostColumns, Recovered, Lost, Stale
<1>2. ASSUME NEW q \in PaperProposals, NEW c, CreateProposal(q, c)
      PROVE  CalmFor(p)
  BY <1>2 DEF CreateProposal, HousekeptStatus, RecoverLostColumns, Recovered, Lost,
     Stale
<1>3. CASE UNCHANGED vars
  BY <1>3 DEF vars
<1>4. ASSUME NEW q \in PaperProposals,
             RejectProposal(q) \/ TerminalizePaper(q) \/ RejectByPolicy(q)
      PROVE  CalmFor(p)
  BY <1>4 DEF RejectProposal, TerminalizePaper, SetStatus, RejectByPolicy,
     EndWithoutLease
<1>5. ASSUME NEW w \in Workers, ProcessStep(w), ~ Fill(w) PROVE CalmFor(p)
  <2>1. CASE \/ \E c \in Candidates : BeginProposal(w, c)
             \/ \E q \in PaperProposals :
                  \/ BeginRejection(w, q)
                  \/ \E how \in {"button", "code"} : BeginApproval(w, q, how)
    BY <1>1, <2>1 DEF BeginProposal, BeginRejection, BeginApproval
  <2>2. CASE \E q \in PaperProposals : Propose(w, q)
    BY <1>2, <2>2 DEF Propose
  <2>3. CASE \/ ReadProposal(w) \/ CheckQuota(w) \/ PolicyAccepts(w)
             \/ PolicyRefuses(w) \/ VerifyLease(w) \/ ExecutionRaises(w)
             \/ Stop(w)
    BY <1>3, <2>3 DEF ReadProposal, CheckQuota, PolicyAccepts, PolicyRefuses,
       VerifyLease, ExecutionRaises, Stop
  <2>4. CASE \/ TerminalizeAtQuota(w) \/ PolicyReject(w) \/ Reject(w)
    BY <1>4, <2>4 DEF TerminalizeAtQuota, PolicyReject, Reject, JobInv
  <2>5. CASE Claim(w)
    <3>1. PICK l \in Time, t \in Time : Approve(job[w], w, l, t) /\ status[job[w]] = "PENDING"
      BY <2>5 DEF Claim, ClaimProposal, ClaimByConfirmationCode, Claimable
    <3>2. job[w] \in PaperProposals /\ job[w] \in Armed
      BY <2>5, <3>1 DEF Claim, JobInv, Passed
    <3> QED BY <3>1, <3>2 DEF Approve
  <2>6. CASE EndExecution(w)
    BY <1>4, <2>6 DEF EndExecution, FailExecution, EndWithoutLease, Holds, JobInv
  <2> QED
    BY <1>5, <2>1, <2>2, <2>3, <2>4, <2>5, <2>6 DEF ProcessStep
<1>6. CASE Surroundings
  BY <1>6 DEF Surroundings, Tick, CreateCandidate, ClosePosition,
     ResetPaperAccount, SetStatusOf
<1> QED BY <1>5, <1>6

\* A calm step adds nothing to what is counted.
LEMMA CalmCounts ==
    ASSUME TypeOK, LimitInv, \A p \in PaperProposals : CalmFor(p),
           lastReset' \in {lastReset, now}, lastReset <= now,
           CountsAreNatural, CountsAreNatural'
    PROVE  /\ \A d : EntriesOn(d)' <= EntriesOn(d)
           /\ \A t \in Time : EntriesOn(DayOf(t))' < MaxEntries + MaxActive
           /\ Cardinality(OpenTranches') <= MaxTranches
<1>1. ASSUME NEW d PROVE EntriesOn(d)' <= EntriesOn(d)
  <2>1. FilledOn(d)' \subseteq FilledOn(d)
    BY DEF FilledOn, IsCounted, CalmFor, LimitInv, TypeOK, Proposals, Time
  <2>2. EntriesOn(d)' = Cardinality(FilledOn(d)')
    BY DEF CountsAreNatural
  <2> QED BY <2>1, <2>2, FS_Subset DEF CountsAreNatural
<1>2. ASSUME NEW t \in Time PROVE EntriesOn(DayOf(t))' < MaxEntries + MaxActive
  <2>1. EntriesOn(DayOf(t)) < MaxEntries + MaxActive
    BY DEF LimitInv
  <2>2. EntriesOn(DayOf(t))' <= EntriesOn(DayOf(t))
    BY <1>1
  <2>3. EntriesOn(DayOf(t)) \in Nat /\ EntriesOn(DayOf(t))' \in Nat
    BY DEF CountsAreNatural
  <2> QED BY <2>1, <2>2, <2>3, ApprovalAssumption, LedgerAssumption
<1>3. OpenTranches' \subseteq OpenTranches
  BY DEF OpenTranches, CalmFor
<1>4. Cardinality(OpenTranches') <= Cardinality(OpenTranches)
  BY <1>3, FS_Subset DEF CountsAreNatural
<1> QED
  BY <1>1, <1>2, <1>4, ApprovalAssumption DEF CountsAreNatural, LimitInv

\* Where a step may bring a process w: on from where it was, past the check only
\* if the day has room, or to the start of work on a proposal that exists.
MovesOn(w) ==
    pc'[w] \notin {"off", "drafting"} =>
        /\ job'[w] \in PaperProposals
        /\ \/ /\ pc[w] \notin {"off", "drafting"}
              /\ job'[w] = job[w]
              /\ pc'[w] \in Passed =>
                   pc[w] \in Passed \/ EntriesOn(DayOf(now)) < MaxEntries
           \/ status[job'[w]] # "ABSENT" /\ pc'[w] \notin Passed

\* A calm step arms a proposal only while the day has room.
LEMMA CalmArms ==
    ASSUME JobInv, LimitInv, \A p \in PaperProposals : CalmFor(p),
           \A w \in Workers : MovesOn(w),
           EntriesOn(DayOf(now)) >= MaxEntries, CountsAreNatural
    PROVE  Armed' \subseteq Armed
<1> SUFFICES ASSUME NEW p \in PaperProposals, p \in Armed' PROVE p \in Armed
  BY DEF Armed
<1>1. CASE status'[p] = "EXECUTING"
  BY <1>1 DEF CalmFor
<1>2. ASSUME status'[p] = "PENDING", NEW w \in Workers, pc'[w] \in Passed, job'[w] = p
      PROVE  p \in Armed
  <2>1. pc'[w] \notin {"off", "drafting"} /\ status[p] \in {"PENDING", "ABSENT"}
    BY <1>2 DEF Passed, CalmFor
  <2>2. ~ (EntriesOn(DayOf(now)) < MaxEntries)
    BY ApprovalAssumption DEF CountsAreNatural
  <2>3. /\ pc[w] \notin {"off", "drafting"} /\ job[w] = p /\ pc[w] \in Passed
    BY <1>2, <2>1, <2>2 DEF MovesOn
  <2>4. status[p] # "ABSENT"
    BY <2>3 DEF LimitInv
  <2> QED BY <2>1, <2>3, <2>4 DEF Armed
<1> QED BY <1>1, <1>2 DEF Armed

\* A calm step keeps the invariant.
LEMMA CalmKeeps ==
    ASSUME TypeOK, LedgerInv, JobInv, LimitInv, CountsAreNatural,
           CountsAreNatural', \A p \in PaperProposals : CalmFor(p),
           lastReset' \in {lastReset, now}, now' = now,
           \A w \in Workers : MovesOn(w)
    PROVE  LimitInv'
<1>1. lastReset <= now
  BY DEF LedgerInv
<1>2. /\ EntriesOn(DayOf(now))' <= EntriesOn(DayOf(now))
      /\ \A t \in Time : EntriesOn(DayOf(t))' < MaxEntries + MaxActive
      /\ Cardinality(OpenTranches') <= MaxTranches
  BY <1>1, CalmCounts
<1>3. ASSUME EntriesOn(DayOf(now))' >= MaxEntries
      PROVE  EntriesOn(DayOf(now))' + Cardinality(Armed') < MaxEntries + MaxActive
  <2>1. /\ EntriesOn(DayOf(now)) \in Nat /\ EntriesOn(DayOf(now))' \in Nat
        /\ IsFiniteSet(Armed) /\ Cardinality(Armed) \in Nat
        /\ Cardinality(Armed') \in Nat
    BY DEF CountsAreNatural
  <2>2. EntriesOn(DayOf(now)) >= MaxEntries
    BY <1>2, <1>3, <2>1, ApprovalAssumption
  <2>3. Cardinality(Armed') <= Cardinality(Armed)
    BY <2>1, <2>2, CalmArms, FS_Subset
  <2>4. EntriesOn(DayOf(now)) + Cardinality(Armed) < MaxEntries + MaxActive
    BY <2>2 DEF LimitInv
  <2> QED BY <1>2, <2>1, <2>3, <2>4, ApprovalAssumption, LedgerAssumption
<1>4. ASSUME NEW p \in PaperProposals, (status[p] = "EXECUTED" /\ exec[p] = "FILLED")'
      PROVE  (executedAt[p] # None /\ executedAt[p] <= now)'
  BY <1>4 DEF CalmFor, LimitInv
<1>5. ASSUME NEW w \in Workers
      PROVE  (pc[w] \notin {"off", "drafting"} => status[job[w]] # "ABSENT")'
  BY <1>5 DEF MovesOn, CalmFor, LimitInv
<1> HIDE DEF CountsAreNatural
<1> QED BY <1>2, <1>3, <1>4, <1>5 DEF LimitInv

\* Time passing: a new day starts without entries.
LEMMA TickKeeps ==
    ASSUME TypeOK, LimitInv, CountsAreNatural, CountsAreNatural', Tick,
           UNCHANGED locals
    PROVE  LimitInv'
<1> USE DEF Tick, candidates, terms, leases, outcome, account, locals
<1>1. \A d : FilledOn(d)' = FilledOn(d)
  BY DEF FilledOn, IsCounted
<1>2. \A d : EntriesOn(d)' = EntriesOn(d)
  BY <1>1 DEF CountsAreNatural
<1>3. now \in Nat /\ now' = now + 1
  BY DEF TypeOK, Time
<1>4. DayOf(now') # DayOf(now) => EntriesOn(DayOf(now))' < MaxEntries
  <2> SUFFICES ASSUME DayOf(now') # DayOf(now)
               PROVE  EntriesOn(DayOf(now))' < MaxEntries
    OBVIOUS
  <2> DEFINE d == DayOf(now')
  <2>1. ASSUME NEW p \in FilledOn(d) PROVE FALSE
    <3>1. /\ executedAt[p] \in Nat /\ executedAt[p] <= now
          /\ DayOf(executedAt[p]) = DayOf(now')
      BY <2>1 DEF FilledOn, IsCounted, LimitInv, TypeOK, Proposals, Time
    <3>2. DayOf(executedAt[p]) <= DayOf(now) /\ DayOf(now) <= DayOf(now')
      BY <1>3, <3>1, DaysAreOrdered
    <3>3. DayOf(now) \in Nat /\ DayOf(now') \in Nat
      BY <1>3, DaysAreOrdered
    <3> QED BY <3>1, <3>2, <3>3
  <2>2. FilledOn(DayOf(now))' = {}
    BY <2>1 DEF FilledOn, IsCounted
  <2>3. EntriesOn(DayOf(now))' = Cardinality(FilledOn(DayOf(now))')
    BY DEF CountsAreNatural
  <2>4. EntriesOn(DayOf(now))' = 0
    BY <2>2, <2>3, FS_EmptySet
  <2> QED BY <2>4, ApprovalAssumption
<1>5. Armed' = Armed
  BY DEF Armed
<1>6. ASSUME EntriesOn(DayOf(now))' >= MaxEntries
      PROVE  EntriesOn(DayOf(now))' + Cardinality(Armed') < MaxEntries + MaxActive
  <2>1. EntriesOn(DayOf(now))' \in Nat
    BY DEF CountsAreNatural
  <2>2. DayOf(now') = DayOf(now)
    BY <1>4, <1>6, <2>1, ApprovalAssumption
  <2>3. EntriesOn(DayOf(now))' = EntriesOn(DayOf(now))
    BY <2>2 DEF EntriesOn
  <2> QED BY <1>5, <1>6, <2>3 DEF LimitInv
<1>7. OpenTranches' = OpenTranches
  BY DEF OpenTranches
<1>8. \A p \in PaperProposals : status[p] = "EXECUTED" /\ exec[p] = "FILLED" =>
          executedAt[p] # None /\ executedAt[p] <= now'
  BY <1>3 DEF LimitInv, TypeOK, Proposals, Time
<1> QED BY <1>2, <1>6, <1>7, <1>8 DEF LimitInv

\* A fill disarms its proposal.
LEMMA FillKeeps ==
    ASSUME TypeOK, LedgerInv, ActiveWithinCap, JobInv, LimitInv,
           CountsAreNatural, CountsAreNatural', NEW w \in Workers, Fill(w)
    PROVE  LimitInv'
<1> DEFINE p == job[w]
<1> USE DEF candidates, terms, leases, outcome, account
<1>1. /\ p \in PaperProposals /\ p \in Proposals
      /\ status[p] = "EXECUTING" /\ p \in Armed
      /\ Cardinality(OpenTranches) < MaxTranches
  BY DEF Fill, JobInv, FinishPaperAndOpen, Holds, Proposals, Armed
<1>2. /\ now' = now /\ lastReset' = lastReset
      /\ status' = [status EXCEPT ![p] = "EXECUTED"]
      /\ executedAt' = [executedAt EXCEPT ![p] = now]
      /\ exec' = [exec EXCEPT ![p] = "FILLED"]
      /\ position' = [position EXCEPT ![p] = "OPEN"]
      /\ pc' = [pc EXCEPT ![w] = "off"]
      /\ job' = [job EXCEPT ![w] = None]
  BY DEF Fill, FinishPaperAndOpen, Leave
<1> HIDE DEF p
<1>3. /\ status \in [Proposals -> Status] /\ exec \in [Proposals -> ExecutionStatus]
      /\ executedAt \in [Proposals -> Time \cup {None}]
      /\ position \in [Proposals -> PositionStatus]
      /\ pc \in [Workers -> Pc] /\ now \in Time /\ PaperProposals \subseteq Proposals
      /\ job \in [Workers -> PaperProposals \cup Candidates \cup {None}]
  BY DEF TypeOK, JobInv, Proposals
<1>4. \A d : FilledOn(d)' \subseteq
               IF d = DayOf(now) THEN FilledOn(d) \cup {p} ELSE FilledOn(d)
  BY <1>1, <1>2, <1>3 DEF FilledOn, IsCounted
<1>5. \A d : IsFiniteSet(FilledOn(d)) /\ EntriesOn(d) = Cardinality(FilledOn(d))
             /\ EntriesOn(d)' = Cardinality(FilledOn(d)')
             /\ EntriesOn(d) \in Nat /\ EntriesOn(d)' \in Nat
  BY DEF CountsAreNatural
<1>6. /\ EntriesOn(DayOf(now))' <= EntriesOn(DayOf(now)) + 1
      /\ Cardinality(Armed') + 1 <= Cardinality(Armed)
      /\ Cardinality(Armed) <= MaxActive
      /\ Cardinality(Armed') \in Nat /\ Cardinality(Armed) \in Nat
  <2> DEFINE F == FilledOn(DayOf(now))
             G == FilledOn(DayOf(now))'
             A == Armed
             B == Armed'
  <2>1. G \subseteq F \cup {p}
    BY <1>2, <1>4
  <2>2. IsFiniteSet(F) /\ Cardinality(F) \in Nat /\ Cardinality(G) \in Nat
        /\ EntriesOn(DayOf(now)) = Cardinality(F)
        /\ EntriesOn(DayOf(now))' = Cardinality(G)
    BY <1>5 DEF CountsAreNatural
  <2>3. B \subseteq A \ {p} /\ p \in A
    <3> SUFFICES ASSUME NEW q \in PaperProposals, q \in Armed'
                 PROVE  q \in Armed /\ q # p
      BY <1>1 DEF Armed
    <3>1. q # p /\ status'[q] = status[q]
      BY <1>1, <1>2, <1>3 DEF Armed
    <3>2. \A v \in Workers : pc'[v] \in Passed => pc'[v] = pc[v] /\ job'[v] = job[v]
      BY <1>2, <1>3 DEF Passed
    <3> QED BY <3>1, <3>2 DEF Armed
  <2>4. IsFiniteSet(A) /\ Cardinality(A) \in Nat /\ Cardinality(A) <= MaxActive
        /\ Cardinality(B) \in Nat
    BY ArmedHoldSlots DEF CountsAreNatural
  <2> HIDE DEF F, G, A, B
  <2>5. Cardinality(G) <= Cardinality(F) + 1
    <3>1. /\ IsFiniteSet(F \cup {p})
          /\ \/ Cardinality(F \cup {p}) = Cardinality(F)
             \/ Cardinality(F \cup {p}) = Cardinality(F) + 1
      BY <2>2, FS_AddElement
    <3>2. Cardinality(G) <= Cardinality(F \cup {p})
      BY <2>1, <3>1, FS_Subset
    <3> QED BY <2>2, <3>1, <3>2
  <2>6. Cardinality(B) + 1 <= Cardinality(A)
    <3>1. IsFiniteSet(A \ {p}) /\ Cardinality(A \ {p}) = Cardinality(A) - 1
      BY <2>3, <2>4, FS_RemoveElement
    <3>2. Cardinality(B) <= Cardinality(A \ {p})
      BY <2>3, <3>1, FS_Subset
    <3> QED BY <2>4, <3>1, <3>2
  <2> QED BY <2>2, <2>4, <2>5, <2>6 DEF A, B
<1>7. EntriesOn(DayOf(now))' >= MaxEntries =>
        EntriesOn(DayOf(now))' + Cardinality(Armed') < MaxEntries + MaxActive
  <2>1. EntriesOn(DayOf(now)) \in Nat /\ EntriesOn(DayOf(now))' \in Nat
    BY <1>5
  <2>2. CASE EntriesOn(DayOf(now)) >= MaxEntries
    <3>1. EntriesOn(DayOf(now)) + Cardinality(Armed) < MaxEntries + MaxActive
      BY <2>2 DEF LimitInv
    <3> QED BY <1>6, <2>1, <3>1, ApprovalAssumption, LedgerAssumption
  <2>3. CASE EntriesOn(DayOf(now)) < MaxEntries
    BY <1>6, <2>1, <2>3, ApprovalAssumption, LedgerAssumption
  <2> QED BY <2>1, <2>2, <2>3, ApprovalAssumption
<1>10. ASSUME NEW t \in Time PROVE EntriesOn(DayOf(t))' < MaxEntries + MaxActive
  <2>1. CASE DayOf(t) = DayOf(now)
    <3>1. EntriesOn(DayOf(t))' = EntriesOn(DayOf(now))'
      BY <1>2, <2>1
    <3> QED BY <1>5, <1>6, <1>7, <3>1, ApprovalAssumption, LedgerAssumption
  <2>2. CASE DayOf(t) # DayOf(now)
    <3>1. FilledOn(DayOf(t))' \subseteq FilledOn(DayOf(t))
      BY <1>4, <2>2
    <3>2. Cardinality(FilledOn(DayOf(t))') <= Cardinality(FilledOn(DayOf(t)))
      BY <1>5, <3>1, FS_Subset
    <3>3. EntriesOn(DayOf(t)) < MaxEntries + MaxActive
      BY DEF LimitInv
    <3>4. /\ EntriesOn(DayOf(t))' = Cardinality(FilledOn(DayOf(t))')
          /\ EntriesOn(DayOf(t)) = Cardinality(FilledOn(DayOf(t)))
          /\ EntriesOn(DayOf(t)) \in Nat /\ EntriesOn(DayOf(t))' \in Nat
      BY DEF CountsAreNatural
    <3> QED BY <3>2, <3>3, <3>4, ApprovalAssumption, LedgerAssumption
  <2> QED BY <2>1, <2>2
<1>8. Cardinality(OpenTranches') <= MaxTranches
  <2>1. OpenTranches' \subseteq OpenTranches \cup {p}
    BY <1>1, <1>2, <1>3 DEF OpenTranches
  <2> DEFINE T == OpenTranches
  <2>2. IsFiniteSet(T) /\ Cardinality(T) \in Nat /\ Cardinality(T) < MaxTranches
    BY <1>1 DEF CountsAreNatural
  <2> HIDE DEF T
  <2>3. IsFiniteSet(T \cup {p}) /\ Cardinality(T \cup {p}) <= MaxTranches
    <3>1. /\ IsFiniteSet(T \cup {p})
          /\ \/ Cardinality(T \cup {p}) = Cardinality(T)
             \/ Cardinality(T \cup {p}) = Cardinality(T) + 1
      BY <2>2, FS_AddElement
    <3> QED BY <2>2, <3>1, ApprovalAssumption
  <2> QED
    BY <2>1, <2>3, FS_Subset, FS_CardinalityType, ApprovalAssumption DEF T
<1>9. ASSUME NEW q \in PaperProposals,
             (status[q] = "EXECUTED" /\ exec[q] = "FILLED")'
      PROVE  (executedAt[q] # None /\ executedAt[q] <= now)'
  BY <1>2, <1>3, <1>9, NoneAssumption DEF LimitInv, Time
<1>11. ASSUME NEW v \in Workers, pc'[v] \notin {"off", "drafting"}
       PROVE  status'[job'[v]] # "ABSENT"
  <2>1. /\ v # w /\ job'[v] = job[v] /\ pc[v] \notin {"off", "drafting"}
        /\ job[v] \in PaperProposals /\ status[job[v]] # "ABSENT"
    BY <1>2, <1>3, <1>11 DEF JobInv, LimitInv
  <2> QED BY <1>2, <1>3, <2>1
<1> QED BY <1>2, <1>7, <1>8, <1>9, <1>10, <1>11 DEF LimitInv

\* Every step keeps the invariant.
LEMMA LimitStep ==
    TypeOK /\ LedgerInv /\ ActiveWithinCap /\ JobInv /\ JobInv'
      /\ LimitInv /\ CountsAreNatural /\ CountsAreNatural' /\ [ApprovalNext]_allVars
    => LimitInv'
<1> SUFFICES ASSUME TypeOK, LedgerInv, ActiveWithinCap, JobInv,
                    JobInv', LimitInv, CountsAreNatural, CountsAreNatural',
                    [ApprovalNext]_allVars
             PROVE  LimitInv'
  OBVIOUS
<1>1. ASSUME NEW w \in Workers, ProcessStep(w) PROVE LimitInv'
  <2>1. CASE Fill(w)
    BY <2>1, FillKeeps
  <2>2. CASE ~ Fill(w)
    <3>1. \A p \in PaperProposals : CalmFor(p)
      BY <1>1, <2>2, OthersAreCalm
    <3>2. now' = now /\ lastReset' = lastReset
      BY <1>1 DEF ProcessStep, BeginProposal, Propose, BeginApproval,
         BeginRejection, ReadProposal, CheckQuota, TerminalizeAtQuota,
         PolicyAccepts, PolicyRefuses, PolicyReject, Claim, VerifyLease, Fill,
         ExecutionRaises, EndExecution, Reject, Stop, Housekeep, CreateProposal,
         TerminalizePaper, RejectByPolicy, RejectProposal, SetStatus,
         EndWithoutLease, ClaimProposal, ClaimByConfirmationCode, Approve,
         FailExecution, FinishPaperAndOpen, account, vars
    <3>3. ASSUME NEW v \in Workers PROVE MovesOn(v)
      <4> USE DEF MovesOn, JobInv, Passed
      <4>1. CASE \/ \E c \in Candidates : BeginProposal(w, c)
                 \/ \E p \in PaperProposals : Propose(w, p)
                 \/ TerminalizeAtQuota(w) \/ PolicyReject(w) \/ EndExecution(w)
                 \/ Reject(w) \/ Stop(w)
        BY <4>1 DEF BeginProposal, Enter, Propose, TerminalizeAtQuota,
           PolicyReject, EndExecution, Reject, Stop, Leave
      <4>2. ASSUME NEW p \in PaperProposals,
                   \/ BeginRejection(w, p)
                   \/ \E how \in {"button", "code"} : BeginApproval(w, p, how)
            PROVE  MovesOn(v)
        BY <4>2 DEF BeginRejection, BeginApproval, Enter
      <4>3. CASE CheckQuota(w)
        BY <4>3 DEF CheckQuota, Go
      <4>4. CASE \/ ReadProposal(w) \/ PolicyAccepts(w) \/ PolicyRefuses(w)
                 \/ Claim(w) \/ VerifyLease(w) \/ ExecutionRaises(w)
        BY <4>4 DEF ReadProposal, PolicyAccepts, PolicyRefuses, Claim,
           VerifyLease, ExecutionRaises, Go
      <4> QED BY <1>1, <2>2, <4>1, <4>2, <4>3, <4>4 DEF ProcessStep
    <3> QED BY <3>1, <3>2, <3>3, CalmKeeps
  <2> QED BY <2>1, <2>2
<1>2. CASE Tick /\ UNCHANGED locals
  BY <1>2, TickKeeps
<1>3. ASSUME UNCHANGED locals, \A p \in PaperProposals : CalmFor(p),
             lastReset' \in {lastReset, now}, now' = now
      PROVE  LimitInv'
  <2>1. \A v \in Workers : MovesOn(v)
    BY <1>3 DEF locals, MovesOn, JobInv
  <2> QED BY <1>3, <2>1, CalmKeeps
<1>4. CASE Surroundings /\ ~ Tick /\ UNCHANGED locals
  <2>1. \A p \in PaperProposals : CalmFor(p)
    BY <1>4, OthersAreCalm
  <2>2. lastReset' \in {lastReset, now} /\ now' = now
    BY <1>4 DEF Surroundings, CreateCandidate, ClosePosition, ResetPaperAccount,
       account
  <2> QED BY <1>3, <1>4, <2>1, <2>2
<1>5. CASE UNCHANGED allVars
  <2>1. \A p \in PaperProposals : CalmFor(p)
    BY <1>5 DEF CalmFor, Armed, allVars, vars, outcome, account
  <2> QED BY <1>3, <1>5, <2>1 DEF allVars, vars, account
<1> QED BY <1>1, <1>2, <1>4, <1>5 DEF ApprovalNext

\* Approvals that race for any number of slots fill, on any day, fewer than
\* MaxActive entries more than the quota, and never more tranches than the limit:
\* approvals may have passed the check together, but each holds a slot until it
\* fills.  With one slot the quota is exact.
THEOREM LimitsHold == ApprovalSpec => []EntriesWithinLimits
<1>1. ApprovalInit => LimitInv
  <2> SUFFICES ASSUME ApprovalInit PROVE LimitInv
    OBVIOUS
  <2>1. \A p \in PaperProposals : status[p] = "ABSENT" /\ position[p] = None
    BY DEF ApprovalInit, Init, Proposals
  <2>2. \A d : FilledOn(d) = {}
    BY <2>1 DEF FilledOn, IsCounted
  <2>3. OpenTranches = {}
    BY <2>1, NoneAssumption DEF OpenTranches
  <2>4. (\A d : EntriesOn(d) = 0) /\ Cardinality(OpenTranches) = 0
    BY <2>2, <2>3, CountedFinite, FS_EmptySet DEF CountsAreNatural
  <2>5. \A w \in Workers : pc[w] = "off"
    BY DEF ApprovalInit
  <2> QED
    BY <2>1, <2>4, <2>5, ApprovalAssumption, LedgerAssumption DEF LimitInv
<1>2. LimitInv => EntriesWithinLimits
  BY DEF LimitInv, EntriesWithinLimits
<1> QED
  BY <1>1, <1>2, ApprovalIsLedger, LimitStep, JobCorrect, CountedFinite, TypeCorrect,
     LedgerInvariant, CapRespected, PTL DEF ApprovalSpec

-----------------------------------------------------------------------------
(***************************************************************************)
(* Numbers.                                                                *)
(***************************************************************************)

\* A rate of an amount is whole, and rises with the amount.
LEMMA PartFacts ==
    ASSUME NEW rate \in Nat
    PROVE  /\ \A x \in Int : Part(x, rate) \in Int
           /\ \A x \in Nat : Part(x, rate) \in Nat
           /\ \A x, y \in Int : x <= y => Part(x, rate) <= Part(y, rate)
<1>1. \A x \in Int : x * rate \in Int /\ Part(x, rate) \in Int
  BY WholeAssumption, Division DEF Part
<1>2. \A x, y \in Int : x <= y => Part(x, rate) <= Part(y, rate)
  <2> SUFFICES ASSUME NEW x \in Int, NEW y \in Int, x <= y
               PROVE  Part(x, rate) <= Part(y, rate)
    OBVIOUS
  <2>1. x * rate \in Int /\ y * rate \in Int /\ x * rate <= y * rate
    OBVIOUS
  <2> QED BY <2>1, WholeAssumption, DivisionMonotone DEF Part
<1>3. Part(0, rate) = 0
  BY WholeAssumption DEF Part
<1> QED BY <1>1, <1>2, <1>3

-----------------------------------------------------------------------------
(***************************************************************************)
(* The settings.                                                           *)
(***************************************************************************)

\* What load_settings lets pass, by field.
LEMMA SettingsTypes ==
    /\ Whole \in Nat \ {0}
    /\ Settings.fee \in Nat /\ Settings.slippage \in Nat /\ Settings.minStop \in Nat
    /\ Settings.rewardRisk \in Nat \ {0} /\ Settings.maxQuotePerTrade \in Nat
    /\ Settings.reserveRate \in Nat /\ Settings.reserveQuote \in Nat
    /\ Settings.reference \in Nat \ {0}
    /\ \A l \in MoneyLimits : Settings.rate[l] \in Nat
BY WholeAssumption, SettingsAssumption

\* The absolute limits are integers; Absent is -1.
LEMMA HardTypes == \A l \in MoneyLimits : HardLimits(Settings, "paper")[l] \in Int
<1> DEFINE h == Settings.hard["paper"]
<1>1. /\ h \in [MoneyLimits \cup {"positions"} -> Nat \cup {Absent}]
      /\ Settings.maxQuotePerTrade \in Nat
  BY SettingsAssumption
<1>2. HardLimits(Settings, "paper")
        = [h EXCEPT !["entry"] = Smaller(Settings.maxQuotePerTrade, h["entry"]),
                    !["weekly"] = Absent]
  BY DEF HardLimits
<1> HIDE DEF h
<1> QED BY <1>1, <1>2 DEF Smaller, Absent, MoneyLimits

\* The limits of an equity are integers.
LEMMA LimitTypes ==
    ASSUME NEW b \in Int
    PROVE  \A l \in MoneyLimits : LimitsFor(Settings, "paper", b)[l] \in Int
<1> SUFFICES ASSUME NEW l \in MoneyLimits
             PROVE  LimitsFor(Settings, "paper", b)[l] \in Int
  OBVIOUS
<1> DEFINE cap == HardLimits(Settings, "paper")[l]
<1>1. cap \in Int /\ Settings.rate[l] \in Nat /\ Settings.reference \in Nat \ {0}
  BY HardTypes, SettingsTypes
<1>2. Part(b, Settings.rate[l]) \in Int /\ (cap * b) \div Settings.reference \in Int
  <2>1. cap * b \in Int
    BY <1>1
  <2> HIDE DEF cap
  <2> QED BY <1>1, <2>1, PartFacts, Division
<1> QED BY <1>1, <1>2
        DEF LimitsFor, PercentageLimits, AbsoluteLimits, Smaller

\* Under a percentage policy more equity allows no less.
LEMMA LimitsMonotone ==
    ASSUME NEW b \in Int, NEW c \in Int, b <= c, PercentageBased(Settings)
    PROVE  \A l \in MoneyLimits :
             LimitsFor(Settings, "paper", b)[l] <= LimitsFor(Settings, "paper", c)[l]
<1> SUFFICES ASSUME NEW l \in MoneyLimits
             PROVE  PercentageLimits(Settings, "paper", b)[l]
                      <= PercentageLimits(Settings, "paper", c)[l]
  BY DEF LimitsFor
<1> DEFINE cap == HardLimits(Settings, "paper")[l]
           x == Part(b, Settings.rate[l])
           y == Part(c, Settings.rate[l])
<1>1. cap \in Int /\ x \in Int /\ y \in Int /\ x <= y
  BY HardTypes, SettingsTypes, PartFacts
<1>2. /\ PercentageLimits(Settings, "paper", b)[l]
           = IF Settings.backstop /\ cap # Absent THEN Smaller(x, cap) ELSE x
      /\ PercentageLimits(Settings, "paper", c)[l]
           = IF Settings.backstop /\ cap # Absent THEN Smaller(y, cap) ELSE y
  BY DEF PercentageLimits
<1> HIDE DEF cap, x, y
<1> QED BY <1>1, <1>2 DEF Smaller

\* A percentage of nothing, or of less, is no entry.
LEMMA NoEquityNoEntry ==
    ASSUME NEW b \in Int, b <= 0, PercentageBased(Settings)
    PROVE  LimitsFor(Settings, "paper", b).entry <= 0
<1> DEFINE cap == HardLimits(Settings, "paper")["entry"]
           rate == Settings.rate["entry"]
           x == Part(b, rate)
<1>1. "entry" \in MoneyLimits
  BY DEF MoneyLimits
<1>2. rate \in Nat /\ cap \in Int
  BY <1>1, SettingsTypes, HardTypes
<1>3. x \in Int /\ x <= Part(0, rate)
  <2> HIDE DEF rate
  <2>1. \A u, v \in Int : u <= v => Part(u, rate) <= Part(v, rate)
    BY <1>2, PartFacts
  <2>2. Part(b, rate) \in Int
    BY <1>2, PartFacts
  <2> QED BY <2>1, <2>2
<1>4. Part(0, rate) = 0
  <2> HIDE DEF rate
  <2> QED BY <1>2, WholeAssumption DEF Part
<1>5. LimitsFor(Settings, "paper", b).entry
        = IF Settings.backstop /\ cap # Absent THEN Smaller(x, cap) ELSE x
  BY <1>1 DEF LimitsFor, PercentageLimits
<1> HIDE DEF cap, x
<1> QED BY <1>2, <1>3, <1>4, <1>5 DEF Smaller

-----------------------------------------------------------------------------
(***************************************************************************)
(* The tranches.                                                           *)
(***************************************************************************)
Target == [num : Int, den : Nat \ {0}]

Row == [id : Nat, symbol : Symbols, net : Nat \ {0}, spent : Int, fill : Int,
        stop : Int, target : Target, risk : Int]

GoodRows(R) ==
    /\ R \in SUBSET Row /\ IsFiniteSet(R)
    /\ \A r, u \in R : r.id = u.id => r = u

\* The sum of a field, by any function that has its values.
LEMMA SumOfIsSum ==
    ASSUME NEW R, IsFiniteSet(R), NEW field, NEW f, \A r \in R : f[r] = r[field]
    PROVE  SumOf(field, R) = SumFunctionOnSet(f, R)
<1> DEFINE g == [r \in R |-> r[field]]
<1>1. \A r \in R : g[r] = f[r]
  OBVIOUS
<1>2. SumOf(field, R) = SumFunctionOnSet(g, R)
  BY DEF SumOf
<1> HIDE DEF g
<1> QED BY <1>1, <1>2, SumSame

\* The sum of a field is an integer, or a positive one.
LEMMA SumOfType ==
    ASSUME NEW R, IsFiniteSet(R), NEW field
    PROVE  /\ (\A r \in R : r[field] \in Int) => SumOf(field, R) \in Int
           /\ (\A r \in R : r[field] \in Nat \ {0}) =>
                 /\ SumOf(field, R) \in Nat
                 /\ R # {} => SumOf(field, R) \in Nat \ {0}
<1> DEFINE g == [r \in R |-> r[field]]
<1>1. /\ (\A r \in R : r[field] \in Int) => \A r \in R : g[r] \in Int
      /\ (\A r \in R : r[field] \in Nat \ {0}) => \A r \in R : g[r] \in Nat \ {0}
      /\ SumOf(field, R) = SumFunctionOnSet(g, R)
  BY DEF SumOf
<1> HIDE DEF g
<1>2. (\A r \in R : g[r] \in Int) => SumFunctionOnSet(g, R) \in Int
  BY SumInt
<1>3. (\A r \in R : g[r] \in Nat \ {0}) => SumFunctionOnSet(g, R) \in Nat
  BY SumNat
<1>4. (\A r \in R : g[r] \in Nat \ {0}) /\ R # {}
        => SumFunctionOnSet(g, R) \in Nat \ {0}
  BY SumPositive
<1> QED BY <1>1, <1>2, <1>3, <1>4

\* The sums over well-formed tranches.
LEMMA RowSums ==
    ASSUME NEW R \in SUBSET Row, IsFiniteSet(R)
    PROVE  /\ SumOf("net", R) \in Nat
           /\ R # {} => SumOf("net", R) \in Nat \ {0}
           /\ SumOf("spent", R) \in Int /\ SumOf("risk", R) \in Int
           /\ ValueOf(R) \in Int
<1>1. \A r \in R : /\ r["net"] \in Nat \ {0} /\ r["spent"] \in Int
                   /\ r["risk"] \in Int /\ r.fill * r.net \in Int
  BY DEF Row
<1>2. ValueOf(R) \in Int
  <2> DEFINE g == [r \in R |-> r.fill * r.net]
  <2>1. \A r \in R : g[r] \in Int
    BY <1>1
  <2>2. ValueOf(R) = SumFunctionOnSet(g, R)
    BY DEF ValueOf
  <2> HIDE DEF g
  <2> QED BY <2>1, <2>2, SumInt
<1> QED BY <1>1, <1>2, SumOfType

\* The stop of a position is the stop of one of its tranches.
LEMMA StopFacts ==
    ASSUME NEW R \in SUBSET Row, IsFiniteSet(R), R # {}
    PROVE  /\ HighestStop(R) \in Int
           /\ \E r \in R : HighestStop(R) = r.stop
<1> DEFINE S == {r.stop : r \in R}
<1>1. S \in SUBSET Int /\ S # {}
  BY DEF Row
<1>2. IsFiniteSet(S)
  <2> DEFINE m == [r \in R |-> r.stop]
  <2>1. S = {m[r] : r \in R}
    OBVIOUS
  <2> HIDE DEF m, S
  <2> QED BY <2>1, ImageIsFinite
<1>3. HighestStop(R) = Max(S)
  BY DEF HighestStop
<1>4. Max(S) \in S
  <2> HIDE DEF S
  <2> QED BY <1>1, <1>2, LargestOf
<1> QED BY <1>1, <1>3, <1>4

\* What a sale pays is an integer.
LEMMA ProceedsType ==
    ASSUME NEW n \in Int, NEW p \in Int
    PROVE  StopProceeds(Settings, n, p) \in Int /\ ExitProceeds(Settings, n, p) \in Int
<1>1. Whole * Whole \in Nat \ {0} /\ Whole \in Nat
  BY WholeAssumption
<1>2. n * p * (Whole - Settings.slippage) * (Whole - Settings.fee) \in Int
  BY <1>1, SettingsTypes
<1> QED BY <1>1, <1>2, Division DEF StopProceeds, ExitProceeds

\* What a position loses at its stop is an integer.
LEMMA EconomicRiskType ==
    ASSUME NEW R \in SUBSET Row, IsFiniteSet(R)
    PROVE  EconomicRisk(Settings, R) \in Int
<1>1. CASE R = {}
  BY <1>1 DEF EconomicRisk
<1>2. CASE R # {}
  <2>1. /\ SumOf("spent", R) \in Int /\ SumOf("net", R) \in Int
        /\ HighestStop(R) \in Int
    BY <1>2, RowSums, StopFacts
  <2>2. StopProceeds(Settings, SumOf("net", R), HighestStop(R)) \in Int
    BY <2>1, ProceedsType
  <2> QED BY <1>2, <2>1, <2>2 DEF EconomicRisk
<1> QED BY <1>1, <1>2

\* The tranches of a symbol, and the others, are well formed.
LEMMA OfIsGood ==
    ASSUME NEW R, GoodRows(R), NEW x
    PROVE  /\ GoodRows(Of(x, R)) /\ GoodRows(R \ Of(x, R))
           /\ \A r \in Of(x, R) : r.symbol = x
BY FS_Subset DEF GoodRows, Of

\* The risks of some symbols add up to an integer.
LEMMA AggregateType ==
    ASSUME NEW R, GoodRows(R), NEW S, S \subseteq SymbolsOf(R)
    PROVE  AggregateOf(Settings, R, S) \in Int
<1> DEFINE g == [y \in S |-> EconomicRisk(Settings, Of(y, R))]
           m == [r \in R |-> r.symbol]
<1>1. IsFiniteSet(S)
  <2>1. {m[r] : r \in R} = SymbolsOf(R)
    BY DEF SymbolsOf
  <2> HIDE DEF m
  <2>2. IsFiniteSet(SymbolsOf(R))
    BY <2>1, ImageIsFinite DEF GoodRows
  <2> QED BY <2>2, FS_Subset
<1>2. \A y \in S : g[y] \in Int
  <2> TAKE y \in S
  <2>1. GoodRows(Of(y, R))
    BY OfIsGood
  <2>2. EconomicRisk(Settings, Of(y, R)) \in Int
    BY <2>1, EconomicRiskType DEF GoodRows
  <2> QED BY <2>2
<1>3. AggregateOf(Settings, R, S) = SumFunctionOnSet(g, S)
  BY DEF AggregateOf
<1> HIDE DEF g
<1> QED BY <1>1, <1>2, <1>3, SumInt

\* T in the place of the tranches of x.
InPlace(T, R, x) ==
    LET new == (R \ Of(x, R)) \cup T
    IN  /\ GoodRows(new) /\ GoodRows(T)
        /\ Of(x, new) = T
        /\ \A y : y # x => Of(y, new) = Of(y, R)

\* Tranches of x beside those of other symbols can take the place of those of x.
LEMMA Replaced ==
    ASSUME NEW R, GoodRows(R), NEW x, NEW T, GoodRows(T),
           \A u \in T : /\ u.symbol = x
                        /\ \A r \in R \ Of(x, R) : u.id # r.id
    PROVE  InPlace(T, R, x)
<1> DEFINE rest == R \ Of(x, R)
           new == rest \cup T
<1>1. GoodRows(rest)
  BY OfIsGood
<1>2. GoodRows(new)
  <2> HIDE DEF rest
  <2>1. IsFiniteSet(new)
    BY <1>1, FS_Union DEF GoodRows
  <2>2. \A u \in T, r \in rest : u.id # r.id
    BY DEF rest
  <2> QED BY <1>1, <2>1, <2>2 DEF GoodRows
<1>3. Of(x, new) = T
  BY DEF Of
<1>4. \A y : y # x => Of(y, new) = Of(y, R)
  BY DEF Of
<1> QED BY <1>2, <1>3, <1>4 DEF InPlace

\* The images of S under m, which keeps the identifiers.
LEMMA ImagesAreGood ==
    ASSUME NEW S, GoodRows(S), NEW m,
           \A r \in S : m[r] \in Row /\ m[r].id = r.id
    PROVE  /\ GoodRows({m[r] : r \in S})
           /\ \A r, u \in S : m[r] = m[u] => r = u
<1>1. \A r, u \in S : m[r] = m[u] => r = u
  BY DEF GoodRows
<1>2. IsFiniteSet({m[r] : r \in S})
  BY ImageIsFinite DEF GoodRows
<1> QED BY <1>1, <1>2 DEF GoodRows

\* What the images keep of each tranche, they keep in sum.
LEMMA SumKept ==
    ASSUME NEW S, IsFiniteSet(S), NEW m, \A r, u \in S : m[r] = m[u] => r = u,
           NEW field
    PROVE  (\A r \in S : r[field] \in Int /\ m[r][field] = r[field])
             => SumOf(field, {m[r] : r \in S}) = SumOf(field, S)
<1> DEFINE T == {m[r] : r \in S}
           f == [r \in S |-> r[field]]
           g == [r \in T |-> r[field]]
<1>1. (\A r \in S : r[field] \in Int /\ m[r][field] = r[field])
        => \A r \in S : f[r] \in Int /\ g[m[r]] = f[r]
  OBVIOUS
<1>2. SumOf(field, T) = SumFunctionOnSet(g, T) /\ SumOf(field, S) = SumFunctionOnSet(f, S)
  BY DEF SumOf
<1> HIDE DEF f, g
<1>3. (\A r \in S : f[r] \in Int /\ g[m[r]] = f[r])
        => SumFunctionOnSet(g, T) = SumFunctionOnSet(f, S)
  BY SumImage
<1> QED BY <1>1, <1>2, <1>3

\* And so is their value.
LEMMA ValueKept ==
    ASSUME NEW S \in SUBSET Row, IsFiniteSet(S), NEW m,
           \A r, u \in S : m[r] = m[u] => r = u,
           \A r \in S : m[r].fill = r.fill /\ m[r].net = r.net
    PROVE  ValueOf({m[r] : r \in S}) = ValueOf(S)
<1> DEFINE T == {m[r] : r \in S}
           f == [r \in S |-> r.fill * r.net]
           g == [r \in T |-> r.fill * r.net]
<1>1. \A r \in S : f[r] \in Int /\ g[m[r]] = f[r]
  BY DEF Row
<1>2. ValueOf(T) = SumFunctionOnSet(g, T) /\ ValueOf(S) = SumFunctionOnSet(f, S)
  BY DEF ValueOf
<1> HIDE DEF f, g
<1>3. SumFunctionOnSet(g, {m[r] : r \in S}) = SumFunctionOnSet(f, S)
  BY <1>1, SumImage
<1> QED BY <1>2, <1>3

\* Two disjoint sets of tranches.
LEMMA SumOfUnion ==
    ASSUME NEW S, IsFiniteSet(S), NEW T, IsFiniteSet(T), S \cap T = {},
           NEW field, \A r \in S \cup T : r[field] \in Int
    PROVE  SumOf(field, S \cup T) = SumOf(field, S) + SumOf(field, T)
<1> DEFINE f == [r \in S \cup T |-> r[field]]
<1>1. \A r \in S \cup T : f[r] \in Int /\ f[r] = r[field]
  OBVIOUS
<1> HIDE DEF f
<1>2. IsFiniteSet(S \cup T)
  BY FS_Union
<1>3. SumOf(field, S \cup T) = SumFunctionOnSet(f, S \cup T)
  BY <1>1, <1>2, SumOfIsSum
<1>4. /\ SumOf(field, S) = SumFunctionOnSet(f, S)
      /\ SumOf(field, T) = SumFunctionOnSet(f, T)
  BY <1>1, SumOfIsSum
<1> QED BY <1>1, <1>3, <1>4, SumUnion

-----------------------------------------------------------------------------
(***************************************************************************)
(* What an admitted entry fulfils.                                         *)
(***************************************************************************)

\* What the evaluator has not refused.
LEMMA Admitted ==
    ASSUME NEW s, NEW ctx, NEW requested, NEW exposure, NEW posExposure,
           NEW posRisk, NEW aggregate,
           PaperAdmits(s, ctx, requested, exposure, posExposure, posRisk, aggregate)
    PROVE  /\ ~ (requested <= 0)
           /\ ~ (requested > ctx.limits.entry)
           /\ requested * (Whole + (IF PercentageBased(s) THEN s.fee ELSE 0))
                <= ctx.buying * Whole
           /\ ~ (posExposure > ctx.limits.entry)
           /\ ~ (exposure > ctx.limits.exposure)
           /\ ~ (ctx.a.daily >= ctx.limits.daily)
<1> DEFINE p == [requested   |-> requested,
                 exposure    |-> exposure,
                 posExposure |-> posExposure,
                 posRisk     |-> posRisk,
                 aggregate   |-> aggregate,
                 positions   |-> ctx.a.positions + (IF ctx.a.held THEN 0 ELSE 1),
                 fee         |-> IF PercentageBased(s) THEN s.fee ELSE 0]
<1>1. /\ p.requested = requested /\ p.exposure = exposure
      /\ p.posExposure = posExposure
      /\ p.fee = IF PercentageBased(s) THEN s.fee ELSE 0
  OBVIOUS
<1>2. Reasons(ctx, p) = {}
  BY DEF PaperAdmits
<1> HIDE DEF p
<1>3. /\ ~ (p.requested <= 0)
      /\ ~ (p.requested > ctx.limits.entry)
      /\ WithinBuyingPower(ctx, p)
      /\ ~ (p.posExposure > ctx.limits.entry)
      /\ ~ (p.exposure > ctx.limits.exposure)
      /\ ~ (ctx.a.daily >= ctx.limits.daily)
  BY <1>2, Zenon DEF Reasons
<1> QED BY <1>1, <1>3 DEF WithinBuyingPower

\* What was admitted is admitted with other exposures that are within the limits,
\* and with another aggregate that is.
LEMMA AdmittedToo ==
    ASSUME NEW s, NEW ctx, NEW requested, NEW exposure, NEW posExposure,
           NEW posRisk, NEW aggregate,
           PaperAdmits(s, ctx, requested, exposure, posExposure, posRisk, aggregate),
           NEW exposure2, ~ (exposure2 > ctx.limits.exposure),
           NEW posExposure2, ~ (posExposure2 > ctx.limits.entry),
           NEW aggregate2,
           \/ aggregate2 = aggregate
           \/ /\ ~ (aggregate2 > ctx.limits.aggregateRisk)
              /\ ~ (ctx.a.risk >= ctx.limits.aggregateRisk)
    PROVE  PaperAdmits(s, ctx, requested, exposure2, posExposure2, posRisk, aggregate2)
<1> DEFINE projected(x, y, g) ==
             [requested   |-> requested,
              exposure    |-> x,
              posExposure |-> y,
              posRisk     |-> posRisk,
              aggregate   |-> g,
              positions   |-> ctx.a.positions + (IF ctx.a.held THEN 0 ELSE 1),
              fee         |-> IF PercentageBased(s) THEN s.fee ELSE 0]
           p == projected(exposure, posExposure, aggregate)
           q == projected(exposure2, posExposure2, aggregate2)
<1>1. /\ q.requested = p.requested /\ q.posRisk = p.posRisk
      /\ q.positions = p.positions /\ q.fee = p.fee
      /\ q.exposure = exposure2 /\ q.posExposure = posExposure2
      /\ q.aggregate = aggregate2 /\ p.aggregate = aggregate
  OBVIOUS
<1>2. Reasons(ctx, p) = {}
  BY DEF PaperAdmits
<1>3. PaperAdmits(s, ctx, requested, exposure2, posExposure2, posRisk, aggregate2)
        <=> Reasons(ctx, q) = {}
  BY DEF PaperAdmits
<1> HIDE DEF p, q, projected
<1>4. /\ ~ (p.requested <= 0)
      /\ ~ (p.requested > ctx.limits.entry)
      /\ WithinBuyingPower(ctx, p)
      /\ ~ (p.posRisk > ctx.limits.positionRisk)
      /\ ~ (p.aggregate > ctx.limits.aggregateRisk)
      /\ ~ (p.aggregate = Absent /\ ctx.a.risk >= ctx.limits.aggregateRisk)
      /\ ~ (ctx.a.daily >= ctx.limits.daily)
      /\ ~ (ctx.limits.weekly # Absent /\ ctx.a.weekly >= ctx.limits.weekly)
      /\ ~ (p.positions > ctx.positions)
  BY <1>2, Zenon DEF Reasons
<1>5. /\ ~ (q.requested <= 0)
      /\ ~ (q.requested > ctx.limits.entry)
      /\ WithinBuyingPower(ctx, q)
      /\ ~ (q.posExposure > ctx.limits.entry)
      /\ ~ (q.exposure > ctx.limits.exposure)
      /\ ~ (q.posRisk > ctx.limits.positionRisk)
      /\ ~ (q.aggregate > ctx.limits.aggregateRisk)
      /\ ~ (q.aggregate = Absent /\ ctx.a.risk >= ctx.limits.aggregateRisk)
      /\ ~ (ctx.a.daily >= ctx.limits.daily)
      /\ ~ (ctx.limits.weekly # Absent /\ ctx.a.weekly >= ctx.limits.weekly)
      /\ ~ (q.positions > ctx.positions)
  BY <1>1, <1>4, Zenon DEF WithinBuyingPower
<1>6. Reasons(ctx, q) = {}
  BY <1>5, Zenon DEF Reasons
<1> QED BY <1>3, <1>6

\* Prices are positive.
LEMMA PriceTypes == \A p \in Prices : p \in Nat \ {0}
BY PositionAssumption

\* The account as numbers.
LEMMA AccountTypes ==
    ASSUME GoodRows(rows), price \in [Symbols -> Prices], free \in Int, lost \in Int,
           NEW x
    PROVE  LET a == Account(x)
           IN  /\ a.free = free /\ a.daily = lost
               /\ a.exposure = SumOf("spent", rows) /\ a.exposure \in Int
               /\ a.posExposure = SumOf("spent", Of(x, rows)) /\ a.posExposure \in Int
               /\ a.risk \in Int /\ a.posRisk \in Int
               /\ Equity(a) \in Int
<1> DEFINE worth == [r \in rows |-> r.net * price[r.symbol]]
<1>1. SumFunctionOnSet(worth, rows) \in Int
  <2>1. \A r \in rows : worth[r] \in Int
    <3> SUFFICES ASSUME NEW r \in rows PROVE r.net * price[r.symbol] \in Int
      OBVIOUS
    <3>1. r.net \in Int /\ r.symbol \in Symbols
      BY DEF GoodRows, Row
    <3>2. price[r.symbol] \in Int
      BY <3>1, PriceTypes
    <3> QED BY <3>1, <3>2
  <2> HIDE DEF worth
  <2> QED BY <2>1, SumInt DEF GoodRows
<1>2. /\ SumOf("spent", rows) \in Int /\ SumOf("spent", Of(x, rows)) \in Int
      /\ SumOf("risk", rows) \in Int /\ SumOf("risk", Of(x, rows)) \in Int
  BY RowSums, OfIsGood DEF GoodRows
<1>3. Account(x)
        = [free        |-> free,
           locked      |-> IF Settings.policy = "legacy" THEN SumOf("spent", rows) ELSE 0,
           assets      |-> IF Settings.policy = "legacy" THEN 0
                           ELSE SumFunctionOnSet(worth, rows),
           exposure    |-> SumOf("spent", rows),
           risk        |-> SumOf("risk", rows),
           daily       |-> lost,
           weekly      |-> lost,
           positions   |-> Cardinality(SymbolsOf(rows)),
           held        |-> Of(x, rows) # {},
           posExposure |-> SumOf("spent", Of(x, rows)),
           posRisk     |-> SumOf("risk", Of(x, rows))]
  BY DEF Account, PaperAccount
<1> HIDE DEF worth
<1> QED BY <1>1, <1>2, <1>3 DEF Equity

\* The reward is a whole multiple of the risk, as in the example configuration.
Exact == \E k \in Nat \ {0} : Settings.rewardRisk = k * Whole

\* What the state knows of a proposal.
ProposalOK(t) ==
    /\ t.plan.symbol \in Symbols
    /\ t.entry \in Int /\ t.stop \in Int /\ t.quote \in Int /\ t.equity \in Int
    /\ t.ratio \in Int \X (Nat \ {0})
    /\ t.ratio[2] = t.entry - t.stop
    /\ Exact => t.ratio[1] * Whole = Settings.rewardRisk * t.ratio[2]
    /\ PercentageBased(Settings) => t.equity > 0

\* An amount buys whole steps that cost no more than it.
LEMMA GrossFacts ==
    ASSUME NEW quote \in Int, NEW p \in Nat \ {0}, NEW step \in Nat \ {0}
    PROVE  Gross(quote, p, step) \in Int /\ Gross(quote, p, step) * p <= quote
<1> DEFINE k == quote \div (p * step)
<1>1. p * step \in Nat \ {0}
  OBVIOUS
<1>2. k \in Int /\ k * (p * step) <= quote
  BY <1>1, Division
<1> HIDE DEF k
<1>3. k * (p * step) = (k * step) * p /\ k * step \in Int
  BY <1>2
<1> QED BY <1>2, <1>3 DEF Gross, k

\* The numbers of a fill.
LEMMA FillNumbers ==
    ASSUME NEW t, t.entry \in Int, t.stop \in Int, NEW x, NEW p \in Int,
           NEW gross \in Int
    PROVE  LET f == FillRisk(Settings, t, x, p, gross)
           IN  /\ f.symbol = x /\ f.fill = p /\ f.spent = gross * p
               /\ f.stop = p - (t.entry - t.stop)
               /\ f.target = p + Part(t.entry - t.stop, Settings.rewardRisk)
               /\ f.risk = f.spent - StopProceeds(Settings, f.net, f.stop)
               /\ f.net \in Int /\ f.spent \in Int /\ f.stop \in Int
               /\ f.target \in Int /\ f.risk \in Int
<1> DEFINE net == gross - Part(gross, Settings.fee)
           stop == p - (t.entry - t.stop)
           target == p + Part(t.entry - t.stop, Settings.rewardRisk)
           paid == StopProceeds(Settings, net, stop)
           f == FillRisk(Settings, t, x, p, gross)
<1>1. Part(gross, Settings.fee) \in Int
  BY PartFacts, SettingsTypes
<1>2. t.entry - t.stop \in Int /\ stop \in Int
  OBVIOUS
<1>3. Part(t.entry - t.stop, Settings.rewardRisk) \in Int
  BY <1>2, PartFacts, SettingsTypes
<1>4. net \in Int /\ target \in Int
  BY <1>1, <1>3
<1>5. paid \in Int
  <2> HIDE DEF net, stop
  <2> QED BY <1>2, <1>4, ProceedsType
<1>6. f = [symbol |-> x, net |-> net, spent |-> gross * p, fill |-> p,
           stop |-> stop, target |-> target, risk |-> gross * p - paid]
  BY DEF FillRisk
<1>7. gross * p \in Int
  OBVIOUS
<1> HIDE DEF net, stop, target, paid, f
<1>8. /\ f.symbol = x /\ f.fill = p /\ f.spent = gross * p /\ f.net = net
      /\ f.stop = stop /\ f.target = target /\ f.risk = gross * p - paid
  BY <1>6
<1>9. f.risk = f.spent - StopProceeds(Settings, f.net, f.stop)
  BY <1>8 DEF paid
<1>10. f.net \in Int /\ f.spent \in Int /\ f.stop \in Int /\ f.target \in Int /\ f.risk \in Int
  BY <1>2, <1>4, <1>5, <1>7, <1>8
<1> QED BY <1>8, <1>9, <1>10 DEF stop, target, f

-----------------------------------------------------------------------------
(***************************************************************************)
(* The invariant, and what it says of an execution.                        *)
(***************************************************************************)
PositionInv ==
    /\ GoodRows(rows)
    /\ opened \in Nat
    /\ \A r \in rows : r.id <= opened
    /\ price \in [Symbols -> Prices]
    /\ free \in Int /\ lost \in Int
    /\ proposal # NoEntry => ProposalOK(proposal)

\* The equity whose limits an execution is held against.
Basis(t, x) ==
    EffectiveEquity(Account(x), IF PercentageBased(Settings) THEN t.equity ELSE Absent)

\* That equity is an integer, the smaller of the two under a percentage policy.
LEMMA BasisFacts ==
    ASSUME PositionInv, NEW t, ProposalOK(t), NEW x
    PROVE  /\ Basis(t, x) \in Int /\ Equity(Account(x)) \in Int
           /\ Basis(t, x) = IF PercentageBased(Settings)
                            THEN Smaller(Equity(Account(x)), t.equity)
                            ELSE Equity(Account(x))
<1>1. Equity(Account(x)) \in Int
  BY AccountTypes DEF PositionInv
<1>2. t.equity \in Int /\ PercentageBased(Settings) => t.equity # Absent
  BY DEF ProposalOK, Absent
<1> QED BY <1>1, <1>2 DEF Basis, EffectiveEquity, Smaller, ProposalOK

\* The reserve is an integer.
LEMMA ReserveType ==
    ASSUME NEW b \in Int PROVE Reserve(Settings, "paper", b) \in Int
<1>1. Part(b, Settings.reserveRate) \in Int
  BY PartFacts, SettingsTypes
<1> QED BY <1>1, SettingsTypes DEF Reserve

\* An amount within the buying power leaves the reserve.
LEMMA ReserveLeft ==
    ASSUME NEW quote \in Int, quote > 0, NEW available \in Int, NEW fee \in Nat,
           quote * (Whole + fee) <= NonNegative(available) * Whole
    PROVE  quote <= available
<1> DEFINE b == NonNegative(available)
<1>1. Whole \in Nat \ {0} /\ b \in Nat /\ (b = available \/ b = 0)
  BY WholeAssumption DEF NonNegative
<1> HIDE DEF b
<1>2. quote * (Whole + fee) <= b * Whole
  BY DEF b
<1>3. quote * Whole <= quote * (Whole + fee)
  BY <1>1
<1>4. quote * Whole \in Int /\ quote * (Whole + fee) \in Int /\ b * Whole \in Int
  BY <1>1
<1>5. quote * Whole <= b * Whole
  BY <1>2, <1>3, <1>4
<1>6. quote <= b
  BY <1>1, <1>5
<1> QED BY <1>1, <1>6

\* What a fill that is not refused has passed.
LEMMA FillFacts ==
    ASSUME PositionInv, proposal # NoEntry, NEW x, x = proposal.plan.symbol,
           NEW f,
           f = FillPaper(Settings, Account(x), Market(x), proposal, x, rows),
           f # NoEntry
    PROVE  LET t      == proposal
               b      == Basis(t, x)
               limits == LimitsFor(Settings, "paper", b)
               held   == Of(x, rows)
           IN  /\ x \in Symbols
               /\ f.symbol = x /\ f.fill = price[x]
               /\ f.stop = f.fill - (t.entry - t.stop)
               /\ f.target = f.fill + Part(t.entry - t.stop, Settings.rewardRisk)
               /\ f.net \in Nat \ {0} /\ f.spent \in Int /\ f.fill \in Int
               /\ f.stop \in Int /\ f.target \in Int /\ f.risk \in Int
               /\ f.risk = f.spent - StopProceeds(Settings, f.net, f.stop)
               /\ f.spent <= t.quote
               /\ t.quote <= free - Reserve(Settings, "paper", b)
               /\ SumOf("spent", held) + f.spent <= limits.entry
               /\ SumOf("spent", rows) + f.spent <= limits.exposure
               /\ ProjectedRisk(Settings, held, f) <= limits.positionRisk
               /\ ProjectedAggregate(Settings, rows, f) <= limits.aggregateRisk
               /\ lost < limits.daily
               /\ ValidBracket(ValueOf(held) + f.fill * f.net,
                               SumOf("net", held) + f.net, ProjectedStop(held, f),
                               ProjectedTarget(held, t.ratio, f), t.ratio)
<1> DEFINE t == proposal
           a == Account(x)
           gross == Gross(t.quote, price[x], Step)
           g == FillRisk(Settings, t, x, price[x], gross)
           b == Basis(t, x)
           limits == LimitsFor(Settings, "paper", b)
           held == Of(x, rows)
           ctx == ApprovalContext(Settings, a, t)
           m == Market(x)
<1>1. m.bid = price[x] /\ m.ask = price[x] /\ m.step = Step
  BY DEF Market
<1>2. /\ f = g
      /\ FillAllowed(Settings, g)
      /\ ProjectionAllowed(Settings, ctx, rows, t.ratio, g, m)
      /\ PaperAdmits(Settings, ctx, t.quote, a.exposure + g.spent,
                     a.posExposure + g.spent,
                     ProjectedRisk(Settings, Of(x, rows), g),
                     ProjectedAggregate(Settings, rows, g))
  <2> DEFINE n == FillRisk(Settings, t, x, m.ask, Gross(t.quote, m.ask, m.step))
  <2>1. n = g
    BY <1>1
  <2>2. /\ f = n
        /\ FillAllowed(Settings, n)
        /\ ProjectionAllowed(Settings, ctx, rows, t.ratio, n, m)
        /\ PaperAdmits(Settings, ctx, t.quote, a.exposure + n.spent,
                       a.posExposure + n.spent,
                       ProjectedRisk(Settings, Of(x, rows), n),
                       ProjectedAggregate(Settings, rows, n))
    <3> HIDE DEF a, m, ctx
    <3> QED BY Zenon DEF FillPaper, ctx, a, m
  <2> HIDE DEF n, g, m, ctx, a
  <2> QED BY <2>1, <2>2
<1>3. ProposalOK(t) /\ x \in Symbols /\ price[x] \in Nat \ {0}
  BY PriceTypes DEF PositionInv, ProposalOK
<1>4. gross \in Int /\ gross * price[x] <= t.quote
  BY <1>3, GrossFacts, StepAssumption DEF ProposalOK
<1>5. /\ g.symbol = x /\ g.fill = price[x] /\ g.spent = gross * price[x]
      /\ g.stop = g.fill - (t.entry - t.stop)
      /\ g.target = g.fill + Part(t.entry - t.stop, Settings.rewardRisk)
      /\ g.risk = g.spent - StopProceeds(Settings, g.net, g.stop)
      /\ g.net \in Int /\ g.spent \in Int /\ g.stop \in Int
      /\ g.target \in Int /\ g.risk \in Int
  <2>1. t.entry \in Int /\ t.stop \in Int /\ price[x] \in Int
    BY <1>3 DEF ProposalOK
  <2> HIDE DEF t, gross
  <2> QED BY <1>4, <2>1, FillNumbers
<1>6. b \in Int /\ Equity(a) \in Int
  BY <1>3, BasisFacts
<1>7. /\ ctx.limits = limits /\ ctx.a = a
      /\ ctx.buying = NonNegative(a.free - Reserve(Settings, "paper", b))
  BY DEF ApprovalContext, Context, Basis
<1>8. /\ a.free = free /\ a.daily = lost
      /\ a.exposure = SumOf("spent", rows) /\ a.posExposure = SumOf("spent", held)
      /\ SumOf("spent", rows) \in Int /\ SumOf("spent", held) \in Int
  BY AccountTypes DEF PositionInv
<1> DEFINE fee == IF PercentageBased(Settings) THEN Settings.fee ELSE 0
<1>9. /\ ~ (t.quote <= 0)
      /\ t.quote * (Whole + fee) <= ctx.buying * Whole
      /\ ~ (a.posExposure + g.spent > ctx.limits.entry)
      /\ ~ (a.exposure + g.spent > ctx.limits.exposure)
      /\ ~ (ctx.a.daily >= ctx.limits.daily)
  <2> HIDE DEF t, a, g, ctx
  <2> QED BY <1>2, Admitted
<1>10. /\ limits.entry \in Int /\ limits.exposure \in Int /\ limits.daily \in Int
  <2>1. {"entry", "exposure", "daily"} \subseteq MoneyLimits
    BY DEF MoneyLimits
  <2> HIDE DEF b
  <2> QED BY <1>6, <2>1, LimitTypes
<1>11. t.quote <= free - Reserve(Settings, "paper", b)
  <2>1. /\ t.quote \in Int /\ fee \in Nat /\ free \in Int
        /\ Reserve(Settings, "paper", b) \in Int
    <3> HIDE DEF b
    <3> QED BY <1>3, <1>6, ReserveType, SettingsTypes DEF ProposalOK, PositionInv
  <2>2. t.quote > 0
    BY <1>9, <2>1
  <2>3. t.quote * (Whole + fee)
          <= NonNegative(free - Reserve(Settings, "paper", b)) * Whole
    BY <1>7, <1>8, <1>9
  <2> DEFINE available == free - Reserve(Settings, "paper", b)
  <2>4. available \in Int
    BY <2>1
  <2>5. t.quote * (Whole + fee) <= NonNegative(available) * Whole
    BY <2>3
  <2> HIDE DEF t, fee, b, available
  <2>6. t.quote <= available
    BY <2>1, <2>2, <2>4, <2>5, ReserveLeft
  <2> QED BY <2>6 DEF available
<1>12. /\ SumOf("spent", held) + g.spent <= limits.entry
       /\ SumOf("spent", rows) + g.spent <= limits.exposure
       /\ lost < limits.daily
  <2>1. lost \in Int
    BY DEF PositionInv
  <2> HIDE DEF limits, held, g, a, ctx
  <2> QED BY <1>5, <1>7, <1>8, <1>9, <1>10, <2>1
<1>13. /\ ValidBracket(ValueOf(held) + g.fill * g.net,
                       SumOf("net", held) + g.net, ProjectedStop(held, g),
                       ProjectedTarget(held, t.ratio, g), t.ratio)
       /\ ProjectedRisk(Settings, held, g) <= limits.positionRisk
       /\ ProjectedAggregate(Settings, rows, g) <= limits.aggregateRisk
  <2>1. Of(g.symbol, rows) = held
    BY <1>5
  <2> HIDE DEF g, ctx, m, t, limits, held
  <2> QED BY <1>2, <1>7, <2>1, Zenon DEF ProjectionAllowed
<1>14. g.net > 0
  BY <1>2 DEF FillAllowed
<1>15. g.net \in Nat \ {0} /\ g.fill \in Int /\ g.spent <= t.quote
  BY <1>3, <1>4, <1>5, <1>14
<1> HIDE DEF g, a, ctx, m, limits, held, b, gross
<1> QED BY <1>2, <1>3, <1>5, <1>11, <1>12, <1>13, <1>15 DEF limits, held, b

-----------------------------------------------------------------------------
(***************************************************************************)
(* One stop and one target for all tranches, the risk shared among them.   *)
(***************************************************************************)
WithShare(S, r, stop, target, risk) ==
    [r EXCEPT !.stop = stop, !.target = target,
              !.risk = SharedRisk(risk, r, SumOf("net", S))]

\* A tranche with its share is well formed and keeps what it bought.
LEMMA ShareType ==
    ASSUME NEW S \in SUBSET Row, IsFiniteSet(S), NEW r \in S,
           NEW stop \in Int, NEW target \in Target, NEW risk \in Int
    PROVE  LET u == WithShare(S, r, stop, target, risk)
           IN  /\ u \in Row /\ u.id = r.id /\ u.symbol = r.symbol
               /\ u.net = r.net /\ u.spent = r.spent /\ u.fill = r.fill
               /\ u.stop = stop /\ u.target = target
               /\ u.risk = SharedRisk(risk, r, SumOf("net", S))
<1> DEFINE share == SharedRisk(risk, r, SumOf("net", S))
<1>1. r \in Row
  OBVIOUS
<1>2. share \in Int
  <2>1. SumOf("net", S) \in Nat \ {0}
    BY RowSums
  <2>2. risk * r.net \in Int
    BY <1>1 DEF Row
  <2> QED BY <2>1, <2>2, Division DEF SharedRisk
<1> HIDE DEF share
<1>3. WithShare(S, r, stop, target, risk)
        = [r EXCEPT !.stop = stop, !.target = target, !.risk = share]
  BY DEF WithShare, share
<1>4. [r EXCEPT !.stop = stop, !.target = target, !.risk = share] \in Row
  BY <1>1, <1>2 DEF Row, Target
<1> QED BY <1>1, <1>3, <1>4 DEF Row, share

\* T are the tranches of S, reshared.
SharesOf(T, S, stop, target, risk) ==
    \A u : u \in T <=> \E r \in S : u = WithShare(S, r, stop, target, risk)

\* The tranches of S are of x, beside those of R that are not.
Beside(S, R, x) ==
    \A r \in S : /\ r.symbol = x
                 /\ \A u \in R \ Of(x, R) : u.id # r.id

\* What T keeps of the tranches of S, and what is new in it.
Kept(T, S) ==
    /\ T # {} /\ \A u \in T : \E r \in S : u.id = r.id
    /\ SumOf("net", T) = SumOf("net", S)
    /\ SumOf("spent", T) = SumOf("spent", S)
    /\ ValueOf(T) = ValueOf(S)

Uniform(T, stop, target, risk) ==
    /\ HighestStop(T) = stop
    /\ \A u \in T : /\ u.stop = stop /\ u.target = target
                    /\ u.risk = SharedRisk(risk, u, SumOf("net", T))

\* Sharing out keeps identifiers, quantities and costs, and makes the position uniform.
LEMMA Reshared ==
    ASSUME NEW R, GoodRows(R), NEW x, NEW S, GoodRows(S), S # {}, Beside(S, R, x),
           NEW stop \in Int, NEW target \in Target, NEW risk \in Int,
           NEW T, SharesOf(T, S, stop, target, risk)
    PROVE  InPlace(T, R, x) /\ Kept(T, S) /\ Uniform(T, stop, target, risk)
<1> DEFINE m == [r \in S |-> WithShare(S, r, stop, target, risk)]
           I == {m[r] : r \in S}
           new == (R \ Of(x, R)) \cup T
<1>1. T = I /\ \A r \in S : m[r] = WithShare(S, r, stop, target, risk)
  BY DEF SharesOf
<1>2. S \in SUBSET Row /\ IsFiniteSet(S)
  BY DEF GoodRows
<1>3. \A r \in S :
        /\ m[r] \in Row /\ m[r].id = r.id /\ m[r].symbol = x
        /\ m[r].net = r.net /\ m[r].spent = r.spent /\ m[r].fill = r.fill
        /\ m[r].stop = stop /\ m[r].target = target
        /\ m[r].risk = SharedRisk(risk, r, SumOf("net", S))
  <2> SUFFICES ASSUME NEW r \in S
               PROVE  LET u == WithShare(S, r, stop, target, risk)
                      IN  /\ u \in Row /\ u.id = r.id /\ u.symbol = x
                          /\ u.net = r.net /\ u.spent = r.spent /\ u.fill = r.fill
                          /\ u.stop = stop /\ u.target = target
                          /\ u.risk = SharedRisk(risk, r, SumOf("net", S))
    BY <1>1
  <2>1. r.symbol = x
    BY DEF Beside
  <2> QED BY <1>2, <2>1, ShareType
<1> HIDE DEF m
<1>4. InPlace(I, R, x) /\ GoodRows(I) /\ \A r, u \in S : m[r] = m[u] => r = u
  <2>1. GoodRows(I) /\ \A r, u \in S : m[r] = m[u] => r = u
    BY <1>3, ImagesAreGood
  <2>2. \A u \in I : /\ u.symbol = x
                     /\ \A r \in R \ Of(x, R) : u.id # r.id
    BY <1>3 DEF Beside
  <2> HIDE DEF I
  <2>3. InPlace(I, R, x)
    BY <2>1, <2>2, Replaced
  <2> QED BY <2>1, <2>3
<1>5. I # {} /\ \A u \in I : \E r \in S : u.id = r.id
  BY <1>3
<1>6. /\ SumOf("net", I) = SumOf("net", S)
      /\ SumOf("spent", I) = SumOf("spent", S)
  <2>1. \A r \in S : /\ r["net"] \in Int /\ m[r]["net"] = r["net"]
                     /\ r["spent"] \in Int /\ m[r]["spent"] = r["spent"]
    BY <1>2, <1>3 DEF Row
  <2> HIDE DEF I
  <2> QED BY <1>2, <1>4, <2>1, SumKept DEF I
<1>7. ValueOf(I) = ValueOf(S)
  BY <1>2, <1>3, <1>4, ValueKept
<1>8. HighestStop(I) = stop
  <2>1. I \in SUBSET Row /\ IsFiniteSet(I)
    BY <1>4 DEF GoodRows
  <2>2. \E u \in I : HighestStop(I) = u.stop
    <3> HIDE DEF I
    <3> QED BY <1>5, <2>1, StopFacts
  <2> QED BY <1>3, <2>2
<1>9. \A u \in I : /\ u.stop = stop /\ u.target = target
                   /\ u.risk = SharedRisk(risk, u, SumOf("net", I))
  <2> SUFFICES ASSUME NEW r \in S
               PROVE  /\ m[r].stop = stop /\ m[r].target = target
                      /\ m[r].risk = SharedRisk(risk, m[r], SumOf("net", I))
    OBVIOUS
  <2> QED BY <1>3, <1>6 DEF SharedRisk
<1> HIDE DEF I
<1> QED BY <1>1, <1>4, <1>5, <1>6, <1>7, <1>8, <1>9 DEF Kept, Uniform

-----------------------------------------------------------------------------
(***************************************************************************)
(* The position after an entry is the projection that was admitted.        *)
(***************************************************************************)

\* The projected target is a quotient.
LEMMA TargetType ==
    ASSUME NEW R \in SUBSET Row, IsFiniteSet(R), NEW ratio \in Int \X (Nat \ {0}), NEW f,
           f.net \in Nat \ {0}, f.fill \in Int, f.stop \in Int, f.target \in Int
    PROVE  ProjectedTarget(R, ratio, f) \in Target
<1>1. SumOf("net", R) \in Nat /\ ValueOf(R) \in Int
  BY RowSums
<1>2. ProjectedStop(R, f) \in Int
  BY StopFacts DEF ProjectedStop
<1> DEFINE v == ValueOf(R) + f.fill * f.net
           n == SumOf("net", R) + f.net
           p == ProjectedStop(R, f)
<1>3. /\ v \in Int /\ n \in Nat \ {0} /\ p \in Int
      /\ ratio[1] \in Int /\ ratio[2] \in Nat \ {0}
  BY <1>1, <1>2
<1> HIDE DEF v, n, p
<1>4. p * n \in Int /\ v * ratio[2] \in Int /\ n * ratio[2] \in Nat \ {0}
  BY <1>3
<1>5. (v - p * n) * ratio[1] \in Int
  BY <1>3, <1>4
<1>6. TargetOf(v, n, p, ratio) \in Target
  BY <1>3, <1>4, <1>5 DEF TargetOf, Target
<1>7. [num |-> f.target, den |-> 1] \in Target
  BY DEF Target
<1> QED BY <1>6, <1>7 DEF ProjectedTarget, v, n, p

\* The projected risk is an integer.
LEMMA ProjectedRiskType ==
    ASSUME NEW R \in SUBSET Row, IsFiniteSet(R), NEW f,
           f.net \in Int, f.spent \in Int, f.stop \in Int, f.risk \in Int
    PROVE  ProjectedRisk(Settings, R, f) \in Int
<1>1. SumOf("net", R) + f.net \in Int /\ SumOf("spent", R) \in Int
  BY RowSums
<1>2. ProjectedStop(R, f) \in Int
  BY StopFacts DEF ProjectedStop
<1>3. StopProceeds(Settings, SumOf("net", R) + f.net, ProjectedStop(R, f)) \in Int
  BY <1>1, <1>2, ProceedsType
<1> QED BY <1>1, <1>3 DEF ProjectedRisk

\* What is merged is the projection, in its place.
LEMMA MergeFacts ==
    ASSUME PositionInv, proposal # NoEntry, NEW x, x = proposal.plan.symbol,
           NEW f,
           f = FillPaper(Settings, Account(x), Market(x), proposal, x, rows),
           f # NoEntry
    PROVE  LET held == Of(x, rows)
               T    == MergedRows(Settings, proposal, held, f)
               new  == (rows \ held) \cup T
           IN  /\ InPlace(T, rows, x) /\ T # {}
               /\ \A r \in new : r.id <= opened + 1
               /\ SumOf("net", T) = SumOf("net", held) + f.net
               /\ SumOf("spent", T) = SumOf("spent", held) + f.spent
               /\ SumOf("spent", new) = SumOf("spent", rows) + f.spent
               /\ ValueOf(T) = ValueOf(held) + f.fill * f.net
               /\ EconomicRisk(Settings, T) = ProjectedRisk(Settings, held, f)
               /\ Uniform(T, ProjectedStop(held, f),
                          ProjectedTarget(held, proposal.ratio, f),
                          EconomicRisk(Settings, T))
<1> DEFINE t      == proposal
           held   == Of(x, rows)
           stop   == ProjectedStop(held, f)
           target == ProjectedTarget(held, t.ratio, f)
           risk   == ProjectedRisk(Settings, held, f)
           fresh  == [id |-> opened + 1, symbol |-> f.symbol,
                      net |-> f.net, spent |-> f.spent, fill |-> f.fill,
                      stop |-> f.stop, target |-> target, risk |-> f.risk]
           S      == held \cup {fresh}
           T      == MergedRows(Settings, t, held, f)
           W      == {WithShare(S, r, stop, target, risk) : r \in S}
           new    == (rows \ held) \cup T
<1>1. /\ x \in Symbols /\ f.symbol = x
      /\ f.net \in Nat \ {0} /\ f.spent \in Int /\ f.fill \in Int
      /\ f.stop \in Int /\ f.target \in Int /\ f.risk \in Int
      /\ f.risk = f.spent - StopProceeds(Settings, f.net, f.stop)
  BY FillFacts
<1>2. GoodRows(rows) /\ opened \in Nat /\ \A r \in rows : r.id <= opened
  BY DEF PositionInv
<1>3. /\ held \in SUBSET Row /\ IsFiniteSet(held) /\ held \subseteq rows
      /\ GoodRows(held) /\ \A r \in held : r.symbol = x
  <2>1. GoodRows(held) /\ \A r \in held : r.symbol = x
    BY <1>2, OfIsGood
  <2>2. held \subseteq rows
    BY DEF Of
  <2> HIDE DEF held
  <2> QED BY <2>1, <2>2 DEF GoodRows
<1>4. t.ratio \in Int \X (Nat \ {0})
  BY DEF PositionInv, ProposalOK
<1>5. target \in Target
  <2> HIDE DEF held, t
  <2> QED BY <1>1, <1>3, <1>4, TargetType
<1>6. risk \in Int
  <2> HIDE DEF held
  <2> QED BY <1>1, <1>3, ProjectedRiskType
<1>7. stop \in Int
  <2> HIDE DEF held
  <2> QED BY <1>1, <1>3, StopFacts DEF ProjectedStop
<1> HIDE DEF target, risk, stop
<1>8. /\ fresh \in Row /\ fresh.id = opened + 1 /\ fresh.symbol = x
      /\ fresh.net = f.net /\ fresh.spent = f.spent /\ fresh.fill = f.fill
  BY <1>1, <1>2, <1>5 DEF Row, Target
<1> HIDE DEF fresh
<1>9. fresh \notin held /\ \A r \in rows : r.id # fresh.id
  BY <1>2, <1>3, <1>8 DEF GoodRows, Row
<1>10. IsFiniteSet(S) /\ S \in SUBSET Row /\ S # {} /\ GoodRows(S)
  <2>1. IsFiniteSet(S)
    BY <1>3, FS_AddElement
  <2> HIDE DEF held
  <2> QED BY <1>3, <1>8, <1>9, <2>1 DEF GoodRows
<1>11. /\ SumOf("net", S) = SumOf("net", held) + f.net
       /\ SumOf("spent", S) = SumOf("spent", held) + f.spent
  <2> DEFINE g == [r \in S |-> r["net"]]
             h == [r \in S |-> r["spent"]]
  <2>1. \A r \in S : /\ g[r] = r["net"] /\ g[r] \in Int
                     /\ h[r] = r["spent"] /\ h[r] \in Int
    BY <1>10 DEF Row
  <2>2. g[fresh] = f.net /\ h[fresh] = f.spent
    BY <1>8
  <2> HIDE DEF g, h, held
  <2>3. /\ SumOf("net", S) = SumFunctionOnSet(g, S)
        /\ SumOf("spent", S) = SumFunctionOnSet(h, S)
        /\ SumOf("net", held) = SumFunctionOnSet(g, held)
        /\ SumOf("spent", held) = SumFunctionOnSet(h, held)
    BY <1>3, <1>10, <2>1, SumOfIsSum
  <2>4. /\ SumFunctionOnSet(g, S) = SumFunctionOnSet(g, held) + g[fresh]
        /\ SumFunctionOnSet(h, S) = SumFunctionOnSet(h, held) + h[fresh]
    <3>1. \A r \in held \cup {fresh} : g[r] \in Int /\ h[r] \in Int
      BY <2>1
    <3> QED BY <1>3, <1>9, <3>1, SumJoin
  <2> QED BY <2>2, <2>3, <2>4
<1>12. ValueOf(S) = ValueOf(held) + f.fill * f.net
  <2> DEFINE g == [r \in S |-> r.fill * r.net]
             h == [r \in held |-> r.fill * r.net]
  <2>1. \A r \in S : g[r] \in Int
    BY <1>10 DEF Row
  <2>2. g[fresh] = f.fill * f.net /\ \A r \in held : h[r] = g[r]
    BY <1>8
  <2>3. ValueOf(S) = SumFunctionOnSet(g, S) /\ ValueOf(held) = SumFunctionOnSet(h, held)
    BY DEF ValueOf
  <2> HIDE DEF g, h, held
  <2>4. SumFunctionOnSet(h, held) = SumFunctionOnSet(g, held)
    BY <1>3, <2>2, SumSame
  <2>5. SumFunctionOnSet(g, S) = SumFunctionOnSet(g, held) + g[fresh]
    BY <1>3, <1>9, <2>1, SumJoin
  <2> QED BY <2>2, <2>3, <2>4, <2>5
<1>13. T = W
  <2> DEFINE net == SumOf("net", held) + f.net
             V == {[r EXCEPT !.stop = stop, !.target = target,
                             !.risk = SharedRisk(risk, r, net)] : r \in S}
  <2>1. T = V
    BY Zenon DEF MergedRows, MergedTarget, target, stop, risk, fresh
  <2>2. W = {[r EXCEPT !.stop = stop, !.target = target,
                       !.risk = SharedRisk(risk, r, SumOf("net", S))] : r \in S}
    BY DEF WithShare
  <2>3. net = SumOf("net", S)
    BY <1>11
  <2> HIDE DEF net, S
  <2> QED BY <2>1, <2>2, <2>3
<1>14. InPlace(W, rows, x) /\ Kept(W, S) /\ Uniform(W, stop, target, risk)
  <2>1. Beside(S, rows, x)
    BY <1>2, <1>3, <1>8, <1>9 DEF GoodRows, Beside
  <2>2. SharesOf(W, S, stop, target, risk)
    BY DEF SharesOf
  <2> HIDE DEF S, W
  <2> QED BY <1>2, <1>5, <1>6, <1>7, <1>10, <2>1, <2>2, Reshared
<1> HIDE DEF W, T
<1>15. \A r \in new : r.id <= opened + 1
  <2>1. \A u \in W : u.id <= opened + 1
    BY <1>2, <1>3, <1>8, <1>14 DEF GoodRows, Row, Kept
  <2> QED BY <1>2, <1>13, <2>1 DEF GoodRows, Row
<1>16. SumOf("spent", new) = SumOf("spent", rows) + f.spent
  <2>1. /\ IsFiniteSet(rows \ held) /\ IsFiniteSet(T)
        /\ \A r \in rows : r["spent"] \in Int
        /\ \A r \in T : r["spent"] \in Int
    BY <1>2, <1>3, <1>13, <1>14, FS_Subset DEF GoodRows, Row, InPlace
  <2>2. (rows \ held) \cap T = {}
    <3>1. \A r \in T : r.symbol = x
      BY <1>13, <1>14 DEF Of, InPlace
    <3> QED BY <3>1 DEF Of
  <2>3. SumOf("spent", new) = SumOf("spent", rows \ held) + SumOf("spent", T)
    <3> HIDE DEF held
    <3> QED BY <2>1, <2>2, SumOfUnion
  <2>4. SumOf("spent", rows) = SumOf("spent", rows \ held) + SumOf("spent", held)
    <3>1. rows = (rows \ held) \cup held /\ (rows \ held) \cap held = {}
      BY <1>3
    <3>2. SumOf("spent", (rows \ held) \cup held)
            = SumOf("spent", rows \ held) + SumOf("spent", held)
      <4>1. \A r \in (rows \ held) \cup held : r["spent"] \in Int
        BY <2>1, <3>1
      <4> HIDE DEF held
      <4> QED BY <1>3, <2>1, <3>1, <4>1, SumOfUnion
    <3> QED BY <3>1, <3>2
  <2>5. SumOf("spent", rows \ held) \in Int /\ SumOf("spent", held) \in Int
    <3> HIDE DEF held
    <3> QED BY <1>2, <1>3, <2>1, RowSums DEF GoodRows
  <2>6. SumOf("spent", T) = SumOf("spent", held) + f.spent
    BY <1>11, <1>13, <1>14 DEF Kept, Uniform
  <2> HIDE DEF new
  <2> QED BY <1>1, <2>3, <2>4, <2>5, <2>6
<1>17. EconomicRisk(Settings, T) = risk
  <2> HIDE DEF held
  <2>1. EconomicRisk(Settings, T)
          = SumOf("spent", T) - StopProceeds(Settings, SumOf("net", T), HighestStop(T))
    BY <1>13, <1>14 DEF EconomicRisk, Kept
  <2>2. /\ SumOf("spent", T) = SumOf("spent", held) + f.spent
        /\ SumOf("net", T) = SumOf("net", held) + f.net
        /\ HighestStop(T) = stop
    BY <1>11, <1>13, <1>14 DEF Kept, Uniform
  <2>3. CASE held # {}
    <3>1. risk = SumOf("spent", held) + f.spent
                   - StopProceeds(Settings, SumOf("net", held) + f.net, stop)
      BY <2>3 DEF risk, stop, ProjectedRisk
    <3>2. SumOf("spent", held) \in Int /\ SumOf("net", held) \in Int
      BY <1>3, RowSums
    <3>3. StopProceeds(Settings, SumOf("net", held) + f.net, stop) \in Int
      <4>1. SumOf("net", held) + f.net \in Int
        BY <1>1, <3>2
      <4> QED BY <1>7, <4>1, ProceedsType
    <3> QED BY <1>1, <2>1, <2>2, <3>1, <3>2, <3>3
  <2>4. CASE held = {}
    <3>1. SumOf("spent", held) = 0 /\ SumOf("net", held) = 0
      BY <2>4, SumEmpty DEF SumOf
    <3>2. risk = f.risk /\ stop = f.stop
      BY <2>4 DEF risk, stop, ProjectedRisk, ProjectedStop
    <3>3. SumOf("spent", T) = f.spent /\ SumOf("net", T) = f.net
      BY <1>1, <2>2, <3>1
    <3> QED BY <1>1, <2>1, <2>2, <3>2, <3>3
  <2> QED BY <2>3, <2>4
<1>18. InPlace(T, rows, x) /\ T # {} /\ Uniform(T, stop, target, EconomicRisk(Settings, T))
  BY <1>13, <1>14, <1>17 DEF Kept
<1>19. /\ SumOf("net", T) = SumOf("net", held) + f.net
       /\ SumOf("spent", T) = SumOf("spent", held) + f.spent
       /\ ValueOf(T) = ValueOf(held) + f.fill * f.net
  BY <1>11, <1>12, <1>13, <1>14 DEF Kept
<1> QED BY <1>15, <1>16, <1>17, <1>18, <1>19, Zenon DEF T, risk, stop, target

-----------------------------------------------------------------------------
(***************************************************************************)
(* A proposal is made of integers, and under a percentage policy of a      *)
(* positive equity.                                                        *)
(***************************************************************************)

\* The policy sizes an entry by a whole amount.
LEMMA SizeType ==
    ASSUME NEW ctx, \A l \in MoneyLimits : ctx.limits[l] \in Int,
           ctx.a.risk \in Int, ctx.a.posRisk \in Int, ctx.a.exposure \in Int,
           ctx.a.posExposure \in Int, ctx.buying \in Int,
           NEW entry \in Int, NEW stop \in Int, stop < entry, NEW fee \in Nat,
           NEW requested \in Nat
    PROVE  SizeEntry(ctx, entry, stop, requested, fee).notional \in Int
<1> DEFINE asNotional(risk) == (risk * entry) \div (entry - stop)
           n1 == asNotional(ctx.limits.positionRisk)
           n2 == ctx.limits.entry
           n3 == NonNegative(ctx.limits.entry - ctx.a.posExposure)
           n4 == NonNegative(ctx.limits.exposure - ctx.a.exposure)
           n5 == asNotional(UsableRisk(ctx))
           n6 == CapitalCapacity(ctx.buying, fee)
<1>1. /\ ctx.limits.positionRisk \in Int /\ ctx.limits.entry \in Int
      /\ ctx.limits.exposure \in Int /\ ctx.limits.aggregateRisk \in Int
  BY DEF MoneyLimits
<1>2. \A risk \in Int : asNotional(risk) \in Int
  <2> SUFFICES ASSUME NEW risk \in Int PROVE (risk * entry) \div (entry - stop) \in Int
    OBVIOUS
  <2>1. entry - stop \in Nat \ {0} /\ risk * entry \in Int
    OBVIOUS
  <2> QED BY <2>1, Division
<1>3. UsableRisk(ctx) \in Int
  BY <1>1 DEF UsableRisk, Smaller, NonNegative
<1>4. n6 \in Int
  <2>1. ctx.buying * Whole \in Int /\ Whole + fee \in Nat \ {0}
    BY WholeAssumption
  <2> QED BY <2>1, Division DEF CapitalCapacity
<1>5. n3 \in Int /\ n4 \in Int
  BY <1>1 DEF NonNegative
<1>6. n1 \in Int /\ n5 \in Int
  <2> HIDE DEF asNotional
  <2> QED BY <1>1, <1>2, <1>3
<1>7. SafeNotional(ctx, entry, stop, fee) = Min({n1, n2, n3, n4, n5, n6})
  BY DEF SafeNotional
<1> HIDE DEF n1, n2, n3, n4, n5, n6
<1>8. n2 \in Int
  BY <1>1 DEF n2
<1>9. Min({n1, n2, n3, n4, n5, n6}) \in Int
  <2>1. Min({n1, n2, n3, n4, n5, n6}) \in {n1, n2, n3, n4, n5, n6}
    BY <1>4, <1>5, <1>6, <1>8, SixMin
  <2> QED BY <1>4, <1>5, <1>6, <1>8, <2>1
<1> QED BY <1>7, <1>9 DEF SizeEntry

\* Accepted terms have their stop below the entry.
LEMMA EntryTermsFacts ==
    ASSUME NEW m, m.ask \in Nat \ {0}, NEW p, NEW noise \in Nat
    PROVE  LET e == EntryTerms(Settings, "paper", m, p, noise)
           IN  /\ e.entry = m.ask /\ e.stop \in Int
               /\ e.accepted => e.stop < e.entry
<1> DEFINE distance == Max({noise, CeilPart(m.ask, Settings.minStop)})
           e == EntryTerms(Settings, "paper", m, p, noise)
<1>1. CeilPart(m.ask, Settings.minStop) \in Int
  <2>1. -m.ask \in Int
    OBVIOUS
  <2>2. \A x \in Int : Part(x, Settings.minStop) \in Int
    BY PartFacts, SettingsTypes
  <2>3. Part(-m.ask, Settings.minStop) \in Int
    BY <2>1, <2>2
  <2> QED BY <2>3 DEF CeilPart
<1>2. distance \in Int
  BY <1>1, PairMax
<1>3. /\ e.entry = m.ask /\ e.stop = m.ask - distance
      /\ e.accepted => 0 < distance
  <2>1. /\ e.entry = m.ask /\ e.stop = m.ask - distance
        /\ e.accepted => (0 < distance /\ distance < m.ask)
    BY Zenon DEF EntryTerms
  <2> QED BY <2>1
<1> HIDE DEF distance, e
<1> QED BY <1>2, <1>3 DEF e

\* A proposal that is created is well formed.
LEMMA ProposedType ==
    ASSUME PositionInv, NEW x \in Symbols, NEW noise \in Nat, NEW requested \in Nat,
           NEW manual, NEW t,
           t = ProposePaper(Settings, Account(x), Market(x), price[x], noise, x,
                            requested, rows, manual),
           t # NoEntry
    PROVE  ProposalOK(t)
<1> DEFINE a == Account(x)
           m == Market(x)
           ctx == Context(Settings, "paper", a, Absent)
           e == EntryTerms(Settings, "paper", m, price[x], noise)
           b == PaperBracket(Settings, e)
           quote == IF PercentageBased(Settings)
                    THEN SizeEntry(ctx, e.entry, e.stop, requested, Settings.fee).notional
                    ELSE requested
<1>1. /\ t = PaperTerms(Settings, ctx, m, e, x, requested, rows, manual)
      /\ e.accepted
      /\ PaperAdmits(Settings, ctx, t.quote, a.exposure + t.quote,
                     a.posExposure + t.plan.spent, t.posRisk, t.aggregate)
  <2> DEFINE u == PaperTerms(Settings, ctx, m, e, x, requested, rows, manual)
  <2>1. /\ t = u
        /\ e.accepted
        /\ PaperAdmits(Settings, ctx, u.quote, a.exposure + u.quote,
                       a.posExposure + u.plan.spent, u.posRisk, u.aggregate)
    <3> HIDE DEF a, m
    <3> QED BY Zenon DEF ProposePaper, ctx, e, u, a, m
  <2> HIDE DEF u, ctx, e, a, m
  <2>2. u.quote = t.quote /\ u.plan = t.plan /\ u.posRisk = t.posRisk
        /\ u.aggregate = t.aggregate
    BY <2>1
  <2> QED BY <2>1, <2>2 DEF u
<1>2. /\ t.plan.symbol = x
      /\ t.entry = b.entry /\ t.stop = b.stop
      /\ t.ratio = <<b.target - b.entry, b.entry - b.stop>>
      /\ t.quote = quote
      /\ t.equity = Equity(ctx.a)
  <2>1. t = PaperTerms(Settings, ctx, m, e, x, requested, rows, manual)
    BY <1>1
  <2> HIDE DEF ctx, m, e, a
  <2> QED BY <2>1 DEF PaperTerms, FillRisk
<1>3. price[x] \in Nat \ {0} /\ m.ask = price[x]
  BY PriceTypes DEF PositionInv, Market
<1>4. e.entry \in Int /\ e.stop \in Int /\ e.stop < e.entry
  <2> HIDE DEF m
  <2> QED BY <1>1, <1>3, EntryTermsFacts
<1>5. /\ ctx.a = a /\ ctx.limits = LimitsFor(Settings, "paper", Equity(a))
      /\ ctx.buying = NonNegative(a.free - Reserve(Settings, "paper", Equity(a)))
  BY DEF Context, EffectiveEquity
<1>6. /\ a.risk \in Int /\ a.posRisk \in Int /\ a.exposure \in Int
      /\ a.posExposure \in Int /\ a.free \in Int /\ Equity(a) \in Int
  BY AccountTypes DEF PositionInv
<1>7. /\ \A l \in MoneyLimits : ctx.limits[l] \in Int
      /\ ctx.buying \in Int
  <2>1. \A l \in MoneyLimits : LimitsFor(Settings, "paper", Equity(a))[l] \in Int
    <3> HIDE DEF a
    <3> QED BY <1>6, LimitTypes
  <2>2. Reserve(Settings, "paper", Equity(a)) \in Int
    <3> HIDE DEF a
    <3> QED BY <1>6, ReserveType
  <2>3. ctx.buying \in Int
    <3> HIDE DEF a, ctx
    <3> QED BY <1>5, <1>6, <2>2 DEF NonNegative
  <2> HIDE DEF a, ctx
  <2> QED BY <1>5, <2>1, <2>3
<1> HIDE DEF a, m, ctx, e
<1>8. quote \in Int
  <2>1. SizeEntry(ctx, e.entry, e.stop, requested, Settings.fee).notional \in Int
    BY <1>4, <1>5, <1>6, <1>7, SizeType, SettingsTypes
  <2> QED BY <2>1
<1>9. b.entry \in Int /\ b.stop \in Int /\ b.target \in Int /\ b.stop < b.entry
  <2>1. -(e.entry - e.stop) \in Int
    BY <1>4
  <2>2. CeilPart(e.entry - e.stop, Settings.rewardRisk) \in Int
    <3>1. \A y \in Int : Part(y, Settings.rewardRisk) \in Int
      BY PartFacts, SettingsTypes
    <3>2. Part(-(e.entry - e.stop), Settings.rewardRisk) \in Int
      BY <2>1, <3>1
    <3> QED BY <3>2 DEF CeilPart
  <2> QED BY <1>4, <2>2 DEF PaperBracket
<1>10. PercentageBased(Settings) => Equity(a) > 0
  <2> SUFFICES ASSUME PercentageBased(Settings), Equity(a) <= 0 PROVE FALSE
    BY <1>6
  <2>1. ctx.limits.entry <= 0
    BY <1>5, <1>6, NoEquityNoEntry
  <2>2. ~ (t.quote <= 0) /\ ~ (t.quote > ctx.limits.entry)
    BY <1>1, Admitted
  <2>3. t.quote \in Int /\ ctx.limits.entry \in Int
    BY <1>2, <1>7, <1>8 DEF MoneyLimits
  <2> QED BY <2>1, <2>2, <2>3
<1>12. Exact => (b.target - b.entry) * Whole = Settings.rewardRisk * (b.entry - b.stop)
  <2> SUFFICES ASSUME NEW k \in Nat \ {0}, Settings.rewardRisk = k * Whole
               PROVE  (b.target - b.entry) * Whole = Settings.rewardRisk * (b.entry - b.stop)
    BY DEF Exact
  <2> DEFINE d == e.entry - e.stop
             c == CeilPart(d, Settings.rewardRisk)
  <2>1. d \in Int /\ k \in Int /\ Whole \in Nat \ {0}
    BY <1>4, WholeAssumption
  <2>2. b.target = e.entry + c /\ b.entry = e.entry /\ b.stop = e.stop
    BY DEF PaperBracket
  <2>3. c = -(((-d) * (k * Whole)) \div Whole)
    BY DEF CeilPart, Part
  <2> HIDE DEF d, c
  <2>4. (-d) * (k * Whole) = (-(d * k)) * Whole
    BY <2>1
  <2>5. ((-(d * k)) * Whole) \div Whole = -(d * k)
    <3> DEFINE y == -(d * k)
    <3>1. y \in Int
      BY <2>1
    <3> HIDE DEF y
    <3>2. (y * Whole) \div Whole = y
      BY <2>1, <3>1
    <3> QED BY <3>2 DEF y
  <2>6. c = d * k
    BY <2>1, <2>3, <2>4, <2>5
  <2>7. b.target - b.entry = c /\ b.entry - b.stop = d
    BY <1>4, <2>1, <2>2, <2>6 DEF d
  <2>8. (d * k) * Whole = (k * Whole) * d
    BY <2>1
  <2> QED BY <2>6, <2>7, <2>8
<1>13. b.entry - b.stop = t.entry - t.stop
  BY <1>2
<1> HIDE DEF b, quote
<1>11. t.ratio \in Int \X (Nat \ {0})
  BY <1>2, <1>9
<1>14. t.ratio[1] = b.target - b.entry /\ t.ratio[2] = b.entry - b.stop
  BY <1>2
<1> QED BY <1>2, <1>5, <1>6, <1>8, <1>9, <1>10, <1>11, <1>12, <1>13, <1>14
        DEF ProposalOK

-----------------------------------------------------------------------------
(***************************************************************************)
(* Sales.                                                                  *)
(***************************************************************************)

\* The total a close divides is a sum.
LEMMA TotalIsSum == \A h : TotalOf(h) = SumFunctionOnSet(h, DOMAIN h)
BY DEF TotalOf, MapThenSumSet, MapThenFoldSet, SumFunctionOnSet, FoldFunctionOnSet

\* Each tranche sells a whole quantity.
LEMMA AllocationType ==
    ASSUME NEW D, IsFiniteSet(D), D # {}, NEW h \in [D -> Nat \ {0}], NEW q \in Int
    PROVE  \A i \in D : Allocation(h, q)[i] \in Int
<1>1. TotalOf(h) \in Nat \ {0}
  <2>1. DOMAIN h = D /\ \A i \in D : h[i] \in Nat \ {0}
    OBVIOUS
  <2> QED BY <2>1, TotalIsSum, SumPositive
<1>2. \A i \in D : Base(h, q, i) \in Int
  <2> SUFFICES ASSUME NEW i \in D PROVE Base(h, q, i) \in Int
    OBVIOUS
  <2> DEFINE k == (q * h[i]) \div (TotalOf(h) * Step)
  <2>1. TotalOf(h) * Step \in Nat \ {0} /\ q * h[i] \in Int
    BY <1>1, StepAssumption
  <2>2. k \in Int
    BY <2>1, Division
  <2> HIDE DEF k
  <2>3. k * Step \in Int
    BY <2>2, StepAssumption
  <2> QED BY <2>3 DEF Base, k
<1>3. \A i \in D : Extra(h, q, i) \in Int
  BY StepAssumption DEF Extra
<1>4. \A i \in D : Allocation(h, q)[i] = h[i]
                     \/ Allocation(h, q)[i] = Base(h, q, i) + Extra(h, q, i)
  BY DEF Allocation
<1> QED BY <1>2, <1>3, <1>4

\* The quantities of the tranches by identifier.
LEMMA NetOfFacts ==
    ASSUME NEW H, GoodRows(H)
    PROVE  LET D == {r.id : r \in H}
           IN  /\ IsFiniteSet(D) /\ NetOf(H) \in [D -> Nat \ {0}]
               /\ \A r \in H : r.id \in D /\ NetOf(H)[r.id] = r.net
<1> DEFINE D == {r.id : r \in H}
<1>1. \A r \in H : (CHOOSE u \in H : u.id = r.id) = r
  BY DEF GoodRows
<1>2. \A i \in D : (CHOOSE u \in H : u.id = i).net \in Nat \ {0}
  BY <1>1 DEF GoodRows, Row
<1>3. IsFiniteSet(D)
  <2> DEFINE m == [r \in H |-> r.id]
  <2>1. D = {m[r] : r \in H}
    OBVIOUS
  <2> HIDE DEF m, D
  <2> QED BY <2>1, ImageIsFinite DEF GoodRows
<1> QED BY <1>1, <1>2, <1>3 DEF NetOf

\* What a sale pays and loses are integers.
LEMMA SaleTypes ==
    ASSUME NEW H, GoodRows(H), NEW part, \A r \in H : part[r.id] \in Int,
           NEW trigger \in Int
    PROVE  /\ PaidFor(Settings, H, part, trigger) \in Int
           /\ LossOf(Settings, H, part, trigger) \in Int
<1> DEFINE paid == [r \in H |-> ExitProceeds(Settings, part[r.id], trigger)]
           loss == [r \in H |-> NonNegative((r.spent * part[r.id]) \div r.net
                                  - ExitProceeds(Settings, part[r.id], trigger))]
<1>1. \A r \in H : ExitProceeds(Settings, part[r.id], trigger) \in Int
  BY ProceedsType
<1>2. \A r \in H : (r.spent * part[r.id]) \div r.net \in Int
  <2> SUFFICES ASSUME NEW r \in H PROVE (r.spent * part[r.id]) \div r.net \in Int
    OBVIOUS
  <2>1. r.spent \in Int /\ r.net \in Nat \ {0} /\ part[r.id] \in Int
    BY DEF GoodRows, Row
  <2>2. r.spent * part[r.id] \in Int
    BY <2>1
  <2> QED BY <2>1, <2>2, Division
<1>3. \A r \in H : paid[r] \in Int /\ loss[r] \in Int
  BY <1>1, <1>2 DEF NonNegative
<1>4. /\ PaidFor(Settings, H, part, trigger) = SumFunctionOnSet(paid, H)
      /\ LossOf(Settings, H, part, trigger) = SumFunctionOnSet(loss, H)
  BY DEF PaidFor, LossOf
<1> HIDE DEF paid, loss
<1> QED BY <1>3, <1>4, SumInt DEF GoodRows

\* What is left of a tranche.
LEMMA LeftOver ==
    ASSUME NEW r \in Row, NEW part, part[r.id] \in Int, part[r.id] < r.net
    PROVE  /\ RowAfter(r, part) \in Row
           /\ RowAfter(r, part).id = r.id /\ RowAfter(r, part).symbol = r.symbol
<1> DEFINE p     == part[r.id]
           net   == r.net - p
           spent == r.spent - (r.spent * p) \div r.net
           risk  == (r.risk * (r.net - p)) \div r.net
<1>1. r.net \in Nat \ {0} /\ r.spent \in Int /\ r.risk \in Int /\ p \in Int /\ p < r.net
  BY DEF Row
<1>2. net \in Nat \ {0}
  BY <1>1
<1>3. spent \in Int
  <2>1. r.spent * p \in Int
    BY <1>1
  <2>2. (r.spent * p) \div r.net \in Int
    BY <1>1, <2>1, Division
  <2> QED BY <1>1, <2>2
<1>4. risk \in Int
  <2>1. r.risk * (r.net - p) \in Int
    BY <1>1
  <2> QED BY <1>1, <2>1, Division
<1>5. RowAfter(r, part) = [r EXCEPT !.net = net, !.spent = spent, !.risk = risk]
  BY DEF RowAfter, Row
<1> HIDE DEF net, spent, risk
<1> QED BY <1>2, <1>3, <1>4, <1>5 DEF Row

-----------------------------------------------------------------------------
(***************************************************************************)
(* Brackets the monitor accepts.                                           *)
(***************************************************************************)
\* A target set anew is at every ratio that equals the one it was set with.
LEMMA TargetIsValid ==
    ASSUME NEW v \in Int, NEW n \in Nat \ {0}, NEW stop \in Int, v - stop * n > 0,
           NEW r1 \in Nat \ {0}, NEW r2 \in Nat \ {0},
           NEW s1 \in Nat \ {0}, NEW s2 \in Nat \ {0}, r1 * s2 = s1 * r2
    PROVE  ValidBracket(v, n, stop, TargetOf(v, n, stop, <<r1, r2>>), <<s1, s2>>)
<1> DEFINE w         == v - stop * n
           num       == v * r2 + w * r1
           den       == n * r2
           excess    == num * n * s2 - den * (v * s2 + w * s1)
           tolerance == (den * s2 * w) \div 10000
<1>1. w \in Nat \ {0}
  OBVIOUS
<1> HIDE DEF w
<1>2. w * r1 \in Nat \ {0} /\ v * r2 \in Int /\ den \in Nat \ {0} /\ num \in Int
  BY <1>1
<1>3. excess = 0
  <2>1. num * n * s2 = (v * r2) * (n * s2) + (w * r1) * (n * s2)
    BY <1>1, <1>2
  <2>2. den * (v * s2 + w * s1) = (n * r2) * (v * s2) + (n * r2) * (w * s1)
    BY <1>1
  <2>3. (v * r2) * (n * s2) = (n * r2) * (v * s2)
    OBVIOUS
  <2>4. (w * r1) * (n * s2) = (w * n) * (r1 * s2)
    BY <1>1
  <2>5. (n * r2) * (w * s1) = (w * n) * (s1 * r2)
    BY <1>1
  <2> DEFINE p == (v * r2) * (n * s2)
             q == (w * n) * (r1 * s2)
  <2>6. p \in Int /\ q \in Int
    BY <1>1
  <2>7. num * n * s2 = p + q /\ den * (v * s2 + w * s1) = p + q
    BY <2>1, <2>2, <2>3, <2>4, <2>5
  <2> HIDE DEF p, q, num, den
  <2> QED BY <2>6, <2>7
<1>4. tolerance \in Nat
  <2>1. den * s2 * w \in Nat
    <3> HIDE DEF den
    <3> QED BY <1>1, <1>2
  <2> QED BY <2>1
<1>5. v * den < num * n
  <2>1. num * n = (v * r2) * n + (w * r1) * n
    BY <1>2
  <2>2. v * den = (v * r2) * n
    OBVIOUS
  <2>3. (w * r1) * n \in Nat \ {0} /\ (v * r2) * n \in Int
    BY <1>2
  <2> HIDE DEF num, den
  <2> QED BY <2>1, <2>2, <2>3
<1>6. TargetOf(v, n, stop, <<r1, r2>>) = [num |-> num, den |-> den]
  BY DEF TargetOf, w
<1>7. ValidBracket(v, n, stop, [num |-> num, den |-> den], <<s1, s2>>)
        <=> /\ 0 < w /\ v * den < num * n
            /\ -tolerance <= excess /\ excess <= tolerance
  <2> HIDE DEF num, den
  <2> QED BY DEF ValidBracket, w
<1> HIDE DEF excess, tolerance, num, den
<1> QED BY <1>1, <1>3, <1>4, <1>5, <1>6, <1>7

\* The target of a fill, when the ratio is exact.
LEMMA FillTargetIsValid ==
    ASSUME NEW fill \in Int, NEW n \in Nat \ {0}, NEW d \in Nat \ {0},
           NEW k \in Nat \ {0}
    PROVE  ValidBracket(fill * n, n, fill - d,
                        [num |-> fill + d * k, den |-> 1], <<k * Whole, Whole>>)
<1> DEFINE w         == fill * n - (fill - d) * n
           num       == fill + d * k
           excess    == num * n * Whole - 1 * ((fill * n) * Whole + w * (k * Whole))
           tolerance == (1 * Whole * w) \div 10000
<1>1. w = d * n /\ d * n \in Nat \ {0} /\ Whole \in Nat \ {0}
  BY WholeAssumption
<1>2. w \in Nat \ {0}
  BY <1>1
<1> HIDE DEF w
<1>3. excess = 0
  <2>1. num * n * Whole = (fill * n) * Whole + ((d * k) * n) * Whole
    BY <1>1
  <2>2. w * (k * Whole) = ((d * k) * n) * Whole
    BY <1>1
  <2> DEFINE p == (fill * n) * Whole
             q == ((d * k) * n) * Whole
  <2>3. p \in Int /\ q \in Int
    BY <1>1
  <2>4. num * n * Whole = p + q /\ w * (k * Whole) = q
    BY <2>1, <2>2
  <2>5. excess = (p + q) - 1 * (p + q)
    BY <2>4
  <2> HIDE DEF p, q, excess
  <2> QED BY <2>3, <2>5
<1>4. tolerance \in Nat
  <2>1. 1 * Whole * w \in Nat
    BY <1>1, <1>2
  <2> QED BY <2>1
<1>5. (fill * n) * 1 < num * n
  <2>1. num * n = fill * n + (d * k) * n
    OBVIOUS
  <2>2. (d * k) * n \in Nat \ {0} /\ fill * n \in Int
    OBVIOUS
  <2> HIDE DEF num
  <2> QED BY <2>1, <2>2
<1>6. ValidBracket(fill * n, n, fill - d, [num |-> num, den |-> 1], <<k * Whole, Whole>>)
        <=> /\ 0 < w /\ (fill * n) * 1 < num * n
            /\ -tolerance <= excess /\ excess <= tolerance
  <2> HIDE DEF num
  <2> QED BY DEF ValidBracket, w
<1> HIDE DEF excess, tolerance
<1> QED BY <1>2, <1>3, <1>4, <1>5, <1>6

\* All tranches of a position have its target.
LEMMA MonitorableUniform ==
    ASSUME NEW T, T # {}, NEW stop, NEW target, NEW risk, Uniform(T, stop, target, risk)
    PROVE  Monitorable(Settings, T)
             <=> ValidBracket(ValueOf(T), SumOf("net", T), stop, target,
                              <<Settings.rewardRisk, Whole>>)
<1>1. (CHOOSE r \in T : TRUE) \in T
  OBVIOUS
<1> QED BY <1>1 DEF Monitorable, Uniform

\* With an exact ratio a merged position has a bracket the monitor accepts.
LEMMA MergedIsMonitorable ==
    ASSUME Exact, PositionInv, proposal # NoEntry, NEW x, x = proposal.plan.symbol,
           NEW f,
           f = FillPaper(Settings, Account(x), Market(x), proposal, x, rows),
           f # NoEntry
    PROVE  Monitorable(Settings, MergedRows(Settings, proposal, Of(x, rows), f))
<1> DEFINE t      == proposal
           held   == Of(x, rows)
           stop   == ProjectedStop(held, f)
           target == ProjectedTarget(held, t.ratio, f)
           v      == ValueOf(held) + f.fill * f.net
           n      == SumOf("net", held) + f.net
           T      == MergedRows(Settings, t, held, f)
           d      == t.entry - t.stop
<1>1. /\ f.net \in Nat \ {0} /\ f.fill \in Int /\ f.stop \in Int
      /\ f.stop = f.fill - d
      /\ f.target = f.fill + Part(d, Settings.rewardRisk)
      /\ ValidBracket(v, n, stop, target, t.ratio)
  BY FillFacts
<1>2. /\ T # {} /\ ValueOf(T) = v /\ SumOf("net", T) = n
      /\ Uniform(T, stop, target, EconomicRisk(Settings, T))
  BY MergeFacts
<1>3. PICK k \in Nat \ {0} : Settings.rewardRisk = k * Whole
  BY DEF Exact
<1>4. /\ t.ratio \in Int \X (Nat \ {0}) /\ t.ratio[2] = d
      /\ t.ratio[1] * Whole = Settings.rewardRisk * d
  BY DEF PositionInv, ProposalOK
<1>5. d \in Nat \ {0} /\ Whole \in Nat \ {0} /\ t.ratio[1] \in Int
  BY <1>4, WholeAssumption
<1>6. t.ratio[1] = k * d
  <2>1. t.ratio[1] * Whole = (k * d) * Whole
    <3> HIDE DEF d, t
    <3> QED BY <1>3, <1>4, <1>5
  <2> DEFINE y == t.ratio[1]
             z == k * d
  <2>2. y \in Int /\ z \in Int /\ y * Whole = z * Whole
    BY <1>5, <2>1
  <2> HIDE DEF y, z
  <2>3. y = z
    BY <1>5, <2>2
  <2> QED BY <2>3 DEF y, z
<1>7. ValidBracket(v, n, stop, target, <<Settings.rewardRisk, Whole>>)
  <2>1. CASE held = {}
    <3>1. ValueOf(held) = 0 /\ SumOf("net", held) = 0
      BY <2>1, SumEmpty DEF SumOf, ValueOf
    <3>2. v = f.fill * f.net /\ n = f.net
      <4> HIDE DEF held
      <4>1. f.fill * f.net \in Int
        BY <1>1
      <4> QED BY <1>1, <3>1, <4>1
    <3>3. stop = f.fill - d /\ target = [num |-> f.target, den |-> 1]
      BY <1>1, <2>1 DEF ProjectedStop, ProjectedTarget
    <3>4. f.target = f.fill + d * k
      <4>1. Part(d, Settings.rewardRisk) = (d * (k * Whole)) \div Whole
        BY <1>3 DEF Part
      <4> HIDE DEF d
      <4>2. d * (k * Whole) = (d * k) * Whole
        BY <1>5
      <4>3. ((d * k) * Whole) \div Whole = d * k
        <5> DEFINE y == d * k
        <5>1. y \in Nat
          BY <1>5
        <5> HIDE DEF y
        <5>2. (y * Whole) \div Whole = y
          BY <1>5, <5>1
        <5> QED BY <5>2 DEF y
      <4> QED BY <1>1, <4>1, <4>2, <4>3
    <3> HIDE DEF v, n, stop, target, d
    <3>5. ValidBracket(f.fill * f.net, f.net, f.fill - d,
                       [num |-> f.fill + d * k, den |-> 1], <<k * Whole, Whole>>)
      BY <1>1, <1>5, FillTargetIsValid
    <3> QED BY <1>3, <3>2, <3>3, <3>4, <3>5
  <2>2. CASE held # {}
    <3>1. held \in SUBSET Row /\ IsFiniteSet(held)
      <4>1. GoodRows(held)
        BY OfIsGood DEF PositionInv
      <4> HIDE DEF held
      <4> QED BY <4>1 DEF GoodRows
    <3>2. v \in Int /\ n \in Nat \ {0} /\ stop \in Int
      <4> HIDE DEF held
      <4>1. ValueOf(held) \in Int /\ SumOf("net", held) \in Nat /\ HighestStop(held) \in Int
        BY <2>2, <3>1, RowSums, StopFacts
      <4>2. f.fill * f.net \in Int
        BY <1>1
      <4> QED BY <1>1, <2>2, <4>1, <4>2 DEF ProjectedStop
    <3>3. target = TargetOf(v, n, stop, t.ratio)
      BY <2>2 DEF ProjectedTarget
    <3>4. t.ratio = <<k * d, d>>
      <4> HIDE DEF d, t
      <4> QED BY <1>4, <1>6
    <3>5. v - stop * n > 0
      <4>1. ValidBracket(v, n, stop, target, t.ratio)
        BY <1>1
      <4> HIDE DEF v, n, stop, target
      <4>2. 0 < v - stop * n
        BY <4>1 DEF ValidBracket
      <4> QED BY <3>2, <4>2
    <3> HIDE DEF v, n, stop, target, d, t
    <3>6. k * d \in Nat \ {0} /\ k * Whole \in Nat \ {0} /\ (k * d) * Whole = (k * Whole) * d
      BY <1>5
    <3>7. ValidBracket(v, n, stop, TargetOf(v, n, stop, <<k * d, d>>), <<k * Whole, Whole>>)
      BY <1>5, <3>2, <3>5, <3>6, TargetIsValid
    <3> QED BY <1>3, <3>3, <3>4, <3>7
  <2> QED BY <2>1, <2>2
<1> HIDE DEF T, v, n, stop, target
<1> QED BY <1>2, <1>7, MonitorableUniform DEF T

-----------------------------------------------------------------------------
(***************************************************************************)
(* Every step keeps the invariant, and leaves the tranches of all symbols  *)
(* but one as they are.                                                    *)
(***************************************************************************)
\* The tranches share what their position loses at its stop.
Shared(H) ==
    \A r \in H : r.risk = SharedRisk(EconomicRisk(Settings, H), r, SumOf("net", H))

\* What an entry or a repair leaves of a position.
Settled(H) == Shared(H) /\ (Exact => Monitorable(Settings, H))

\* A step that puts T in the place of the tranches of x.
Touched(x, T) ==
    /\ InPlace(T, rows, x)
    /\ rows' = (rows \ Of(x, rows)) \cup T
    /\ trimmed' \ {x} = trimmed \ {x}
    /\ T = {} \/ x \in trimmed' \/ Settled(T)

Touch == \/ rows' = rows /\ trimmed' = trimmed
         \/ \E x, T : Touched(x, T)

\* A move of the price leaves the tranches alone.
LEMMA PriceMovesKeeps ==
    ASSUME PositionInv, NEW x \in Symbols, NEW p \in Prices, PriceMoves(x, p)
    PROVE  PositionInv' /\ Touch
<1>1. /\ rows' = rows /\ opened' = opened /\ free' = free /\ lost' = lost
      /\ proposal' = proposal /\ trimmed' = trimmed
  BY DEF PriceMoves
<1>2. price' \in [Symbols -> Prices]
  BY DEF PriceMoves, PositionInv
<1> QED BY <1>1, <1>2 DEF PositionInv, ProposalOK, Touch

\* A proposal leaves the tranches alone.
LEMMA ProposeEntryKeeps ==
    ASSUME PositionInv, NEW x \in Symbols, NEW noise \in Noises,
           NEW requested \in Requests, NEW manual \in BOOLEAN,
           ProposeEntry(x, noise, requested, manual)
    PROVE  PositionInv' /\ Touch
<1> DEFINE t == ProposePaper(Settings, Account(x), Market(x), price[x], noise, x,
                             requested, rows, manual)
<1>1. /\ rows' = rows /\ opened' = opened /\ free' = free /\ lost' = lost
      /\ price' = price /\ trimmed' = trimmed
  BY DEF ProposeEntry
<1>2. t # NoEntry /\ proposal' = t
  BY Zenon DEF ProposeEntry
<1>3. noise \in Nat /\ requested \in Nat
  BY PositionAssumption
<1> HIDE DEF t
<1>4. ProposalOK(t)
  BY <1>2, <1>3, ProposedType DEF t
<1>5. proposal' # NoEntry => ProposalOK(proposal')
  BY <1>2, <1>4
<1> QED BY <1>1, <1>5 DEF PositionInv, Touch

\* A refused proposal is gone, a filled one merged.
LEMMA ExecuteKeeps ==
    ASSUME PositionInv, Execute
    PROVE  PositionInv' /\ Touch
<1> DEFINE x    == proposal.plan.symbol
           f    == FillPaper(Settings, Account(x), Market(x), proposal, x, rows)
           held == Of(x, rows)
           T    == MergedRows(Settings, proposal, held, f)
           fills == /\ ApprovePaper(Settings, Account(x), Market(x), proposal)
                    /\ f # NoEntry
                    /\ Commits(x)
<1>1. /\ proposal # NoEntry /\ proposal' = NoEntry
      /\ price' = price /\ lost' = lost
  BY DEF Execute
<1>2. CASE ~fills
  <2>1. /\ rows' = rows /\ free' = free /\ opened' = opened /\ trimmed' = trimmed
    BY <1>2, Zenon DEF Execute
  <2> QED BY <1>1, <2>1 DEF PositionInv, Touch
<1>3. CASE fills
  <2>1. /\ rows' = (rows \ held) \cup T /\ free' = free - f.spent
        /\ opened' = opened + 1 /\ trimmed' = trimmed \ {x}
        /\ f # NoEntry
    BY <1>3, Zenon DEF Execute
  <2> DEFINE new == (rows \ held) \cup T
             stop == ProjectedStop(held, f)
             target == ProjectedTarget(held, proposal.ratio, f)
  <2>2. f.spent \in Int
    BY <1>1, <2>1, FillFacts
  <2>3. /\ InPlace(T, rows, x) /\ T # {}
        /\ \A r \in new : r.id <= opened + 1
        /\ Uniform(T, stop, target, EconomicRisk(Settings, T))
    BY <1>1, <2>1, MergeFacts
  <2>4. Exact => Monitorable(Settings, T)
    BY <1>1, <2>1, MergedIsMonitorable
  <2> HIDE DEF x, f, stop, target
  <2>5. Touched(x, T)
    <3> HIDE DEF T
    <3>1. Shared(T)
      BY <2>3 DEF Uniform, Shared
    <3>2. Settled(T)
      BY <2>4, <3>1 DEF Settled
    <3> QED BY <2>1, <2>3, <3>2 DEF Touched
  <2>6. PositionInv'
    <3> HIDE DEF T
    <3>1. GoodRows(new)
      BY <2>3 DEF InPlace
    <3> HIDE DEF new
    <3>2. rows' = new
      BY <2>1 DEF new
    <3>3. free' \in Int /\ opened' \in Nat /\ lost' \in Int
      BY <1>1, <2>1, <2>2 DEF PositionInv
    <3>4. /\ GoodRows(rows') /\ \A r \in rows' : r.id <= opened'
      BY <2>1, <2>3, <3>1, <3>2
    <3> QED BY <1>1, <3>3, <3>4 DEF PositionInv
  <2> QED BY <2>5, <2>6 DEF Touch
<1> QED BY <1>2, <1>3

\* A close leaves rests of the tranches of its symbol, which is trimmed.
LEMMA CloseKeeps ==
    ASSUME PositionInv, NEW x \in Symbols, NEW percentage \in Percentages,
           Close(x, percentage)
    PROVE  PositionInv' /\ Touch
<1> DEFINE held == Of(x, rows)
           net  == SumOf("net", held)
           q    == IF percentage = 100 THEN net
                   ELSE FloorTo((net * percentage) \div 100, Step)
           part == Allocation(NetOf(held), q)
           S    == {r \in held : part[r.id] < r.net}
           left == {RowAfter(r, part) : r \in S}
<1>1. /\ rows' = (rows \ held) \cup left
      /\ free' = free + PaidFor(Settings, held, part, price[x])
      /\ lost' = lost + LossOf(Settings, held, part, price[x])
      /\ trimmed' = IF left = {} THEN trimmed \ {x} ELSE trimmed \cup {x}
      /\ price' = price /\ proposal' = proposal /\ opened' = opened
      /\ x \in HeldSymbols
  BY Zenon DEF Close
<1>2. /\ GoodRows(held) /\ held \subseteq rows /\ held # {}
      /\ \A r \in held : r.symbol = x
  <2>1. GoodRows(held) /\ \A r \in held : r.symbol = x
    BY OfIsGood DEF PositionInv
  <2>2. held \subseteq rows /\ held # {}
    BY <1>1 DEF Of, HeldSymbols, SymbolsOf
  <2> QED BY <2>1, <2>2
<1>3. q \in Int
  <2>1. net \in Nat /\ percentage \in Nat
    BY <1>2, RowSums, PositionAssumption DEF GoodRows
  <2> HIDE DEF net
  <2>2. (net * percentage) \div 100 \in Int
    <3>1. net * percentage \in Int
      BY <2>1
    <3> QED BY <3>1, Division
  <2>3. \A y \in Int : FloorTo(y, Step) \in Int
    BY StepAssumption, Division DEF FloorTo
  <2> QED BY <2>1, <2>2, <2>3
<1> HIDE DEF q
<1>4. \A r \in held : part[r.id] \in Int
  <2> DEFINE D == {r.id : r \in held}
  <2>1. /\ IsFiniteSet(D) /\ NetOf(held) \in [D -> Nat \ {0}]
        /\ \A r \in held : r.id \in D
    BY <1>2, NetOfFacts
  <2>2. D # {}
    BY <1>2
  <2> HIDE DEF D, held
  <2>3. \A i \in D : part[i] \in Int
    BY <1>3, <2>1, <2>2, AllocationType
  <2> QED BY <2>1, <2>3
<1> HIDE DEF part
<1>5. price[x] \in Int
  BY PriceTypes DEF PositionInv
<1>6. free' \in Int /\ lost' \in Int
  <2> HIDE DEF held, left
  <2>1. /\ PaidFor(Settings, held, part, price[x]) \in Int
        /\ LossOf(Settings, held, part, price[x]) \in Int
    BY <1>2, <1>4, <1>5, SaleTypes
  <2> QED BY <1>1, <2>1 DEF PositionInv
<1>7. GoodRows(left) /\ \A u \in left : \E r \in S : u = RowAfter(r, part)
  <2> DEFINE m == [r \in S |-> RowAfter(r, part)]
  <2>1. GoodRows(S)
    <3>1. S \subseteq held
      OBVIOUS
    <3> HIDE DEF held, S
    <3> QED BY <1>2, <3>1, FS_Subset DEF GoodRows
  <2>2. \A r \in S : r \in Row /\ part[r.id] \in Int /\ part[r.id] < r.net
    BY <1>2, <1>4 DEF GoodRows
  <2> HIDE DEF S, held
  <2>3. \A r \in S : m[r] \in Row /\ m[r].id = r.id
    BY <2>2, LeftOver
  <2>4. {m[r] : r \in S} = left
    OBVIOUS
  <2> HIDE DEF m
  <2>5. GoodRows({m[r] : r \in S})
    BY <2>1, <2>3, ImagesAreGood
  <2> QED BY <2>4, <2>5
<1>8. \A u \in left : \E r \in rows : u.id = r.id /\ r.symbol = x /\ u.symbol = x
  <2> TAKE u \in left
  <2>1. PICK r \in S : u = RowAfter(r, part)
    BY <1>7
  <2>2. r \in held /\ r \in rows /\ r \in Row /\ part[r.id] \in Int /\ part[r.id] < r.net
    BY <1>2, <1>4 DEF GoodRows
  <2> QED BY <1>2, <2>1, <2>2, LeftOver
<1>9. InPlace(left, rows, x)
  <2>1. \A u \in left : u.symbol = x /\ \A r \in rows \ Of(x, rows) : u.id # r.id
    <3> HIDE DEF left, held
    <3> QED BY <1>8 DEF PositionInv, GoodRows, Of
  <2> HIDE DEF left, held
  <2> QED BY <1>7, <2>1, Replaced DEF PositionInv
<1> HIDE DEF left
<1>10. Touched(x, left)
  BY <1>1, <1>9 DEF Touched
<1>11. GoodRows(rows') /\ \A r \in rows' : r.id <= opened'
  <2>1. GoodRows(rows')
    BY <1>1, <1>9 DEF InPlace
  <2> HIDE DEF held
  <2>2. rows' \subseteq rows \cup left
    BY <1>1
  <2> QED BY <1>1, <1>8, <2>1, <2>2 DEF PositionInv
<1> QED BY <1>1, <1>6, <1>10, <1>11 DEF PositionInv, Touch

\* An exit leaves no tranche of its symbol.
LEMMA MonitorExitKeeps ==
    ASSUME PositionInv, NEW x \in Symbols, NEW open \in Prices, NEW low \in Prices,
           NEW high \in Prices, MonitorExit(x, open, low, high)
    PROVE  PositionInv' /\ Touch
<1> DEFINE held    == Of(x, rows)
           trigger == Trigger(held, open, low, high)
<1>1. /\ rows' = rows \ held
      /\ free' = free + PaidFor(Settings, held, NetOf(held), trigger)
      /\ lost' = lost + LossOf(Settings, held, NetOf(held), trigger)
      /\ trimmed' = trimmed \ {x}
      /\ price' = price /\ proposal' = proposal /\ opened' = opened
      /\ x \in HeldSymbols
  BY Zenon DEF MonitorExit
<1>2. GoodRows(held) /\ held # {} /\ GoodRows(rows)
  <2>1. GoodRows(held)
    BY OfIsGood DEF PositionInv
  <2>2. held # {}
    BY <1>1 DEF Of, HeldSymbols, SymbolsOf
  <2> QED BY <2>1, <2>2 DEF PositionInv
<1>3. trigger \in Int
  <2> DEFINE target == (CHOOSE r \in held : TRUE).target
             stop   == HighestStop(held)
  <2>1. stop \in Int
    BY <1>2, StopFacts DEF GoodRows
  <2>2. target \in Target
    <3>1. (CHOOSE r \in held : TRUE) \in held
      BY <1>2
    <3> QED BY <1>2, <3>1 DEF GoodRows, Row
  <2>3. target.num \div target.den \in Int
    BY <2>2, Division DEF Target
  <2>4. open \in Int
    BY PriceTypes
  <2>5. trigger = CASE open <= stop -> open
                    [] open > stop /\ low <= stop -> stop
                    [] open > stop /\ low > stop /\ target.num <= high * target.den ->
                         target.num \div target.den
                    [] OTHER -> Absent
    BY Zenon DEF Trigger
  <2> HIDE DEF target, stop, trigger
  <2> QED BY <2>1, <2>3, <2>4, <2>5 DEF Absent
<1> HIDE DEF trigger
<1>4. free' \in Int /\ lost' \in Int
  <2>1. \A r \in held : NetOf(held)[r.id] \in Int
    <3>1. \A r \in held : NetOf(held)[r.id] = r.net
      BY <1>2, NetOfFacts
    <3> QED BY <1>2, <3>1 DEF GoodRows, Row
  <2> HIDE DEF held
  <2>2. /\ PaidFor(Settings, held, NetOf(held), trigger) \in Int
        /\ LossOf(Settings, held, NetOf(held), trigger) \in Int
    BY <1>2, <1>3, <2>1, SaleTypes
  <2> QED BY <1>1, <2>2 DEF PositionInv
<1>5. InPlace({}, rows, x)
  <2>1. GoodRows({})
    BY FS_EmptySet DEF GoodRows
  <2> QED BY <1>2, <2>1, Replaced
<1>6. rows' = (rows \ held) \cup {}
  BY <1>1
<1>7. Touched(x, {})
  BY <1>1, <1>5, <1>6 DEF Touched
<1>8. GoodRows(rows') /\ \A r \in rows' : r.id <= opened'
  <2>1. GoodRows(rows')
    BY <1>5, <1>6 DEF InPlace
  <2> QED BY <1>1, <2>1 DEF PositionInv
<1> QED BY <1>1, <1>4, <1>7, <1>8 DEF PositionInv, Touch

\* The guards of a repair say that the average is above the stop.
LEMMA RepairIsSound ==
    ASSUME NEW v \in Int, NEW n \in Nat \ {0}, NEW stop \in Int, NEW p \in Int,
           NEW r \in Nat \ {0}, NEW w \in Nat \ {0}, stop < p,
           p * (n * w) < v * w + (v - stop * n) * r
    PROVE  v - stop * n > 0
<1> DEFINE k == v - stop * n
           m == n * w
<1>1. k \in Int /\ m \in Nat \ {0} /\ stop * n \in Int
  OBVIOUS
<1>2. stop * m <= p * m
  <2>1. (p - stop) * m \in Nat
    BY <1>1
  <2>2. (p - stop) * m = p * m - stop * m
    BY <1>1
  <2>3. p * m \in Int /\ stop * m \in Int
    BY <1>1
  <2> HIDE DEF m
  <2> QED BY <2>1, <2>2, <2>3
<1>3. stop * m = v * w - k * w
  <2>1. stop * m = (stop * n) * w
    OBVIOUS
  <2>2. v = k + stop * n
    BY <1>1
  <2>3. v * w = k * w + (stop * n) * w
    <3> DEFINE z == stop * n
    <3>1. v = k + z /\ z \in Int
      BY <1>1, <2>2
    <3> HIDE DEF k, z
    <3>2. v * w = k * w + z * w
      BY <1>1, <3>1
    <3> QED BY <3>2 DEF z
  <2>4. k * w \in Int /\ (stop * n) * w \in Int
    BY <1>1
  <2> HIDE DEF k, m
  <2> QED BY <2>1, <2>3, <2>4
<1>4. p * m < v * w + k * r
  OBVIOUS
<1>5. 0 < k * (w + r)
  <2>1. k * (w + r) = k * w + k * r /\ k * w \in Int /\ k * r \in Int
    BY <1>1
  <2>2. p * m \in Int /\ stop * m \in Int /\ v * w \in Int
    BY <1>1
  <2> HIDE DEF k, m
  <2> QED BY <1>2, <1>3, <1>4, <2>1, <2>2
<1>6. k > 0
  <2> HIDE DEF k
  <2>1. k <= 0 => k * (w + r) <= 0
    BY <1>1
  <2> QED BY <1>1, <1>5, <2>1
<1> QED BY <1>6

\* A repair sets stop, target and risk of one symbol anew.
LEMMA RepairKeeps ==
    ASSUME PositionInv, NEW x \in Symbols, Repair(x)
    PROVE  PositionInv' /\ Touch
<1> DEFINE held   == Of(x, rows)
           net    == SumOf("net", held)
           v      == ValueOf(held)
           stop   == HighestStop(held)
           ratio  == <<Settings.rewardRisk, Whole>>
           target == TargetOf(v, net, stop, ratio)
           risk   == EconomicRisk(Settings, held)
           T      == {WithShare(held, r, stop, target, risk) : r \in held}
<1>1. /\ rows' = (rows \ held) \cup T
      /\ trimmed' = trimmed \ {x}
      /\ price' = price /\ free' = free /\ lost' = lost
      /\ proposal' = proposal /\ opened' = opened
      /\ x \in HeldSymbols
      /\ stop < price[x] /\ price[x] * target.den < target.num
  BY Zenon DEF Repair, WithShare
<1>2. /\ GoodRows(held) /\ held # {} /\ held \subseteq rows /\ GoodRows(rows)
      /\ Beside(held, rows, x)
  <2>1. GoodRows(held) /\ \A r \in held : r.symbol = x
    BY OfIsGood DEF PositionInv
  <2>2. held # {} /\ held \subseteq rows
    BY <1>1 DEF Of, HeldSymbols, SymbolsOf
  <2>3. Beside(held, rows, x)
    BY <2>1, <2>2 DEF Beside, PositionInv, GoodRows
  <2> QED BY <2>1, <2>2, <2>3 DEF PositionInv
<1>3. /\ net \in Nat \ {0} /\ v \in Int /\ stop \in Int /\ risk \in Int
  BY <1>2, RowSums, StopFacts, EconomicRiskType DEF GoodRows
<1>4. Settings.rewardRisk \in Nat \ {0} /\ Whole \in Nat \ {0} /\ price[x] \in Int
  BY SettingsTypes, PriceTypes DEF PositionInv
<1>5. /\ target.num = v * Whole + (v - stop * net) * Settings.rewardRisk
      /\ target.den = net * Whole
      /\ target = [num |-> target.num, den |-> target.den]
  BY DEF TargetOf
<1>6. target \in Target
  <2> HIDE DEF net, v, stop, target
  <2>1. v * Whole \in Int /\ stop * net \in Int /\ net * Whole \in Nat \ {0}
    BY <1>3, <1>4
  <2>2. (v - stop * net) * Settings.rewardRisk \in Int
    BY <1>3, <1>4, <2>1
  <2>3. target.num \in Int /\ target.den \in Nat \ {0}
    BY <1>5, <2>1, <2>2
  <2> QED BY <1>5, <2>3 DEF Target
<1>7. v - stop * net > 0
  <2> HIDE DEF net, v, stop, target
  <2> QED BY <1>1, <1>3, <1>4, <1>5, RepairIsSound
<1>8. ValidBracket(v, net, stop, target, ratio)
  <2> HIDE DEF net, v, stop
  <2> QED BY <1>3, <1>4, <1>7, TargetIsValid
<1>9. SharesOf(T, held, stop, target, risk)
  <2> HIDE DEF held, stop, target, risk
  <2> QED BY DEF SharesOf
<1> HIDE DEF T
<1>10. InPlace(T, rows, x) /\ Kept(T, held) /\ Uniform(T, stop, target, risk)
  <2> HIDE DEF held, stop, target, risk
  <2> QED BY <1>2, <1>3, <1>6, <1>9, Reshared
<1>11. EconomicRisk(Settings, T) = risk
  <2>1. /\ SumOf("net", T) = SumOf("net", held) /\ SumOf("spent", T) = SumOf("spent", held)
        /\ HighestStop(T) = HighestStop(held) /\ T # {}
    BY <1>10 DEF Kept, Uniform
  <2> HIDE DEF held
  <2> QED BY <1>2, <2>1 DEF EconomicRisk
<1>12. Settled(T)
  <2>1. Shared(T)
    <3> HIDE DEF stop, target, risk
    <3> QED BY <1>10, <1>11 DEF Uniform, Shared
  <2>2. Monitorable(Settings, T)
    <3>1. ValueOf(T) = v /\ SumOf("net", T) = net /\ T # {}
      BY <1>10 DEF Kept
    <3> HIDE DEF v, net, stop, target, risk
    <3> QED BY <1>8, <1>10, <3>1, MonitorableUniform
  <2> QED BY <2>1, <2>2 DEF Settled
<1>13. Touched(x, T)
  BY <1>1, <1>10, <1>12 DEF Touched
<1>14. GoodRows(rows') /\ \A r \in rows' : r.id <= opened'
  <2>1. GoodRows(rows') /\ \A u \in T : \E r \in held : u.id = r.id
    BY <1>1, <1>10 DEF InPlace, Kept
  <2> HIDE DEF held
  <2> QED BY <1>1, <1>2, <2>1 DEF PositionInv
<1> QED BY <1>1, <1>13, <1>14 DEF PositionInv, Touch

\* Each step is one of these.
LEMMA PositionStep ==
    PositionInv /\ [PositionNext]_positionVars => PositionInv' /\ Touch
<1> SUFFICES ASSUME PositionInv, [PositionNext]_positionVars PROVE PositionInv' /\ Touch
  OBVIOUS
<1>1. CASE Execute
  BY <1>1, ExecuteKeeps
<1>2. ASSUME NEW x \in Symbols, NEW p \in Prices, PriceMoves(x, p)
      PROVE  PositionInv' /\ Touch
  BY <1>2, PriceMovesKeeps
<1>3. ASSUME NEW x \in Symbols, NEW noise \in Noises, NEW requested \in Requests,
             NEW manual \in BOOLEAN, ProposeEntry(x, noise, requested, manual)
      PROVE  PositionInv' /\ Touch
  BY <1>3, ProposeEntryKeeps
<1>4. ASSUME NEW x \in Symbols, NEW percentage \in Percentages, Close(x, percentage)
      PROVE  PositionInv' /\ Touch
  BY <1>4, CloseKeeps
<1>5. ASSUME NEW x \in Symbols, NEW open \in Prices, NEW low \in Prices,
             NEW high \in Prices, MonitorExit(x, open, low, high)
      PROVE  PositionInv' /\ Touch
  BY <1>5, MonitorExitKeeps
<1>6. ASSUME NEW x \in Symbols, Repair(x)
      PROVE  PositionInv' /\ Touch
  BY <1>6, RepairKeeps
<1>7. CASE UNCHANGED positionVars
  BY <1>7 DEF positionVars, PositionInv, ProposalOK, Touch
<1> QED BY <1>1, <1>2, <1>3, <1>4, <1>5, <1>6, <1>7 DEF PositionNext

\* At the start there are no tranches.
LEMMA PositionStart == PositionInit => PositionInv
<1>1. GoodRows({})
  BY FS_EmptySet DEF GoodRows
<1> QED BY <1>1, PositionAssumption DEF PositionInit, PositionInv

\* The tranches are well formed, with one identifier each, the money is whole,
\* and a proposal speaks of a stop below its entry.
THEOREM PositionInvariant == PositionSpec => []PositionInv
<1> QED BY PositionStart, PositionStep, PTL DEF PositionSpec

-----------------------------------------------------------------------------
(***************************************************************************)
(* Risks and brackets that entries and repairs leave.                      *)
(***************************************************************************)
SettledInv == \A x \in HeldSymbols \ trimmed : Settled(Of(x, rows))

\* A symbol is held if it has tranches.
LEMMA HeldIsOf ==
    ASSUME NEW R, NEW x PROVE x \in SymbolsOf(R) <=> Of(x, R) # {}
BY DEF SymbolsOf, Of

\* What is settled stays settled until it is trimmed.
LEMMA SettledStep == SettledInv /\ Touch => SettledInv'
<1> SUFFICES ASSUME SettledInv, Touch,
                    NEW y, y \in HeldSymbols', y \notin trimmed'
             PROVE  Settled(Of(y, rows'))
  BY DEF SettledInv, Settled, Shared
<1>1. CASE rows' = rows /\ trimmed' = trimmed
  BY <1>1 DEF SettledInv, HeldSymbols
<1>2. ASSUME NEW x, NEW T, Touched(x, T)
      PROVE  Settled(Of(y, rows'))
  <2>1. /\ Of(x, rows') = T /\ \A z : z # x => Of(z, rows') = Of(z, rows)
        /\ trimmed' \ {x} = trimmed \ {x}
        /\ T = {} \/ x \in trimmed' \/ Settled(T)
    BY <1>2 DEF Touched, InPlace
  <2>2. Of(y, rows') # {}
    BY HeldIsOf DEF HeldSymbols
  <2>3. CASE y = x
    BY <2>1, <2>2, <2>3
  <2>4. CASE y # x
    <3>1. Of(y, rows') = Of(y, rows) /\ y \notin trimmed
      BY <2>1, <2>4
    <3>2. y \in HeldSymbols
      BY <2>2, <3>1, HeldIsOf DEF HeldSymbols
    <3> QED BY <3>1, <3>2 DEF SettledInv
  <2> QED BY <2>3, <2>4
<1> QED BY <1>1, <1>2 DEF Touch

\* Shares rounded down miss less than one unit each.
LEMMA SharesAddUp ==
    ASSUME NEW H, GoodRows(H), H # {}, Shared(H)
    PROVE  EconomicRisk(Settings, H) - SumOf("risk", H) \in 0..Cardinality(H)
<1> DEFINE R     == EconomicRisk(Settings, H)
           N     == SumOf("net", H)
           F     == SumOf("risk", H)
           C     == Cardinality(H)
           risks == [r \in H |-> r.risk]
           nets  == [r \in H |-> r.net]
           ones  == [r \in H |-> 1]
           low   == [r \in H |-> N * risks[r]]
           mid   == [r \in H |-> R * nets[r]]
           add   == [r \in H |-> N * ones[r]]
           high  == [r \in H |-> low[r] + add[r]]
<1>1. IsFiniteSet(H) /\ H \in SUBSET Row
  BY DEF GoodRows
<1>2. R \in Int /\ N \in Nat \ {0} /\ F \in Int /\ C \in Nat
  BY <1>1, EconomicRiskType, RowSums, FS_CardinalityType
<1>3. /\ F = SumFunctionOnSet(risks, H) /\ N = SumFunctionOnSet(nets, H)
      /\ C = SumFunctionOnSet(ones, H)
  BY <1>1, SumOfIsSum, SumOnes
<1>4. \A r \in H : risks[r] \in Int /\ nets[r] \in Nat /\ ones[r] = 1
  BY <1>1 DEF Row
<1>5. \A r \in H : risks[r] = (R * nets[r]) \div N
  BY DEF Shared, SharedRisk
<1> HIDE DEF R, N, F, C, risks, nets, ones
<1>6. \A r \in H : /\ low[r] \in Int /\ mid[r] \in Int /\ add[r] \in Int /\ high[r] \in Int
                   /\ low[r] <= mid[r] /\ mid[r] <= high[r]
  <2> TAKE r \in H
  <2>1. R * nets[r] \in Int /\ N * risks[r] \in Int
    BY <1>2, <1>4
  <2>2. /\ risks[r] * N <= R * nets[r]
        /\ R * nets[r] < risks[r] * N + N
    BY <1>2, <1>5, <2>1, Division
  <2>3. risks[r] * N = N * risks[r] /\ N * ones[r] = N
    BY <1>2, <1>4
  <2> QED BY <1>2, <2>1, <2>2, <2>3
<1>7. /\ SumFunctionOnSet(low, H) = N * F
      /\ SumFunctionOnSet(mid, H) = R * N
      /\ SumFunctionOnSet(add, H) = N * C
  <2>1. /\ \A r \in H : risks[r] \in Int /\ low[r] = N * risks[r]
        /\ \A r \in H : nets[r] \in Int /\ mid[r] = R * nets[r]
        /\ \A r \in H : ones[r] \in Int /\ add[r] = N * ones[r]
    BY <1>4
  <2> HIDE DEF low, mid, add
  <2> QED BY <1>1, <1>2, <1>3, <2>1, SumScale
<1>8. SumFunctionOnSet(high, H) = N * F + N * C
  <2>1. \A r \in H : low[r] \in Int /\ add[r] \in Int /\ high[r] = low[r] + add[r]
    BY <1>6
  <2> HIDE DEF low, add, high
  <2> QED BY <1>1, <1>7, <2>1, SumPlus
<1>9. N * F <= R * N /\ R * N <= N * F + N * C
  <2> HIDE DEF low, mid, high
  <2>1. /\ SumFunctionOnSet(low, H) <= SumFunctionOnSet(mid, H)
        /\ SumFunctionOnSet(mid, H) <= SumFunctionOnSet(high, H)
    BY <1>1, <1>6, SumMonotone
  <2> QED BY <1>7, <1>8, <2>1
<1>10. F <= R
  <2>1. N * (R - F) = R * N - N * F /\ R * N \in Int /\ N * F \in Int
    BY <1>2
  <2>2. R - F < 0 => N * (R - F) < 0
    BY <1>2
  <2> QED BY <1>2, <1>9, <2>1, <2>2
<1>11. R <= F + C
  <2>1. /\ N * ((F + C) - R) = (N * F + N * C) - R * N
        /\ R * N \in Int /\ N * F \in Int /\ N * C \in Int
    BY <1>2
  <2>2. (F + C) - R < 0 => N * ((F + C) - R) < 0
    BY <1>2
  <2> QED BY <1>2, <1>9, <2>1, <2>2
<1>12. R - F \in 0..C
  BY <1>2, <1>10, <1>11
<1> QED BY <1>12 DEF R, F, C

\* So it always is.
LEMMA SettledCorrect == PositionSpec => []SettledInv
<1>1. PositionInit => SettledInv
  BY DEF PositionInit, SettledInv, HeldSymbols, SymbolsOf
<1>2. PositionInv /\ SettledInv /\ [PositionNext]_positionVars => SettledInv'
  BY PositionStep, SettledStep
<1> QED BY <1>1, <1>2, PositionInvariant, PTL DEF PositionSpec

\* Later entries are admitted by the recorded risks: they add up to the loss at
\* the stop (finish_paper_and_open, backup_and_repair_paper_bracket).
THEOREM RecordedRiskIsRight == PositionSpec => []RecordedRiskIsLossAtStop
<1>1. PositionInv /\ SettledInv => RecordedRiskIsLossAtStop
  <2> SUFFICES ASSUME PositionInv, SettledInv, NEW x \in HeldSymbols \ trimmed
               PROVE  EconomicRisk(Settings, Of(x, rows)) - SumOf("risk", Of(x, rows))
                        \in 0..Cardinality(Of(x, rows))
    BY Zenon DEF RecordedRiskIsLossAtStop
  <2>1. Of(x, rows) # {} /\ Shared(Of(x, rows))
    BY HeldIsOf DEF HeldSymbols, SettledInv, Settled
  <2>2. GoodRows(Of(x, rows))
    BY OfIsGood DEF PositionInv
  <2> QED BY <2>1, <2>2, SharesAddUp
<1> QED BY <1>1, PositionInvariant, SettledCorrect, PTL

\* With a whole ratio of reward to risk, the persisted ratio is the configured
\* one, and what entries and repairs leave has a bracket the monitor accepts.
THEOREM BracketsStayValid ==
    ASSUME Exact PROVE PositionSpec => []EntriesStayMonitorable
<1>1. SettledInv => EntriesStayMonitorable
  BY DEF SettledInv, Settled, EntriesStayMonitorable
<1> QED BY <1>1, SettledCorrect, PTL

-----------------------------------------------------------------------------
(***************************************************************************)
(* Entries within the limits.                                              *)
(***************************************************************************)

\* The symbols and their risks, with T in the place of the tranches of x.
LEMMA AggregateReplaced ==
    ASSUME NEW R, GoodRows(R), NEW x, NEW T, T # {}, InPlace(T, R, x)
    PROVE  LET new == (R \ Of(x, R)) \cup T
           IN  AggregateOf(Settings, new, SymbolsOf(new))
                 = AggregateOf(Settings, R, SymbolsOf(R) \ {x}) + EconomicRisk(Settings, T)
<1> DEFINE new  == (R \ Of(x, R)) \cup T
           S    == SymbolsOf(new)
           rest == SymbolsOf(R) \ {x}
           f    == [y \in S |-> EconomicRisk(Settings, Of(y, new))]
           g    == [y \in rest |-> EconomicRisk(Settings, Of(y, R))]
<1>1. GoodRows(new) /\ Of(x, new) = T /\ \A y : y # x => Of(y, new) = Of(y, R)
  BY DEF InPlace
<1> HIDE DEF new
<1>2. x \in S /\ S \ {x} = rest
  <2>1. \A y : y \in S <=> Of(y, new) # {}
    BY HeldIsOf
  <2>2. \A y : y \in SymbolsOf(R) <=> Of(y, R) # {}
    BY HeldIsOf
  <2> HIDE DEF S
  <2> QED BY <1>1, <2>1, <2>2
<1>3. IsFiniteSet(S)
  <2> DEFINE m == [r \in new |-> r.symbol]
  <2>1. {m[r] : r \in new} = S
    BY DEF SymbolsOf
  <2>2. IsFiniteSet(new)
    BY <1>1 DEF GoodRows
  <2> HIDE DEF m, S
  <2> QED BY <2>1, <2>2, ImageIsFinite
<1>4. \A y \in S : f[y] \in Int
  <2> TAKE y \in S
  <2>1. GoodRows(Of(y, new))
    BY <1>1, OfIsGood
  <2>2. EconomicRisk(Settings, Of(y, new)) \in Int
    BY <2>1, EconomicRiskType DEF GoodRows
  <2> QED BY <2>2
<1>5. f[x] = EconomicRisk(Settings, T)
  BY <1>1, <1>2
<1>6. \A y \in rest : f[y] = g[y]
  BY <1>1, <1>2
<1>7. SumFunctionOnSet(f, S) = f[x] + SumFunctionOnSet(f, S \ {x})
  <2> HIDE DEF f, S
  <2> QED BY <1>2, <1>3, <1>4, SumPick
<1>8. IsFiniteSet(rest) /\ \A y \in rest : f[y] \in Int
  <2> HIDE DEF f, S, rest
  <2> QED BY <1>2, <1>3, <1>4, FS_Subset
<1>9. /\ SumFunctionOnSet(f, rest) = SumFunctionOnSet(g, rest)
      /\ SumFunctionOnSet(f, rest) \in Int
  <2> HIDE DEF f, g, rest
  <2> QED BY <1>6, <1>8, SumSame, SumInt
<1>10. AggregateOf(Settings, new, S) = SumFunctionOnSet(f, S)
  BY DEF AggregateOf
<1>11. AggregateOf(Settings, R, rest) = SumFunctionOnSet(g, rest)
  BY DEF AggregateOf
<1>12. f[x] \in Int
  BY <1>2, <1>4
<1>13. AggregateOf(Settings, new, S)
         = AggregateOf(Settings, R, rest) + EconomicRisk(Settings, T)
  <2> DEFINE p == SumFunctionOnSet(f, S)
             u == SumFunctionOnSet(f, S \ {x})
             w == SumFunctionOnSet(g, rest)
             z == EconomicRisk(Settings, T)
  <2>1. u = w /\ w \in Int
    <3> HIDE DEF f, g, rest, S
    <3> QED BY <1>2, <1>9
  <2>2. p = f[x] + u /\ f[x] = z /\ f[x] \in Int
    BY <1>5, <1>7, <1>12
  <2>3. AggregateOf(Settings, new, S) = p /\ AggregateOf(Settings, R, rest) = w
    BY <1>10, <1>11
  <2> HIDE DEF p, u, w, z, f, rest, S
  <2>4. p = w + z
    BY <2>1, <2>2
  <2> QED BY <2>3, <2>4 DEF z
<1> QED BY <1>13 DEF new

\* The equities an execution is held against: at the fill, and under a
\* percentage policy at the proposal.
Equities ==
    {Equity(Account(proposal.plan.symbol))}
      \cup (IF PercentageBased(Settings) THEN {proposal.equity} ELSE {})

\* The smaller equity has the smaller limits.
LEMMA BasisIsSmallest ==
    ASSUME PositionInv, proposal # NoEntry, NEW x, x = proposal.plan.symbol
    PROVE  /\ Basis(proposal, x) \in Equities /\ Equities \subseteq Int
           /\ \A e \in Equities :
                /\ Basis(proposal, x) <= e
                /\ \A l \in MoneyLimits :
                     LimitsFor(Settings, "paper", Basis(proposal, x))[l]
                       <= LimitsFor(Settings, "paper", e)[l]
<1> DEFINE present == Equity(Account(x))
           b   == Basis(proposal, x)
<1>1. ProposalOK(proposal)
  BY DEF PositionInv
<1>2. /\ b \in Int /\ present \in Int /\ proposal.equity \in Int
      /\ b = IF PercentageBased(Settings) THEN Smaller(present, proposal.equity) ELSE present
  BY <1>1, BasisFacts DEF ProposalOK
<1>3. Equities = {present} \cup (IF PercentageBased(Settings) THEN {proposal.equity} ELSE {})
  BY DEF Equities
<1> HIDE DEF present, b
<1>4. CASE PercentageBased(Settings)
  <2>1. b \in {present, proposal.equity} /\ b <= present /\ b <= proposal.equity
    BY <1>2, <1>4 DEF Smaller
  <2>2. Equities = {present, proposal.equity}
    BY <1>3, <1>4
  <2>3. \A e \in Equities : e \in Int /\ b <= e
    BY <1>2, <2>1, <2>2
  <2>4. \A e \in Equities : \A l \in MoneyLimits :
           LimitsFor(Settings, "paper", b)[l] <= LimitsFor(Settings, "paper", e)[l]
    BY <1>2, <1>4, <2>3, LimitsMonotone
  <2> QED BY <2>1, <2>2, <2>3, <2>4 DEF b
<1>5. CASE ~PercentageBased(Settings)
  <2>1. b = present /\ Equities = {b}
    BY <1>2, <1>3, <1>5
  <2>2. \A l \in MoneyLimits : LimitsFor(Settings, "paper", b)[l] \in Int
    BY <1>2, LimitTypes
  <2> QED BY <1>2, <2>1, <2>2 DEF b
<1> QED BY <1>4, <1>5

\* Only an execution that fills opens a tranche.
LEMMA OpeningStep ==
    ASSUME PositionInv, [PositionNext]_positionVars, opened' > opened
    PROVE  LET x == proposal.plan.symbol
               f == FillPaper(Settings, Account(x), Market(x), proposal, x, rows)
           IN  /\ proposal # NoEntry /\ f # NoEntry
               /\ rows' = (rows \ Of(x, rows))
                            \cup MergedRows(Settings, proposal, Of(x, rows), f)
               /\ free' = free - f.spent
<1>1. ASSUME opened' = opened PROVE FALSE
  BY <1>1 DEF PositionInv
<1>2. ASSUME NEW x \in Symbols,
             \/ \E p \in Prices : PriceMoves(x, p)
             \/ \E noise \in Noises, requested \in Requests, manual \in BOOLEAN :
                   ProposeEntry(x, noise, requested, manual)
             \/ \E percentage \in Percentages : Close(x, percentage)
             \/ \E open, low, high \in Prices : MonitorExit(x, open, low, high)
             \/ Repair(x)
      PROVE  FALSE
  <2>1. opened' = opened
    BY <1>2, Zenon DEF PriceMoves, ProposeEntry, Close, MonitorExit, Repair
  <2> QED BY <1>1, <2>1
<1>3. Execute
  <2>1. opened' # opened
    BY <1>1
  <2> QED BY <1>2, <2>1, Zenon DEF PositionNext, positionVars
<1> QED BY <1>1, <1>3, Zenon DEF Execute

\* The fill was admitted by the smaller equity, and is what was projected.
LEMMA OpeningIsWithin ==
    ASSUME PositionInv, [PositionNext]_positionVars, opened' > opened
    PROVE  /\ \A equity \in Equities : FillWithin(equity)
           /\ \E equity \in Equities :
                /\ \A other \in Equities : equity <= other
                /\ Reserve(Settings, "paper", equity) <= free'
<1> DEFINE x    == proposal.plan.symbol
           f    == FillPaper(Settings, Account(x), Market(x), proposal, x, rows)
           held == Of(x, rows)
           T    == MergedRows(Settings, proposal, held, f)
           b    == Basis(proposal, x)
           L    == LimitsFor(Settings, "paper", b)
<1>1. /\ proposal # NoEntry /\ f # NoEntry /\ rows' = (rows \ held) \cup T
      /\ free' = free - f.spent
  BY OpeningStep
<1>2. /\ f.symbol = x /\ f.spent \in Int /\ f.spent <= proposal.quote
      /\ proposal.quote <= free - Reserve(Settings, "paper", b)
      /\ SumOf("spent", held) + f.spent <= L.entry
      /\ SumOf("spent", rows) + f.spent <= L.exposure
      /\ ProjectedRisk(Settings, held, f) <= L.positionRisk
      /\ ProjectedAggregate(Settings, rows, f) <= L.aggregateRisk
      /\ lost < L.daily
  BY <1>1, FillFacts
<1>3. /\ InPlace(T, rows, x) /\ T # {}
      /\ SumOf("spent", T) = SumOf("spent", held) + f.spent
      /\ SumOf("spent", rows') = SumOf("spent", rows) + f.spent
      /\ EconomicRisk(Settings, T) = ProjectedRisk(Settings, held, f)
  BY <1>1, MergeFacts
<1>4. Of(x, rows') = T /\ GoodRows(rows') /\ GoodRows(T) /\ GoodRows(rows)
  BY <1>1, <1>3 DEF InPlace, PositionInv
<1>5. AggregateOf(Settings, rows', SymbolsOf(rows')) = ProjectedAggregate(Settings, rows, f)
  <2>1. AggregateOf(Settings, rows', SymbolsOf(rows'))
          = AggregateOf(Settings, rows, SymbolsOf(rows) \ {x}) + EconomicRisk(Settings, T)
    <3> HIDE DEF x, T
    <3> QED BY <1>1, <1>3, <1>4, AggregateReplaced
  <2> QED BY <1>2, <1>3, <2>1 DEF ProjectedAggregate
<1>6. /\ b \in Equities /\ Equities \subseteq Int
      /\ \A e \in Equities :
           /\ b <= e
           /\ \A l \in MoneyLimits : L[l] <= LimitsFor(Settings, "paper", e)[l]
  BY <1>1, BasisIsSmallest
<1>7. /\ EconomicRisk(Settings, T) \in Int /\ SumOf("spent", T) \in Int
      /\ SumOf("spent", rows') \in Int /\ lost \in Int /\ free \in Int
      /\ proposal.quote \in Int
  BY <1>1, <1>4, EconomicRiskType, RowSums DEF GoodRows, PositionInv, ProposalOK
<1>8. AggregateOf(Settings, rows', SymbolsOf(rows')) \in Int
  BY <1>4, AggregateType
<1>9. Reserve(Settings, "paper", b) \in Int /\ \A l \in MoneyLimits : L[l] \in Int
  BY <1>6, ReserveType, LimitTypes
<1>10. \A e \in Equities : \A l \in MoneyLimits : LimitsFor(Settings, "paper", e)[l] \in Int
  BY <1>6, LimitTypes
<1>11. Reserve(Settings, "paper", b) <= free'
  <2> HIDE DEF f, b
  <2> QED BY <1>1, <1>2, <1>7, <1>9
<1> HIDE DEF f, T, b, L, x, held
<1>12. ASSUME NEW e \in Equities PROVE FillWithin(e)
  <2> DEFINE M == LimitsFor(Settings, "paper", e)
  <2>1. {"entry", "exposure", "positionRisk", "aggregateRisk", "daily"} \subseteq MoneyLimits
    BY DEF MoneyLimits
  <2>2. /\ L.entry <= M.entry /\ L.exposure <= M.exposure
        /\ L.positionRisk <= M.positionRisk /\ L.aggregateRisk <= M.aggregateRisk
        /\ L.daily <= M.daily
    BY <1>6, <2>1
  <2>3. /\ L.entry \in Int /\ L.exposure \in Int /\ L.positionRisk \in Int
        /\ L.aggregateRisk \in Int /\ L.daily \in Int
    BY <1>9, <2>1
  <2>4. /\ M.entry \in Int /\ M.exposure \in Int /\ M.positionRisk \in Int
        /\ M.aggregateRisk \in Int /\ M.daily \in Int
    BY <1>10, <2>1
  <2> HIDE DEF M
  <2>5. /\ EconomicRisk(Settings, T) <= M.positionRisk
        /\ AggregateOf(Settings, rows', SymbolsOf(rows')) <= M.aggregateRisk
        /\ SumOf("spent", T) <= M.entry
        /\ SumOf("spent", rows') <= M.exposure
        /\ lost < M.daily
    BY <1>2, <1>3, <1>5, <1>7, <1>8, <2>2, <2>3, <2>4
  <2> QED BY <1>4, <2>5 DEF FillWithin, M, x
<1> QED BY <1>6, <1>11, <1>12

\* Every entry leaves position, account and day within the limits of the equity
\* at its fill and at its proposal (_revalidate_paper_entry_policy and
\* _paper_risk_projection, held against the smaller of the two equities).
THEOREM EntriesAreWithinLimits == PositionSpec => EntryWithinBothEquities
<1> DEFINE A == opened' > opened =>
                  LET present  == Equity(Account(proposal.plan.symbol))
                      equities == {present} \cup (IF PercentageBased(Settings)
                                                  THEN {proposal.equity} ELSE {})
                  IN  /\ \A equity \in equities : FillWithin(equity)
                      /\ \E equity \in equities :
                           /\ \A other \in equities : equity <= other
                           /\ Reserve(Settings, "paper", equity) <= free'
<1>1. PositionInv /\ [PositionNext]_positionVars => [A]_positionVars
  <2> SUFFICES ASSUME PositionInv, [PositionNext]_positionVars, opened' > opened
               PROVE  /\ \A equity \in Equities : FillWithin(equity)
                      /\ \E equity \in Equities :
                           /\ \A other \in Equities : equity <= other
                           /\ Reserve(Settings, "paper", equity) <= free'
    BY Zenon DEF Equities
  <2> QED BY OpeningIsWithin
<1> HIDE DEF A
<1>2. PositionSpec => [][A]_positionVars
  BY <1>1, PositionInvariant, PTL DEF PositionSpec
<1> QED BY <1>2 DEF EntryWithinBothEquities, A

-----------------------------------------------------------------------------
(***************************************************************************)
(* A proposal executed at once: the size that was accepted is accepted     *)
(* again, the bracket is claimable, the projection is the same.            *)
(***************************************************************************)

\* An accepted size is positive and within every capacity.
LEMMA SizedFacts ==
    ASSUME NEW ctx, \A l \in MoneyLimits : ctx.limits[l] \in Int,
           ctx.a.risk \in Int, ctx.a.posRisk \in Int, ctx.a.exposure \in Int,
           ctx.a.posExposure \in Int, ctx.buying \in Int,
           NEW entry \in Int, NEW stop \in Int, stop < entry, NEW fee \in Nat,
           NEW requested \in Nat,
           SizeEntry(ctx, entry, stop, requested, fee).accepted
    PROVE  LET n == SizeEntry(ctx, entry, stop, requested, fee).notional
           IN  /\ n \in Int /\ n # AutoSize
               /\ SizeEntry(ctx, entry, stop, n, fee).accepted
               /\ n + ctx.a.posExposure <= ctx.limits.entry
               /\ ctx.a.risk < ctx.limits.aggregateRisk
<1> DEFINE asNotional(risk) == (risk * entry) \div (entry - stop)
           n1 == asNotional(ctx.limits.positionRisk)
           n2 == ctx.limits.entry
           n3 == NonNegative(ctx.limits.entry - ctx.a.posExposure)
           n4 == NonNegative(ctx.limits.exposure - ctx.a.exposure)
           n5 == asNotional(UsableRisk(ctx))
           n6 == CapitalCapacity(ctx.buying, fee)
           safe == SafeNotional(ctx, entry, stop, fee)
           n == SizeEntry(ctx, entry, stop, requested, fee).notional
<1>1. /\ ctx.limits.positionRisk \in Int /\ ctx.limits.entry \in Int
      /\ ctx.limits.exposure \in Int /\ ctx.limits.aggregateRisk \in Int
  BY DEF MoneyLimits
<1>2. \A risk \in Int : asNotional(risk) \in Int
  <2> SUFFICES ASSUME NEW risk \in Int PROVE (risk * entry) \div (entry - stop) \in Int
    OBVIOUS
  <2>1. entry - stop \in Nat \ {0} /\ risk * entry \in Int
    OBVIOUS
  <2> QED BY <2>1, Division
<1>3. UsableRisk(ctx) \in Int
  BY <1>1 DEF UsableRisk, Smaller, NonNegative
<1>4. n6 \in Int
  <2>1. ctx.buying * Whole \in Int /\ Whole + fee \in Nat \ {0}
    BY WholeAssumption
  <2> QED BY <2>1, Division DEF CapitalCapacity
<1>5. n2 \in Int /\ n3 \in Int /\ n4 \in Int
  BY <1>1 DEF NonNegative
<1>6. n1 \in Int /\ n5 \in Int
  <2> HIDE DEF asNotional
  <2> QED BY <1>1, <1>2, <1>3
<1>7. safe = Min({n1, n2, n3, n4, n5, n6})
  BY DEF SafeNotional
<1>8. /\ n = IF requested = AutoSize THEN safe ELSE requested
      /\ 0 < n /\ n <= safe
  <2> HIDE DEF safe
  <2> QED BY DEF SizeEntry, safe
<1>9. UsableRisk(ctx) <= 0 => n5 <= 0
  <2> SUFFICES ASSUME UsableRisk(ctx) <= 0 PROVE n5 <= 0
    OBVIOUS
  <2> DEFINE u == UsableRisk(ctx)
             d == entry - stop
  <2>0. UsableRisk(ctx) = 0
    BY <1>1 DEF UsableRisk, Smaller, NonNegative
  <2>1. n5 = (0 * entry) \div d
    BY <2>0
  <2>2. d \in Nat \ {0} /\ 0 * entry = 0
    OBVIOUS
  <2> HIDE DEF d, n5
  <2>3. 0 \div d = 0
    BY <2>2
  <2> QED BY <2>1, <2>2, <2>3
<1>10. UsableRisk(ctx) > 0 => ctx.a.risk < ctx.limits.aggregateRisk
  BY <1>1 DEF UsableRisk, Smaller, NonNegative
<1> HIDE DEF n1, n2, n3, n4, n5, n6, safe, n
<1>11. safe \in Int /\ safe <= n3 /\ safe <= n5
  <2>1. /\ Min({n1, n2, n3, n4, n5, n6}) \in {n1, n2, n3, n4, n5, n6}
        /\ Min({n1, n2, n3, n4, n5, n6}) <= n3 /\ Min({n1, n2, n3, n4, n5, n6}) <= n5
    BY <1>4, <1>5, <1>6, SixMin
  <2> QED BY <1>4, <1>5, <1>6, <1>7, <2>1
<1>12. n \in Int /\ n # AutoSize
  BY <1>8, <1>11 DEF AutoSize
<1>13. SizeEntry(ctx, entry, stop, n, fee).accepted
  BY <1>8, <1>12 DEF SizeEntry, safe
<1>14. n <= ctx.limits.entry - ctx.a.posExposure
  BY <1>1, <1>5, <1>8, <1>11, <1>12 DEF n3, NonNegative
<1>15. ctx.a.risk < ctx.limits.aggregateRisk
  BY <1>3, <1>6, <1>8, <1>9, <1>10, <1>11, <1>12
<1> QED BY <1>1, <1>12, <1>13, <1>14, <1>15 DEF n

\* Terms that are accepted keep their stop within the configured distances, and
\* the target at the configured ratio or above.
LEMMA BracketFacts ==
    ASSUME NEW m, m.ask \in Nat \ {0}, NEW p, NEW noise \in Nat,
           CeilPart(m.ask, Settings.minStop) * Whole <= Settings.maxStop * m.ask,
           EntryTerms(Settings, "paper", m, p, noise).accepted
    PROVE  LET b == PaperBracket(Settings, EntryTerms(Settings, "paper", m, p, noise))
           IN  /\ b.entry = m.ask
               /\ b.entry \in Int /\ b.stop \in Int /\ b.target \in Int
               /\ b.stop < b.entry /\ b.entry < b.target
               /\ (b.target - b.entry) * Whole >= Settings.rewardRisk * (b.entry - b.stop)
               /\ StopInRange(Settings, b)
<1> DEFINE least == CeilPart(m.ask, Settings.minStop)
           distance == Max({noise, least})
           widest == Max({noise * Whole, m.ask * Settings.minStop})
           e == EntryTerms(Settings, "paper", m, p, noise)
           gain == CeilPart(e.entry - e.stop, Settings.rewardRisk)
           b == PaperBracket(Settings, e)
<1>1. \A x \in Int, rate \in Nat :
        CeilPart(x, rate) \in Int /\ CeilPart(x, rate) * Whole >= x * rate
  <2> SUFFICES ASSUME NEW x \in Int, NEW rate \in Nat
               PROVE  CeilPart(x, rate) \in Int /\ CeilPart(x, rate) * Whole >= x * rate
    OBVIOUS
  <2> DEFINE y == -x * rate
             k == y \div Whole
  <2>1. y \in Int /\ Whole \in Nat \ {0}
    BY WholeAssumption
  <2>2. CeilPart(x, rate) = -k
    BY DEF CeilPart, Part
  <2>3. y = -(x * rate)
    OBVIOUS
  <2> HIDE DEF y
  <2>4. k \in Int /\ k * Whole <= y
    BY <2>1, Division
  <2> HIDE DEF k
  <2>5. (-k) * Whole = -(k * Whole)
    BY <2>1, <2>4
  <2>6. x * rate \in Int /\ k * Whole \in Int
    BY <2>1, <2>4
  <2> QED BY <2>2, <2>3, <2>4, <2>5, <2>6
<1>2. /\ Whole \in Nat \ {0} /\ Settings.minStop \in Nat /\ Settings.maxStop \in Nat
      /\ Settings.rewardRisk \in Nat \ {0}
  BY SettingsTypes, SettingsAssumption
<1>3. least \in Int /\ m.ask * Settings.minStop <= least * Whole
  <2>1. least \in Int /\ least * Whole >= m.ask * Settings.minStop
    <3>1. m.ask \in Int
      OBVIOUS
    <3> QED BY <1>1, <1>2, <3>1, Zenon
  <2>2. least * Whole \in Int /\ m.ask * Settings.minStop \in Int
    <3> HIDE DEF least
    <3> QED BY <1>2, <2>1
  <2> HIDE DEF least
  <2> QED BY <2>1, <2>2
<1>4. /\ distance = (IF noise >= least THEN noise ELSE least)
      /\ widest = (IF noise * Whole >= m.ask * Settings.minStop
                   THEN noise * Whole ELSE m.ask * Settings.minStop)
  <2>1. noise * Whole \in Int /\ m.ask * Settings.minStop \in Int
    BY <1>2
  <2> HIDE DEF least
  <2> QED BY <1>3, <2>1, PairMax DEF least
<1>5. /\ e.entry = m.ask /\ e.stop = m.ask - distance
      /\ 0 < distance /\ widest <= Settings.maxStop * m.ask
  BY Zenon DEF EntryTerms
<1>6. least * Whole <= Settings.maxStop * m.ask
  OBVIOUS
<1> HIDE DEF least, distance, widest, e
<1>7. distance \in Nat \ {0} /\ e.entry - e.stop = distance /\ e.stop \in Int
  BY <1>3, <1>4, <1>5
<1>8. gain \in Int /\ gain * Whole >= distance * Settings.rewardRisk
  <2>1. distance \in Int /\ Settings.rewardRisk \in Nat
    BY <1>2, <1>7
  <2>2. gain = CeilPart(distance, Settings.rewardRisk)
    BY <1>7
  <2> QED BY <1>1, <2>1, <2>2, Zenon
<1>9. b.entry = e.entry /\ b.stop = e.stop /\ b.target = e.entry + gain
  BY DEF PaperBracket
<1> HIDE DEF gain, b
<1>10. gain > 0
  <2>1. distance * Settings.rewardRisk > 0
    BY <1>2, <1>7
  <2>2. distance * Settings.rewardRisk \in Int
    BY <1>2, <1>7
  <2>3. ASSUME gain <= 0 PROVE gain * Whole <= 0
    BY <1>2, <1>8, <2>3
  <2>4. gain * Whole \in Int
    BY <1>2, <1>8
  <2> QED BY <1>8, <2>1, <2>2, <2>3, <2>4
<1>11. Settings.minStop * m.ask <= distance * Whole
  <2>1. ASSUME noise >= least PROVE least * Whole <= noise * Whole
    BY <1>2, <1>3, <2>1
  <2>2. Settings.minStop * m.ask = m.ask * Settings.minStop
    BY <1>2
  <2>3. /\ least * Whole \in Int /\ noise * Whole \in Int
        /\ m.ask * Settings.minStop \in Int
    BY <1>2, <1>3
  <2> QED BY <1>3, <1>4, <2>1, <2>2, <2>3
<1>12. distance * Whole <= Settings.maxStop * m.ask
  <2>1. noise * Whole <= widest
    <3>1. noise * Whole \in Int /\ m.ask * Settings.minStop \in Int
      BY <1>2
    <3> QED BY <1>4, <3>1
  <2>2. noise * Whole \in Int /\ widest \in Int /\ Settings.maxStop * m.ask \in Int
    BY <1>2, <1>4
  <2> QED BY <1>4, <1>5, <1>6, <2>1, <2>2
<1>13. b.entry - b.stop = distance /\ b.target - b.entry = gain
  BY <1>5, <1>7, <1>8, <1>9
<1>14. StopInRange(Settings, b)
  BY <1>5, <1>9, <1>11, <1>12, <1>13 DEF StopInRange
<1>15. Settings.rewardRisk * distance = distance * Settings.rewardRisk
  BY <1>2, <1>7
<1>16. gain * Whole >= Settings.rewardRisk * distance
  BY <1>8, <1>15
<1> QED BY <1>5, <1>7, <1>8, <1>9, <1>10, <1>13, <1>14, <1>16 DEF b, e

\* A proposal of the present market and account passes approval and fill.
LEMMA ProposedIsFilled ==
    ASSUME PositionInv, PercentageBased(Settings),
           NEW x \in Symbols, NEW noise \in Nat, NEW requested \in Nat, NEW manual,
           CeilPart(price[x], Settings.minStop) * Whole <= Settings.maxStop * price[x],
           NEW t,
           t = ProposePaper(Settings, Account(x), Market(x), price[x], noise, x,
                            requested, rows, manual),
           t # NoEntry
    PROVE  /\ t.plan.symbol = x
           /\ ApprovePaper(Settings, Account(x), Market(x), t)
           /\ FillPaper(Settings, Account(x), Market(x), t, x, rows) # NoEntry
<1> DEFINE a == Account(x)
           m == Market(x)
           ctx == Context(Settings, "paper", a, Absent)
           e == EntryTerms(Settings, "paper", m, price[x], noise)
           b == PaperBracket(Settings, e)
           size == SizeEntry(ctx, e.entry, e.stop, requested, Settings.fee)
           gross == Gross(t.quote, m.ask, m.step)
           plan == FillRisk(Settings, b, x, m.ask, gross)
<1>1. /\ t = PaperTerms(Settings, ctx, m, e, x, requested, rows, manual)
      /\ e.accepted
      /\ Sized(Settings, ctx, e, requested)
      /\ LotAllowed(t.gross, m.ask, m)
      /\ QuoteAllowed(Settings, "paper", t.quote)
      /\ FillAllowed(Settings, t.plan)
      /\ ProjectionAllowed(Settings, ctx, rows, t.ratio, t.plan, m)
      /\ PaperAdmits(Settings, ctx, t.quote, a.exposure + t.quote,
                     a.posExposure + t.plan.spent, t.posRisk, t.aggregate)
  <2> DEFINE u == PaperTerms(Settings, ctx, m, e, x, requested, rows, manual)
  <2>1. /\ t = u
        /\ e.accepted
        /\ Sized(Settings, ctx, e, requested)
        /\ LotAllowed(u.gross, m.ask, m)
        /\ QuoteAllowed(Settings, "paper", u.quote)
        /\ FillAllowed(Settings, u.plan)
        /\ ProjectionAllowed(Settings, ctx, rows, u.ratio, u.plan, m)
        /\ PaperAdmits(Settings, ctx, u.quote, a.exposure + u.quote,
                       a.posExposure + u.plan.spent, u.posRisk, u.aggregate)
    <3> HIDE DEF a, m
    <3> QED BY Zenon DEF ProposePaper, ctx, e, u, a, m
  <2> HIDE DEF u, ctx, e, a, m
  <2>2. /\ u.gross = t.gross /\ u.quote = t.quote /\ u.plan = t.plan
        /\ u.ratio = t.ratio /\ u.posRisk = t.posRisk /\ u.aggregate = t.aggregate
    BY <2>1
  <2> QED BY <2>1, <2>2 DEF u
<1>2. /\ t.plan.symbol = x
      /\ t.entry = b.entry /\ t.stop = b.stop /\ t.target = b.target
      /\ t.ratio = <<b.target - b.entry, b.entry - b.stop>>
      /\ t.quote = size.notional
      /\ t.gross = gross /\ t.plan = plan
      /\ t.posRisk = ProjectedRisk(Settings, Of(x, rows), plan)
      /\ t.aggregate = ProjectedAggregate(Settings, rows, plan)
      /\ t.usedRisk = ctx.a.risk
      /\ t.equity = Equity(ctx.a)
      /\ t.policy = Fingerprint(Settings, "paper")
  <2> HIDE DEF ctx, m, e, a, gross, plan
  <2>1. t = PaperTerms(Settings, ctx, m, e, x, requested, rows, manual)
    BY <1>1
  <2>2. ProposalStep(Settings, m, manual) = m.step
    BY DEF ProposalStep
  <2> DEFINE q == size.notional
             g == Gross(q, m.ask, m.step)
             f == FillRisk(Settings, b, x, m.ask, g)
  <2>3. t = [entry     |-> b.entry, stop |-> b.stop, target |-> b.target,
             ratio     |-> <<b.target - b.entry, b.entry - b.stop>>,
             quote     |-> q, gross |-> g, plan |-> f,
             posRisk   |-> ProjectedRisk(Settings, Of(x, rows), f),
             aggregate |-> ProjectedAggregate(Settings, rows, f),
             usedRisk  |-> ctx.a.risk,
             equity    |-> Equity(ctx.a),
             policy    |-> Fingerprint(Settings, "paper")]
    BY <2>1, <2>2, Zenon DEF PaperTerms
  <2>4. f.symbol = x
    BY DEF FillRisk
  <2> HIDE DEF f, g, q, b
  <2>5. /\ t.plan = f
        /\ t.entry = b.entry /\ t.stop = b.stop /\ t.target = b.target
        /\ t.ratio = <<b.target - b.entry, b.entry - b.stop>>
        /\ t.quote = q /\ t.gross = g
        /\ t.posRisk = ProjectedRisk(Settings, Of(x, rows), f)
        /\ t.aggregate = ProjectedAggregate(Settings, rows, f)
        /\ t.usedRisk = ctx.a.risk
        /\ t.equity = Equity(ctx.a)
        /\ t.policy = Fingerprint(Settings, "paper")
    BY <2>3
  <2>6. gross = g
    BY <2>5 DEF gross, g
  <2>7. plan = f
    BY <2>6 DEF plan, f
  <2> QED BY <2>4, <2>5, <2>6, <2>7 DEF q
<1>3. price[x] \in Nat \ {0} /\ m.ask = price[x] /\ m.step = Step
  BY PriceTypes DEF PositionInv, Market
<1>4. /\ b.entry = m.ask
      /\ b.entry \in Int /\ b.stop \in Int /\ b.target \in Int
      /\ b.stop < b.entry /\ b.entry < b.target
      /\ (b.target - b.entry) * Whole >= Settings.rewardRisk * (b.entry - b.stop)
      /\ StopInRange(Settings, b)
      /\ e.entry = b.entry /\ e.stop = b.stop
  <2>1. e.entry = b.entry /\ e.stop = b.stop
    BY DEF PaperBracket
  <2> HIDE DEF m
  <2> QED BY <1>1, <1>3, <2>1, BracketFacts
<1>5. /\ ctx.a = a /\ ctx.limits = LimitsFor(Settings, "paper", Equity(a))
      /\ ctx.buying = NonNegative(a.free - Reserve(Settings, "paper", Equity(a)))
  BY DEF Context, EffectiveEquity
<1>6. /\ a.risk \in Int /\ a.posRisk \in Int /\ a.exposure \in Int
      /\ a.posExposure \in Int /\ a.free \in Int /\ Equity(a) \in Int
  BY AccountTypes DEF PositionInv
<1>7. /\ \A l \in MoneyLimits : ctx.limits[l] \in Int
      /\ ctx.buying \in Int
  <2>1. \A l \in MoneyLimits : LimitsFor(Settings, "paper", Equity(a))[l] \in Int
    <3> HIDE DEF a
    <3> QED BY <1>6, LimitTypes
  <2>2. Reserve(Settings, "paper", Equity(a)) \in Int
    <3> HIDE DEF a
    <3> QED BY <1>6, ReserveType
  <2>3. ctx.buying \in Int
    <3> HIDE DEF a, ctx
    <3> QED BY <1>5, <1>6, <2>2 DEF NonNegative
  <2> HIDE DEF a, ctx
  <2> QED BY <1>5, <2>1, <2>3
<1>8. ProposalOK(t)
  BY ProposedType
<1>9. t.equity = Equity(a) /\ Equity(a) > 0 /\ t.quote \in Int
  BY <1>2, <1>5, <1>8 DEF ProposalOK
<1> HIDE DEF a, m, ctx, e
<1>10. ApprovalContext(Settings, a, t) = ctx
  <2>1. EffectiveEquity(a, t.equity) = EffectiveEquity(a, Absent)
    BY <1>9 DEF EffectiveEquity, Smaller
  <2>2. Context(Settings, "paper", a, t.equity) = Context(Settings, "paper", a, Absent)
    BY <2>1, Zenon DEF Context
  <2> QED BY <2>2 DEF ApprovalContext, ctx
<1>11. SnapshotHolds(Settings, a, t)
  <2>1. ~ EquityDrifted(Settings, t.equity, Equity(a))
    <3>1. Settings.maxDrift \in Nat /\ Whole \in Nat
      BY SettingsAssumption, WholeAssumption
    <3>2. (t.equity - Equity(a)) * Whole = 0
      BY <1>6, <1>9, <3>1
    <3>3. Settings.maxDrift * t.equity >= 0 /\ Settings.maxDrift * t.equity \in Int
      BY <1>6, <1>9, <3>1
    <3> QED BY <3>2, <3>3 DEF EquityDrifted
  <2> QED BY <1>2, <2>1 DEF SnapshotHolds
<1>12. size.accepted
  BY <1>1, <1>4 DEF Sized
<1>13. /\ t.quote # AutoSize
       /\ SizeEntry(ctx, t.entry, t.stop, t.quote, Settings.fee).accepted
       /\ t.quote + a.posExposure <= ctx.limits.entry
       /\ a.risk < ctx.limits.aggregateRisk
  <2>1. Settings.fee \in Nat
    BY SettingsTypes
  <2>2. e.entry \in Int /\ e.stop \in Int /\ e.stop < e.entry
    BY <1>4
  <2> HIDE DEF b
  <2>3. /\ size.notional # AutoSize
        /\ SizeEntry(ctx, e.entry, e.stop, size.notional, Settings.fee).accepted
        /\ size.notional + ctx.a.posExposure <= ctx.limits.entry
        /\ ctx.a.risk < ctx.limits.aggregateRisk
    BY <1>5, <1>6, <1>7, <1>12, <2>1, <2>2, SizedFacts
  <2> QED BY <1>2, <1>4, <1>5, <2>3
<1>14. Sized(Settings, ctx, t, t.quote)
  BY <1>13 DEF Sized
<1>15. LotAllowed(gross, m.ask, m)
  BY <1>1, <1>2
<1>16. ClaimableTerms(Settings, "paper", t)
  <2> HIDE DEF b
  <2>1. t.ratio[1] = b.target - b.entry /\ t.ratio[2] = b.entry - b.stop
    BY <1>2
  <2>2. StopInRange(Settings, t)
    BY <1>2, <1>4 DEF StopInRange
  <2>3. (b.target - b.entry) * (b.entry - b.stop) = (b.entry - b.stop) * (b.target - b.entry)
    BY <1>4
  <2> QED BY <1>1, <1>2, <1>4, <2>1, <2>2, <2>3 DEF ClaimableTerms
<1>17. /\ gross \in Int /\ plan.spent \in Int /\ plan.spent <= t.quote
       /\ plan.spent = gross * m.ask
  <2>1. gross \in Int /\ gross * m.ask <= t.quote
    BY <1>3, <1>9, StepAssumption, GrossFacts
  <2>2. plan.spent = gross * m.ask
    BY DEF FillRisk
  <2> QED BY <1>3, <2>1, <2>2
<1> HIDE DEF gross, plan, size
<1>18. /\ t.aggregate \in Int /\ t.aggregate <= ctx.limits.aggregateRisk
       /\ ctx.limits.aggregateRisk \in Int /\ ctx.limits.entry \in Int
       /\ ctx.limits.exposure \in Int
  <2>1. /\ ctx.limits.aggregateRisk \in Int /\ ctx.limits.entry \in Int
        /\ ctx.limits.exposure \in Int
    BY <1>7 DEF MoneyLimits
  <2>2. plan.symbol = x
    BY <1>2
  <2>3. t.aggregate <= ctx.limits.aggregateRisk
    BY <1>1, <1>2, <2>2 DEF ProjectionAllowed
  <2>4. t.aggregate = AggregateOf(Settings, rows, SymbolsOf(rows) \ {x})
                        + ProjectedRisk(Settings, Of(x, rows), plan)
    BY <1>2, <2>2 DEF ProjectedAggregate
  <2>5. AggregateOf(Settings, rows, SymbolsOf(rows) \ {x}) \in Int
    BY AggregateType DEF PositionInv
  <2>6. ProjectedRisk(Settings, Of(x, rows), plan) \in Int
    <3>1. GoodRows(Of(x, rows))
      BY OfIsGood DEF PositionInv
    <3>2. plan.net \in Int /\ plan.spent \in Int /\ plan.stop \in Int /\ plan.risk \in Int
      <4> HIDE DEF b
      <4> QED BY <1>3, <1>4, <1>17, FillNumbers DEF plan
    <3> QED BY <3>1, <3>2, ProjectedRiskType DEF GoodRows
  <2> QED BY <2>1, <2>3, <2>4, <2>5, <2>6
<1>19. /\ ~ (a.exposure + t.quote > ctx.limits.exposure)
       /\ PaperAdmits(Settings, ctx, t.quote, a.exposure + t.quote,
                      a.posExposure + plan.spent, t.posRisk, t.aggregate)
       /\ ~ (a.posExposure + plan.spent > ctx.limits.entry)
  <2>1. /\ ~ (a.exposure + t.quote > ctx.limits.exposure)
        /\ ~ (a.posExposure + t.plan.spent > ctx.limits.entry)
    BY <1>1, Admitted
  <2> QED BY <1>1, <1>2, <2>1
<1>20. PaperAdmits(Settings, ctx, t.quote, a.exposure + t.quote,
                   a.posExposure + t.quote, t.posRisk, RefreshedAggregate(a, t))
  <2>1. ~ (a.posExposure + t.quote > ctx.limits.entry)
    BY <1>6, <1>9, <1>13, <1>18
  <2>2. ~ (RefreshedAggregate(a, t) > ctx.limits.aggregateRisk)
    BY <1>2, <1>5, <1>6, <1>13, <1>18 DEF RefreshedAggregate, NonNegative
  <2>3. ~ (ctx.a.risk >= ctx.limits.aggregateRisk)
    BY <1>5, <1>6, <1>13, <1>18
  <2> QED BY <1>19, <2>1, <2>2, <2>3, AdmittedToo
<1>21. PaperAdmits(Settings, ctx, t.quote, a.exposure + plan.spent,
                   a.posExposure + plan.spent, t.posRisk, t.aggregate)
  <2>1. ~ (a.exposure + plan.spent > ctx.limits.exposure)
    BY <1>6, <1>9, <1>17, <1>18, <1>19
  <2> QED BY <1>19, <2>1, AdmittedToo
<1>22. ApprovePaper(Settings, a, m, t)
  <2>1. LotAllowed(Gross(t.quote, m.ask, m.step), m.ask, m)
    BY <1>15 DEF gross
  <2> QED BY <1>10, <1>11, <1>14, <1>16, <1>20, <2>1, Zenon DEF ApprovePaper
<1>23. FillRisk(Settings, t, x, m.ask, gross) = plan
  <2> HIDE DEF b
  <2> QED BY <1>2, Zenon DEF FillRisk, plan
<1>24. ~ PriceDrifted(Settings, t, m.ask)
  <2>1. t.entry = m.ask /\ m.ask \in Nat /\ Settings.maxEntryDrift \in Nat /\ Whole \in Nat
    BY <1>2, <1>3, <1>4, SettingsAssumption, WholeAssumption
  <2>2. 0 * Whole = 0 /\ Settings.maxEntryDrift * m.ask >= 0
        /\ Settings.maxEntryDrift * m.ask \in Int
    BY <2>1
  <2> QED BY <2>1, <2>2 DEF PriceDrifted
<1>25. FillPaper(Settings, a, m, t, x, rows) = plan
  <2> HIDE DEF b
  <2>1. /\ FillAllowed(Settings, plan)
        /\ ProjectionAllowed(Settings, ctx, rows, t.ratio, plan, m)
        /\ PaperAdmits(Settings, ctx, t.quote, a.exposure + plan.spent,
                       a.posExposure + plan.spent,
                       ProjectedRisk(Settings, Of(x, rows), plan),
                       ProjectedAggregate(Settings, rows, plan))
    BY <1>1, <1>2, <1>21
  <2> QED BY <1>10, <1>11, <1>14, <1>15, <1>23, <1>24, <2>1, Zenon DEF FillPaper, gross
<1>26. plan # NoEntry
  <2> HIDE DEF b
  <2>1. "net" \in DOMAIN plan
    BY DEF plan, FillRisk
  <2>2. "net" \notin DOMAIN NoEntry
    BY DEF NoEntry
  <2> QED BY <2>1, <2>2
<1> QED BY <1>2, <1>22, <1>25, <1>26 DEF a, m

\* A step that creates a proposal creates it from the present state.
LEMMA CreationStep ==
    ASSUME PositionInv, [PositionNext]_positionVars, proposal = NoEntry,
           proposal' # NoEntry
    PROVE  \E x \in Symbols, noise \in Noises, requested \in Requests,
              manual \in BOOLEAN :
             proposal' = ProposePaper(Settings, Account(x), Market(x), price[x],
                                      noise, x, requested, rows, manual)
<1>1. ~ Execute
  BY Zenon DEF Execute
<1>2. proposal' # proposal
  OBVIOUS
<1>3. ASSUME NEW x \in Symbols,
             \/ \E p \in Prices : PriceMoves(x, p)
             \/ \E percentage \in Percentages : Close(x, percentage)
             \/ \E open, low, high \in Prices : MonitorExit(x, open, low, high)
             \/ Repair(x)
      PROVE  FALSE
  <2>1. proposal' = proposal
    BY <1>3, Zenon DEF PriceMoves, Close, MonitorExit, Repair
  <2> QED BY <1>2, <2>1
<1>4. PICK x \in Symbols, noise \in Noises, requested \in Requests, manual \in BOOLEAN :
        ProposeEntry(x, noise, requested, manual)
  BY <1>1, <1>2, <1>3, Zenon DEF PositionNext, positionVars
<1>5. proposal' = ProposePaper(Settings, Account(x), Market(x), price[x], noise, x,
                               requested, rows, manual)
  BY <1>4, Zenon DEF ProposeEntry
<1> QED BY <1>5, Zenon

\* Under a percentage policy a proposal that is approved at once, at the market
\* and account it was made of, is filled: create_proposal and
\* create_manual_buy_proposal check all that validate_claim,
\* _revalidate_paper_entry_policy and _execute_claimed_paper check. The least
\* stop distance must fit under the widest after it is rounded to the price.
THEOREM SteadyProposalsFill ==
    ASSUME PercentageBased(Settings),
           \A p \in Prices :
             CeilPart(p, Settings.minStop) * Whole <= Settings.maxStop * p
    PROVE  PositionSpec => SteadyProposalFills
<1> DEFINE A == proposal = NoEntry /\ proposal' # NoEntry =>
                  LET x == proposal'.plan.symbol
                  IN  /\ ApprovePaper(Settings, Account(x), Market(x), proposal')
                      /\ FillPaper(Settings, Account(x), Market(x), proposal', x, rows)
                            # NoEntry
<1>1. PositionInv /\ [PositionNext]_positionVars => [A]_positionVars
  <2> SUFFICES ASSUME PositionInv, [PositionNext]_positionVars,
                      proposal = NoEntry, proposal' # NoEntry
               PROVE  LET x == proposal'.plan.symbol
                      IN  /\ ApprovePaper(Settings, Account(x), Market(x), proposal')
                          /\ FillPaper(Settings, Account(x), Market(x), proposal', x, rows)
                                # NoEntry
    BY Zenon
  <2>1. PICK x \in Symbols, noise \in Noises, requested \in Requests, manual \in BOOLEAN :
          proposal' = ProposePaper(Settings, Account(x), Market(x), price[x], noise, x,
                                   requested, rows, manual)
    BY CreationStep
  <2>2. noise \in Nat /\ requested \in Nat /\ price[x] \in Prices
    BY PositionAssumption DEF PositionInv
  <2>3. /\ proposal'.plan.symbol = x
        /\ ApprovePaper(Settings, Account(x), Market(x), proposal')
        /\ FillPaper(Settings, Account(x), Market(x), proposal', x, rows) # NoEntry
    BY <2>1, <2>2, ProposedIsFilled
  <2> QED BY <2>3
<1> HIDE DEF A
<1>2. PositionSpec => [][A]_positionVars
  BY <1>1, PositionInvariant, PTL DEF PositionSpec
<1> QED BY <1>2 DEF SteadyProposalFills, A

=============================================================================
