------------------------ MODULE ProposalLedgerProofs ------------------------
(***************************************************************************)
(* Theorems about ProposalLedger, for every value of its constants.        *)
(***************************************************************************)
EXTENDS ProposalLedger, SumLaws

-----------------------------------------------------------------------------
(***************************************************************************)
(* Type correctness.                                                       *)
(***************************************************************************)

\* Ends of lifetimes and leases stay within Expiry.
LEMMA ExpiryRange ==
    ASSUME NEW t \in Time
    PROVE  /\ t + ProposalTTL \in Expiry
           /\ t + CandidateTTL \in Expiry
           /\ t + LeaseTime \in Expiry
BY LedgerAssumption DEF Time, Expiry

\* Housekeeping turns well-typed columns into well-typed columns.
LEMMA HousekeptType ==
    ASSUME TypeOK
    PROVE  /\ HousekeptStatus \in [Proposals -> Status]
           /\ HousekeptCandidates \in [Candidates -> CandidateStatus]
BY DEF TypeOK, HousekeptStatus, Recovered, Status, HousekeptCandidates,
       CandidateStatus

LEMMA RecoverLostType ==
    ASSUME TypeOK, RecoverLostColumns
    PROVE  /\ lease' \in [Proposals -> Workers \cup {None}]
           /\ leaseEnd' \in [Proposals -> Expiry \cup {None}]
           /\ executedAt' \in [Proposals -> Time \cup {None}]
           /\ exec' \in [Proposals -> ExecutionStatus]
<1>1. lease' \in [Proposals -> Workers \cup {None}]
  BY DEF TypeOK, RecoverLostColumns
<1>2. leaseEnd' \in [Proposals -> Expiry \cup {None}]
  BY DEF TypeOK, RecoverLostColumns
<1>3. executedAt' \in [Proposals -> Time \cup {None}]
  BY DEF TypeOK, RecoverLostColumns
<1>4. exec' \in [Proposals -> ExecutionStatus]
  BY DEF TypeOK, RecoverLostColumns, ExecutionStatus
<1> QED BY <1>1, <1>2, <1>3, <1>4

\* The type invariant is inductive.
LEMMA TypeStep == TypeOK /\ [Next]_vars => TypeOK'
<1> SUFFICES ASSUME TypeOK, [Next]_vars PROVE TypeOK'
  OBVIOUS
<1> USE DEF candidates, terms, leases, outcome, account
<1>1. CASE Tick
  BY <1>1, LedgerAssumption DEF TypeOK, Tick, Time
<1>2. ASSUME NEW c \in Candidates, CandidateStep(c)
      PROVE  TypeOK'
  <2>1. now + CandidateTTL \in Expiry
    BY ExpiryRange DEF TypeOK
  <2>2. CASE CreateCandidate(c)
    BY <2>1, <2>2 DEF TypeOK, CreateCandidate, CandidateStatus
  <2>3. CASE DismissCandidate(c)
    BY <2>3 DEF TypeOK, DismissCandidate, CandidateStatus
  <2> QED BY <1>2, <2>2, <2>3 DEF CandidateStep
<1>3. CASE TableStep
  <2>1. CASE Housekeep
    BY <2>1, HousekeptType, RecoverLostType DEF Housekeep, TypeOK
  <2>2. CASE RejectAllPendingPaper
    BY <2>2 DEF TypeOK, RejectAllPendingPaper, SetStatusOf, Status
  <2>3. CASE InvalidatePendingLiveEntries
    BY <2>3 DEF TypeOK, InvalidatePendingLiveEntries, SetStatusOf, Status
  <2>4. CASE ResetPaperAccount
    <3>1. status' \in [Proposals -> Status]
      BY <2>4 DEF TypeOK, ResetPaperAccount, SetStatusOf, Status
    <3>2. position' \in [Proposals -> PositionStatus]
      BY <2>4 DEF TypeOK, ResetPaperAccount, PositionStatus
    <3> QED BY <2>4, <3>1, <3>2 DEF TypeOK, ResetPaperAccount
  <2> QED BY <1>3, <2>1, <2>2, <2>3, <2>4 DEF TableStep
<1>4. ASSUME NEW p \in Proposals, RowStep(p)
      PROVE  TypeOK'
  <2>1. ASSUME NEW c \in Candidates, CreateProposal(p, c)
        PROVE  TypeOK'
    <3>1. now + ProposalTTL \in Expiry
      BY ExpiryRange DEF TypeOK
    <3>2. /\ status' \in [Proposals -> Status]
          /\ candStatus' \in [Candidates -> CandidateStatus]
      BY <2>1, HousekeptType DEF CreateProposal, Status, CandidateStatus
    <3>3. /\ source' \in [Proposals -> Candidates \cup {None}]
          /\ expires' \in [Proposals -> Expiry]
      BY <2>1, <3>1 DEF TypeOK, CreateProposal
    <3> QED
      BY <2>1, <3>2, <3>3, RecoverLostType DEF TypeOK, CreateProposal
  <2>2. CASE RejectProposal(p) \/ TerminalizePaper(p)
    BY <2>2 DEF TypeOK, RejectProposal, TerminalizePaper, SetStatus, Status
  <2>3. CASE RejectByPolicy(p)
    BY <2>3 DEF TypeOK, RejectByPolicy, EndWithoutLease, Status
  <2>4. ASSUME NEW final \in {"EXECUTED", "RECONCILE"},
               NEW x \in {"FILLED", "OTHER"}, FinishUnresolved(p, final, x)
        PROVE  TypeOK'
    BY <2>4 DEF TypeOK, FinishUnresolved, Finish, Status, ExecutionStatus
  <2>5. CASE MarkUnreconcilable(p)
    BY <2>5 DEF TypeOK, MarkUnreconcilable, Status, ExecutionStatus
  <2>6. CASE ClosePosition(p)
    BY <2>6 DEF TypeOK, ClosePosition, PositionStatus
  <2> QED BY <1>4, <2>1, <2>2, <2>3, <2>4, <2>5, <2>6 DEF RowStep
<1>5. ASSUME NEW p \in Proposals, NEW w \in Workers, LeaseStep(p, w)
      PROVE  TypeOK'
  <2>1. ASSUME NEW l \in Time, NEW t \in Time, Approve(p, w, l, t)
        PROVE  TypeOK'
    <3>1. l + LeaseTime \in Expiry
      BY ExpiryRange
    <3> QED BY <2>1, <3>1 DEF TypeOK, Approve, Status
  <2>2. ASSUME NEW l \in Time, NEW d \in Time, NEW t \in Time,
               ClaimProposal(p, w, l, d, t)
        PROVE  TypeOK'
    BY <2>1, <2>2 DEF ClaimProposal
  <2>3. ASSUME NEW l \in Time, NEW t \in Time,
               ClaimByConfirmationCode(p, w, l, t)
        PROVE  TypeOK'
    BY <2>1, <2>3 DEF ClaimByConfirmationCode
  <2>4. ASSUME NEW final \in {"EXECUTED", "RECONCILE"},
               NEW x \in {"EXEC_STARTED", "FILLED", "OTHER"},
               FinishExecution(p, w, final, x)
        PROVE  TypeOK'
    BY <2>4 DEF TypeOK, FinishExecution, Finish, Status, ExecutionStatus
  <2>5. CASE RecordExecutionSubmitted(p, w)
    BY <2>5 DEF TypeOK, RecordExecutionSubmitted, ExecutionStatus
  <2>6. CASE FailExecution(p, w)
    BY <2>6 DEF TypeOK, FailExecution, EndWithoutLease, Status
  <2>7. CASE FinishPaperAndOpen(p, w)
    <3>1. /\ status' \in [Proposals -> Status]
          /\ exec' \in [Proposals -> ExecutionStatus]
          /\ position' \in [Proposals -> PositionStatus]
      BY <2>7 DEF TypeOK, FinishPaperAndOpen, Status, ExecutionStatus,
                  PositionStatus
    <3> QED BY <2>7, <3>1 DEF TypeOK, FinishPaperAndOpen
  <2> QED BY <1>5, <2>2, <2>3, <2>4, <2>5, <2>6, <2>7 DEF LeaseStep
<1>6. CASE UNCHANGED vars
  BY <1>6 DEF vars, TypeOK
<1> QED BY <1>1, <1>2, <1>3, <1>4, <1>5, <1>6 DEF Next

\* The initial state is well typed.
LEMMA TypeInit == Init => TypeOK
BY LedgerAssumption DEF Init, TypeOK, Time, Expiry, CandidateStatus, Status,
   ExecutionStatus, PositionStatus

\* Every reachable state is well typed.
THEOREM TypeCorrect == Spec => []TypeOK
BY TypeInit, TypeStep, PTL DEF Spec

-----------------------------------------------------------------------------
(***************************************************************************)
(* The ledger's invariant.  Each step writes the columns of one proposal,  *)
(* or treats all proposals alike, so the proof looks at one proposal q     *)
(* before and after the step.                                              *)
(***************************************************************************)
LEMMA LedgerInvStep ==
    TypeOK /\ LedgerInv /\ [Next]_vars => LedgerInv'
<1> SUFFICES ASSUME TypeOK, [Next]_vars, lastReset <= now,
                    \A p \in Proposals : RowInv(p),
                    NEW q
             PROVE  (q \in Proposals => RowInv(q)') /\ (lastReset <= now)'
  BY DEF LedgerInv
<1> USE LedgerAssumption, NoneAssumption
    DEF candidates, terms, leases, outcome, account, RowInv, TypeOK, Time, Expiry
<1>1. CASE Tick
  BY <1>1 DEF Tick
<1>2. ASSUME NEW c \in Candidates, CandidateStep(c)
      PROVE  (q \in Proposals => RowInv(q)') /\ (lastReset <= now)'
  BY <1>2 DEF CandidateStep, CreateCandidate, DismissCandidate
<1>3. CASE TableStep
  <2>1. CASE Housekeep
    BY <2>1 DEF Housekeep, HousekeptStatus, RecoverLostColumns, Recovered,
                Lost, LeaseRanOut, Stale
  <2>2. CASE RejectAllPendingPaper
    BY <2>2 DEF RejectAllPendingPaper, SetStatusOf
  <2>3. CASE InvalidatePendingLiveEntries
    BY <2>3 DEF InvalidatePendingLiveEntries, SetStatusOf
  <2>4. CASE ResetPaperAccount
    BY <2>4 DEF ResetPaperAccount, SetStatusOf
  <2> QED BY <1>3, <2>1, <2>2, <2>3, <2>4 DEF TableStep
<1>4. ASSUME NEW p \in Proposals, RowStep(p)
      PROVE  (q \in Proposals => RowInv(q)') /\ (lastReset <= now)'
  <2>1. ASSUME NEW c \in Candidates, CreateProposal(p, c)
        PROVE  (q \in Proposals => RowInv(q)') /\ (lastReset <= now)'
    BY <2>1 DEF CreateProposal, HousekeptStatus, RecoverLostColumns,
                Recovered, Lost, LeaseRanOut, Stale
  <2>2. CASE RejectProposal(p) \/ TerminalizePaper(p)
    BY <2>2 DEF RejectProposal, TerminalizePaper, SetStatus
  <2>3. CASE RejectByPolicy(p)
    BY <2>3 DEF RejectByPolicy, EndWithoutLease
  <2>4. ASSUME NEW final \in {"EXECUTED", "RECONCILE"},
               NEW x \in {"FILLED", "OTHER"}, FinishUnresolved(p, final, x)
        PROVE  (q \in Proposals => RowInv(q)') /\ (lastReset <= now)'
    BY <2>4 DEF FinishUnresolved, Finish
  <2>5. CASE MarkUnreconcilable(p)
    BY <2>5 DEF MarkUnreconcilable
  <2>6. CASE ClosePosition(p)
    BY <2>6 DEF ClosePosition
  <2> QED BY <1>4, <2>1, <2>2, <2>3, <2>4, <2>5, <2>6 DEF RowStep
<1>5. ASSUME NEW p \in Proposals, NEW w \in Workers, LeaseStep(p, w)
      PROVE  (q \in Proposals => RowInv(q)') /\ (lastReset <= now)'
  <2>1. ASSUME NEW l \in Time, NEW d \in Time, NEW t \in Time,
               ClaimProposal(p, w, l, d, t)
        PROVE  (q \in Proposals => RowInv(q)') /\ (lastReset <= now)'
    <3>1. p \in PaperProposals => t >= lastReset
      BY <2>1 DEF ClaimProposal, Claimable
    <3>2. Approve(p, w, l, t) /\ status[p] = "PENDING"
      BY <2>1 DEF ClaimProposal, Claimable
    <3> QED BY <3>1, <3>2 DEF Approve
  <2>2. ASSUME NEW l \in Time, NEW t \in Time,
               ClaimByConfirmationCode(p, w, l, t)
        PROVE  (q \in Proposals => RowInv(q)') /\ (lastReset <= now)'
    <3>1. t >= lastReset
      BY <2>2 DEF ClaimByConfirmationCode, Claimable
    <3>2. Approve(p, w, l, t) /\ status[p] = "PENDING"
      BY <2>2 DEF ClaimByConfirmationCode, Claimable
    <3> QED BY <3>1, <3>2 DEF Approve
  <2>3. ASSUME NEW final \in {"EXECUTED", "RECONCILE"},
               NEW x \in {"EXEC_STARTED", "FILLED", "OTHER"},
               FinishExecution(p, w, final, x)
        PROVE  (q \in Proposals => RowInv(q)') /\ (lastReset <= now)'
    BY <2>3 DEF FinishExecution, Finish, Holds
  <2>4. CASE RecordExecutionSubmitted(p, w)
    BY <2>4 DEF RecordExecutionSubmitted, Holds
  <2>5. CASE FailExecution(p, w)
    BY <2>5 DEF FailExecution, EndWithoutLease, Holds
  <2>6. CASE FinishPaperAndOpen(p, w)
    BY <2>6 DEF FinishPaperAndOpen, Holds
  <2> QED BY <1>5, <2>1, <2>2, <2>3, <2>4, <2>5, <2>6 DEF LeaseStep
<1>6. CASE UNCHANGED vars
  BY <1>6 DEF vars
<1> QED BY <1>1, <1>2, <1>3, <1>4, <1>5, <1>6 DEF Next

\* The inductive invariant holds in every reachable state.
THEOREM LedgerInvariant == Spec => []LedgerInv
<1>1. Init => LedgerInv
  BY NoneAssumption DEF Init, LedgerInv, RowInv
<1> QED BY <1>1, TypeCorrect, LedgerInvStep, PTL DEF Spec

\* A position exists only behind an executed, filled PAPER proposal.
THEOREM FillsCorrect == Spec => []FillsMatchPositions
<1>1. LedgerInv => FillsMatchPositions
  BY DEF LedgerInv, RowInv, FillsMatchPositions
<1> QED BY <1>1, LedgerInvariant, PTL

\* Every executing proposal carries the lease and expiry recovery needs.
THEOREM RecoveryPossible == Spec => []ExecutingIsRecoverable
<1>1. LedgerInv => ExecutingIsRecoverable
  BY DEF LedgerInv, RowInv, ExecutingIsRecoverable
<1> QED BY <1>1, LedgerInvariant, PTL

\* No open position stems from an approval that a reset has overtaken.
THEOREM ResetIsClean == Spec => []OpenPositionsSinceReset
<1>1. LedgerInv => OpenPositionsSinceReset
  BY DEF LedgerInv, RowInv, OpenPositionsSinceReset
<1> QED BY <1>1, LedgerInvariant, PTL

-----------------------------------------------------------------------------
(***************************************************************************)
(* Every step either leaves the status of a proposal alone or moves it     *)
(* along one of the arrows of StatusMove.  The finality of decisions, the  *)
(* cap on active proposals and the refinement of the contract all rest on  *)
(* this.                                                                   *)
(***************************************************************************)
StatusMove(p) ==
    \/ status'[p] = status[p]
    \/ status[p] = "PENDING" /\ status'[p] \in {"REJECTED", "EXPIRED"}
    \/ status[p] = "PENDING" /\ status'[p] = "EXECUTING"
    \/ status[p] = "EXECUTING"
         /\ status'[p] \in {"EXECUTED", "RECONCILE", "REJECTED", "FAILED"}
    \/ status[p] = "RECONCILE" /\ status'[p] = "REJECTED"
    \/ p \in LiveProposals /\ submitted[p] /\ status'[p] = "RECONCILE"

\* A step that creates no proposal moves every status along an arrow.
LEMMA StatusMoves ==
    ASSUME TypeOK, [Next]_vars, NEW q \in Proposals,
           \A p \in Proposals, c \in Candidates : ~ CreateProposal(p, c)
    PROVE  StatusMove(q)
<1> USE DEF TypeOK, StatusMove
<1>1. CASE Tick
  BY <1>1 DEF Tick
<1>2. ASSUME NEW c \in Candidates, CandidateStep(c)
      PROVE  StatusMove(q)
  BY <1>2 DEF CandidateStep, CreateCandidate, DismissCandidate
<1>3. CASE TableStep
  BY <1>3 DEF TableStep, Housekeep, HousekeptStatus, Recovered, Stale, Lost,
     RejectAllPendingPaper, InvalidatePendingLiveEntries, ResetPaperAccount,
     SetStatusOf
<1>4. ASSUME NEW p \in Proposals, RowStep(p)
      PROVE  StatusMove(q)
  <2>1. ASSUME NEW final \in {"EXECUTED", "RECONCILE"},
               NEW x \in {"FILLED", "OTHER"}, FinishUnresolved(p, final, x)
        PROVE  StatusMove(q)
    BY <2>1 DEF FinishUnresolved, Finish
  <2>2. CASE RejectProposal(p) \/ TerminalizePaper(p)
    BY <2>2 DEF RejectProposal, TerminalizePaper, SetStatus
  <2>3. CASE RejectByPolicy(p)
    BY <2>3 DEF RejectByPolicy, EndWithoutLease
  <2>4. CASE MarkUnreconcilable(p) \/ ClosePosition(p)
    BY <2>4 DEF MarkUnreconcilable, ClosePosition
  <2> QED BY <1>4, <2>1, <2>2, <2>3, <2>4 DEF RowStep
<1>5. ASSUME NEW p \in Proposals, NEW w \in Workers, LeaseStep(p, w)
      PROVE  StatusMove(q)
  <2>1. ASSUME NEW l \in Time, NEW d \in Time, NEW t \in Time,
               ClaimProposal(p, w, l, d, t)
        PROVE  StatusMove(q)
    BY <2>1 DEF ClaimProposal, Claimable, Approve
  <2>2. ASSUME NEW l \in Time, NEW t \in Time,
               ClaimByConfirmationCode(p, w, l, t)
        PROVE  StatusMove(q)
    BY <2>2 DEF ClaimByConfirmationCode, Claimable, Approve
  <2>3. ASSUME NEW final \in {"EXECUTED", "RECONCILE"},
               NEW x \in {"EXEC_STARTED", "FILLED", "OTHER"},
               FinishExecution(p, w, final, x)
        PROVE  StatusMove(q)
    BY <2>3 DEF FinishExecution, Finish, Holds
  <2>4. CASE RecordExecutionSubmitted(p, w)
    BY <2>4 DEF RecordExecutionSubmitted
  <2>5. CASE FailExecution(p, w)
    BY <2>5 DEF FailExecution, EndWithoutLease, Holds
  <2>6. CASE FinishPaperAndOpen(p, w)
    BY <2>6 DEF FinishPaperAndOpen, Holds
  <2> QED BY <1>5, <2>1, <2>2, <2>3, <2>4, <2>5, <2>6 DEF LeaseStep
<1>6. CASE UNCHANGED vars
  BY <1>6 DEF vars
<1> QED BY <1>1, <1>2, <1>3, <1>4, <1>5, <1>6 DEF Next

\* A creation inserts one proposal and does housekeeping on the others.
LEMMA CreationMoves ==
    ASSUME TypeOK, NEW p \in Proposals, NEW c \in Candidates,
           CreateProposal(p, c)
    PROVE  /\ status[p] = "ABSENT" /\ status'[p] = "PENDING"
           /\ \A q \in Proposals \ {p} :
                \/ status'[q] = status[q]
                \/ status[q] = "PENDING" /\ status'[q] = "EXPIRED"
                \/ /\ q \in PaperProposals /\ status[q] = "EXECUTING"
                   /\ status'[q] \in {"EXECUTED", "FAILED"}
BY DEF TypeOK, CreateProposal, HousekeptStatus, Recovered, Stale, Lost

\* A proposal is approved at most once and a decision is final.
THEOREM DecisionsAreFinal == Spec => DecisionIsFinal
<1>1. ASSUME TypeOK, LedgerInv, [Next]_vars, NEW p \in Proposals
      PROVE  /\ status'[p] = "EXECUTING" /\ status[p] # "EXECUTING"
                  => status[p] = "PENDING" /\ approvedAt[p] = None
             /\ status[p] \in SettledStatus /\ status'[p] # status[p]
                  => p \in LiveProposals /\ submitted[p]
                       /\ status'[p] = "RECONCILE"
  <2>1. CASE \A r \in Proposals, c \in Candidates : ~ CreateProposal(r, c)
    BY <1>1, <2>1, StatusMoves DEF StatusMove, LedgerInv, RowInv, SettledStatus
  <2>2. ASSUME NEW r \in Proposals, NEW c \in Candidates,
               CreateProposal(r, c)
        PROVE  /\ status'[p] = "EXECUTING" => status[p] = "EXECUTING"
               /\ status[p] \in SettledStatus => status'[p] = status[p]
    BY <1>1, <2>2, CreationMoves DEF SettledStatus
  <2> QED BY <2>1, <2>2
<1>2. TypeOK /\ LedgerInv /\ [Next]_vars =>
        [\A p \in Proposals :
           /\ status'[p] = "EXECUTING" /\ status[p] # "EXECUTING"
                => status[p] = "PENDING" /\ approvedAt[p] = None
           /\ status[p] \in SettledStatus /\ status'[p] # status[p]
                => p \in LiveProposals /\ submitted[p]
                     /\ status'[p] = "RECONCILE"]_vars
  BY <1>1
<1> QED BY <1>2, TypeCorrect, LedgerInvariant, PTL DEF Spec, DecisionIsFinal

-----------------------------------------------------------------------------
(***************************************************************************)
(* The cap on active proposals.                                            *)
(***************************************************************************)
\* The active proposals of any status column form a finite set.
LEMMA ActiveFinite ==
    ASSUME NEW s
    PROVE  IsFiniteSet(ActiveIn(s)) /\ Cardinality(ActiveIn(s)) \in Nat
<1>1. ActiveIn(s) \subseteq Proposals /\ IsFiniteSet(Proposals)
  BY LedgerAssumption DEF ActiveIn, Proposals
<1> QED BY <1>1, FS_Subset, FS_CardinalityType

\* A creation adds one proposal to what housekeeping leaves.
LEMMA CreationActive ==
    ASSUME TypeOK, NEW p \in Proposals, NEW c \in Candidates,
           CreateProposal(p, c)
    PROVE  ActiveIn(status') = ActiveIn(HousekeptStatus) \cup {p}
<1>1. status' = [HousekeptStatus EXCEPT ![p] = "PENDING"]
  BY DEF CreateProposal
<1>2. HousekeptStatus \in [Proposals -> Status]
  BY HousekeptType
<1> QED BY <1>1, <1>2 DEF ActiveIn

\* Never more than max_active_proposals proposals wait or execute.
THEOREM CapRespected == Spec => []ActiveWithinCap
<1>1. Init => ActiveWithinCap
  <2> SUFFICES ASSUME Init PROVE ActiveWithinCap
    OBVIOUS
  <2>1. ActiveIn(status) = {}
    BY DEF Init, ActiveIn
  <2> QED BY <2>1, FS_EmptySet, LedgerAssumption DEF ActiveWithinCap
<1>2. TypeOK /\ ActiveWithinCap /\ [Next]_vars => ActiveWithinCap'
  <2> SUFFICES ASSUME TypeOK, ActiveWithinCap, [Next]_vars
               PROVE  Cardinality(ActiveIn(status')) <= MaxActive
    BY DEF ActiveWithinCap
  <2>1. CASE \A p \in Proposals, c \in Candidates : ~ CreateProposal(p, c)
    <3>1. ActiveIn(status') \subseteq ActiveIn(status)
      BY <2>1, StatusMoves DEF StatusMove, ActiveIn
    <3>2. Cardinality(ActiveIn(status')) <= Cardinality(ActiveIn(status))
      BY <3>1, ActiveFinite, FS_Subset
    <3> QED
      BY <3>2, ActiveFinite, LedgerAssumption DEF ActiveWithinCap
  <2>2. ASSUME NEW p \in Proposals, NEW c \in Candidates,
               CreateProposal(p, c)
        PROVE  Cardinality(ActiveIn(status')) <= MaxActive
    <3>1. Cardinality(ActiveIn(HousekeptStatus)) < MaxActive
      BY <2>2 DEF CreateProposal
    <3>2. ActiveIn(status') = ActiveIn(HousekeptStatus) \cup {p}
      BY <2>2, CreationActive
    <3> DEFINE A == ActiveIn(HousekeptStatus)
    <3>3. IsFiniteSet(A) /\ Cardinality(A) \in Nat
      BY ActiveFinite
    <3>4. \/ Cardinality(A \cup {p}) = Cardinality(A)
          \/ Cardinality(A \cup {p}) = Cardinality(A) + 1
      BY <3>3, FS_AddElement
    <3> HIDE DEF A
    <3> QED
      BY <3>1, <3>2, <3>3, <3>4, LedgerAssumption DEF A
  <2> QED BY <2>1, <2>2
<1> QED BY <1>1, <1>2, TypeCorrect, PTL DEF Spec

-----------------------------------------------------------------------------
(***************************************************************************)
(* The ledger implements ApprovalContract: every step is a step of the     *)
(* contract or leaves phases and fills alone.                              *)
(***************************************************************************)
Phase  == [p \in Proposals |-> PhaseOf(status[p])]
Filled == {p \in Proposals : position[p] # None}

\* A step that approves, creates and fills nothing drops proposals, or none.
LEMMA DropStep ==
    ASSUME TypeOK, LedgerInv,
           \A q \in Proposals : StatusMove(q),
           \A q \in Proposals :
              status'[q] = "EXECUTING" => status[q] = "EXECUTING",
           Filled' = Filled
    PROVE  Contract!Next
<1> DEFINE S == {q \in Proposals : status[q] \in {"PENDING", "EXECUTING"}
                              /\ status'[q] \notin {"PENDING", "EXECUTING"}}
<1>1. S \subseteq Contract!InPlay
  BY DEF Contract!InPlay, PhaseOf
<1>2. ASSUME NEW q \in Proposals
      PROVE  PhaseOf(status'[q]) =
               IF q \in S THEN "settled" ELSE PhaseOf(status[q])
  BY <1>2 DEF StatusMove, PhaseOf, LedgerInv, RowInv, TypeOK, Status
<1>3. Phase' = Contract!Settled(S)
  BY <1>2 DEF Phase, Contract!Settled
<1>4. Contract!Drop(S)
  BY <1>1, <1>3 DEF Phase, Filled, Contract!Drop
<1> QED BY <1>4 DEF Contract!Next

\* The two claims.
Claims(p, w) ==
    \/ \E l, d, t \in Time : ClaimProposal(p, w, l, d, t)
    \/ \E l, t \in Time : ClaimByConfirmationCode(p, w, l, t)

\* A claim is an Approve step.
LEMMA ApproveStep ==
    ASSUME TypeOK, NEW p \in Proposals, NEW w, NEW l, NEW t,
           status[p] = "PENDING", Approve(p, w, l, t)
    PROVE  Contract!Next
<1>1. Phase' = [Phase EXCEPT ![p] = "approved"]
  BY DEF TypeOK, Approve, Phase, PhaseOf
<1>2. Filled' = Filled
  BY DEF Approve, Filled, account
<1>3. Contract!Approve(p)
  BY <1>1, <1>2 DEF Contract!Approve, Phase, Filled, PhaseOf
<1> QED BY <1>3 DEF Contract!Next

\* A simulated fill is a Fill step.
LEMMA FillStep ==
    ASSUME TypeOK, NEW p \in Proposals, NEW w, FinishPaperAndOpen(p, w)
    PROVE  Contract!Next
<1>1. Phase' = [Phase EXCEPT ![p] = "settled"]
  BY DEF TypeOK, FinishPaperAndOpen, Holds, Phase, PhaseOf
<1>2. Filled' = Filled \cup {p}
  BY NoneAssumption DEF TypeOK, FinishPaperAndOpen, Filled
<1>3. Contract!Fill(p)
  BY <1>1, <1>2 DEF FinishPaperAndOpen, Holds, Contract!Fill, Phase, Filled,
     PhaseOf
<1> QED BY <1>3 DEF Contract!Next

\* A creation is an Offer step that first drops what housekeeping ended.
LEMMA OfferStep ==
    ASSUME TypeOK, NEW p \in Proposals, NEW c \in Candidates,
           CreateProposal(p, c)
    PROVE  Contract!Next
<1> DEFINE S == {q \in Proposals : status[q] \in {"PENDING", "EXECUTING"}
                     /\ HousekeptStatus[q] \notin {"PENDING", "EXECUTING"}}
<1>1. status[p] = "ABSENT"
  BY DEF CreateProposal
<1>2. S \subseteq Contract!InPlay
  BY DEF Contract!InPlay, PhaseOf
<1>3. Contract!InPlay \ S = ActiveIn(HousekeptStatus)
  BY DEF TypeOK, Status, Contract!InPlay, ActiveIn, HousekeptStatus, Stale,
         Lost, Recovered, PhaseOf
<1>4. ASSUME NEW q \in Proposals
      PROVE  PhaseOf(HousekeptStatus[q]) =
               IF q \in S THEN "settled" ELSE PhaseOf(status[q])
  BY <1>4 DEF HousekeptStatus, Recovered, Stale, Lost, PhaseOf
<1>5. Phase' = [Contract!Settled(S) EXCEPT ![p] = "offered"]
  BY <1>1, <1>4, HousekeptType
     DEF CreateProposal, Phase, Contract!Settled, PhaseOf
<1>6. Filled' = Filled
  BY DEF CreateProposal, Filled, account
<1>7. Cardinality(Contract!InPlay \ S) < MaxActive
  BY <1>3 DEF CreateProposal
<1>8. Contract!Offer(p, S)
  BY <1>1, <1>2, <1>5, <1>6, <1>7
     DEF Contract!Offer, Phase, Filled, PhaseOf, Contract!Cardinality,
         Cardinality
<1> QED BY <1>8 DEF Contract!Next

\* Steps other than claims, creations and fills approve nobody and leave the
\* positions' existence alone.
LEMMA QuietStep ==
    ASSUME TypeOK, [Next]_vars,
           \A p \in Proposals, c \in Candidates : ~ CreateProposal(p, c),
           \A p \in Proposals, w \in Workers :
              ~ FinishPaperAndOpen(p, w) /\ ~ Claims(p, w)
    PROVE  /\ \A q \in Proposals :
                status'[q] = "EXECUTING" => status[q] = "EXECUTING"
           /\ Filled' = Filled
<1> SUFFICES ASSUME NEW q \in Proposals
             PROVE  /\ status'[q] = "EXECUTING" => status[q] = "EXECUTING"
                    /\ position'[q] = None <=> position[q] = None
  BY DEF Filled
<1> USE NoneAssumption DEF TypeOK, candidates, terms, leases, outcome, account
<1>1. CASE Tick
  BY <1>1 DEF Tick
<1>2. ASSUME NEW c \in Candidates, CandidateStep(c)
      PROVE  status' = status /\ position' = position
  BY <1>2 DEF CandidateStep, CreateCandidate, DismissCandidate
<1>3. CASE TableStep
  <2>1. CASE Housekeep
    BY <2>1 DEF Housekeep, HousekeptStatus, Recovered
  <2>2. CASE RejectAllPendingPaper \/ InvalidatePendingLiveEntries
    BY <2>2 DEF RejectAllPendingPaper, InvalidatePendingLiveEntries,
                SetStatusOf
  <2>3. CASE ResetPaperAccount
    BY <2>3 DEF ResetPaperAccount, SetStatusOf
  <2> QED BY <1>3, <2>1, <2>2, <2>3 DEF TableStep
<1>4. ASSUME NEW p \in Proposals, RowStep(p)
      PROVE  /\ status'[q] = "EXECUTING" => status[q] = "EXECUTING"
             /\ position'[q] = None <=> position[q] = None
  <2>1. ASSUME NEW final \in {"EXECUTED", "RECONCILE"},
               NEW x \in {"FILLED", "OTHER"}, FinishUnresolved(p, final, x)
        PROVE  /\ status'[q] = "EXECUTING" => status[q] = "EXECUTING"
               /\ position' = position
    BY <2>1 DEF FinishUnresolved, Finish
  <2>2. CASE RejectProposal(p) \/ TerminalizePaper(p)
    BY <2>2 DEF RejectProposal, TerminalizePaper, SetStatus
  <2>3. CASE RejectByPolicy(p)
    BY <2>3 DEF RejectByPolicy, EndWithoutLease
  <2>4. CASE MarkUnreconcilable(p)
    BY <2>4 DEF MarkUnreconcilable
  <2>5. CASE ClosePosition(p)
    BY <2>5 DEF ClosePosition
  <2> QED BY <1>4, <2>1, <2>2, <2>3, <2>4, <2>5 DEF RowStep
<1>5. ASSUME NEW p \in Proposals, NEW w \in Workers, LeaseStep(p, w)
      PROVE  /\ status'[q] = "EXECUTING" => status[q] = "EXECUTING"
             /\ position'[q] = None <=> position[q] = None
  <2>1. ASSUME NEW final \in {"EXECUTED", "RECONCILE"},
               NEW x \in {"EXEC_STARTED", "FILLED", "OTHER"},
               FinishExecution(p, w, final, x)
        PROVE  /\ status'[q] = "EXECUTING" => status[q] = "EXECUTING"
               /\ position' = position
    BY <2>1 DEF FinishExecution, Finish
  <2>2. CASE RecordExecutionSubmitted(p, w)
    BY <2>2 DEF RecordExecutionSubmitted
  <2>3. CASE FailExecution(p, w)
    BY <2>3 DEF FailExecution, EndWithoutLease
  <2> QED BY <1>5, <2>1, <2>2, <2>3 DEF LeaseStep, Claims
<1>6. CASE UNCHANGED vars
  BY <1>6 DEF vars
<1> QED BY <1>1, <1>2, <1>3, <1>4, <1>5, <1>6 DEF Next

\* The ledger implements the contract.
THEOREM ImplementsContract == Spec => ContractSpec
<1>1. Init => Contract!Init
  BY NoneAssumption DEF Init, Contract!Init, PhaseOf
<1>2. TypeOK /\ LedgerInv /\ [Next]_vars => [Contract!Next]_(Contract!vars)
  <2> SUFFICES ASSUME TypeOK, LedgerInv, [Next]_vars PROVE Contract!Next
    OBVIOUS
  <2>1. ASSUME NEW p \in Proposals, NEW c \in Candidates,
               CreateProposal(p, c)
        PROVE  Contract!Next
    BY <2>1, OfferStep
  <2>2. ASSUME NEW p \in Proposals, NEW w \in Workers,
               FinishPaperAndOpen(p, w)
        PROVE  Contract!Next
    BY <2>2, FillStep
  <2>3. ASSUME NEW p \in Proposals, NEW w \in Workers, Claims(p, w)
        PROVE  Contract!Next
    <3>1. \E l, t \in Time : status[p] = "PENDING" /\ Approve(p, w, l, t)
      BY <2>3 DEF Claims, ClaimProposal, ClaimByConfirmationCode, Claimable
    <3> QED BY <3>1, ApproveStep
  <2>5. CASE /\ \A p \in Proposals, c \in Candidates : ~ CreateProposal(p, c)
             /\ \A p \in Proposals, w \in Workers :
                  ~ FinishPaperAndOpen(p, w) /\ ~ Claims(p, w)
    <3>1. \A q \in Proposals : StatusMove(q)
      BY <2>5, StatusMoves
    <3>2. /\ \A q \in Proposals :
                status'[q] = "EXECUTING" => status[q] = "EXECUTING"
          /\ Filled' = Filled
      BY <2>5, QuietStep
    <3> QED BY <3>1, <3>2, DropStep
  <2> QED BY <2>1, <2>2, <2>3, <2>5
<1> QED
  BY <1>1, <1>2, TypeCorrect, LedgerInvariant, PTL
     DEF Spec, ContractSpec, Contract!Spec

-----------------------------------------------------------------------------
(***************************************************************************)
(* One proposal per candidate.  Nothing makes a candidate ACTIVE again, so *)
(* a candidate that is the source of a proposal cannot become it of        *)
(* another.                                                                *)
(***************************************************************************)
SourceInv ==
    /\ \A p \in Proposals : source[p] # None =>
          candStatus[source[p]] \notin {"ABSENT", "ACTIVE"}
    /\ OneProposalPerCandidate

\* Every step keeps that.
LEMMA SourceStep == TypeOK /\ SourceInv /\ [Next]_vars => SourceInv'
<1> SUFFICES ASSUME TypeOK, SourceInv, [Next]_vars PROVE SourceInv'
  OBVIOUS
<1> USE NoneAssumption
    DEF candidates, terms, leases, outcome, account, TypeOK, SourceInv,
        OneProposalPerCandidate
<1>1. CASE Tick
  BY <1>1 DEF Tick
<1>2. ASSUME NEW c \in Candidates, CandidateStep(c) PROVE SourceInv'
  BY <1>2 DEF CandidateStep, CreateCandidate, DismissCandidate
<1>3. CASE TableStep
  BY <1>3 DEF TableStep, Housekeep, HousekeptCandidates, RejectAllPendingPaper,
     InvalidatePendingLiveEntries, ResetPaperAccount
<1>4. ASSUME NEW p \in Proposals, RowStep(p) PROVE SourceInv'
  <2>1. ASSUME NEW c \in Candidates, CreateProposal(p, c) PROVE SourceInv'
    <3>1. /\ candStatus[c] = "ACTIVE"
          /\ \A r \in Proposals : source'[r] = IF r = p THEN c ELSE source[r]
          /\ \A d \in Candidates : 
               candStatus[d] \notin {"ABSENT", "ACTIVE"} \/ d = c
                 => candStatus'[d] \notin {"ABSENT", "ACTIVE"}
      BY <2>1 DEF CreateProposal, HousekeptCandidates
    <3>2. \A r \in Proposals : source[r] # c
      BY <3>1
    <3> QED BY <3>1, <3>2
  <2>2. UNCHANGED <<candStatus, source>> => SourceInv'
    OBVIOUS
  <2> QED
    BY <1>4, <2>1, <2>2 DEF RowStep, RejectProposal, SetStatus, RejectByPolicy,
       EndWithoutLease, TerminalizePaper, FinishUnresolved, Finish,
       MarkUnreconcilable, ClosePosition
<1>5. ASSUME NEW p \in Proposals, NEW w \in Workers, LeaseStep(p, w)
      PROVE  SourceInv'
  BY <1>5 DEF LeaseStep, ClaimProposal, ClaimByConfirmationCode, Approve,
     FinishExecution, Finish, RecordExecutionSubmitted, FailExecution,
     EndWithoutLease, FinishPaperAndOpen
<1>6. CASE UNCHANGED vars
  BY <1>6 DEF vars
<1> QED BY <1>1, <1>2, <1>3, <1>4, <1>5, <1>6 DEF Next

\* A candidate is the source of at most one proposal, whatever becomes of it.
THEOREM CandidatesAreSpentOnce == Spec => []OneProposalPerCandidate
<1>1. Init => SourceInv
  BY DEF Init, SourceInv, OneProposalPerCandidate
<1>2. SourceInv => OneProposalPerCandidate
  BY DEF SourceInv
<1> QED BY <1>1, <1>2, TypeCorrect, SourceStep, PTL DEF Spec

-----------------------------------------------------------------------------
(***************************************************************************)
(* The daily ceiling on LIVE quote.  Only a claim puts a LIVE proposal     *)
(* among those that count, and it weighs all of them first, unless it      *)
(* weighs those of the day before.  That it no longer does once an         *)
(* approval counts for today: then all its looks at the clock are today.   *)
(***************************************************************************)
LEMMA QuoteIsSum == \A P : QuoteOf(P) = SumFunctionOnSet(Quote, P)
BY DEF QuoteOf, MapThenSumSet, SumFunctionOnSet, FoldFunctionOnSet

\* A set of proposals quotes at least what a part of it does, and one more
\* proposal adds at most its own quote.
LEMMA QuoteLaws ==
    ASSUME NEW P \in SUBSET Proposals
    PROVE  /\ QuoteOf(P) \in Nat
           /\ \A R \in SUBSET P : QuoteOf(R) <= QuoteOf(P)
           /\ \A p \in Proposals : QuoteOf(P \cup {p}) <= QuoteOf(P) + Quote[p]
<1>1. /\ IsFiniteSet(Proposals) /\ IsFiniteSet(P)
      /\ \A p \in Proposals : Quote[p] \in Nat
  BY FS_Subset, LedgerAssumption DEF Proposals
<1>2. QuoteOf(P) \in Nat
  BY <1>1, SumNat, QuoteIsSum
<1>3. ASSUME NEW R \in SUBSET P PROVE QuoteOf(R) <= QuoteOf(P)
  BY <1>1, SumOfPart, QuoteIsSum
<1>4. ASSUME NEW p \in Proposals
      PROVE  QuoteOf(P \cup {p}) <= QuoteOf(P) + Quote[p]
  <2>1. QuoteOf(P \cup {p}) = QuoteOf(P)
          \/ QuoteOf(P \cup {p}) = QuoteOf(P) + Quote[p]
    <3>1. \A y \in P \cup {p} : Quote[y] \in Int
      BY <1>1
    <3>2. SumFunctionOnSet(Quote, P \cup {p})
            = IF p \in P THEN SumFunctionOnSet(Quote, P)
              ELSE SumFunctionOnSet(Quote, P) + Quote[p]
      BY <1>1, <3>1, SumJoin
    <3> QED BY <3>2, QuoteIsSum
  <2> QED BY <1>1, <1>2, <2>1
<1> QED BY <1>2, <1>3, <1>4

\* Later moments belong to the same or to a later day.
LEMMA DaysAreOrdered ==
    ASSUME NEW a \in Nat, NEW b \in Nat, a <= b
    PROVE  DayOf(a) <= DayOf(b) /\ DayOf(a) \in Nat
<1> DEFINE x == (a + SinceMidnight) \div DayLength
           y == (b + SinceMidnight) \div DayLength
           L == DayLength
<1>1. L \in Nat /\ L > 0 /\ SinceMidnight \in Nat
  BY LedgerAssumption
<1>2. /\ x \in Nat /\ y \in Nat
      /\ L * x <= a + SinceMidnight /\ a + SinceMidnight < L * x + L
      /\ L * y <= b + SinceMidnight /\ b + SinceMidnight < L * y + L
  BY <1>1
<1> HIDE DEF x, y, L
<1>3. x <= y
  <2> SUFFICES ASSUME y + 1 <= x PROVE FALSE
    BY <1>2
  <2>1. L * (y + 1) <= L * x
    BY <1>1, <1>2
  <2>2. L * (y + 1) = L * y + L
    BY <1>1, <1>2
  <2> QED BY <1>1, <1>2, <2>1, <2>2
<1> QED BY <1>2, <1>3 DEF DayOf, x, y

\* A moment LockWait or more into a day, less LockWait, is on the same day.
LEMMA SameDay ==
    ASSUME NEW a \in Nat, NEW l \in Nat, NEW d \in Nat, NEW t \in Nat,
           (a + SinceMidnight) % DayLength >= LockWait,
           a <= l + LockWait, l <= d, d <= t, DayOf(t) = DayOf(a)
    PROVE  DayOf(d) = DayOf(a)
<1> DEFINE x == (a + SinceMidnight) \div DayLength
           y == (l + SinceMidnight) \div DayLength
           r == (a + SinceMidnight) % DayLength
           L == DayLength
<1>1. L \in Nat /\ L > 0 /\ SinceMidnight \in Nat /\ LockWait \in Nat
  BY LedgerAssumption
<1>2. /\ x \in Nat /\ y \in Nat /\ r \in Nat
      /\ a + SinceMidnight = L * x + r
      /\ L * y <= l + SinceMidnight /\ l + SinceMidnight < L * y + L
  BY <1>1
<1>3. r >= LockWait
  OBVIOUS
<1> HIDE DEF x, y, r, L
<1>4. L * x <= l + SinceMidnight
  BY <1>1, <1>2, <1>3
<1>5. x <= y
  <2> SUFFICES ASSUME y + 1 <= x PROVE FALSE
    BY <1>2
  <2>1. L * (y + 1) <= L * x
    BY <1>1, <1>2
  <2>2. L * (y + 1) = L * y + L
    BY <1>1, <1>2
  <2> QED BY <1>1, <1>2, <1>4, <2>1, <2>2
<1>6. DayOf(a) <= DayOf(l) /\ DayOf(a) \in Nat /\ DayOf(l) \in Nat
  BY <1>2, <1>5 DEF DayOf, x, y
<1>7. DayOf(l) <= DayOf(d) /\ DayOf(d) <= DayOf(t) /\ DayOf(d) \in Nat /\ DayOf(t) \in Nat
  BY DaysAreOrdered
<1> QED BY <1>6, <1>7

\* Only a claim dates an approval.
LEMMA ApprovalsKept ==
    ASSUME [Next]_vars,
           \A p \in Proposals, w \in Workers : ~ Claims(p, w)
    PROVE  approvedAt' = approvedAt
<1>1. ASSUME NEW p \in Proposals, RowStep(p) PROVE approvedAt' = approvedAt
  BY <1>1 DEF RowStep, CreateProposal, RejectProposal, SetStatus, RejectByPolicy,
     EndWithoutLease, TerminalizePaper, FinishUnresolved, Finish,
     MarkUnreconcilable, ClosePosition
<1>2. ASSUME NEW p \in Proposals, NEW w \in Workers, LeaseStep(p, w)
      PROVE  approvedAt' = approvedAt
  BY <1>2 DEF LeaseStep, Claims, FinishExecution, Finish, RecordExecutionSubmitted,
     FailExecution, EndWithoutLease, FinishPaperAndOpen
<1>3. CASE Tick \/ TableStep \/ \E c \in Candidates : CandidateStep(c)
  BY <1>3 DEF Tick, TableStep, Housekeep, RejectAllPendingPaper,
     InvalidatePendingLiveEntries, ResetPaperAccount, CandidateStep,
     CreateCandidate, DismissCandidate
<1>4. CASE UNCHANGED vars
  BY <1>4 DEF vars
<1> QED BY <1>1, <1>2, <1>3, <1>4 DEF Next

\* The approvals on record are past, and the ceiling holds where it is promised.
QuotaInv ==
    /\ LiveQuotaRespected
    /\ \A p \in Proposals : approvedAt[p] # None => approvedAt[p] <= now

\* A step approves one proposal, at a moment it has seen, or none.
LEMMA ApprovalsArePast ==
    ASSUME TypeOK, QuotaInv, [Next]_vars
    PROVE  \A p \in Proposals : (approvedAt[p] # None => approvedAt[p] <= now)'
<1>1. now \in Nat /\ now' \in {now, now + 1}
  <2>1. now \in Nat
    BY DEF TypeOK, Time
  <2>2. ASSUME NEW p \in Proposals, RowStep(p) PROVE now' = now
    BY <2>2 DEF RowStep, CreateProposal, RejectProposal, SetStatus, RejectByPolicy,
       EndWithoutLease, TerminalizePaper, FinishUnresolved, Finish,
       MarkUnreconcilable, ClosePosition
  <2>3. ASSUME NEW p \in Proposals, NEW w \in Workers, LeaseStep(p, w)
        PROVE  now' = now
    BY <2>3 DEF LeaseStep, ClaimProposal, ClaimByConfirmationCode, Approve,
       FinishExecution, Finish, RecordExecutionSubmitted, FailExecution,
       EndWithoutLease, FinishPaperAndOpen
  <2>4. Tick => now' = now + 1
    BY DEF Tick
  <2>5. TableStep => now' = now
    BY DEF TableStep, Housekeep, RejectAllPendingPaper,
       InvalidatePendingLiveEntries, ResetPaperAccount
  <2>6. ASSUME NEW c \in Candidates, CandidateStep(c) PROVE now' = now
    BY <2>6 DEF CandidateStep, CreateCandidate, DismissCandidate
  <2> QED BY <2>1, <2>2, <2>3, <2>4, <2>5, <2>6 DEF Next, vars
<1>2. CASE \A p \in Proposals, w \in Workers : ~ Claims(p, w)
  <2>1. approvedAt' = approvedAt
    BY <1>2, ApprovalsKept
  <2> QED BY <1>1, <2>1, NoneAssumption DEF QuotaInv, TypeOK, Time
<1>3. ASSUME NEW q \in Proposals, NEW w \in Workers, Claims(q, w)
      PROVE  \A p \in Proposals : (approvedAt[p] # None => approvedAt[p] <= now)'
  <2>1. PICK l \in Time, t \in Time : t <= now /\ Approve(q, w, l, t)
    BY <1>3 DEF Claims, ClaimProposal, ClaimByConfirmationCode, Claimable
  <2> QED BY <2>1 DEF Approve, QuotaInv, TypeOK
<1> QED BY <1>2, <1>3

\* Without a claim of a LIVE proposal nothing new counts.
LEMMA CountedShrinks ==
    ASSUME TypeOK, LedgerInv, [Next]_vars, NEW d,
           \A p \in LiveProposals, w \in Workers : ~ Claims(p, w)
    PROVE  /\ Committing(d)' \subseteq Committing(d)
           /\ \A p \in LiveProposals : approvedAt'[p] = approvedAt[p]
<1>1. ASSUME NEW q \in LiveProposals PROVE approvedAt'[q] = approvedAt[q]
  <2>1. CASE \A p \in Proposals, w \in Workers : ~ Claims(p, w)
    BY <2>1, ApprovalsKept
  <2>2. ASSUME NEW p \in PaperProposals, NEW w \in Workers, Claims(p, w)
        PROVE  approvedAt'[q] = approvedAt[q]
    <3>1. \E l, t \in Time : Approve(p, w, l, t)
      BY <2>2 DEF Claims, ClaimProposal, ClaimByConfirmationCode
    <3>2. p # q
      BY LedgerAssumption
    <3> QED BY <3>1, <3>2 DEF Approve, TypeOK, Proposals
  <2> QED BY <2>1, <2>2 DEF Proposals
<1>2. ASSUME NEW q \in Committing(d)' PROVE q \in Committing(d)
  <2>1. /\ q \in LiveProposals /\ q \in Proposals
        /\ status'[q] \in {"EXECUTING", "EXECUTED"}
        /\ approvedAt'[q] # None /\ DayOf(approvedAt'[q]) = d
    BY DEF Committing, ApprovedOn, Proposals
  <2>2. approvedAt'[q] = approvedAt[q]
    BY <1>1, <2>1
  <2>3. status[q] \in {"EXECUTING", "EXECUTED"}
    <3>1. CASE \A p \in Proposals, c \in Candidates : ~ CreateProposal(p, c)
      BY <2>1, <2>2, <3>1, StatusMoves DEF StatusMove, LedgerInv, RowInv
    <3>2. ASSUME NEW p \in Proposals, NEW c \in Candidates, CreateProposal(p, c)
          PROVE  status[q] \in {"EXECUTING", "EXECUTED"}
      BY <2>1, <3>2, CreationMoves
    <3> QED BY <3>1, <3>2
  <2> QED BY <2>1, <2>2, <2>3 DEF Committing, ApprovedOn
<1> QED BY <1>1, <1>2

\* A claim of a LIVE proposal leaves a day on which an approval counts as it was,
\* or has weighed it: D is such a day, the day of p's approval after the step.
LEMMA ClaimWeighs ==
    ASSUME TypeOK, LedgerInv, QuotaInv, [Next]_vars, NEW q \in LiveProposals,
           NEW w \in Workers, NEW l \in Time, NEW d \in Time, NEW t \in Time,
           ClaimProposal(q, w, l, d, t),
           NEW p \in LiveProposals, CountsToday(p)',
           NEW D, D = DayOf(approvedAt'[p])
    PROVE  \/ QuoteOf(Committing(D)') <= MaxDailyQuote
           \/ /\ approvedAt'[p] = approvedAt[p]
              /\ Committing(D)' = Committing(D)
<1> DEFINE a == approvedAt'[p]
<1>1. /\ p \in Proposals /\ q \in Proposals
      /\ l <= d /\ d <= t /\ t <= now /\ now <= l + LockWait
      /\ now' = now /\ Approve(q, w, l, t) /\ status[q] = "PENDING"
      /\ CommittedOn(DayOf(d)) + Quote[q] <= MaxDailyQuote
  BY DEF ClaimProposal, Claimable, Approve, Proposals
<1>2. /\ approvedAt'[q] = t /\ status'[q] = "EXECUTING"
      /\ \A r \in Proposals \ {q} : approvedAt'[r] = approvedAt[r] /\ status'[r] = status[r]
  BY <1>1 DEF Approve, TypeOK
<1>3. /\ a \in Nat /\ a <= now /\ (a + SinceMidnight) % DayLength >= LockWait
      /\ now \in Nat /\ l \in Nat /\ d \in Nat /\ t \in Nat
  <2>1. /\ now \in Nat /\ l \in Nat /\ d \in Nat /\ t \in Nat /\ t \in Time
    BY DEF TypeOK, Time
  <2>2. a # None /\ (a + SinceMidnight) % DayLength >= LockWait
    BY DEF CountsToday
  <2>3. CASE p = q
    BY <1>1, <1>2, <2>1, <2>2, <2>3
  <2>4. CASE p # q
    <3>1. a = approvedAt[p]
      BY <1>1, <1>2, <2>4
    <3>2. a <= now /\ a \in Time
      BY <1>1, <2>2, <3>1 DEF QuotaInv, TypeOK
    <3> QED BY <2>1, <2>2, <3>2 DEF Time
  <2> QED BY <2>3, <2>4
<1>4. CASE DayOf(t) = D
  <2> DEFINE All == ApprovedOn({"EXECUTING", "EXECUTED", "RECONCILE"}, D)
  <2>1. a <= l + LockWait
    BY <1>1, <1>3, LedgerAssumption
  <2>2. DayOf(d) = D
    BY <1>1, <1>3, <1>4, <2>1, SameDay
  <2>3. QuoteOf(All) + Quote[q] <= MaxDailyQuote
    BY <1>1, <2>2 DEF CommittedOn
  <2>4. Committing(D)' \subseteq All \cup {q}
    BY <1>2 DEF Committing, ApprovedOn
  <2>5. All \in SUBSET Proposals /\ (All \cup {q}) \in SUBSET Proposals
    BY <1>1 DEF ApprovedOn
  <2>6. /\ QuoteOf(Committing(D)') <= QuoteOf(All \cup {q})
        /\ QuoteOf(All \cup {q}) <= QuoteOf(All) + Quote[q]
        /\ QuoteOf(Committing(D)') \in Nat /\ QuoteOf(All \cup {q}) \in Nat
        /\ QuoteOf(All) \in Nat
    <3> HIDE DEF All
    <3> DEFINE C == Committing(D)'
    <3>1. C \in SUBSET (All \cup {q}) /\ C \in SUBSET Proposals
      BY <2>4, <2>5
    <3> HIDE DEF C
    <3>2. /\ QuoteOf(C) <= QuoteOf(All \cup {q})
          /\ QuoteOf(All \cup {q}) <= QuoteOf(All) + Quote[q]
          /\ QuoteOf(C) \in Nat /\ QuoteOf(All \cup {q}) \in Nat
          /\ QuoteOf(All) \in Nat
      BY <1>1, <2>5, <3>1, QuoteLaws
    <3> QED BY <3>2 DEF C
  <2>7. Quote[q] \in Nat /\ MaxDailyQuote \in Nat
    BY <1>1, LedgerAssumption DEF Proposals
  <2> QED BY <2>3, <2>6, <2>7
<1>5. CASE DayOf(t) # D
  <2>1. p # q
    BY <1>2, <1>5
  <2>2. a = approvedAt[p]
    BY <1>1, <1>2, <2>1
  <2>3. status[q] = "PENDING" => approvedAt[q] = None
    BY <1>1 DEF LedgerInv, RowInv
  <2>4. Committing(D)' = Committing(D)
    BY <1>1, <1>2, <1>5, <2>3 DEF Committing, ApprovedOn
  <2> QED BY <2>2, <2>4
<1> QED BY <1>4, <1>5

\* From a LIVE approval on, LockWait or more into a day, the day's LIVE quote is
\* within the ceiling, for any number of slots and of claims: claim_proposal
\* weighs the day under the write lock, though it chose the day before it.
THEOREM DailyCeiling == Spec => []LiveQuotaRespected
<1>1. Init => QuotaInv
  BY DEF Init, QuotaInv, LiveQuotaRespected, CountsToday, Proposals
<1>2. TypeOK /\ LedgerInv /\ QuotaInv /\ [Next]_vars => QuotaInv'
  <2> SUFFICES ASSUME TypeOK, LedgerInv, QuotaInv, [Next]_vars,
                      NEW p \in LiveProposals, CountsToday(p)',
                      NEW D, D = DayOf(approvedAt'[p])
               PROVE  QuoteOf(Committing(D)') <= MaxDailyQuote
    BY ApprovalsArePast DEF QuotaInv, LiveQuotaRespected, Committing, ApprovedOn
  <2>1. approvedAt'[p] = approvedAt[p] => QuoteOf(Committing(D)) <= MaxDailyQuote
    BY DEF QuotaInv, LiveQuotaRespected, CountsToday, Committing, ApprovedOn
  <2>2. CASE \A q \in LiveProposals, w \in Workers : ~ Claims(q, w)
    <3> DEFINE C == Committing(D)'
    <3>1. approvedAt'[p] = approvedAt[p] /\ C \in SUBSET Committing(D)
      BY <2>2, CountedShrinks
    <3>2. Committing(D) \in SUBSET Proposals /\ C \in SUBSET Proposals
      BY <3>1 DEF Committing, ApprovedOn
    <3> HIDE DEF C
    <3>3. QuoteOf(C) <= QuoteOf(Committing(D))
          /\ QuoteOf(C) \in Nat /\ QuoteOf(Committing(D)) \in Nat
      BY <3>1, <3>2, QuoteLaws
    <3>4. QuoteOf(C) <= MaxDailyQuote
      BY <2>1, <3>1, <3>3, LedgerAssumption
    <3> QED BY <3>4 DEF C
  <2>3. ASSUME NEW q \in LiveProposals, NEW w \in Workers, Claims(q, w)
        PROVE  QuoteOf(Committing(D)') <= MaxDailyQuote
    <3>1. PICK l \in Time, d \in Time, t \in Time : ClaimProposal(q, w, l, d, t)
      BY <2>3, LedgerAssumption DEF Claims, ClaimByConfirmationCode
    <3>2. CASE approvedAt'[p] = approvedAt[p] /\ Committing(D)' = Committing(D)
      BY <2>1, <3>2
    <3> QED BY <3>1, <3>2, ClaimWeighs
  <2> QED BY <2>2, <2>3
<1>3. QuotaInv => LiveQuotaRespected
  BY DEF QuotaInv
<1> QED BY <1>1, <1>2, <1>3, TypeCorrect, LedgerInvariant, PTL DEF Spec

=============================================================================
