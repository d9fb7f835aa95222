-------------------------- MODULE PaperBookProofs --------------------------
(***************************************************************************)
(* Theorems about PaperBook, for every value of its constants: a proposal  *)
(* to close is decided once, and a symbol never has two undecided ones; a  *)
(* partial close is divided fairly and sells what its owner was shown; the *)
(* account balances with what is open and what was realized.               *)
(***************************************************************************)
EXTENDS PaperBook, CloseDivision, SumLaws

-----------------------------------------------------------------------------
Undecided == {"PENDING", "EXECUTING"}
OnClose == {"reject", "approve", "checked", "expired", "claimed", "failing"}

\* What the proofs need of the types.
CloseType ==
    /\ closeStatus \in [Closes -> CloseStatus]
    /\ closeTranche \in [Closes -> Tranches \cup {None}]
    /\ pc \in [Processes -> Pc]
    /\ job \in [Processes -> Tranches \cup Closes \cup {None}]
    /\ \A w \in Processes : /\ pc[w] = "draft" => job[w] \in Tranches
                            /\ pc[w] \in OnClose => job[w] \in Closes

\* Two undecided closes of a symbol are the same.  An undecided close names a
\* tranche, so that its symbol is the one CreateClose looks at.
CloseInv ==
    /\ CloseType
    /\ \A c \in Closes : closeStatus[c] # "ABSENT" => closeTranche[c] \in Tranches
    /\ \A c, d \in Closes :
         /\ closeStatus[c] \in Undecided /\ closeStatus[d] \in Undecided
         /\ SymbolOf[closeTranche[c]] = SymbolOf[closeTranche[d]]
         => c = d

\* The ways a status may go: a step settles undecided closes, claims one that
\* waits, or leaves it alone; the payload stays.
Settles(c) ==
    \/ closeStatus'[c] = closeStatus[c]
    \/ /\ closeStatus[c] \in Undecided
       /\ closeStatus'[c] \in CloseStatus \ {"ABSENT", "PENDING", "EXECUTING"}
    \/ closeStatus[c] = "PENDING" /\ closeStatus'[c] = "EXECUTING"

SettlingStep ==
    /\ closeStatus' \in [Closes -> CloseStatus]
    /\ closeTranche' = closeTranche
    /\ \A c \in Closes : Settles(c)

\* Every step but a creation settles.
LEMMA StepSettles ==
    ASSUME CloseInv, [Next]_vars,
           \A w \in Processes, c \in Closes : \A q : ~ CreateClose(w, c, q)
    PROVE  SettlingStep
<1> USE DEF CloseInv, CloseType, SettlingStep, Settles, CloseStatus, Undecided,
        OnClose, payload
<1>1. CASE Tick
  BY <1>1 DEF Tick
<1>2. ASSUME NEW w \in Processes, Start(w) \/ Stop(w) PROVE SettlingStep
  BY <1>2 DEF Start, Stop
<1>3. ASSUME NEW w \in Processes, MonitorStep(w) \/ EntryStep(w)
      PROVE  SettlingStep
  <2>1. CASE MonitorStep(w)
    <3>1. CASE BeginMonitor(w) \/ EndMonitor(w) \/ \E s \in Symbols : MonitorSkip(w, s)
      BY <3>1 DEF BeginMonitor, MonitorSkip, EndMonitor
    <3>2. ASSUME NEW s \in Symbols, NEW price \in Prices, MonitorExit(w, s, price)
          PROVE  SettlingStep
      BY <3>2 DEF MonitorExit
    <3> QED BY <2>1, <3>1, <3>2 DEF MonitorStep
  <2>2. CASE EntryStep(w)
    BY <2>2 DEF EntryStep, OpenTranche, ResetPaperAccount
  <2> QED BY <1>3, <2>1, <2>2
<1>4. ASSUME NEW w \in Processes, CloseStep(w) PROVE SettlingStep
  <2>1. CASE \/ \E t \in Tranches : BeginDraft(w, t)
             \/ \E c \in Closes : BeginApprove(w, c)
             \/ CheckClose(w) \/ ExecuteRaises(w)
    BY <2>1 DEF BeginDraft, BeginApprove, CheckClose, ExecuteRaises
  <2>2. CASE \/ \E c \in Closes : BeginReject(w, c) \/ FindClose(w, c)
             \/ ExpireCloses(w)
    BY <2>2 DEF BeginReject, FindClose, ExpireCloses, ExpiredCloses, StaleClose
  <2>3. CASE RejectClose(w) \/ TerminalizeClose(w) \/ ClaimClose(w) \/ FailClose(w)
    BY <2>3 DEF RejectClose, TerminalizeClose, ClaimClose, FailClose, SetClose
  <2>4. ASSUME NEW price \in Prices, ExecuteClose(w, price) PROVE SettlingStep
    <3>1. /\ job[w] \in Closes /\ closeStatus[job[w]] = "EXECUTING"
          /\ closeStatus' = [closeStatus EXCEPT ![job[w]] = "EXECUTED"]
          /\ closeTranche' = closeTranche
      BY <2>4 DEF ExecuteClose, Executable, Sell, SetClose
    <3> QED BY <3>1
  <2> QED BY <1>4, <2>1, <2>2, <2>3, <2>4 DEF CloseStep
<1>5. CASE UNCHANGED vars
  BY <1>5 DEF vars
<1> QED BY <1>1, <1>2, <1>3, <1>4, <1>5 DEF Next, ProcessStep

\* Every step leaves each process with the kind of job its place calls for.
LEMMA JobsStep ==
    ASSUME CloseInv, [Next]_vars
    PROVE  /\ pc' \in [Processes -> Pc]
           /\ job' \in [Processes -> Tranches \cup Closes \cup {None}]
           /\ \A w \in Processes : /\ pc'[w] = "draft" => job'[w] \in Tranches
                                   /\ pc'[w] \in OnClose => job'[w] \in Closes
<1> DEFINE Jobs == /\ pc' \in [Processes -> Pc]
                   /\ job' \in [Processes -> Tranches \cup Closes \cup {None}]
                   /\ \A w \in Processes :
                        /\ pc'[w] = "draft" => job'[w] \in Tranches
                        /\ pc'[w] \in OnClose => job'[w] \in Closes
<1> SUFFICES Jobs
  OBVIOUS
<1> USE DEF CloseInv, CloseType, OnClose, Pc
<1>1. ASSUME UNCHANGED <<pc, job>> PROVE Jobs
  BY <1>1
<1>2. ASSUME NEW w \in Processes, NEW view, NEW label \in Pc,
             NEW j \in Tranches \cup Closes \cup {None}, Goto(w, label, j, view),
             label = "draft" => j \in Tranches, label \in OnClose => j \in Closes
      PROVE  Jobs
  BY <1>2 DEF Goto
<1> HIDE DEF Jobs
<1>3. ASSUME NEW w \in Processes, Leave(w) PROVE Jobs
  BY <1>2, <1>3 DEF Leave
<1>4. ASSUME NEW w \in Processes, Start(w) \/ Stop(w) PROVE Jobs
  BY <1>2, <1>3, <1>4 DEF Start, Stop
<1>5. ASSUME NEW w \in Processes, MonitorStep(w) \/ EntryStep(w) PROVE Jobs
  BY <1>1, <1>2, <1>3, <1>5 DEF MonitorStep, EntryStep, BeginMonitor,
     MonitorExit, MonitorSkip, EndMonitor, OpenTranche, ResetPaperAccount
<1>6. ASSUME NEW w \in Processes, CloseStep(w) PROVE Jobs
  <2>1. CASE \/ \E t \in Tranches : BeginDraft(w, t)
             \/ \E c \in Closes :
                  BeginReject(w, c) \/ FindClose(w, c) \/ BeginApprove(w, c)
    BY <1>2, <2>1 DEF BeginDraft, BeginReject, FindClose, BeginApprove
  <2>2. CASE CheckClose(w) \/ ExpireCloses(w) \/ ClaimClose(w) \/ ExecuteRaises(w)
    BY <1>2, <2>2 DEF CheckClose, ExpireCloses, ClaimClose, ExecuteRaises
  <2>3. CASE \/ RejectClose(w) \/ TerminalizeClose(w) \/ FailClose(w)
             \/ \E price \in Prices : ExecuteClose(w, price)
             \/ \E c \in Closes, q \in 1..Sum(seen[w], Tranches) :
                  CreateClose(w, c, q)
    BY <1>3, <2>3 DEF RejectClose, TerminalizeClose, FailClose, ExecuteClose,
       Sell, CreateClose
  <2> QED BY <1>6, <2>1, <2>2, <2>3 DEF CloseStep
<1>7. CASE Tick \/ UNCHANGED vars
  BY <1>1, <1>7 DEF Tick, vars, locals
<1> QED BY <1>4, <1>5, <1>6, <1>7 DEF Next, ProcessStep

\* The invariant is inductive.
LEMMA CloseInvStep == CloseInv /\ [Next]_vars => CloseInv'
<1> SUFFICES ASSUME CloseInv, [Next]_vars PROVE CloseInv'
  OBVIOUS
<1>1. CASE \A w \in Processes, c \in Closes : \A q : ~ CreateClose(w, c, q)
  <2>1. SettlingStep
    BY <1>1, StepSettles
  <2> QED
    BY <2>1, JobsStep DEF CloseInv, CloseType, SettlingStep, Settles, Undecided
<1>2. ASSUME NEW w \in Processes, NEW c \in Closes, NEW q, CreateClose(w, c, q)
      PROVE  CloseInv'
  <2>1. /\ job[w] \in Tranches /\ closeStatus[c] = "ABSENT"
        /\ closeStatus' = [ExpiredCloses EXCEPT ![c] = "PENDING"]
        /\ closeTranche' = [closeTranche EXCEPT ![c] = job[w]]
        /\ Active(SymbolOf[job[w]], ExpiredCloses) = {}
    BY <1>2 DEF CreateClose, CloseInv, CloseType
  <2>2. /\ ExpiredCloses \in [Closes -> CloseStatus]
        /\ \A d \in Closes : ExpiredCloses[d] \in {closeStatus[d], "EXPIRED"}
        /\ \A d \in Closes : ExpiredCloses[d] # "ABSENT" => closeStatus[d] # "ABSENT"
    BY DEF ExpiredCloses, StaleClose, CloseInv, CloseType, CloseStatus
  <2>3. \A d \in Closes : ExpiredCloses[d] \in Undecided =>
            SymbolOf[closeTranche[d]] # SymbolOf[job[w]]
    BY <2>1 DEF Active, Undecided
  <2>4. /\ closeStatus' \in [Closes -> CloseStatus]
        /\ closeTranche' \in [Closes -> Tranches \cup {None}]
    BY <2>1, <2>2 DEF CloseInv, CloseType, CloseStatus
  <2>5. \A d \in Closes : closeStatus'[d] # "ABSENT" => closeTranche'[d] \in Tranches
    BY <2>1, <2>2 DEF CloseInv, CloseType
  <2>6. ASSUME NEW d \in Closes, NEW e \in Closes,
               closeStatus'[d] \in Undecided, closeStatus'[e] \in Undecided,
               SymbolOf[closeTranche'[d]] = SymbolOf[closeTranche'[e]]
        PROVE  d = e
    BY <2>1, <2>2, <2>3, <2>6 DEF CloseInv, CloseType, Undecided
  <2> QED BY <2>4, <2>5, <2>6, JobsStep DEF CloseInv, CloseType
<1> QED BY <1>1, <1>2

\* It holds in every reachable state.
THEOREM CloseInvariant == Spec => []CloseInv
<1>1. Init => CloseInv
  BY BookAssumption DEF Init, CloseInv, CloseType, CloseStatus, Pc, OnClose,
     Undecided
<1> QED BY <1>1, CloseInvStep, PTL DEF Spec

\* A symbol never has two undecided proposals to close.
THEOREM OneCloseAtATime == Spec => []OneActiveClose
<1>1. CloseInv => OneActiveClose
  <2> SUFFICES ASSUME CloseInv, NEW s \in Symbols
               PROVE  Cardinality(Active(s, closeStatus)) <= 1
    BY DEF OneActiveClose
  <2>1. CASE Active(s, closeStatus) = {}
    BY <2>1, FS_EmptySet
  <2>2. ASSUME NEW c \in Active(s, closeStatus)
        PROVE  Cardinality(Active(s, closeStatus)) <= 1
    <3>1. Active(s, closeStatus) = {c}
      BY <2>2 DEF Active, CloseInv, Undecided
    <3>2. Cardinality({c}) = 1
      BY FS_Singleton
    <3> QED BY <3>1, <3>2
  <2> QED BY <2>1, <2>2
<1> QED BY <1>1, CloseInvariant, PTL

\* A proposal to close is claimed from PENDING only, and its outcome never
\* changes.
THEOREM ClosesAreFinal == Spec => CloseIsFinal
<1>1. ASSUME CloseInv, [Next]_vars, NEW c \in Closes
      PROVE  /\ closeStatus'[c] = "EXECUTING" /\ closeStatus[c] # "EXECUTING"
                  => closeStatus[c] = "PENDING"
             /\ closeStatus[c] \in {"EXECUTED", "REJECTED", "EXPIRED", "FAILED"}
                  => closeStatus'[c] = closeStatus[c]
  <2>1. CASE \A w \in Processes, d \in Closes : \A q : ~ CreateClose(w, d, q)
    BY <1>1, <2>1, StepSettles DEF SettlingStep, Settles, Undecided
  <2>2. ASSUME NEW w \in Processes, NEW d \in Closes, NEW q, CreateClose(w, d, q)
        PROVE  /\ closeStatus'[c] = "EXECUTING" => closeStatus[c] = "EXECUTING"
               /\ closeStatus[c] \in {"EXECUTED", "REJECTED", "EXPIRED", "FAILED"}
                    => closeStatus'[c] = closeStatus[c]
    BY <1>1, <2>2 DEF CreateClose, ExpiredCloses, StaleClose, CloseInv, CloseType
  <2> QED BY <2>1, <2>2
<1>2. CloseInv /\ [Next]_vars =>
        [\A c \in Closes :
           /\ closeStatus'[c] = "EXECUTING" /\ closeStatus[c] # "EXECUTING"
                => closeStatus[c] = "PENDING"
           /\ closeStatus[c] \in {"EXECUTED", "REJECTED", "EXPIRED", "FAILED"}
                => closeStatus'[c] = closeStatus[c]]_vars
  BY <1>1
<1> QED BY <1>2, CloseInvariant, PTL DEF Spec, CloseIsFinal

-----------------------------------------------------------------------------
(***************************************************************************)
(* The division of a partial close.                                        *)
(***************************************************************************)
LEMMA SumIsSum == \A f, S : Sum(f, S) = SumFunctionOnSet(f, S)
BY DEF Sum, MapThenSumSet, SumFunctionOnSet, FoldFunctionOnSet

LEMMA TotalIsSum == \A h : TotalOf(h) = SumFunctionOnSet(h, DOMAIN h)
BY DEF TotalOf, MapThenSumSet, MapThenFoldSet,
   SumFunctionOnSet, FoldFunctionOnSet, MapThenFoldSet

\* A proportional share is rounded down, by less than a step.
LEMMA BaseIsShare ==
    ASSUME NEW D, NEW h \in [D -> Nat], NEW q \in Nat, NEW t \in D,
           TotalOf(h) \in Nat, 0 < q, q <= TotalOf(h)
    PROVE  /\ Base(h, q, t) \in 0..h[t]
           /\ Base(h, q, t) * TotalOf(h) <= q * h[t]
           /\ q * h[t] < (Base(h, q, t) + Step) * TotalOf(h)
<1> DEFINE T == TotalOf(h)
           k == (q * h[t]) \div (T * Step)
<1>1. Base(h, q, t) = k * Step
  BY DEF Base
<1>2. T \in Nat \ {0} /\ Step \in Nat \ {0} /\ h[t] \in Nat /\ q <= T
  BY StepAssumption
<1> HIDE DEF T
<1>3. T * Step \in Nat \ {0} /\ q * h[t] \in Nat
  BY <1>2
<1>4. /\ k \in Nat
      /\ k * (T * Step) <= q * h[t] /\ q * h[t] < k * (T * Step) + T * Step
  BY <1>3, Division
<1> HIDE DEF k
<1>5. k * (T * Step) = (k * Step) * T /\ k * Step \in Nat
  BY <1>2, <1>4
<1>6. (k * Step) * T + T * Step = (k * Step + Step) * T
  BY <1>2, <1>5
<1>7. q * h[t] <= h[t] * T
  BY <1>2
<1>8. k * Step <= h[t]
  <2>1. (k * Step) * T <= h[t] * T
    BY <1>2, <1>3, <1>4, <1>5, <1>7
  <2> DEFINE b == k * Step
  <2>2. b \in Nat /\ b * T <= h[t] * T
    BY <1>5, <2>1
  <2> HIDE DEF b
  <2>3. b <= h[t]
    BY <1>2, <2>2
  <2> QED BY <2>3 DEF b
<1> QED BY <1>1, <1>4, <1>5, <1>6, <1>8 DEF T

\* An accepted division takes from each tranche its exact proportional share to
\* within one step, and no more than it holds.
LEMMA DivisionIsFair ==
    ASSUME NEW D, IsFiniteSet(D), NEW h \in [D -> Nat], NEW q \in Nat,
           Allocatable(h, q), NEW t \in D
    PROVE  LET given == Allocation(h, q)[t]
               total == TotalOf(h)
           IN  /\ given \in 0..h[t]
               /\ (given - Step) * total <= q * h[t]
               /\ q * h[t] < (given + Step) * total
<1> DEFINE T == TotalOf(h)
           b == Base(h, q, t)
           e == Extra(h, q, t)
           g == Allocation(h, q)[t]
<1>1. DOMAIN h = D /\ \A x \in D : h[x] \in Nat
  OBVIOUS
<1>2. T \in Nat
  BY <1>1, TotalIsSum, SumNat
<1>3. 0 < q /\ q <= T /\ Step \in Nat \ {0} /\ h[t] \in Nat
  BY StepAssumption DEF Allocatable
<1>4. b \in 0..h[t] /\ b * T <= q * h[t] /\ q * h[t] < (b + Step) * T
  BY <1>2, <1>3, BaseIsShare
<1>5. e = 0 \/ (e = Step /\ h[t] - b >= Step)
  BY DEF Extra, HasRoom
<1>6. IF q = T THEN g = h[t] ELSE g = b + e
  BY <1>1 DEF Allocation
<1> HIDE DEF T, b, e, g
<1> SUFFICES g \in 0..h[t] /\ (g - Step) * T <= q * h[t] /\ q * h[t] < (g + Step) * T
  BY DEF T, g
<1>7. CASE q = T
  <2>1. g = h[t]
    BY <1>6, <1>7
  <2>2. (h[t] - Step) * T <= T * h[t] /\ T * h[t] < (h[t] + Step) * T
    BY <1>2, <1>3
  <2> QED BY <1>3, <1>7, <2>1, <2>2
<1>8. CASE q # T /\ e = 0
  <2>1. g = b
    BY <1>4, <1>6, <1>8
  <2>2. (b - Step) * T <= b * T
    BY <1>2, <1>3, <1>4
  <2> QED BY <1>2, <1>3, <1>4, <2>1, <2>2
<1>9. CASE q # T /\ e = Step /\ h[t] - b >= Step
  <2>1. g = b + Step /\ g - Step = b /\ g \in 0..h[t]
    BY <1>3, <1>4, <1>6, <1>9
  <2>2. (b + Step) * T <= (b + Step + Step) * T
    BY <1>2, <1>3, <1>4
  <2>3. (g + Step) * T = (b + Step + Step) * T
    BY <2>1
  <2>4. q * h[t] \in Nat /\ (b + Step) * T \in Nat /\ (b + Step + Step) * T \in Nat
    BY <1>2, <1>3, <1>4
  <2> QED BY <1>4, <2>1, <2>2, <2>3, <2>4
<1> QED BY <1>5, <1>7, <1>8, <1>9

-----------------------------------------------------------------------------
(***************************************************************************)
(* The loop of execute_paper_close.                                        *)
(***************************************************************************)
\* What a partial close may be asked of.
Divisible(h, q) ==
    /\ DOMAIN h \subseteq Nat /\ IsFiniteSet(DOMAIN h)
    /\ h \in [DOMAIN h -> Nat]
    /\ q \in Nat /\ 0 < q /\ q < TotalOf(h)

LEMMA DivisionTypes ==
    ASSUME NEW h, NEW q, Divisible(h, q)
    PROVE  /\ TotalOf(h) \in Nat \ {0} /\ Step \in Nat \ {0}
           /\ Residual(h, q) \in Int
           /\ \A t \in DOMAIN h :
                /\ h[t] \in Nat /\ Base(h, q, t) \in Int
                /\ Remainder(h, q, t) \in Int
                /\ Fraction(h, q, t) = Remainder(h, q, t)
<1> DEFINE D == DOMAIN h
           T == TotalOf(h)
           N == T * Step
           B == [t \in D |-> Base(h, q, t)]
<1>1. D \subseteq Nat /\ IsFiniteSet(D) /\ h \in [D -> Nat] /\ q \in Nat /\ 0 < q /\ q < T
  BY DEF Divisible
<1>2. T \in Nat \ {0} /\ Step \in Nat \ {0}
  <2>1. T \in Nat
    BY <1>1, TotalIsSum, SumNat
  <2> HIDE DEF T
  <2> QED BY <1>1, <2>1, StepAssumption
<1> HIDE DEF T
<1>3. N \in Nat \ {0}
  BY <1>2
<1>4. ASSUME NEW t \in D
      PROVE  /\ h[t] \in Nat /\ Base(h, q, t) \in Int /\ Remainder(h, q, t) \in Int
             /\ Fraction(h, q, t) = Remainder(h, q, t)
  <2> DEFINE x == q * h[t]
             k == x \div N
  <2>1. h[t] \in Nat /\ x \in Nat
    BY <1>1
  <2>2. Base(h, q, t) = k * Step /\ Remainder(h, q, t) = x - (k * Step) * T
        /\ Fraction(h, q, t) = x % N
    BY DEF Base, Remainder, Fraction, T
  <2> HIDE DEF x, N
  <2>3. k \in Int /\ x = N * k + (x % N) /\ x % N \in Int
    BY <1>3, <2>1, QuotientAndRest
  <2> HIDE DEF k
  <2>4. (k * Step) * T = N * k /\ k * Step \in Int /\ (k * Step) * T \in Int
    BY <1>2, <2>3 DEF N
  <2> QED BY <2>1, <2>2, <2>3, <2>4
<1>5. Residual(h, q) \in Int
  <2>1. DOMAIN B = D /\ \A t \in D : B[t] \in Int
    BY <1>4
  <2>2. Residual(h, q) = q - TotalOf(B)
    BY DEF Residual
  <2> HIDE DEF B, D
  <2>3. TotalOf(B) \in Int
    BY <1>1, <2>1, TotalIsSum, SumInt
  <2> QED BY <1>1, <2>2, <2>3
<1> QED BY <1>2, <1>4, <1>5 DEF T

\* The rows are the tranches, each once, in the order of the handout.
LEMMA RowsAreSorted ==
    ASSUME NEW h, NEW q, Divisible(h, q)
    PROVE  LET n == Cardinality(DOMAIN h)
               r == Rows(h, q)
           IN  /\ n \in Nat /\ r \in [1..n -> DOMAIN h]
               /\ \A i, j \in 1..n : i < j => Before(h, q, r[i], r[j])
               /\ \A i, j \in 1..n : r[i] = r[j] => i = j
               /\ \A t \in DOMAIN h : \E i \in 1..n : r[i] = t
<1> DEFINE D == DOMAIN h
           n == Cardinality(D)
           r == Rows(h, q)
           key == [t \in D |-> Remainder(h, q, t)]
<1>1. D \in SUBSET Int /\ D \subseteq Nat /\ IsFiniteSet(D) /\ key \in [D -> Int] /\ n \in Nat
  BY DivisionTypes, FS_CardinalityType DEF Divisible
<1>2. \A u, t \in D : /\ Precedes(key, u, t) <=> Before(h, q, u, t)
                      /\ Served(h, q, u, t) <=> Before(h, q, u, t)
  BY DivisionTypes DEF Precedes, Before, Served
<1> HIDE DEF key
<1>3. PICK s \in [1..n -> D] : \A i, j \in 1..n : i < j => Precedes(key, s[i], s[j])
  BY <1>1, SortedOrderExists
<1> HIDE DEF D, n
<1>4. DOMAIN s = 1..n /\ \A i, j \in DOMAIN s : i < j => Served(h, q, s[i], s[j])
  BY <1>2, <1>3
<1>5. r \in [1..n -> D] /\ \A i, j \in DOMAIN r : i < j => Served(h, q, r[i], r[j])
  <2>1. r = CHOOSE r0 \in [1..n -> D] :
              \A i, j \in DOMAIN r0 : i < j => Served(h, q, r0[i], r0[j])
    BY DEF Rows, D, n
  <2>2. \E r0 \in [1..n -> D] : \A i, j \in DOMAIN r0 : i < j => Served(h, q, r0[i], r0[j])
    BY <1>4
  <2> HIDE DEF r
  <2> QED BY <2>1, <2>2
<1> HIDE DEF r
<1>6. \A i, j \in 1..n : i < j => Before(h, q, r[i], r[j])
  BY <1>2, <1>5
<1>7. \A t \in D : ~ Before(h, q, t, t)
  BY <1>1, DivisionTypes DEF Before, D
<1>8. \A i, j \in 1..n : r[i] = r[j] => i = j
  <2> SUFFICES ASSUME NEW i \in 1..n, NEW j \in 1..n, r[i] = r[j], i # j PROVE FALSE
    OBVIOUS
  <2>1. i < j \/ j < i
    BY <1>1
  <2> QED BY <1>5, <1>6, <1>7, <2>1
<1>9. \A t \in D : \E i \in 1..n : r[i] = t
  <2>1. r \in Injection(1..n, D)
    BY <1>5, <1>8 DEF Injection, IsInjective
  <2>2. IsFiniteSet(1..n) /\ Cardinality(1..n) = n
    BY <1>1, FS_Interval
  <2>3. r \in Surjection(1..n, D)
    BY <1>1, <2>1, <2>2, FS_Injection DEF n
  <2> QED BY <2>3 DEF Surjection
<1> QED BY <1>1, <1>5, <1>6, <1>8, <1>9 DEF D, n, r

\* The turns of the loop.
Turns(h, q, g) ==
    LET n == Cardinality(DOMAIN h)
    IN  /\ g \in [0..n -> [given : [DOMAIN h -> Int], residual : Int]]
        /\ g[0] = [given    |-> [t \in DOMAIN h |-> Base(h, q, t)],
                   residual |-> Residual(h, q)]
        /\ \A i \in 1..n : g[i] = Row(h, g[i - 1], Rows(h, q)[i])

LEMMA LoopRuns ==
    ASSUME NEW h, NEW q, Divisible(h, q)
    PROVE  \E g : Turns(h, q, g) /\ HandOut(h, q) = g[Cardinality(DOMAIN h)]
<1> DEFINE D == DOMAIN h
           n == Cardinality(D)
           r == Rows(h, q)
           S == [given : [D -> Int], residual : Int]
           start == [given |-> [t \in D |-> Base(h, q, t)], residual |-> Residual(h, q)]
           Loop(g) == g = [i \in 0..n |-> IF i = 0 THEN start ELSE Row(h, g[i - 1], r[i])]
           step == [x \in S \X (1..n) |-> Row(h, x[1], r[x[2]])]
<1>1. n \in Nat /\ r \in [1..n -> D]
  BY RowsAreSorted
<1>2. start \in S
  BY DivisionTypes
<1>3. HandOut(h, q) = (CHOOSE g : Loop(g))[n]
  BY DEF HandOut
<1>4. ASSUME NEW acc \in S, NEW t \in D PROVE Row(h, acc, t) \in S
  BY StepAssumption DEF Row
<1> HIDE DEF n, r, D, start
<1>5. step \in [S \X (1..n) -> S]
  <2> SUFFICES ASSUME NEW x \in S \X (1..n) PROVE Row(h, x[1], r[x[2]]) \in S
    OBVIOUS
  <2>1. x[1] \in S /\ r[x[2]] \in D
    BY <1>1
  <2> HIDE DEF S
  <2> QED BY <1>4, <2>1
<1> HIDE DEF S
<1>6. PICK g : RunsBy(g, n, S, start, step)
  <2> HIDE DEF step
  <2>1. n \in Nat /\ start \in S /\ step \in [S \X (1..n) -> S]
    BY <1>1, <1>2, <1>5
  <2> QED BY <2>1, RecursionExists
<1>7. \A i \in 1..n : i - 1 \in 0..n /\ g[i - 1] \in S
                      /\ step[<<g[i - 1], i>>] = Row(h, g[i - 1], r[i])
  <2> SUFFICES ASSUME NEW i \in 1..n
               PROVE  i - 1 \in 0..n /\ g[i - 1] \in S
                      /\ step[<<g[i - 1], i>>] = Row(h, g[i - 1], r[i])
    OBVIOUS
  <2>1. i - 1 \in 0..n
    BY <1>1
  <2>2. g[i - 1] \in S
    BY <1>6, <2>1 DEF RunsBy
  <2>3. <<g[i - 1], i>> \in S \X (1..n)
    BY <2>2
  <2> QED BY <2>1, <2>2, <2>3
<1> HIDE DEF step
<1>8. Loop(g)
  <2> DEFINE f == [i \in 0..n |-> IF i = 0 THEN start ELSE Row(h, g[i - 1], r[i])]
  <2>1. \A i \in 0..n : g[i] = f[i]
    <3> TAKE i \in 0..n
    <3>1. i = 0 \/ i \in 1..n
      BY <1>1
    <3>2. g[0] = start /\ \A k \in 1..n : g[k] = step[<<g[k - 1], k>>]
      BY <1>6 DEF RunsBy
    <3> QED BY <1>7, <3>1, <3>2
  <2>2. g = f
    BY <1>6, <2>1 DEF RunsBy
  <2> QED BY <2>2
<1> DEFINE c == CHOOSE f : Loop(f)
<1>9. Loop(c)
  <2> HIDE DEF Loop
  <2> QED BY <1>8
<1> HIDE DEF c
<1>10. c = g
  <2>1. /\ DOMAIN c = 0..n /\ DOMAIN g = 0..n
        /\ c[0] = start /\ g[0] = start
        /\ \A i \in 1..n : c[i] = Row(h, c[i - 1], r[i]) /\ g[i] = Row(h, g[i - 1], r[i])
    BY <1>1, <1>8, <1>9
  <2>2. \A i \in 0..n : c[i] = g[i]
    <3>1. GoAlike(c, g, n)
      BY <2>1 DEF GoAlike
    <3>2. n \in Nat
      BY <1>1
    <3> HIDE DEF Loop
    <3> QED BY <3>1, <3>2, RunsAlike
  <2>3. c = [i \in 0..n |-> c[i]] /\ g = [i \in 0..n |-> g[i]]
    BY <1>6, <1>9 DEF RunsBy
  <2> QED BY <2>2, <2>3
<1>11. Turns(h, q, g)
  <2>1. g[0] = start /\ \A i \in 1..n : g[i] = Row(h, g[i - 1], r[i])
    BY <1>1, <1>8
  <2> QED BY <1>6, <2>1 DEF RunsBy, Turns, S, start, n, D, r
<1>12. HandOut(h, q) = g[n]
  BY <1>3, <1>10 DEF c
<1> QED BY <1>11, <1>12 DEF n, D

\* After i turns: the first i rows have what the allocation gives them, the
\* others their rounded share; the residual is what is left of it as long as it
\* makes a step; nothing is lost.
Roomy(h, q, i) ==
    {t \in DOMAIN h : HasRoom(h, q, t) /\ \E k \in 1..i : Rows(h, q)[k] = t}

AfterTurns(h, q, acc, i) ==
    LET r    == Rows(h, q)
        left == Residual(h, q) - Cardinality(Roomy(h, q, i)) * Step
    IN  /\ \A k \in 1..Cardinality(DOMAIN h) :
             acc.given[r[k]] = Base(h, q, r[k]) + IF k <= i THEN Extra(h, q, r[k]) ELSE 0
        /\ acc.residual >= Step => acc.residual = left
        /\ acc.residual < Step => left < Step
        /\ SumFunctionOnSet(acc.given, DOMAIN h) + acc.residual = q

LEMMA RoomyGrows ==
    ASSUME NEW h, NEW q, Divisible(h, q), NEW i \in 1..Cardinality(DOMAIN h)
    PROVE  LET t == Rows(h, q)[i]
           IN  /\ Cardinality(Roomy(h, q, i - 1)) \in Nat
               /\ Roomy(h, q, i - 1) = Ahead(h, q, t)
               /\ Cardinality(Roomy(h, q, i))
                    = Cardinality(Roomy(h, q, i - 1)) + IF HasRoom(h, q, t) THEN 1 ELSE 0
<1> DEFINE D == DOMAIN h
           n == Cardinality(D)
           r == Rows(h, q)
           t == r[i]
           P == Roomy(h, q, i - 1)
<1>1. /\ n \in Nat /\ r \in [1..n -> D]
      /\ \A k, j \in 1..n : k < j => Before(h, q, r[k], r[j])
      /\ \A k, j \in 1..n : r[k] = r[j] => k = j
      /\ \A u \in D : \E k \in 1..n : r[k] = u
  BY RowsAreSorted
<1>2. P \in SUBSET D /\ IsFiniteSet(P) /\ Cardinality(P) \in Nat
  BY FS_Subset, FS_CardinalityType DEF Divisible, Roomy
<1>3. t \in D /\ i \in 1..n
  BY <1>1
<1> HIDE DEF n
<1>4. t \notin P
  BY <1>1, <1>3 DEF Roomy
<1>5. Roomy(h, q, i) = P \cup (IF HasRoom(h, q, t) THEN {t} ELSE {})
  <2>1. \A k : k \in 1..i <=> k = i \/ k \in 1..(i - 1)
    BY <1>1, <1>3
  <2> QED BY <1>3, <2>1 DEF Roomy
<1>6. P = Ahead(h, q, t)
  <2>1. ASSUME NEW u \in D PROVE (\E k \in 1..(i - 1) : r[k] = u) <=> Before(h, q, u, t)
    <3>1. PICK k \in 1..n : r[k] = u
      BY <1>1
    <3>2. k < i => Before(h, q, u, t)
      BY <1>1, <1>3, <3>1
    <3>3. ~ (Before(h, q, u, t) /\ Before(h, q, t, u)) /\ ~ Before(h, q, t, t)
      BY <1>3, <2>1, DivisionTypes DEF Before, Divisible
    <3>4. ~ (k < i) => ~ Before(h, q, u, t)
      <4>1. ~ (k < i) => k = i \/ i < k
        BY <1>1, <1>3, <3>1
      <4>2. i < k => Before(h, q, t, u)
        BY <1>1, <1>3, <3>1
      <4> QED BY <3>1, <3>3, <4>1, <4>2
    <3>5. (\E j \in 1..(i - 1) : r[j] = u) <=> k < i
      <4>1. k < i => k \in 1..(i - 1)
        BY <1>1, <1>3, <3>1
      <4>2. \A j \in 1..(i - 1) : j \in 1..n /\ j < i
        BY <1>1, <1>3
      <4> QED BY <1>1, <3>1, <4>1, <4>2
    <3> QED BY <3>2, <3>4, <3>5
  <2> QED BY <2>1 DEF Roomy, Ahead
<1> HIDE DEF P, t
<1>7. Cardinality(P \cup {t}) = Cardinality(P) + 1
  BY <1>2, <1>4, FS_AddElement
<1>8. P \cup {} = P
  OBVIOUS
<1>9. Cardinality(Roomy(h, q, i)) = Cardinality(P) + IF HasRoom(h, q, t) THEN 1 ELSE 0
  <2>1. CASE HasRoom(h, q, t)
    BY <1>5, <1>7, <2>1
  <2>2. CASE ~ HasRoom(h, q, t)
    <3>1. Roomy(h, q, i) = P
      BY <1>5, <1>8, <2>2
    <3> QED BY <1>2, <2>2, <3>1
  <2> QED BY <2>1, <2>2
<1> QED BY <1>2, <1>6, <1>9 DEF P, t

LEMMA LoopStarts ==
    ASSUME NEW h, NEW q, Divisible(h, q), NEW g, Turns(h, q, g)
    PROVE  AfterTurns(h, q, g[0], 0)
<1> DEFINE D == DOMAIN h
           n == Cardinality(D)
           r == Rows(h, q)
           B == [t \in D |-> Base(h, q, t)]
<1>1. n \in Nat /\ r \in [1..n -> D]
  BY RowsAreSorted
<1>2. g[0].given = B /\ g[0].residual = Residual(h, q)
  BY DEF Turns
<1>3. Roomy(h, q, 0) = {} /\ Cardinality({}) = 0
  BY FS_EmptySet DEF Roomy
<1>4. Step \in Nat /\ Residual(h, q) \in Int /\ \A t \in D : B[t] \in Int
  BY DivisionTypes
<1>5. Residual(h, q) = q - SumFunctionOnSet(B, D)
  <2>1. DOMAIN B = D
    OBVIOUS
  <2> QED BY <2>1, TotalIsSum DEF Residual
<1>6. SumFunctionOnSet(B, D) \in Int /\ q \in Int
  BY <1>4, SumInt DEF Divisible
<1>7. \A k \in 1..n : B[r[k]] = Base(h, q, r[k]) + IF k <= 0 THEN Extra(h, q, r[k]) ELSE 0
  <2> TAKE k \in 1..n
  <2>1. r[k] \in D /\ ~ (k <= 0)
    BY <1>1
  <2> HIDE DEF r, n, D
  <2>2. B[r[k]] = Base(h, q, r[k]) /\ B[r[k]] \in Int
    BY <1>4, <2>1
  <2> QED BY <2>1, <2>2
<1> HIDE DEF B, r, n
<1>8. Residual(h, q) - Cardinality(Roomy(h, q, 0)) * Step = g[0].residual
  <2> DEFINE c == Cardinality(Roomy(h, q, 0))
             R == Residual(h, q)
  <2>1. c = 0 /\ R \in Int /\ Step \in Nat /\ g[0].residual = R
    BY <1>2, <1>3, <1>4
  <2> HIDE DEF c, R
  <2>2. R - c * Step = R
    BY <2>1
  <2> QED BY <2>1, <2>2 DEF c, R
<1>9. g[0].residual \in Int /\ SumFunctionOnSet(g[0].given, D) + g[0].residual = q
  BY <1>2, <1>4, <1>5, <1>6
<1>10. \A k \in 1..n : g[0].given[r[k]]
                          = Base(h, q, r[k]) + IF k <= 0 THEN Extra(h, q, r[k]) ELSE 0
  BY <1>2, <1>7
<1> QED BY <1>8, <1>9, <1>10 DEF AfterTurns, r, n

LEMMA LoopTurns ==
    ASSUME NEW h, NEW q, Divisible(h, q), NEW g, Turns(h, q, g),
           NEW i \in 1..Cardinality(DOMAIN h), AfterTurns(h, q, g[i - 1], i - 1)
    PROVE  AfterTurns(h, q, g[i], i)
<1> DEFINE D == DOMAIN h
           n == Cardinality(D)
           r == Rows(h, q)
           t == r[i]
           old == g[i - 1]
           new == g[i]
           c == Cardinality(Roomy(h, q, i - 1))
           c2 == Cardinality(Roomy(h, q, i))
           R == Residual(h, q)
<1>1. /\ n \in Nat /\ r \in [1..n -> D]
      /\ \A k, j \in 1..n : r[k] = r[j] => k = j
      /\ t \in D /\ i \in 1..n /\ IsFiniteSet(D)
  <2>1. /\ n \in Nat /\ r \in [1..n -> D]
        /\ \A k, j \in 1..n : r[k] = r[j] => k = j
    BY RowsAreSorted
  <2> QED BY <2>1 DEF Divisible
<1>2. /\ old.given \in [D -> Int] /\ old.residual \in Int
      /\ new = Row(h, old, t)
  <2>1. i - 1 \in 0..n
    BY <1>1
  <2>2. /\ old \in [given : [D -> Int], residual : Int]
        /\ new = Row(h, old, t)
    BY <1>1, <2>1 DEF Turns
  <2> QED BY <2>2
<1>3. /\ \A k \in 1..n : old.given[r[k]]
                           = Base(h, q, r[k]) + IF k <= i - 1 THEN Extra(h, q, r[k]) ELSE 0
      /\ old.residual >= Step => old.residual = R - c * Step
      /\ old.residual < Step => R - c * Step < Step
      /\ SumFunctionOnSet(old.given, D) + old.residual = q
  BY DEF AfterTurns
<1>4. /\ c \in Nat /\ c = Cardinality(Ahead(h, q, t))
      /\ c2 = c + IF HasRoom(h, q, t) THEN 1 ELSE 0
  BY RoomyGrows
<1>5. /\ Step \in Nat \ {0} /\ R \in Int /\ h[t] \in Nat /\ q \in Int
      /\ \A u \in D : Base(h, q, u) \in Int
  BY <1>1, DivisionTypes DEF Divisible
<1>6. \A u \in D : Extra(h, q, u) \in Int
  BY <1>5 DEF Extra
<1> HIDE DEF n, D, r, old, new, c, c2, R
<1>7. old.given[t] = Base(h, q, t)
  <2>1. ~ (i <= i - 1)
    BY <1>1
  <2> QED BY <1>1, <1>3, <1>5, <2>1
<1> DEFINE taken == old.residual >= Step /\ HasRoom(h, q, t)
           gain == IF taken THEN Step ELSE 0
<1>8. Extra(h, q, t) = gain
  <2>1. old.residual >= Step <=> R - c * Step >= Step
    <3>1. R - c * Step \in Int
      BY <1>4, <1>5
    <3> QED BY <1>2, <1>3, <1>5, <3>1
  <2> QED BY <1>4, <2>1 DEF Extra, R
<1>9. /\ new.given \in [D -> Int]
      /\ new.given[t] = old.given[t] + gain
      /\ \A u \in D \ {t} : new.given[u] = old.given[u]
      /\ new.residual = old.residual - gain
  <2>1. taken <=> old.residual >= Step /\ h[t] - old.given[t] >= Step
    BY <1>7 DEF HasRoom
  <2>2. CASE taken
    <3>1. /\ new.given = [old.given EXCEPT ![t] = @ + Step]
          /\ new.residual = old.residual - Step
      BY <1>2, <2>1, <2>2 DEF Row
    <3> HIDE DEF taken
    <3>2. old.given \in [D -> Int] /\ t \in D /\ gain = Step /\ Step \in Int
      BY <1>1, <1>2, <1>5, <2>2
    <3> HIDE DEF t, gain
    <3> QED BY <3>1, <3>2
  <2>3. CASE ~ taken
    <3>1. new = old
      BY <1>2, <2>1, <2>3 DEF Row
    <3>2. old.given[t] \in Int
      BY <1>1, <1>2
    <3> QED BY <1>2, <2>3, <3>1, <3>2
  <2> QED BY <2>2, <2>3
<1>10. gain \in Int /\ gain \in {0, Step}
  BY <1>5
<1>11. \A k \in 1..n : new.given[r[k]]
                         = Base(h, q, r[k]) + IF k <= i THEN Extra(h, q, r[k]) ELSE 0
  <2> TAKE k \in 1..n
  <2> HIDE DEF gain
  <2>1. r[k] \in D /\ Base(h, q, r[k]) \in Int /\ Extra(h, q, r[k]) \in Int
    BY <1>1, <1>5, <1>6
  <2>2. CASE k = i
    <3>1. new.given[t] = Base(h, q, t) + Extra(h, q, t) /\ k <= i
      BY <1>1, <1>7, <1>8, <1>9, <2>2
    <3> QED BY <2>2, <3>1
  <2>3. CASE k # i
    <3>1. r[k] # t /\ (k <= i <=> k <= i - 1)
      BY <1>1, <2>3
    <3>2. new.given[r[k]] = old.given[r[k]]
      BY <1>9, <2>1, <3>1
    <3> QED BY <1>3, <3>1, <3>2
  <2> QED BY <2>2, <2>3
<1>12. SumFunctionOnSet(new.given, D) + new.residual = q
  <2> HIDE DEF gain, t
  <2>1. \A u \in D : old.given[u] \in Int /\ new.given[u] \in Int
    BY <1>2, <1>9
  <2>2. IsFiniteSet(D \ {t}) /\ D \ {t} \subseteq D
    BY <1>1, FS_Subset
  <2>3. /\ SumFunctionOnSet(old.given, D)
             = old.given[t] + SumFunctionOnSet(old.given, D \ {t})
        /\ SumFunctionOnSet(new.given, D)
             = new.given[t] + SumFunctionOnSet(new.given, D \ {t})
    BY <1>1, <2>1, SumPick
  <2>4. SumFunctionOnSet(new.given, D \ {t}) = SumFunctionOnSet(old.given, D \ {t})
    BY <1>9, <2>1, <2>2, SumSame
  <2>5. SumFunctionOnSet(old.given, D \ {t}) \in Int
    BY <2>1, <2>2, SumInt
  <2>6. old.given[t] \in Int
    BY <1>1, <2>1
  <2> QED BY <1>2, <1>3, <1>9, <1>10, <2>3, <2>4, <2>5, <2>6
<1>13. /\ new.residual >= Step => new.residual = R - c2 * Step
       /\ new.residual < Step => R - c2 * Step < Step
  <2>1. c * Step \in Int /\ (c + 1) * Step = c * Step + Step
    <3>1. c \in Int /\ Step \in Int
      BY <1>4, <1>5
    <3> QED BY <3>1
  <2> DEFINE x == c * Step
             y == c2 * Step
  <2>2. y = IF HasRoom(h, q, t) THEN x + Step ELSE x
    BY <1>4, <2>1
  <2> HIDE DEF x, y
  <2>3. /\ x \in Int
        /\ old.residual >= Step => old.residual = R - x
        /\ old.residual < Step => R - x < Step
    BY <1>3, <2>1 DEF x
  <2>4. /\ new.residual >= Step => new.residual = R - y
        /\ new.residual < Step => R - y < Step
    BY <1>2, <1>5, <1>9, <2>2, <2>3
  <2> QED BY <2>4 DEF y
<1>14. /\ \A k \in 1..n : g[i].given[r[k]]
                           = Base(h, q, r[k]) + IF k <= i THEN Extra(h, q, r[k]) ELSE 0
       /\ g[i].residual >= Step => g[i].residual = R - c2 * Step
       /\ g[i].residual < Step => R - c2 * Step < Step
       /\ SumFunctionOnSet(g[i].given, D) + g[i].residual = q
  BY <1>11, <1>12, <1>13 DEF new
<1> QED BY <1>14 DEF AfterTurns, n, D, r, c2, R

\* The loop hands out what the allocation gives, and leaves a residual exactly
\* when the allocation is not the whole amount.
LEMMA LoopAgrees ==
    ASSUME NEW h, NEW q, Divisible(h, q)
    PROVE  /\ Allocation(h, q) = HandOut(h, q).given
           /\ Allocatable(h, q) <=> HandOut(h, q).residual = 0
<1> DEFINE D == DOMAIN h
           n == Cardinality(D)
           r == Rows(h, q)
<1>1. PICK g : Turns(h, q, g) /\ HandOut(h, q) = g[n]
  BY LoopRuns
<1>2. /\ n \in Nat /\ r \in [1..n -> D]
      /\ \A t \in D : \E i \in 1..n : r[i] = t
  BY RowsAreSorted
<1>3. \A i \in 0..n : AfterTurns(h, q, g[i], i)
  <2> DEFINE Bad == {i \in 0..n : ~ AfterTurns(h, q, g[i], i)}
  <2> SUFFICES ASSUME Bad # {} PROVE FALSE
    OBVIOUS
  <2>1. Bad \in SUBSET Nat
    OBVIOUS
  <2>2. PICK i \in Bad : \A j \in Bad : i <= j
    <3> HIDE DEF Bad
    <3> QED BY <2>1, LeastNatural
  <2>3. i # 0 /\ i \in 0..n
    BY <1>1, LoopStarts
  <2>4. i \in 1..n /\ i - 1 \in 0..n /\ ~ (i <= i - 1)
    BY <1>2, <2>3
  <2>5. AfterTurns(h, q, g[i - 1], i - 1)
    BY <2>2, <2>4
  <2> QED BY <1>1, <2>4, <2>5, LoopTurns
<1> DEFINE out == g[n]
<1>4. out.given \in [D -> Int] /\ out.residual \in Int
  <2>1. out \in [given : [D -> Int], residual : Int]
    BY <1>1, <1>2 DEF Turns
  <2> QED BY <2>1
<1>5. /\ \A k \in 1..n : out.given[r[k]]
                           = Base(h, q, r[k]) + IF k <= n THEN Extra(h, q, r[k]) ELSE 0
      /\ SumFunctionOnSet(out.given, D) + out.residual = q
  <2>1. AfterTurns(h, q, g[n], n)
    BY <1>2, <1>3
  <2> QED BY <2>1 DEF AfterTurns
<1> HIDE DEF out, r, n
<1>6. \A t \in D : out.given[t] = Base(h, q, t) + Extra(h, q, t)
  <2> TAKE t \in D
  <2>1. PICK k \in 1..n : r[k] = t
    BY <1>2
  <2>2. k <= n
    BY <1>2
  <2> QED BY <1>5, <2>1, <2>2
<1>7. q # TotalOf(h) /\ 0 < q /\ q <= TotalOf(h) /\ q \in Int
  <2>1. TotalOf(h) \in Nat
    BY DivisionTypes
  <2> QED BY <2>1 DEF Divisible
<1>8. Allocation(h, q) = out.given
  <2>1. Allocation(h, q) = [t \in D |-> Base(h, q, t) + Extra(h, q, t)]
    BY <1>7 DEF Allocation
  <2> QED BY <1>4, <1>6, <2>1
<1>9. TotalOf(out.given) = SumFunctionOnSet(out.given, D)
  BY <1>4, TotalIsSum
<1>10. SumFunctionOnSet(out.given, D) \in Int
  <2>1. IsFiniteSet(D) /\ \A t \in D : out.given[t] \in Int
    BY <1>4 DEF Divisible
  <2> QED BY <2>1, SumInt
<1>11. Allocatable(h, q) <=> out.residual = 0
  BY <1>4, <1>5, <1>7, <1>8, <1>9, <1>10 DEF Allocatable
<1> QED BY <1>1, <1>8, <1>11 DEF out, n

CloseInput == case \in CloseCases

LEMMA CloseInputCorrect == DivisionSpec => []CloseInput
<1>1. CloseInput /\ [UNCHANGED case]_case => CloseInput'
  BY DEF CloseInput
<1> QED BY <1>1, PTL DEF DivisionSpec, CalculationOver, CloseInput

LEMMA CloseInputFacts ==
    ASSUME CloseInput
    PROVE  /\ DOMAIN case.held \subseteq Nat /\ IsFiniteSet(DOMAIN case.held)
           /\ case.held \in [DOMAIN case.held -> Nat \ {0}]
           /\ case.asked \in 1..TotalOf(case.held)
BY HoldingAssumption DEF CloseInput, CloseCases

LEMMA CloseAgrees == CloseInput => AgreesWithLoop
<1> SUFFICES ASSUME CloseInput, case.asked < TotalOf(case.held)
             PROVE  /\ Allocation(case.held, case.asked) = HandOut(case.held, case.asked).given
                    /\ Allocatable(case.held, case.asked)
                         <=> HandOut(case.held, case.asked).residual = 0
  BY DEF AgreesWithLoop
<1>1. Divisible(case.held, case.asked)
  <2>1. case.asked \in Nat /\ 0 < case.asked
    <3>1. TotalOf(case.held) \in Nat
      BY CloseInputFacts, TotalIsSum, SumNat
    <3> QED BY <3>1, CloseInputFacts
  <2>2. case.held \in [DOMAIN case.held -> Nat]
    BY CloseInputFacts
  <2> QED BY <2>1, <2>2, CloseInputFacts DEF Divisible
<1> QED BY <1>1, LoopAgrees

\* Every close that is accepted is divided fairly.
LEMMA CloseIsFair == CloseInput => FairToAStep
<1> DEFINE h == case.held
           q == case.asked
           T == TotalOf(h)
<1> SUFFICES ASSUME CloseInput, Allocatable(h, q), NEW t \in DOMAIN h
             PROVE  LET given  == Allocation(h, q)[t]
                        excess == given * T - q * h[t]
                    IN  /\ given \in 0..h[t]
                        /\ -Step * T < excess /\ excess <= Step * T
  BY DEF FairToAStep
<1> DEFINE given == Allocation(h, q)[t]
<1>1. /\ IsFiniteSet(DOMAIN h) /\ h \in [DOMAIN h -> Nat] /\ T \in Nat /\ q \in Nat
      /\ Step \in Nat
  <2>1. IsFiniteSet(DOMAIN h) /\ h \in [DOMAIN h -> Nat] /\ q \in 1..T
    BY CloseInputFacts
  <2>2. T \in Nat
    BY <2>1, TotalIsSum, SumNat
  <2> QED BY <2>1, <2>2, StepAssumption
<1>2. /\ given \in 0..h[t]
      /\ (given - Step) * T <= q * h[t]
      /\ q * h[t] < (given + Step) * T
  BY <1>1, DivisionIsFair
<1>3. h[t] \in Nat
  BY <1>1
<1> HIDE DEF given, T, h, q
<1>4. given \in Nat /\ q * h[t] \in Int /\ given * T \in Int /\ Step * T \in Int
  BY <1>1, <1>2, <1>3
<1>5. /\ (given - Step) * T = given * T - Step * T
      /\ (given + Step) * T = given * T + Step * T
      /\ -Step * T = -(Step * T)
  BY <1>1, <1>4
<1> DEFINE excess == given * T - q * h[t]
<1>6. -Step * T < excess /\ excess <= Step * T
  BY <1>2, <1>4, <1>5
<1> QED BY <1>2, <1>6 DEF given

THEOREM PartialCloseIsFair == DivisionSpec => []FairToAStep
BY CloseInputCorrect, CloseIsFair, PTL

\* The allocation, written without a loop, is what the loop over the sorted
\* rows computes.
THEOREM DivisionIsTheLoop == DivisionSpec => []AgreesWithLoop
BY CloseInputCorrect, CloseAgrees, PTL

-----------------------------------------------------------------------------
(***************************************************************************)
(* Type correctness.  No tranche goes below zero, because a division takes *)
(* no more from it than it holds.                                          *)
(***************************************************************************)
LEMMA SumOfTranches ==
    ASSUME NEW f \in [Tranches -> Nat] PROVE Sum(f, Tranches) \in Nat
BY SumIsSum, SumNat, BookAssumption

\* What an execution takes: from each open tranche at most what it holds, from
\* the others nothing, and the approved quantity in all.
LEMMA TakenFacts ==
    ASSUME TypeOK, NEW c \in Closes, Executable(c)
    PROVE  /\ Taken(c) \in [Tranches -> Nat]
           /\ \A t \in Tranches : Taken(c)[t] <= OpenQuantities[t]
           /\ Sum(Taken(c), Tranches) = closeQty[c]
<1> DEFINE D == OpenOf(SymbolOf[closeTranche[c]])
           h == HeldFor(c)
           q == closeQty[c]
           part == Allocation(h, q)
<1>1. D \subseteq Tranches /\ IsFiniteSet(D) /\ IsFiniteSet(Tranches)
  BY FS_Subset, BookAssumption DEF OpenOf, Of
<1>2. h \in [D -> Nat] /\ q \in Nat /\ \A t \in D : h[t] = quantity[t]
  BY <1>1 DEF HeldFor, TypeOK
<1>3. Allocatable(h, q)
  BY DEF Executable
<1>4. DOMAIN part = D
  BY <1>2 DEF Allocation
<1> HIDE DEF h, q
<1>5. \A t \in D : part[t] \in 0..h[t]
  BY <1>1, <1>2, <1>3, DivisionIsFair
<1>6. SumFunctionOnSet(part, D) = q
  BY <1>3, <1>4, TotalIsSum DEF Allocatable
<1>7. Taken(c) = [t \in Tranches |-> IF t \in D THEN part[t] ELSE 0]
  BY <1>4 DEF Taken, h, q
<1> DEFINE sale == [t \in Tranches |-> IF t \in D THEN part[t] ELSE 0]
<1> HIDE DEF part
<1>8. sale \in [Tranches -> Nat]
  BY <1>1, <1>2, <1>5
<1>9. \A t \in Tranches : sale[t] <= OpenQuantities[t]
  <2>1. \A t \in D : part[t] <= quantity[t] /\ held[t] = "OPEN"
    BY <1>2, <1>5 DEF OpenOf
  <2> QED BY <1>1, <2>1 DEF OpenQuantities, TypeOK
<1>10. SumFunctionOnSet(sale, Tranches) = q
  <2>1. \A t \in D : sale[t] \in Int /\ sale[t] = part[t]
    BY <1>1, <1>8
  <2>2. \A t \in Tranches \ D : sale[t] = 0
    OBVIOUS
  <2> HIDE DEF sale, D
  <2>3. SumFunctionOnSet(sale, Tranches) = SumFunctionOnSet(sale, D)
    BY <1>1, <2>1, <2>2, SumRestrict
  <2>4. SumFunctionOnSet(sale, D) = SumFunctionOnSet(part, D)
    BY <1>1, <2>1, SumSame
  <2> QED BY <1>6, <2>3, <2>4
<1> QED BY <1>7, <1>8, <1>9, <1>10, SumIsSum DEF q

\* Only Tick moves the clock.
LEMMA ClockStep ==
    ASSUME now \in 0..MaxTime, [Next]_vars PROVE now' \in 0..MaxTime
<1>1. CASE Tick
  BY <1>1, BookAssumption DEF Tick
<1>2. ASSUME NEW w \in Processes, Start(w) \/ Stop(w) PROVE now' = now
  BY <1>2 DEF Start, Stop
<1>3. ASSUME NEW w \in Processes, MonitorStep(w) \/ EntryStep(w) PROVE now' = now
  BY <1>3 DEF MonitorStep, EntryStep, BeginMonitor, MonitorExit, MonitorSkip,
     EndMonitor, OpenTranche, ResetPaperAccount
<1>4. ASSUME NEW w \in Processes, CloseStep(w) PROVE now' = now
  BY <1>4 DEF CloseStep, BeginDraft, CreateClose, BeginReject, FindClose,
     BeginApprove, RejectClose, CheckClose, TerminalizeClose, ExpireCloses,
     ClaimClose, ExecuteClose, Sell, ExecuteRaises, FailClose
<1>5. CASE UNCHANGED vars
  BY <1>5 DEF vars
<1> QED BY <1>1, <1>2, <1>3, <1>4, <1>5 DEF Next, ProcessStep

\* What a process has read are quantities.
LEMMA SeenStep ==
    ASSUME TypeOK, [Next]_vars
    PROVE  seen' \in [Processes -> [Tranches -> Nat]]
<1> DEFINE Seen == seen' \in [Processes -> [Tranches -> Nat]]
<1>1. ASSUME NEW w \in Processes, NEW label, NEW j, NEW view \in [Tranches -> Nat],
             Goto(w, label, j, view)
      PROVE  Seen
  BY <1>1 DEF Goto, TypeOK
<1>2. Nothing \in [Tranches -> Nat] /\ OpenQuantities \in [Tranches -> Nat]
  BY DEF Nothing, OpenQuantities, TypeOK
<1>3. ASSUME NEW w \in Processes, NEW s, Handled(w, s) PROVE Seen
  BY <1>3 DEF Handled, TypeOK
<1>4. ASSUME seen' = seen PROVE Seen
  BY <1>4 DEF TypeOK
<1> HIDE DEF Seen
<1>5. ASSUME NEW w \in Processes, Leave(w) PROVE Seen
  BY <1>1, <1>2, <1>5 DEF Leave
<1>6. ASSUME NEW w \in Processes, Start(w) \/ Stop(w) PROVE Seen
  BY <1>1, <1>2, <1>5, <1>6 DEF Start, Stop
<1>7. ASSUME NEW w \in Processes, MonitorStep(w) \/ EntryStep(w) PROVE Seen
  BY <1>1, <1>2, <1>3, <1>5, <1>7 DEF MonitorStep, EntryStep, BeginMonitor,
     MonitorExit, MonitorSkip, EndMonitor, OpenTranche, ResetPaperAccount
<1>8. ASSUME NEW w \in Processes, CloseStep(w) PROVE Seen
  <2>1. ASSUME NEW t \in Tranches, BeginDraft(w, t) PROVE Seen
    <3>1. [u \in Tranches |-> IF u \in OpenOf(SymbolOf[t]) THEN quantity[u] ELSE 0]
             \in [Tranches -> Nat]
      BY DEF TypeOK
    <3> QED BY <1>1, <2>1, <3>1 DEF BeginDraft
  <2> QED
    BY <1>1, <1>2, <1>5, <1>8, <2>1 DEF CloseStep, BeginReject, FindClose,
       BeginApprove, CheckClose, ExpireCloses, ClaimClose, ExecuteRaises,
       RejectClose, TerminalizeClose, FailClose, ExecuteClose, Sell, CreateClose
<1>9. ASSUME Tick \/ UNCHANGED vars PROVE Seen
  BY <1>4, <1>9 DEF Tick, vars, locals
<1>10. Seen
  BY <1>6, <1>7, <1>8, <1>9 DEF Next, ProcessStep
<1> QED BY <1>10 DEF Seen

\* The payload of a close is written once, when it is created.
LEMMA PayloadStep ==
    ASSUME TypeOK, [Next]_vars
    PROVE  /\ closeQty' \in [Closes -> Nat] /\ closeShown' \in [Closes -> Nat]
           /\ closeExpires' \in [Closes -> 0..(MaxTime + CloseTTL)]
<1>1. CASE UNCHANGED payload
  BY <1>1 DEF TypeOK, payload
<1>2. ASSUME NEW w \in Processes, NEW c \in Closes,
             NEW q \in 1..Sum(seen[w], Tranches), CreateClose(w, c, q)
      PROVE  /\ closeQty' \in [Closes -> Nat] /\ closeShown' \in [Closes -> Nat]
             /\ closeExpires' \in [Closes -> 0..(MaxTime + CloseTTL)]
  <2>1. Sum(seen[w], Tranches) \in Nat
    BY SumOfTranches DEF TypeOK
  <2>2. q \in Nat /\ now + CloseTTL \in 0..(MaxTime + CloseTTL)
    BY <2>1, BookAssumption DEF TypeOK
  <2> QED BY <1>2, <2>1, <2>2 DEF CreateClose, TypeOK
<1>3. ASSUME NEW w \in Processes,
             Start(w) \/ Stop(w) \/ MonitorStep(w) \/ EntryStep(w)
      PROVE  UNCHANGED payload
  BY <1>3 DEF Start, Stop, MonitorStep, EntryStep, BeginMonitor, MonitorExit,
     MonitorSkip, EndMonitor, OpenTranche, ResetPaperAccount
<1>4. ASSUME NEW w \in Processes, CloseStep(w),
             \A c \in Closes, q \in 1..Sum(seen[w], Tranches) : ~ CreateClose(w, c, q)
      PROVE  UNCHANGED payload
  BY <1>4 DEF CloseStep, BeginDraft, BeginReject, FindClose, BeginApprove,
     RejectClose, CheckClose, TerminalizeClose, ExpireCloses, ClaimClose,
     ExecuteClose, Sell, ExecuteRaises, FailClose
<1>5. ASSUME Tick \/ UNCHANGED vars PROVE UNCHANGED payload
  BY <1>5 DEF Tick, vars
<1> QED BY <1>1, <1>2, <1>3, <1>4, <1>5 DEF Next, ProcessStep

-----------------------------------------------------------------------------
(***************************************************************************)
(* The account and the positions.  What a step adds to the open quantities *)
(* or takes from them, it pays for or is paid for.                         *)
(***************************************************************************)
LEMMA CostAdds ==
    ASSUME NEW f \in [Tranches -> Nat], NEW g \in [Tranches -> Nat],
           NEW h \in [Tranches -> Nat], \A t \in Tranches : h[t] = f[t] + g[t]
    PROVE  CostOf(h) = CostOf(f) + CostOf(g)
<1> DEFINE F == [t \in Tranches |-> f[t] * UnitCost[t]]
           G == [t \in Tranches |-> g[t] * UnitCost[t]]
           H == [t \in Tranches |-> h[t] * UnitCost[t]]
<1>1. ASSUME NEW t \in Tranches
      PROVE  F[t] \in Int /\ G[t] \in Int /\ H[t] = F[t] + G[t]
  <2>1. f[t] \in Nat /\ g[t] \in Nat /\ UnitCost[t] \in Nat
    BY BookAssumption
  <2>2. h[t] = f[t] + g[t]
    OBVIOUS
  <2> QED BY <2>1, <2>2
<1>2. IsFiniteSet(Tranches)
  BY BookAssumption
<1>3. CostOf(f) = Sum(F, Tranches) /\ CostOf(g) = Sum(G, Tranches)
      /\ CostOf(h) = Sum(H, Tranches)
  BY DEF CostOf
<1> HIDE DEF F, G, H
<1>4. SumFunctionOnSet(H, Tranches)
        = SumFunctionOnSet(F, Tranches) + SumFunctionOnSet(G, Tranches)
  BY <1>1, <1>2, SumPlus
<1> QED BY <1>3, <1>4, SumIsSum

LEMMA CostType ==
    ASSUME NEW f \in [Tranches -> Nat] PROVE CostOf(f) \in Nat
<1> DEFINE costs == [t \in Tranches |-> f[t] * UnitCost[t]]
<1>1. \A t \in Tranches : f[t] \in Nat /\ UnitCost[t] \in Nat
  BY BookAssumption
<1>2. costs \in [Tranches -> Nat]
  BY <1>1
<1> QED BY <1>2, SumOfTranches DEF CostOf

LEMMA CostOfOne ==
    ASSUME NEW t \in Tranches, NEW n \in Nat
    PROVE  CostOf([u \in Tranches |-> IF u = t THEN n ELSE 0]) = n * UnitCost[t]
<1> DEFINE one == [u \in Tranches |-> (IF u = t THEN n ELSE 0) * UnitCost[u]]
           whole == [u \in Tranches |-> [v \in Tranches |-> IF v = t THEN n ELSE 0][u]
                                         * UnitCost[u]]
<1>1. UnitCost[t] \in Nat /\ \A u \in Tranches : UnitCost[u] \in Nat
  BY BookAssumption
<1>2. one[t] = n * UnitCost[t] /\ one[t] \in Int
  BY <1>1
<1>3. \A u \in Tranches \ {t} : one[u] = 0
  BY <1>1
<1>4. whole = one
  OBVIOUS
<1>5. {t} \ {t} = {} /\ IsFiniteSet({t}) /\ {t} \in SUBSET Tranches
  BY FS_Singleton
<1> HIDE DEF one
<1>6. SumFunctionOnSet(one, Tranches) = SumFunctionOnSet(one, {t})
  BY <1>2, <1>3, <1>5, SumRestrict, BookAssumption
<1>7. SumFunctionOnSet(one, {t}) = one[t] + SumFunctionOnSet(one, {t} \ {t})
  BY <1>2, <1>5, SumPick
<1>8. SumFunctionOnSet(one, Tranches) = n * UnitCost[t]
  BY <1>2, <1>5, <1>6, <1>7, SumEmpty
<1> QED BY <1>4, <1>8, SumIsSum DEF CostOf

LEMMA CostOfNothing == CostOf(Nothing) = 0
<1> DEFINE x == CostOf(Nothing)
<1>1. /\ Nothing \in [Tranches -> Nat]
      /\ \A t \in Tranches : Nothing[t] = Nothing[t] + Nothing[t]
  BY DEF Nothing
<1>2. x = x + x /\ x \in Nat
  BY <1>1, CostAdds, CostType
<1> HIDE DEF x
<1>3. x = 0
  BY <1>2
<1> QED BY <1>3 DEF x

\* A tranche of which nothing is known has sold nothing; with it the balance is
\* inductive.  Books is what a step that moves quantities must keep.
AbsentUnsold == \A t \in Tranches : held[t] = "ABSENT" => sold[t] = 0

Books ==
    /\ held \in [Tranches -> HeldStatus]
    /\ quantity \in [Tranches -> Nat] /\ sold \in [Tranches -> Nat]
    /\ free \in Int /\ realized \in Int
    /\ BookBalances /\ AbsentUnsold

BookInv == TypeOK /\ CloseInv /\ BookBalances /\ AbsentUnsold

LEMMA OpenType ==
    ASSUME TypeOK
    PROVE  /\ OpenQuantities \in [Tranches -> Nat]
           /\ CostOf(OpenQuantities) \in Nat
<1>1. OpenQuantities \in [Tranches -> Nat]
  BY DEF TypeOK, OpenQuantities
<1> QED BY <1>1, CostType

LEMMA UntouchedBooks ==
    ASSUME BookInv, UNCHANGED <<positions, account>> PROVE Books'
<1>1. OpenQuantities' = OpenQuantities
  BY DEF OpenQuantities, positions
<1> QED
  BY <1>1 DEF BookInv, TypeOK, Books, BookBalances, AbsentUnsold, positions,
     account

LEMMA OpenedBooks ==
    ASSUME BookInv, NEW w \in Processes, NEW t \in Tranches, OpenTranche(w, t)
    PROVE  Books'
<1> DEFINE bought == [u \in Tranches |-> IF u = t THEN Bought[t] ELSE 0]
<1>1. /\ held[t] = "ABSENT" /\ sold[t] = 0 /\ sold' = sold /\ realized' = realized
      /\ held' = [held EXCEPT ![t] = "OPEN"]
      /\ quantity' = [quantity EXCEPT ![t] = Bought[t]]
      /\ free' = free - Bought[t] * UnitCost[t]
  BY DEF OpenTranche, BookInv, AbsentUnsold
<1>2. Bought[t] \in Nat \ {0} /\ UnitCost[t] \in Nat
  BY BookAssumption
<1>3. /\ held' \in [Tranches -> HeldStatus]
      /\ quantity' \in [Tranches -> Nat] /\ sold' \in [Tranches -> Nat]
      /\ OpenQuantities' \in [Tranches -> Nat] /\ bought \in [Tranches -> Nat]
  BY <1>1, <1>2 DEF BookInv, TypeOK, HeldStatus, OpenQuantities
<1>4. \A u \in Tranches : OpenQuantities'[u] = OpenQuantities[u] + bought[u]
  BY <1>1, <1>2 DEF BookInv, TypeOK, OpenQuantities
<1>5. CostOf(OpenQuantities') = CostOf(OpenQuantities) + Bought[t] * UnitCost[t]
  <2>1. CostOf(bought) = Bought[t] * UnitCost[t]
    BY <1>2, CostOfOne
  <2> HIDE DEF bought
  <2> QED BY <1>3, <1>4, <2>1, OpenType, CostAdds DEF BookInv
<1>6. \A u \in Tranches : held'[u] = "OPEN" =>
          quantity'[u] > 0 /\ quantity'[u] + sold'[u] = Bought[u]
  BY <1>1, <1>2 DEF BookInv, TypeOK, BookBalances
<1>7. AbsentUnsold'
  BY <1>1 DEF BookInv, TypeOK, AbsentUnsold
<1>8. free' \in Int /\ realized' \in Int
      /\ free' + CostOf(OpenQuantities') = InitialBalance + realized'
  <2> DEFINE x == Bought[t] * UnitCost[t]
             y == CostOf(OpenQuantities)
  <2>1. x \in Nat /\ y \in Nat /\ free \in Int /\ realized \in Int
        /\ InitialBalance \in Nat /\ free + y = InitialBalance + realized
    BY <1>2, OpenType, BookAssumption DEF BookInv, TypeOK, BookBalances
  <2>2. free' = free - x /\ realized' = realized
        /\ CostOf(OpenQuantities') = y + x
    BY <1>1, <1>5
  <2> HIDE DEF x, y
  <2> QED BY <2>1, <2>2
<1> QED BY <1>3, <1>6, <1>7, <1>8 DEF Books, BookBalances

LEMMA ResetBooks ==
    ASSUME BookInv, NEW w \in Processes, ResetPaperAccount(w) PROVE Books'
<1>1. /\ held' = [t \in Tranches |-> IF held[t] = "OPEN" THEN "CLOSED" ELSE held[t]]
      /\ quantity' = quantity /\ sold' = sold
      /\ free' = InitialBalance /\ realized' = 0
  BY DEF ResetPaperAccount
<1>2. OpenQuantities' = Nothing
  BY <1>1 DEF OpenQuantities, Nothing
<1>3. CostOf(OpenQuantities') = 0
  BY <1>2, CostOfNothing
<1>4. /\ held' \in [Tranches -> HeldStatus]
      /\ \A t \in Tranches : held'[t] # "OPEN"
                             /\ (held'[t] = "ABSENT" => held[t] = "ABSENT")
  BY <1>1 DEF BookInv, TypeOK, HeldStatus
<1>5. InitialBalance \in Int
  BY BookAssumption
<1> QED
  BY <1>1, <1>3, <1>4, <1>5 DEF BookInv, TypeOK, Books, BookBalances, AbsentUnsold

\* What a sale leaves: sale is paid for, gone is taken off the open quantities.
LEMMA SaleBooks ==
    ASSUME BookInv, NEW price \in Nat, NEW sale \in [Tranches -> Nat],
           NEW gone \in [Tranches -> Nat],
           held' \in [Tranches -> HeldStatus], quantity' \in [Tranches -> Nat],
           Book(sale, price),
           realized' = realized + price * Sum(sale, Tranches) - CostOf(gone),
           \A t \in Tranches : OpenQuantities[t] = OpenQuantities'[t] + gone[t],
           \A t \in Tranches : held'[t] = "OPEN" =>
              quantity'[t] > 0 /\ quantity'[t] + sale[t] + sold[t] = Bought[t],
           \A t \in Tranches : held'[t] = "ABSENT" => held[t] = "ABSENT" /\ sale[t] = 0
    PROVE  Books'
<1>1. sold' = [t \in Tranches |-> sold[t] + sale[t]]
      /\ free' = free + price * Sum(sale, Tranches)
  BY DEF Book
<1>2. sold' \in [Tranches -> Nat]
      /\ \A t \in Tranches : sold'[t] = sold[t] + sale[t] /\ Bought[t] \in Nat
  BY <1>1, BookAssumption DEF BookInv, TypeOK
<1>3. OpenQuantities' \in [Tranches -> Nat]
  BY DEF OpenQuantities
<1>4. CostOf(OpenQuantities) = CostOf(OpenQuantities') + CostOf(gone)
  BY <1>3, OpenType, CostAdds DEF BookInv
<1>5. \A t \in Tranches : held'[t] = "OPEN" =>
          quantity'[t] > 0 /\ quantity'[t] + sold'[t] = Bought[t]
  <2> SUFFICES ASSUME NEW t \in Tranches, held'[t] = "OPEN"
               PROVE  quantity'[t] > 0 /\ quantity'[t] + sold'[t] = Bought[t]
    OBVIOUS
  <2>1. /\ quantity'[t] > 0 /\ quantity'[t] + sale[t] + sold[t] = Bought[t]
        /\ quantity'[t] \in Nat /\ sale[t] \in Nat /\ sold[t] \in Nat
        /\ sold'[t] = sold[t] + sale[t]
    BY <1>2 DEF BookInv, TypeOK
  <2> QED BY <2>1
<1>6. AbsentUnsold'
  BY <1>2 DEF BookInv, AbsentUnsold
<1>7. free' \in Int /\ realized' \in Int
      /\ free' + CostOf(OpenQuantities') = InitialBalance + realized'
  <2> DEFINE x == price * Sum(sale, Tranches)
             y == CostOf(OpenQuantities')
             z == CostOf(gone)
  <2>1. x \in Nat /\ y \in Nat /\ z \in Nat
    BY <1>3, SumOfTranches, CostType
  <2>2. free \in Int /\ realized \in Int /\ InitialBalance \in Nat
        /\ free + (y + z) = InitialBalance + realized
    BY <1>4, BookAssumption DEF BookInv, TypeOK, BookBalances
  <2>3. free' = free + x /\ realized' = realized + x - z
    BY <1>1
  <2> HIDE DEF x, z
  <2>4. free' + y = InitialBalance + realized' /\ free' \in Int /\ realized' \in Int
    <3> HIDE DEF y
    <3> QED BY <2>1, <2>2, <2>3
  <2> QED BY <2>4
<1> QED BY <1>2, <1>5, <1>6, <1>7 DEF Books, BookBalances

LEMMA MonitoredBooks ==
    ASSUME BookInv, NEW w \in Processes, NEW s \in Symbols, NEW price \in Prices,
           MonitorExit(w, s, price)
    PROVE  Books'
<1> DEFINE sale == [t \in Tranches |-> IF t \in OpenOf(s) THEN seen[w][t] ELSE 0]
           cost == [t \in Tranches |-> IF t \in OpenOf(s) THEN quantity[t] ELSE 0]
<1>1. /\ held' = [t \in Tranches |-> IF t \in OpenOf(s) THEN "CLOSED" ELSE held[t]]
      /\ quantity' = quantity /\ Book(sale, price)
      /\ realized' = realized + price * Sum(sale, Tranches) - CostOf(cost)
  BY DEF MonitorExit
<1>2. /\ held' \in [Tranches -> HeldStatus] /\ quantity' \in [Tranches -> Nat]
      /\ sale \in [Tranches -> Nat] /\ cost \in [Tranches -> Nat]
  BY <1>1 DEF BookInv, TypeOK, HeldStatus
<1>3. \A t \in Tranches : OpenQuantities[t] = OpenQuantities'[t] + cost[t]
  BY <1>1 DEF BookInv, TypeOK, OpenQuantities, OpenOf
<1>4. \A t \in Tranches :
        /\ held'[t] = "OPEN" => sale[t] = 0 /\ held[t] = "OPEN"
        /\ held'[t] = "ABSENT" => held[t] = "ABSENT" /\ sale[t] = 0
  BY <1>1
<1> HIDE DEF sale, cost
<1>5. \A t \in Tranches : held'[t] = "OPEN" =>
        quantity'[t] > 0 /\ quantity'[t] + sale[t] + sold[t] = Bought[t]
  BY <1>1, <1>4 DEF BookInv, TypeOK, BookBalances
<1>6. price \in Nat
  BY BookAssumption
<1> QED BY <1>1, <1>2, <1>3, <1>4, <1>5, <1>6, SaleBooks

LEMMA ExecutedBooks ==
    ASSUME BookInv, NEW w \in Processes, NEW price \in Prices, ExecuteClose(w, price)
    PROVE  Books'
<1> DEFINE sale == Taken(job[w])
           kept == {t \in Tranches : sale[t] < quantity[t]}
<1>1. job[w] \in Closes /\ Executable(job[w])
  BY DEF ExecuteClose, BookInv, CloseInv, CloseType, OnClose
<1>2. /\ sale \in [Tranches -> Nat]
      /\ \A t \in Tranches : sale[t] <= OpenQuantities[t]
  BY <1>1, TakenFacts DEF BookInv
<1> HIDE DEF sale
<1>3. /\ quantity' = [t \in Tranches |-> quantity[t] - sale[t]]
      /\ held' = [t \in Tranches |->
                    IF sale[t] > 0 /\ t \notin kept THEN "CLOSED" ELSE held[t]]
      /\ Book(sale, price)
      /\ realized' = realized + price * Sum(sale, Tranches) - CostOf(sale)
  BY DEF ExecuteClose, Sell, sale
<1>4. ASSUME NEW t \in Tranches
      PROVE  /\ held[t] \in HeldStatus /\ quantity[t] \in Nat /\ sale[t] \in Nat
             /\ sold[t] \in Nat /\ sale[t] <= quantity[t]
             /\ sale[t] > 0 => held[t] = "OPEN"
             /\ quantity'[t] = quantity[t] - sale[t]
             /\ held'[t] = IF sale[t] > 0 /\ sale[t] = quantity[t] THEN "CLOSED"
                           ELSE held[t]
             /\ held[t] = "OPEN" =>
                  quantity[t] > 0 /\ quantity[t] + sold[t] = Bought[t]
  <2>1. /\ held[t] \in HeldStatus /\ quantity[t] \in Nat /\ sale[t] \in Nat
        /\ sold[t] \in Nat
    BY <1>2 DEF BookInv, TypeOK
  <2>2. sale[t] <= (IF held[t] = "OPEN" THEN quantity[t] ELSE 0)
    BY <1>2 DEF OpenQuantities
  <2>3. t \notin kept <=> sale[t] >= quantity[t]
    BY <2>1
  <2>4. held[t] = "OPEN" => quantity[t] > 0 /\ quantity[t] + sold[t] = Bought[t]
    BY DEF BookInv, BookBalances
  <2> QED BY <1>3, <2>1, <2>2, <2>3, <2>4
<1>5. /\ held' \in [Tranches -> HeldStatus] /\ quantity' \in [Tranches -> Nat]
  <2>1. \A t \in Tranches : quantity[t] - sale[t] \in Nat
    BY <1>4
  <2>2. \A t \in Tranches : held'[t] \in HeldStatus
    BY <1>4 DEF HeldStatus
  <2> QED BY <1>3, <2>1, <2>2
<1>6. \A t \in Tranches : OpenQuantities[t] = OpenQuantities'[t] + sale[t]
  <2> SUFFICES ASSUME NEW t \in Tranches
               PROVE  (IF held[t] = "OPEN" THEN quantity[t] ELSE 0)
                        = (IF held'[t] = "OPEN" THEN quantity'[t] ELSE 0) + sale[t]
    BY DEF OpenQuantities
  <2> QED BY <1>4
<1>7. \A t \in Tranches : held'[t] = "OPEN" =>
        quantity'[t] > 0 /\ quantity'[t] + sale[t] + sold[t] = Bought[t]
  BY <1>4
<1>8. \A t \in Tranches : held'[t] = "ABSENT" => held[t] = "ABSENT" /\ sale[t] = 0
  BY <1>4
<1>9. price \in Nat
  BY BookAssumption
<1> QED BY <1>2, <1>3, <1>5, <1>6, <1>7, <1>8, <1>9, SaleBooks

\* The other steps leave the books alone.
LEMMA BooksStep == ASSUME BookInv, [Next]_vars PROVE Books'
<1>1. CASE Tick \/ UNCHANGED vars
  BY <1>1, UntouchedBooks DEF Tick, vars
<1>2. ASSUME NEW w \in Processes, Start(w) \/ Stop(w) PROVE Books'
  BY <1>2, UntouchedBooks DEF Start, Stop
<1>3. ASSUME NEW w \in Processes, MonitorStep(w) PROVE Books'
  <2>1. CASE \/ BeginMonitor(w) \/ EndMonitor(w)
             \/ \E s \in Symbols : MonitorSkip(w, s)
    BY <2>1, UntouchedBooks DEF BeginMonitor, EndMonitor, MonitorSkip
  <2> QED BY <1>3, <2>1, MonitoredBooks DEF MonitorStep
<1>4. ASSUME NEW w \in Processes, EntryStep(w) PROVE Books'
  BY <1>4, OpenedBooks, ResetBooks DEF EntryStep
<1>5. ASSUME NEW w \in Processes, CloseStep(w) PROVE Books'
  <2>1. CASE \E price \in Prices : ExecuteClose(w, price)
    BY <2>1, ExecutedBooks
  <2>2. CASE UNCHANGED <<positions, account>>
    BY <2>2, UntouchedBooks
  <2> QED
    BY <1>5, <2>1, <2>2 DEF CloseStep, BeginDraft, CreateClose, BeginReject,
       FindClose, BeginApprove, RejectClose, CheckClose, TerminalizeClose,
       ExpireCloses, ClaimClose, ExecuteRaises, FailClose
<1> QED BY <1>1, <1>2, <1>3, <1>4, <1>5 DEF Next, ProcessStep

\* The invariant is inductive.
LEMMA BookInvStep == BookInv /\ [Next]_vars => BookInv'
<1> SUFFICES ASSUME BookInv, [Next]_vars PROVE BookInv'
  OBVIOUS
<1>1. CloseInv'
  BY CloseInvStep DEF BookInv
<1>2. Books'
  BY BooksStep
<1>3. TypeOK'
  BY <1>1, <1>2, ClockStep, SeenStep, PayloadStep
     DEF BookInv, TypeOK, CloseInv, CloseType, Books
<1> QED BY <1>1, <1>2, <1>3 DEF BookInv, Books

LEMMA BookInvInit == Init => BookInv
<1> SUFFICES ASSUME Init PROVE BookInv
  OBVIOUS
<1>1. CloseInv
  BY BookAssumption DEF Init, CloseInv, CloseType, CloseStatus, Pc, OnClose,
     Undecided
<1>2. TypeOK
  BY <1>1, BookAssumption
     DEF Init, TypeOK, CloseInv, CloseType, Nothing, HeldStatus
<1>3. OpenQuantities = Nothing
  BY DEF Init, OpenQuantities, Nothing
<1>4. BookBalances
  BY <1>3, CostOfNothing, BookAssumption DEF Init, BookBalances
<1>5. AbsentUnsold
  BY DEF Init, AbsentUnsold, Nothing
<1> QED BY <1>1, <1>2, <1>4, <1>5 DEF BookInv

\* What is bought, held, sold and paid for agrees, tranche by tranche.
THEOREM BookInvariant == Spec => []BookInv
BY BookInvInit, BookInvStep, PTL DEF Spec

\* No quantity, price or name ever leaves its type; in particular no tranche
\* holds less than nothing.
THEOREM BookTypeCorrect == Spec => []TypeOK
<1>1. BookInv => TypeOK
  BY DEF BookInv
<1> QED BY <1>1, BookInvariant, PTL

\* Free quote plus the cost of what is open is the initial balance plus the
\* realized result, and every open tranche accounts for what was bought.
THEOREM AccountBalances == Spec => []BookBalances
<1>1. BookInv => BookBalances
  BY DEF BookInv
<1> QED BY <1>1, BookInvariant, PTL

\* An execution sells exactly the approved quantity out of the aggregate shown.
THEOREM ShownIsSold == Spec => SellsWhatWasShown
<1> DEFINE Sells(c) ==
             closeStatus[c] = "EXECUTING" /\ closeStatus'[c] = "EXECUTED"
             /\ sold' # sold
             => /\ ShownTotal(c) = closeShown[c]
                /\ Sum(sold', Tranches) = Sum(sold, Tranches) + closeQty[c]
<1>1. ASSUME BookInv, [Next]_vars, NEW c \in Closes PROVE Sells(c)
  <2>1. CASE sold' = sold
    BY <2>1
  <2>2. ASSUME NEW w \in Processes, NEW price \in Prices, ExecuteClose(w, price)
        PROVE  Sells(c)
    <3>1. /\ job[w] \in Closes /\ Executable(job[w])
          /\ closeStatus' = [closeStatus EXCEPT ![job[w]] = "EXECUTED"]
          /\ sold' = [t \in Tranches |-> sold[t] + Taken(job[w])[t]]
      BY <1>1, <2>2 DEF ExecuteClose, Sell, SetClose, Book, BookInv, CloseInv,
         CloseType, OnClose
    <3>2. CASE c # job[w]
      BY <1>1, <3>1, <3>2 DEF BookInv, TypeOK
    <3>3. CASE c = job[w]
      <4> DEFINE sale == Taken(c)
      <4>1. /\ sale \in [Tranches -> Nat] /\ Sum(sale, Tranches) = closeQty[c]
        BY <1>1, <3>1, <3>3, TakenFacts DEF BookInv
      <4>2. sold' = [t \in Tranches |-> sold[t] + sale[t]]
        BY <3>1, <3>3
      <4> HIDE DEF sale
      <4>3. \A t \in Tranches : /\ sold[t] \in Int /\ sale[t] \in Int
                                /\ sold'[t] = sold[t] + sale[t]
        BY <1>1, <4>1, <4>2 DEF BookInv, TypeOK
      <4>4. SumFunctionOnSet(sold', Tranches)
              = SumFunctionOnSet(sold, Tranches) + SumFunctionOnSet(sale, Tranches)
        <5>1. IsFiniteSet(Tranches)
          BY BookAssumption
        <5> QED BY <4>3, <5>1, SumPlus
      <4>5. Sum(sold', Tranches) = Sum(sold, Tranches) + closeQty[c]
        BY <4>1, <4>4, SumIsSum
      <4> QED BY <3>1, <3>3, <4>5 DEF Executable
    <3> QED BY <3>2, <3>3
  <2>3. ASSUME NEW w \in Processes, NEW s \in Symbols, NEW price \in Prices,
               MonitorExit(w, s, price)
        PROVE  Sells(c)
    BY <1>1, <2>3 DEF MonitorExit, BookInv, TypeOK
  <2>4. ASSUME NEW w \in Processes, MonitorStep(w) \/ EntryStep(w),
               \A s \in Symbols, price \in Prices : ~ MonitorExit(w, s, price)
        PROVE  sold' = sold
    BY <2>4 DEF MonitorStep, EntryStep, BeginMonitor, MonitorSkip, EndMonitor,
       OpenTranche, ResetPaperAccount, positions
  <2>5. ASSUME NEW w \in Processes, CloseStep(w),
               \A price \in Prices : ~ ExecuteClose(w, price)
        PROVE  sold' = sold
    BY <2>5 DEF CloseStep, BeginDraft, CreateClose, BeginReject, FindClose,
       BeginApprove, RejectClose, CheckClose, TerminalizeClose, ExpireCloses,
       ClaimClose, ExecuteRaises, FailClose, positions
  <2>6. ASSUME \/ Tick \/ UNCHANGED vars
               \/ \E w \in Processes : Start(w) \/ Stop(w)
        PROVE  sold' = sold
    BY <2>6 DEF Tick, vars, Start, Stop, positions
  <2> QED
    BY <1>1, <2>1, <2>2, <2>3, <2>4, <2>5, <2>6 DEF Next, ProcessStep
<1>2. BookInv /\ [Next]_vars =>
        [\A c \in Closes :
           /\ closeStatus[c] = "EXECUTING" /\ closeStatus'[c] = "EXECUTED"
           /\ sold' # sold
           => /\ ShownTotal(c) = closeShown[c]
              /\ Sum(sold', Tranches) = Sum(sold, Tranches) + closeQty[c]]_vars
  BY <1>1
<1> QED BY <1>2, BookInvariant, PTL DEF Spec, SellsWhatWasShown

=============================================================================
