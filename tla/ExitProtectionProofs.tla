------------------------ MODULE ExitProtectionProofs ------------------------
(***************************************************************************)
(* Theorems about ExitProtection, for any number of proposals of each kind *)
(* and any quantities: what is recorded as EXECUTED is complete, a partial *)
(* exit sells nothing while the list it gives up is in force, and coins    *)
(* that lost their protection are known to the ledger.                     *)
(***************************************************************************)
EXTENDS ExitProtection, SumLaws

Statuses == {"ABSENT", "PENDING", "EXECUTING", "RECONCILE", "EXECUTED"}
Labels == {"off", "claimed", "cancelling", "reading", "released", "selling", "arming"}
Writes == {"none", "cancel", "sell", "list"}
Replies == {"none", "CANCELED", "unclear", "FILLED", "not filled", "armed", "leg rejected"}
Terms == [list : Lists \cup {None}, sell : Nat, rest : Nat]

ExitType ==
    /\ free \in Nat
    /\ locked \in [Lists -> Nat]
    /\ placed \in [Lists -> Nat]
    /\ status \in [Proposals -> Statuses]
    /\ terms \in [Proposals -> Terms]
    /\ pc \in [Proposals -> Labels]
    /\ request \in [Proposals -> Writes]
    /\ reply \in [Proposals -> Replies]
    /\ sold \in [Proposals -> Nat]

\* A list that was placed once and is gone.
Released(l) == placed[l] > 0 /\ locked[l] = 0

\* What a proposal of each kind is about.
TermsInv(p) ==
    /\ p \in Partials \cup Cancels =>
         terms[p].list \in Lists /\ placed[terms[p].list] > 0
    /\ p \in Restores \cup Closes => terms[p].list = None
    /\ p \in Partials \cup Closes => terms[p].sell > 0
    /\ p \in Cancels \cup Restores => terms[p].sell = 0
    /\ p \in Cancels \cup Closes => terms[p].rest = 0
    /\ p \in Restores => terms[p].rest > 0

\* Each write is sent once, and heard of before the next is sent.
PhaseInv(p) ==
    /\ pc[p] \in {"claimed", "reading", "released"} => request[p] = "none"
    /\ pc[p] = "cancelling" => request[p] \in {"none", "cancel"}
    /\ pc[p] = "selling"    => request[p] \in {"none", "sell"}
    /\ pc[p] = "arming"     => request[p] \in {"none", "list"}
    /\ pc[p] \in {"cancelling", "reading"} => p \in Partials \cup Cancels
    /\ pc[p] = "released" => p \in Partials
    /\ pc[p] = "selling"  => p \in Partials \cup Closes
    /\ pc[p] = "arming"   => p \in Partials \cup Restores
    /\ reply[p] # "none" => request[p] = "none" /\ pc[p] # "off"
    /\ reply[p] \in {"CANCELED", "unclear"} => pc[p] = "cancelling"
    /\ reply[p] \in {"FILLED", "not filled"} => pc[p] = "selling"
    /\ reply[p] \in {"armed", "leg rejected"} => pc[p] = "arming"
    /\ request[p] = "cancel" => p \in Partials \cup Cancels
    /\ request[p] = "sell"   => p \in Partials \cup Closes
    /\ request[p] = "list"   => p \in Partials \cup Restores

\* What the writes have done so far.
EffectInv(p) ==
    /\ pc[p] \in {"claimed", "cancelling", "reading", "released"} => sold[p] = 0
    /\ request[p] \in {"cancel", "sell"} => sold[p] = 0
    /\ reply[p] = "FILLED" => sold[p] = terms[p].sell
    /\ pc[p] = "arming" => sold[p] = terms[p].sell
    /\ p \in Partials \cup Restores =>
         /\ pc[p] \notin {"off", "arming"} => placed[p] = 0
         /\ request[p] # "none" => placed[p] = 0
         /\ request[p] = "list" => terms[p].rest > 0
         /\ pc[p] = "arming" => terms[p].rest > 0
         /\ reply[p] = "armed" => placed[p] = terms[p].rest
    /\ /\ p \in Partials
       /\ \/ pc[p] \in {"released", "selling", "arming"}
          \/ request[p] \in {"sell", "list"}
          \/ sold[p] > 0
       => Released(terms[p].list)

\* What the ledger says of it.
StatusInv(p) ==
    /\ status[p] \in {"ABSENT", "PENDING"} =>
         /\ pc[p] = "off" /\ request[p] = "none" /\ sold[p] = 0
         /\ p \in Partials \cup Restores => placed[p] = 0
    /\ status[p] # "ABSENT" => TermsInv(p)
    /\ pc[p] # "off" => status[p] \in {"EXECUTING", "RECONCILE"}
    /\ status[p] = "EXECUTED" =>
         /\ request[p] = "none"
         /\ sold[p] = terms[p].sell
         /\ terms[p].list # None => Released(terms[p].list)
         /\ terms[p].rest > 0 => p \in Lists /\ placed[p] = terms[p].rest

RowInv(p) == StatusInv(p) /\ PhaseInv(p) /\ EffectInv(p)

ExitInv == ExitType /\ \A p \in Proposals : RowInv(p)

-----------------------------------------------------------------------------
(***************************************************************************)
(* A step of one proposal.                                                 *)
(***************************************************************************)

\* What was placed was placed, and a list that is gone stays gone.
ListsStay ==
    \A l \in Lists :
        /\ placed[l] > 0 => placed'[l] > 0
        /\ Released(l) => Released(l)'

\* The other proposals keep their rows.
OthersStay(p) ==
    \A q \in Proposals \ {p} :
        /\ status'[q] = status[q] /\ terms'[q] = terms[q] /\ pc'[q] = pc[q]
        /\ request'[q] = request[q] /\ reply'[q] = reply[q] /\ sold'[q] = sold[q]
        /\ q \in Lists => placed'[q] = placed[q]

LEMMA OneRow ==
    ASSUME ExitInv, NEW p \in Proposals, ExitType', ListsStay, OthersStay(p), RowInv(p)'
    PROVE  ExitInv'
<1>1. ASSUME NEW q \in Proposals \ {p} PROVE RowInv(q)'
  <2>1. RowInv(q) /\ terms[q].list \in Lists \cup {None}
    BY DEF ExitInv, ExitType, Terms
  <2>2. q \in Partials \cup Restores => q \in Lists
    BY DEF Lists
  <2>3. TermsInv(q) => TermsInv(q)'
    BY <2>1, <2>2 DEF OthersStay, ListsStay, TermsInv
  <2>4. terms[q].list \in Lists /\ Released(terms[q].list) => Released(terms[q].list)'
    BY <2>1, <2>2 DEF OthersStay, ListsStay
  <2>5. None \notin Lists
    BY ExitAssumption DEF Lists
  <2>6. StatusInv(q)'
    BY <2>1, <2>2, <2>3, <2>4, <2>5 DEF OthersStay, RowInv, StatusInv
  <2>7. PhaseInv(q)'
    BY <2>1, <2>2 DEF OthersStay, RowInv, PhaseInv
  <2>8. status[q] # "ABSENT" /\ q \in Partials => terms[q].list \in Lists
    BY <2>1 DEF RowInv, StatusInv, TermsInv
  <2>9. EffectInv(q)'
    BY <2>1, <2>2, <2>4, <2>8 DEF OthersStay, RowInv, StatusInv, EffectInv
  <2> QED BY <2>6, <2>7, <2>9 DEF RowInv
<1> QED BY <1>1 DEF ExitInv

-----------------------------------------------------------------------------
(***************************************************************************)
(* The invariant.                                                          *)
(***************************************************************************)
LEMMA ExitInit == Init => ExitInv
<1> SUFFICES ASSUME Init PROVE ExitInv
  OBVIOUS
<1> USE ExitAssumption DEF Init
<1>1. ExitType
  BY DEF ExitType, Statuses, Labels, Writes, Replies, Terms, NoTerms
<1>2. ASSUME NEW p \in Proposals PROVE RowInv(p)
  <2>1. p \in Partials \cup Restores => p \in Lists /\ p \notin Entries
    BY DEF Lists
  <2> QED BY <2>1 DEF RowInv, StatusInv, PhaseInv, EffectInv
<1> QED BY <1>1, <1>2 DEF ExitInv

\* A proposal starts with terms of its kind.
LEMMA ProposeStep ==
    ASSUME ExitInv, NEW p \in Proposals, NEW t \in Terms, Propose(p, t), TermsInv(p)'
    PROVE  ExitInv'
<1> USE DEF Propose, exchange
<1>1. ExitType'
  BY DEF ExitInv, ExitType, Statuses
<1>2. ListsStay /\ OthersStay(p)
  BY DEF ExitInv, ExitType, ListsStay, OthersStay, Released
<1>3. RowInv(p)'
  <2>1. RowInv(p) /\ status'[p] = "PENDING"
    BY DEF ExitInv, ExitType
  <2>2. StatusInv(p)'
    BY <2>1 DEF RowInv, StatusInv
  <2>3. PhaseInv(p)'
    BY <2>1 DEF RowInv, PhaseInv
  <2>4. /\ pc'[p] = "off" /\ request'[p] = "none" /\ reply'[p] = "none"
        /\ sold'[p] = 0
    BY <2>1 DEF RowInv, StatusInv, PhaseInv
  <2>5. EffectInv(p)'
    <3> HIDE DEF Propose
    <3> QED BY <2>4 DEF EffectInv
  <2> QED BY <2>2, <2>3, <2>5 DEF RowInv
<1> QED BY <1>1, <1>2, <1>3, OneRow

LEMMA ProposesInv ==
    ASSUME ExitInv, NEW p \in Proposals,
           \/ p \in Partials /\ \E pct \in Percentages : ProposePartialExit(p, pct)
           \/ p \in Cancels /\ ProposeCancel(p)
           \/ p \in Restores /\ ProposeRestore(p)
           \/ p \in Closes /\ ProposeClose(p)
    PROVE  ExitInv'
<1> USE ExitAssumption
<1>1. ASSUME p \in Partials, NEW pct \in Percentages, ProposePartialExit(p, pct)
      PROVE  ExitInv'
  <2>1. PICK l \in Active :
          LET sell == Share(placed[l], pct)
              rest == placed[l] - sell IN
          /\ TheWholeList(l)
          /\ sell >= MinQuantity
          /\ pct < 100 => rest >= MinQuantity
          /\ Propose(p, [list |-> l, sell |-> sell, rest |-> rest])
    BY <1>1 DEF ProposePartialExit
  <2> DEFINE sell == Share(placed[l], pct)
             rest == placed[l] - sell
             t    == [list |-> l, sell |-> sell, rest |-> rest]
  <2>2. l \in Lists /\ placed[l] \in Nat /\ placed[l] > 0 /\ pct \in 1..100
    BY <2>1 DEF Active, TheWholeList, ExitInv, ExitType
  <2>3. sell \in Int /\ (pct = 100 => sell = placed[l])
    BY <2>2 DEF Share
  <2>4. sell \in Nat /\ sell > 0 /\ rest \in Nat
    <3> HIDE DEF sell
    <3> QED BY <2>1, <2>2, <2>3 DEF sell
  <2>5. t \in Terms /\ Propose(p, t)
    <3> HIDE DEF sell
    <3> QED BY <2>1, <2>2, <2>4 DEF Terms, sell
  <2>6. terms'[p] = t /\ placed' = placed
    BY <2>5 DEF Propose, exchange, ExitInv, ExitType
  <2>7. TermsInv(p)'
    <3> HIDE DEF sell, rest
    <3> QED BY <1>1, <2>2, <2>4, <2>6 DEF TermsInv
  <2> QED BY <2>5, <2>7, ProposeStep
<1>2. ASSUME p \in Cancels, ProposeCancel(p) PROVE ExitInv'
  <2>1. PICK l \in Active :
          TheWholeList(l) /\ Propose(p, [NoTerms EXCEPT !.list = l])
    BY <1>2 DEF ProposeCancel
  <2> DEFINE t == [list |-> l, sell |-> 0, rest |-> 0]
  <2>2. l \in Lists /\ placed[l] > 0
    BY <2>1 DEF Active, TheWholeList
  <2>3. t \in Terms /\ Propose(p, t)
    BY <2>1, <2>2 DEF Terms, NoTerms
  <2>4. terms'[p] = t /\ placed' = placed
    BY <2>3 DEF Propose, exchange, ExitInv, ExitType
  <2>5. TermsInv(p)'
    BY <1>2, <2>2, <2>4 DEF TermsInv
  <2> QED BY <2>3, <2>5, ProposeStep
<1>3. ASSUME p \in Restores, ProposeRestore(p) PROVE ExitInv'
  <2> DEFINE t == [list |-> None, sell |-> 0, rest |-> free]
  <2>1. free \in Nat /\ free > 0
    BY <1>3 DEF ProposeRestore, ExitInv, ExitType
  <2>2. t \in Terms /\ Propose(p, t)
    BY <1>3, <2>1 DEF ProposeRestore, Terms, NoTerms
  <2>3. terms'[p] = t
    BY <2>2 DEF Propose, ExitInv, ExitType
  <2>4. TermsInv(p)'
    BY <1>3, <2>1, <2>3 DEF TermsInv
  <2> QED BY <2>2, <2>4, ProposeStep
<1>4. ASSUME p \in Closes, ProposeClose(p) PROVE ExitInv'
  <2> DEFINE t == [list |-> None, sell |-> free, rest |-> 0]
  <2>1. free \in Nat /\ free > 0
    BY <1>4 DEF ProposeClose, ExitInv, ExitType
  <2>2. t \in Terms /\ Propose(p, t)
    BY <1>4, <2>1 DEF ProposeClose, Terms, NoTerms
  <2>3. terms'[p] = t
    BY <2>2 DEF Propose, ExitInv, ExitType
  <2>4. TermsInv(p)'
    BY <1>4, <2>1, <2>3 DEF TermsInv
  <2> QED BY <2>2, <2>4, ProposeStep
<1> QED BY <1>1, <1>2, <1>3, <1>4

\* A step of the ledger or of the process: the exchange does not move.
LEMMA QuietStep ==
    ASSUME ExitInv, NEW p \in Proposals, ExitType', OthersStay(p), RowInv(p)',
           UNCHANGED exchange
    PROVE  ExitInv'
<1>1. ListsStay
  BY DEF exchange, ExitInv, ExitType, ListsStay, Released
<1> QED BY <1>1, OneRow

LEMMA LedgerInv ==
    ASSUME ExitInv, NEW p \in Proposals, Claim(p) \/ LeaseExpires(p) \/ Crash(p)
    PROVE  ExitInv'
<1> USE DEF Claim, LeaseExpires, Crash, Goes, exchange
<1>1. ExitType'
  BY DEF ExitInv, ExitType, Statuses, Labels, Replies
<1>2. OthersStay(p) /\ UNCHANGED exchange
  BY DEF ExitInv, ExitType, OthersStay
<1>3. RowInv(p)'
  <2>1. RowInv(p) /\ ExitType
    BY DEF ExitInv
  <2>2. StatusInv(p)'
    BY <2>1 DEF RowInv, StatusInv, TermsInv, ExitType
  <2>3. UNCHANGED <<locked, placed, terms, request, sold>>
    OBVIOUS
  <2>4. \/ /\ pc[p] = "off" /\ pc'[p] = "claimed" /\ reply'[p] = "none"
           /\ request[p] = "none" /\ sold[p] = 0
           /\ p \in Partials \cup Restores => placed[p] = 0
        \/ pc'[p] = "off" /\ reply'[p] = "none"
        \/ pc'[p] = pc[p] /\ reply'[p] = reply[p]
    <3>1. CASE Claim(p)
      BY <2>1, <3>1 DEF RowInv, StatusInv, PhaseInv, ExitType
    <3>2. CASE LeaseExpires(p) \/ Crash(p)
      BY <2>1, <3>2 DEF ExitType
    <3> QED BY <3>1, <3>2
  <2> HIDE DEF Claim, LeaseExpires, Crash
  <2>5. PhaseInv(p)'
    BY <2>1, <2>3, <2>4 DEF RowInv, PhaseInv
  <2>6. EffectInv(p)'
    BY <2>1, <2>3, <2>4 DEF RowInv, EffectInv, Released
  <2> QED BY <2>2, <2>5, <2>6 DEF RowInv
<1> QED BY <1>1, <1>2, <1>3, QuietStep

\* The process sends a write, or reads on.
LEMMA SendInv ==
    ASSUME ExitInv, NEW p \in Proposals,
           \/ Start(p) \/ HearCancel(p) \/ ReadBalance(p)
           \/ HearSale(p) /\ terms[p].rest > 0
           \/ ReadOrders(p) /\ p \notin Cancels
    PROVE  ExitInv'
<1>1. ExitType'
  BY DEF Start, HearCancel, ReadBalance, HearSale, AfterSale, ReadOrders, Sends,
     Reads, Goes, exchange, ExitInv, ExitType, Labels, Writes, Replies
<1>2. OthersStay(p) /\ UNCHANGED exchange
  BY DEF Start, HearCancel, ReadBalance, HearSale, AfterSale, ReadOrders, Sends,
     Reads, Goes, exchange, ExitInv, ExitType, OthersStay
<1>3. RowInv(p)'
  <2>1. RowInv(p) /\ ExitType
    BY DEF ExitInv
  <2>2. status[p] # "ABSENT" /\ TermsInv(p)
    BY <2>1, ExitAssumption
       DEF RowInv, StatusInv, PhaseInv, Start, HearCancel, ReadBalance, HearSale,
           ReadOrders
  <2>3. UNCHANGED <<free, locked, placed, sold, status, terms>>
    BY DEF Start, HearCancel, ReadBalance, HearSale, AfterSale, ReadOrders, Sends,
       Reads, exchange
  <2>4. CASE Start(p)
    <3>1. StatusInv(p)'
      BY <2>1, <2>2, <2>3, <2>4
         DEF RowInv, StatusInv, PhaseInv, TermsInv, ExitType, Start, Sends, Goes
    <3>0. /\ reply'[p] = "none"
          /\ \/ p \in Partials \cup Cancels /\ pc'[p] = "cancelling" /\ request'[p] = "cancel"
             \/ p \in Closes /\ pc'[p] = "selling" /\ request'[p] = "sell"
             \/ p \in Restores /\ pc'[p] = "arming" /\ request'[p] = "list"
      BY <2>1, <2>4 DEF ExitType, Start, Sends, Goes
    <3>2. PhaseInv(p)'
      BY <3>0 DEF PhaseInv
    <3>3. sold[p] = 0 /\ (p \in Partials \cup Restores => placed[p] = 0)
      BY <2>1, <2>4 DEF RowInv, EffectInv, Start
    <3>4. p \in Restores => terms[p].sell = 0 /\ terms[p].rest > 0
      BY <2>2 DEF TermsInv
    <3>5. EffectInv(p)'
      BY <2>3, <3>0, <3>3, <3>4, ExitAssumption DEF EffectInv
    <3> QED BY <3>1, <3>2, <3>5 DEF RowInv
  <2>5. CASE HearCancel(p)
    <3>1. StatusInv(p)'
      BY <2>1, <2>2, <2>3, <2>5
         DEF RowInv, StatusInv, PhaseInv, TermsInv, ExitType, HearCancel, Reads, Goes
    <3>2. PhaseInv(p)'
      BY <2>1, <2>3, <2>5, ExitAssumption
         DEF RowInv, StatusInv, PhaseInv, ExitType, HearCancel, Reads, Goes
    <3>3. EffectInv(p)'
      BY <2>1, <2>2, <2>3, <2>5, ExitAssumption
         DEF RowInv, StatusInv, PhaseInv, EffectInv, TermsInv, ExitType, Released,
             Active, HearCancel, Reads, Goes
    <3> QED BY <3>1, <3>2, <3>3 DEF RowInv
  <2>6. CASE ReadBalance(p)
    <3>1. StatusInv(p)'
      BY <2>1, <2>2, <2>3, <2>6
         DEF RowInv, StatusInv, PhaseInv, TermsInv, ExitType, ReadBalance, Sends, Goes
    <3>2. PhaseInv(p)'
      BY <2>1, <2>3, <2>6, ExitAssumption
         DEF RowInv, StatusInv, PhaseInv, ExitType, ReadBalance, Sends, Goes
    <3>3. EffectInv(p)'
      BY <2>1, <2>2, <2>3, <2>6, ExitAssumption
         DEF RowInv, StatusInv, PhaseInv, EffectInv, TermsInv, ExitType, Released,
             Active, ReadBalance, Sends, Goes
    <3> QED BY <3>1, <3>2, <3>3 DEF RowInv
  <2>7. CASE HearSale(p) /\ terms[p].rest > 0
    <3>1. StatusInv(p)'
      BY <2>1, <2>2, <2>3, <2>7
         DEF RowInv, StatusInv, PhaseInv, TermsInv, ExitType, HearSale, AfterSale, Sends, Goes
    <3>2. PhaseInv(p)'
      <4>1. p \in Partials
        BY <2>1, <2>2, <2>7 DEF RowInv, PhaseInv, TermsInv, HearSale
      <4>2. pc'[p] = "arming" /\ request'[p] = "list" /\ reply'[p] = "none"
        BY <2>1, <2>7 DEF ExitType, HearSale, AfterSale, Sends, Goes
      <4> QED BY <4>1, <4>2 DEF PhaseInv
    <3>3. EffectInv(p)'
      BY <2>1, <2>2, <2>3, <2>7, ExitAssumption
         DEF RowInv, StatusInv, PhaseInv, EffectInv, TermsInv, ExitType, Released,
             Active, HearSale, AfterSale, Sends, Goes
    <3> QED BY <3>1, <3>2, <3>3 DEF RowInv
  <2>8. CASE ReadOrders(p) /\ p \notin Cancels
    <3>1. StatusInv(p)'
      BY <2>1, <2>2, <2>3, <2>8
         DEF RowInv, StatusInv, PhaseInv, TermsInv, ExitType, ReadOrders, Reads, Goes
    <3>2. PhaseInv(p)'
      BY <2>1, <2>3, <2>8, ExitAssumption
         DEF RowInv, StatusInv, PhaseInv, ExitType, ReadOrders, Reads, Goes
    <3>3. EffectInv(p)'
      <4>1. /\ p \in Partials /\ pc[p] = "reading" /\ request[p] = "none"
            /\ pc'[p] = "released" /\ request'[p] = "none" /\ reply'[p] = "none"
        BY <2>1, <2>8 DEF RowInv, PhaseInv, ExitType, ReadOrders, Reads, Goes
      <4>2. Released(terms[p].list)
        BY <2>1, <2>2, <2>8, <4>1 DEF TermsInv, ExitType, ReadOrders, Active, Released
      <4>3. sold[p] = 0 /\ placed[p] = 0
        BY <2>1, <4>1 DEF RowInv, EffectInv
      <4> QED BY <2>3, <4>1, <4>2, <4>3 DEF EffectInv, Released
    <3> QED BY <3>1, <3>2, <3>3 DEF RowInv
  <2> QED BY <2>4, <2>5, <2>6, <2>7, <2>8
<1> QED BY <1>1, <1>2, <1>3, QuietStep

\* The process ends and records an outcome.
LEMMA SettleInv ==
    ASSUME ExitInv, NEW p \in Proposals, pc[p] # "off",
           NEW outcome \in {"EXECUTED", "RECONCILE"}, Settles(p, outcome),
           outcome = "EXECUTED" =>
               /\ request[p] = "none"
               /\ sold[p] = terms[p].sell
               /\ terms[p].list # None => Released(terms[p].list)
               /\ terms[p].rest > 0 => p \in Lists /\ placed[p] = terms[p].rest
    PROVE  ExitInv'
<1> USE DEF Settles, Goes, exchange
<1>1. ExitType'
  BY DEF ExitInv, ExitType, Labels, Replies, Statuses
<1>2. OthersStay(p) /\ UNCHANGED exchange
  BY DEF ExitInv, ExitType, OthersStay
<1>3. RowInv(p)'
  <2>1. RowInv(p) /\ ExitType
    BY DEF ExitInv
  <2>2. /\ status[p] \in {"EXECUTING", "RECONCILE"} /\ TermsInv(p)
        /\ status'[p] \in {"RECONCILE", outcome}
        /\ pc'[p] = "off" /\ reply'[p] = "none"
    BY <2>1 DEF RowInv, StatusInv, ExitType
  <2>3. UNCHANGED <<free, locked, placed, sold, terms, request>>
    OBVIOUS
  <2> HIDE DEF Settles
  <2>4. StatusInv(p)'
    BY <2>2, <2>3 DEF StatusInv, TermsInv, Released
  <2>5. PhaseInv(p)'
    BY <2>1, <2>2, <2>3 DEF RowInv, PhaseInv
  <2>6. EffectInv(p)'
    BY <2>1, <2>2, <2>3 DEF RowInv, EffectInv, Released
  <2> QED BY <2>4, <2>5, <2>6 DEF RowInv
<1> QED BY <1>1, <1>2, <1>3, QuietStep

LEMMA SettlesInv ==
    ASSUME ExitInv, NEW p \in Proposals,
           \/ Uncertain(p) \/ HearList(p)
           \/ HearSale(p) /\ ~ (terms[p].rest > 0)
           \/ ReadOrders(p) /\ p \in Cancels
    PROVE  ExitInv'
<1>0. RowInv(p) /\ ExitType
  BY DEF ExitInv
<1>t. pc[p] # "off" => TermsInv(p)
  BY <1>0 DEF RowInv, StatusInv
<1>1. CASE Uncertain(p)
  BY <1>1, SettleInv DEF Uncertain
<1>2. CASE HearList(p)
  <2>1. p \in Partials \cup Restores /\ p \in Lists
    BY <1>0, <1>2 DEF HearList, RowInv, PhaseInv, Lists
  <2>2. request[p] = "none" /\ sold[p] = terms[p].sell /\ placed[p] = terms[p].rest
    BY <1>0, <1>2, <2>1 DEF HearList, RowInv, PhaseInv, EffectInv
  <2>3. terms[p].list # None => Released(terms[p].list)
    BY <1>0, <1>t, <1>2, <2>1 DEF HearList, RowInv, EffectInv, TermsInv
  <2> QED BY <1>2, <2>1, <2>2, <2>3, SettleInv DEF HearList
<1>3. CASE HearSale(p) /\ ~ (terms[p].rest > 0)
  <2>1. p \in Partials \cup Closes
    BY <1>0, <1>3 DEF HearSale, RowInv, PhaseInv
  <2>2. request[p] = "none" /\ sold[p] = terms[p].sell
    BY <1>0, <1>3 DEF HearSale, RowInv, PhaseInv, EffectInv
  <2>3. terms[p].list # None => Released(terms[p].list)
    BY <1>0, <1>t, <1>3, <2>1 DEF HearSale, RowInv, EffectInv, TermsInv
  <2> QED BY <1>3, <2>2, <2>3, SettleInv DEF HearSale, AfterSale
<1>4. CASE ReadOrders(p) /\ p \in Cancels
  <2>1. TermsInv(p)
    BY <1>t, <1>4 DEF ReadOrders
  <2>2. request[p] = "none" /\ sold[p] = 0
    BY <1>0, <1>4 DEF ReadOrders, RowInv, PhaseInv, EffectInv
  <2>3. Released(terms[p].list)
    BY <1>0, <1>4, <2>1 DEF ReadOrders, Active, TermsInv, ExitType, Released
  <2> QED BY <1>4, <2>1, <2>2, <2>3, SettleInv DEF ReadOrders, TermsInv
<1> QED BY <1>1, <1>2, <1>3, <1>4

-----------------------------------------------------------------------------
(***************************************************************************)
(* The exchange.                                                           *)
(***************************************************************************)
LEMMA RefuseInv == ASSUME ExitInv, NEW p \in Proposals, Refuse(p) PROVE ExitInv'
<1> USE DEF Refuse, Answer, exchange
<1>1. ExitType'
  BY DEF ExitInv, ExitType, Writes, Replies
<1>2. OthersStay(p) /\ UNCHANGED exchange
  BY DEF ExitInv, ExitType, OthersStay
<1>3. RowInv(p)'
  <2>1. RowInv(p) /\ ExitType
    BY DEF ExitInv
  <2>2. /\ pc[p] # "off" /\ request[p] # "none" /\ request'[p] = "none"
        /\ \/ reply'[p] = "none"
           \/ reply'[p] = "unclear" /\ request[p] = "cancel"
    BY <2>1 DEF ExitType
  <2>3. request[p] = "cancel" /\ pc[p] # "off" => pc[p] = "cancelling"
    BY <2>1 DEF RowInv, PhaseInv, ExitType, Labels
  <2>4. UNCHANGED <<free, locked, placed, sold, terms, status, pc>>
    OBVIOUS
  <2> HIDE DEF Refuse
  <2>5. StatusInv(p)'
    BY <2>1, <2>2, <2>4 DEF RowInv, StatusInv, TermsInv, Released
  <2>6. PhaseInv(p)'
    BY <2>1, <2>2, <2>3, <2>4 DEF RowInv, PhaseInv
  <2>7. EffectInv(p)'
    BY <2>1, <2>2, <2>4 DEF RowInv, EffectInv, Released
  <2> QED BY <2>5, <2>6, <2>7 DEF RowInv
<1> QED BY <1>1, <1>2, <1>3, QuietStep

LEMMA CancelInv == ASSUME ExitInv, NEW p \in Proposals, CancelList(p) PROVE ExitInv'
<1> DEFINE l == terms[p].list
<1>0. ExitType /\ RowInv(p) /\ l \in Lists
  BY DEF ExitInv, CancelList, Active
<1>1. ExitType'
  <2>1. locked[l] \in Nat /\ free' = free + locked[l]
    BY <1>0 DEF ExitType, CancelList
  <2>2. free' \in Nat
    BY <1>0, <2>1 DEF ExitType
  <2>3. /\ request' = [request EXCEPT ![p] = "none"]
        /\ \E r \in Replies : reply' = [reply EXCEPT ![p] = r]
    BY <1>0 DEF ExitType, CancelList, Answer, Replies
  <2>4. request' \in [Proposals -> Writes] /\ reply' \in [Proposals -> Replies]
    BY <1>0, <2>3 DEF ExitType, Writes
  <2> QED BY <1>0, <2>2, <2>4 DEF ExitType, CancelList, Answer
<1>2. UNCHANGED <<placed, sold, terms, status, pc>> /\ locked' = [locked EXCEPT ![l] = 0]
  BY DEF CancelList, Answer
<1>3. ListsStay /\ OthersStay(p)
  <2>1. ListsStay
    BY <1>0, <1>2 DEF ExitType, ListsStay, Released
  <2>2. OthersStay(p)
    BY <1>0, <1>2 DEF ExitType, OthersStay, CancelList, Answer
  <2> QED BY <2>1, <2>2
<1>4. RowInv(p)'
  <2>1. /\ request[p] = "cancel" /\ request'[p] = "none"
        /\ IF pc[p] = "off" THEN reply'[p] = reply[p] ELSE reply'[p] \in {"CANCELED", "unclear"}
    BY <1>0 DEF CancelList, Answer, ExitType
  <2>2. pc[p] \in {"off", "cancelling"} /\ (pc[p] = "off" => reply[p] = "none")
    BY <1>0, <2>1 DEF RowInv, PhaseInv, ExitType, Labels
  <2>3. Released(l) => Released(l)'
    BY <1>0, <1>2 DEF ExitType, Released
  <2>4. TermsInv(p) => TermsInv(p)'
    BY <1>2 DEF TermsInv
  <2>5. StatusInv(p)'
    BY <1>0, <1>2, <2>1, <2>3, <2>4 DEF RowInv, StatusInv
  <2>6. PhaseInv(p)'
    BY <1>0, <1>2, <2>1, <2>2 DEF RowInv, PhaseInv
  <2>7. EffectInv(p)'
    BY <1>0, <1>2, <2>1, <2>2, <2>3 DEF RowInv, EffectInv
  <2> QED BY <2>5, <2>6, <2>7 DEF RowInv
<1> QED BY <1>1, <1>3, <1>4, OneRow

LEMMA SellInv == ASSUME ExitInv, NEW p \in Proposals, Sell(p) PROVE ExitInv'
<1>0. ExitType /\ RowInv(p)
  BY DEF ExitInv
<1>1. PICK q \in 1..terms[p].sell :
        /\ free' = free - q
        /\ sold' = [sold EXCEPT ![p] = @ + q]
        /\ Answer(p, IF q = terms[p].sell THEN "FILLED" ELSE "not filled")
  BY DEF Sell
<1>2. /\ request[p] = "sell" /\ free >= terms[p].sell /\ sold[p] = 0
      /\ UNCHANGED <<locked, placed, terms, status, pc>>
  BY <1>0 DEF Sell, Answer, RowInv, EffectInv
<1>3. q \in Nat /\ q > 0 /\ q <= terms[p].sell /\ terms[p].sell \in Nat
  BY <1>0 DEF ExitType, Terms
<1>4. ExitType'
  <2>1. free' \in Nat
    <3>1. free \in Nat
      BY <1>0 DEF ExitType
    <3>2. free' = free - q
      BY <1>1
    <3>3. q <= free
      BY <1>2, <1>3, <3>1
    <3> QED BY <1>3, <3>1, <3>2, <3>3
  <2>2. sold' \in [Proposals -> Nat]
    <3>1. sold[p] + q \in Nat
      BY <1>0, <1>3 DEF ExitType
    <3>2. sold' = [sold EXCEPT ![p] = sold[p] + q]
      BY <1>1
    <3> QED BY <1>0, <3>1, <3>2 DEF ExitType
  <2>3. request' \in [Proposals -> Writes] /\ reply' \in [Proposals -> Replies]
    BY <1>0, <1>1 DEF ExitType, Answer, Writes, Replies
  <2> QED BY <1>0, <1>2, <2>1, <2>2, <2>3 DEF ExitType
<1>5. ListsStay /\ OthersStay(p)
  BY <1>0, <1>1, <1>2 DEF ExitType, ListsStay, OthersStay, Released, Answer
<1>6. RowInv(p)'
  <2>0. sold'[p] = q
    <3>1. sold' = [sold EXCEPT ![p] = sold[p] + q]
      BY <1>1
    <3>2. sold[p] + q = q
      BY <1>2, <1>3
    <3> QED BY <1>0, <3>1, <3>2 DEF ExitType
  <2>1. /\ request'[p] = "none" /\ sold'[p] = q
        /\ IF pc[p] = "off" THEN reply'[p] = reply[p]
           ELSE reply'[p] = IF q = terms[p].sell THEN "FILLED" ELSE "not filled"
    BY <1>0, <1>1, <2>0 DEF Answer, ExitType
  <2>2. pc[p] \in {"off", "selling"} /\ (pc[p] = "off" => reply[p] = "none")
    BY <1>0, <1>2 DEF RowInv, PhaseInv, ExitType, Labels
  <2>3. TermsInv(p) => TermsInv(p)'
    BY <1>2 DEF TermsInv
  <2>4. StatusInv(p)'
    BY <1>0, <1>2, <2>1, <2>3 DEF RowInv, StatusInv
  <2>5. PhaseInv(p)'
    BY <1>0, <1>2, <2>1, <2>2 DEF RowInv, PhaseInv
  <2>6. EffectInv(p)'
    BY <1>0, <1>2, <2>1, <2>2 DEF RowInv, EffectInv, Released
  <2> QED BY <2>4, <2>5, <2>6 DEF RowInv
<1> QED BY <1>4, <1>5, <1>6, OneRow

LEMMA PlaceInv == ASSUME ExitInv, NEW p \in Proposals, PlaceList(p) PROVE ExitInv'
<1>0. ExitType /\ RowInv(p)
  BY DEF ExitInv
<1>1. /\ request[p] = "list" /\ free >= terms[p].rest /\ p \in Partials \cup Restores
      /\ p \in Lists /\ placed[p] = 0 /\ terms[p].rest \in Nat /\ terms[p].rest > 0
  BY <1>0 DEF PlaceList, RowInv, PhaseInv, EffectInv, ExitType, Terms, Lists
<1>2. UNCHANGED <<sold, terms, status, pc>> /\ request' = [request EXCEPT ![p] = "none"]
  BY DEF PlaceList, Answer, exchange
<1>3. \/ /\ free' = free - terms[p].rest
         /\ locked' = [locked EXCEPT ![p] = terms[p].rest]
         /\ placed' = [placed EXCEPT ![p] = terms[p].rest]
         /\ Answer(p, "armed")
      \/ UNCHANGED <<free, locked, placed>> /\ Answer(p, "leg rejected")
  BY DEF PlaceList, exchange
<1>4. ExitType'
  <2>1. free' \in Nat
    <3>1. free \in Nat
      BY <1>0 DEF ExitType
    <3>2. free' \in {free, free - terms[p].rest}
      BY <1>3
    <3>3. terms[p].rest \in Nat /\ terms[p].rest <= free
      BY <1>1, <3>1
    <3> QED BY <3>1, <3>2, <3>3
  <2>2. locked' \in [Lists -> Nat] /\ placed' \in [Lists -> Nat]
    BY <1>0, <1>1, <1>3 DEF ExitType
  <2>3. request' \in [Proposals -> Writes] /\ reply' \in [Proposals -> Replies]
    BY <1>0, <1>3 DEF ExitType, Answer, Writes, Replies
  <2> QED BY <1>0, <1>2, <2>1, <2>2, <2>3 DEF ExitType
<1>5. ListsStay
  <2>1. ASSUME NEW l \in Lists
        PROVE  placed[l] > 0 => placed'[l] > 0 /\ (locked[l] = 0 => locked'[l] = 0)
    <3>1. CASE l = p
      BY <1>1, <3>1
    <3>2. CASE l # p
      BY <1>0, <1>3, <3>2 DEF ExitType
    <3> QED BY <3>1, <3>2
  <2> QED BY <2>1 DEF ListsStay, Released
<1>6. OthersStay(p)
  BY <1>0, <1>1, <1>2, <1>3 DEF ExitType, OthersStay, Answer
<1>7. RowInv(p)'
  <2>1. /\ request'[p] = "none"
        /\ IF pc[p] = "off" THEN reply'[p] = reply[p]
           ELSE \/ reply'[p] = "armed" /\ placed'[p] = terms[p].rest
                \/ reply'[p] = "leg rejected"
    BY <1>0, <1>1, <1>2, <1>3 DEF Answer, ExitType
  <2>2. pc[p] \in {"off", "arming"} /\ (pc[p] = "off" => reply[p] = "none")
    BY <1>0, <1>1 DEF RowInv, PhaseInv, ExitType, Labels
  <2>3. TermsInv(p) => TermsInv(p)'
    BY <1>0, <1>2, <1>5 DEF TermsInv, ListsStay
  <2>4. status[p] \notin {"ABSENT", "PENDING", "EXECUTED"} /\ TermsInv(p)
    BY <1>0, <1>1 DEF RowInv, StatusInv
  <2>5. StatusInv(p)'
    BY <1>0, <1>2, <2>1, <2>3, <2>4 DEF RowInv, StatusInv
  <2>6. PhaseInv(p)'
    BY <1>0, <1>1, <1>2, <2>1, <2>2 DEF RowInv, PhaseInv
  <2>7. p \in Partials => Released(terms[p].list)'
    <3>1. p \in Partials => terms[p].list \in Lists /\ Released(terms[p].list)
      BY <1>0, <1>1, <2>4 DEF RowInv, EffectInv, TermsInv
    <3>2. terms' = terms
      BY <1>2
    <3> QED BY <1>5, <3>1, <3>2 DEF ListsStay
  <2>8. EffectInv(p)'
    BY <1>0, <1>1, <1>2, <2>1, <2>2, <2>7 DEF RowInv, EffectInv
  <2> QED BY <2>5, <2>6, <2>8 DEF RowInv
<1> QED BY <1>4, <1>5, <1>6, <1>7, OneRow

\* A leg that trades empties a list, never fills one.
LEMMA LegInv == ASSUME ExitInv, NEW l \in Lists, LegFills(l) PROVE ExitInv'
<1>1. ExitType' /\ ListsStay
  BY DEF ExitInv, ExitType, LegFills, ListsStay, Released
<1>2. UNCHANGED <<free, placed, sold, status, terms, pc, request, reply>>
  BY DEF LegFills
<1>3. ASSUME NEW p \in Proposals PROVE RowInv(p)'
  <2>1. RowInv(p)
    BY DEF ExitInv
  <2>2. TermsInv(p) => TermsInv(p)'
    BY <1>2 DEF TermsInv
  <2>3. terms[p].list \in Lists /\ Released(terms[p].list) => Released(terms[p].list)'
    BY <1>1, <1>2 DEF ListsStay
  <2>4. terms[p].list \in Lists \cup {None}
    BY DEF ExitInv, ExitType, Terms
  <2>5. StatusInv(p)'
    BY <1>2, <2>1, <2>2, <2>3, <2>4 DEF RowInv, StatusInv
  <2>6. PhaseInv(p)'
    BY <1>2, <2>1 DEF RowInv, PhaseInv
  <2>7. status[p] \notin {"ABSENT", "PENDING"} /\ p \in Partials => terms[p].list \in Lists
    BY <2>1 DEF RowInv, StatusInv, TermsInv
  <2>8. EffectInv(p)'
    BY <1>2, <2>1, <2>3, <2>7 DEF RowInv, StatusInv, EffectInv
  <2> QED BY <2>5, <2>6, <2>8 DEF RowInv
<1> QED BY <1>1, <1>3 DEF ExitInv

-----------------------------------------------------------------------------
(***************************************************************************)
(* The invariant of one proposal's row is inductive.                       *)
(***************************************************************************)
LEMMA ExitInvStep == ExitInv /\ [Next]_vars => ExitInv'
<1> SUFFICES ASSUME ExitInv, [Next]_vars PROVE ExitInv'
  OBVIOUS
<1>1. CASE \/ \E p \in Partials, pct \in Percentages : ProposePartialExit(p, pct)
           \/ \E p \in Cancels : ProposeCancel(p)
           \/ \E p \in Restores : ProposeRestore(p)
           \/ \E p \in Closes : ProposeClose(p)
  BY <1>1, ProposesInv DEF Proposals
<1>2. ASSUME NEW p \in Proposals, Claim(p) \/ LeaseExpires(p) \/ Crash(p) PROVE ExitInv'
  BY <1>2, LedgerInv
<1>3. ASSUME NEW p \in Proposals, Execute(p) PROVE ExitInv'
  BY <1>3, SendInv, SettlesInv DEF Execute
<1>4. ASSUME NEW p \in Proposals, Exchange(p) PROVE ExitInv'
  BY <1>4, RefuseInv, CancelInv, SellInv, PlaceInv DEF Exchange
<1>5. ASSUME NEW l \in Lists, LegFills(l) PROVE ExitInv'
  BY <1>5, LegInv
<1>6. CASE UNCHANGED vars
  <2>1. ASSUME NEW p \in Proposals PROVE RowInv(p)'
    BY <1>6, <2>1 DEF vars, ExitInv, RowInv, StatusInv, TermsInv, PhaseInv, EffectInv, Released
  <2>2. ExitType'
    BY <1>6 DEF vars, ExitInv, ExitType
  <2> QED BY <2>1, <2>2 DEF ExitInv
<1> QED BY <1>1, <1>2, <1>3, <1>4, <1>5, <1>6 DEF Next

-----------------------------------------------------------------------------
(***************************************************************************)
(* The coins, accounted for proposal by proposal: what lists given up on   *)
(* its behalf held when they were placed, against what it sold and what    *)
(* it protected again.  A list that two proposals give up counts twice and *)
(* one whose legs had filled counts in full, so this bounds the free coins *)
(* from above, which is what ReleasedIsKnown needs.                        *)
(***************************************************************************)
Started(p) == status[p] \notin {"ABSENT", "PENDING"}

Gave(p) ==
    IF p \in Partials \cup Cancels /\ Started(p) /\ locked[terms[p].list] = 0
    THEN placed[terms[p].list] ELSE 0

Took(p) == sold[p] + (IF p \in Partials \cup Restores THEN placed[p] ELSE 0)

Net == [p \in Proposals |-> Gave(p) - Took(p)]

NoListGrows == \A l \in Lists : locked[l] <= placed[l]

\* A partial exit is about the whole of its list.
SharesAddUp ==
    \A p \in Partials :
        status[p] # "ABSENT" => terms[p].sell + terms[p].rest = placed[terms[p].list]

FreeIsAccounted == free <= Other + SumFunctionOnSet(Net, Proposals)

CoinInv == ExitInv /\ NoListGrows /\ SharesAddUp /\ FreeIsAccounted

\* What a step leaves alone: the size of a list once placed, the end of a list,
\* and a proposal's terms and start.
SizesStay ==
    \A l \in Lists :
        placed[l] > 0 => placed'[l] = placed[l] /\ (locked[l] = 0 => locked'[l] = 0)

StartsStay ==
    \A p \in Proposals :
        /\ status[p] # "ABSENT" => terms'[p] = terms[p]
        /\ Started(p) => Started(p)'

LEMMA ProposalsFinite == IsFiniteSet(Proposals)
<1>1. Proposals \subseteq Partials \cup Cancels \cup Restores \cup Closes \cup Entries
  BY DEF Proposals
<1> QED BY <1>1, ExitAssumption, FS_Subset

NetTypes ==
    \A p \in Proposals :
        Gave(p) \in Nat /\ Took(p) \in Nat /\ Net[p] = Gave(p) - Took(p)

LEMMA NetType == ExitInv => NetTypes
<1> SUFFICES ASSUME ExitInv, NEW p \in Proposals
             PROVE  Gave(p) \in Nat /\ Took(p) \in Nat /\ Net[p] = Gave(p) - Took(p)
  BY DEF NetTypes
<1>1. ExitType /\ RowInv(p)
  BY DEF ExitInv
<1>2. Started(p) /\ p \in Partials \cup Cancels => terms[p].list \in Lists
  BY <1>1 DEF RowInv, StatusInv, TermsInv, Started
<1>3. Gave(p) \in Nat
  BY <1>1, <1>2 DEF Gave, ExitType
<1>4. Took(p) \in Nat
  <2>1. sold[p] \in Nat
    BY <1>1 DEF ExitType
  <2>2. p \in Partials \cup Restores => placed[p] \in Nat
    BY <1>1 DEF ExitType, Lists
  <2> QED BY <2>1, <2>2 DEF Took
<1> QED BY <1>3, <1>4 DEF Net

\* What a proposal gave stays given.
LEMMA GaveStays ==
    ASSUME ExitInv, SizesStay, StartsStay, NEW p \in Proposals
    PROVE  Gave(p) = 0 \/ Gave(p)' = Gave(p)
<1>1. RowInv(p)
  BY DEF ExitInv
<1>2. CASE p \in Partials \cup Cancels /\ Started(p) /\ locked[terms[p].list] = 0
  <2>1. terms[p].list \in Lists /\ placed[terms[p].list] > 0
    BY <1>1, <1>2 DEF RowInv, StatusInv, TermsInv, Started
  <2>2. Started(p)' /\ terms'[p] = terms[p]
    BY <1>2 DEF StartsStay, Started
  <2>3. locked'[terms[p].list] = 0 /\ placed'[terms[p].list] = placed[terms[p].list]
    BY <1>2, <2>1 DEF SizesStay
  <2> QED BY <1>2, <2>2, <2>3 DEF Gave
<1> QED BY <1>2 DEF Gave

\* The books stay right if the coins that one proposal frees are its own gain.
LEMMA CoinsStep ==
    ASSUME ExitInv, ExitInv', FreeIsAccounted, SizesStay, StartsStay,
           NEW p \in Proposals,
           free' + Gave(p) + Took(p)' <= free + Gave(p)' + Took(p),
           \A q \in Proposals \ {p} : Took(q)' = Took(q)
    PROVE  FreeIsAccounted'
<1> DEFINE f == Net
           g == Net'
           c == free' - free
<1>1. free \in Nat /\ free' \in Nat /\ Other \in Nat
  BY ExitAssumption DEF ExitInv, ExitType
<1>2. ASSUME NEW q \in Proposals
      PROVE  /\ Gave(q) \in Nat /\ Took(q) \in Nat /\ f[q] = Gave(q) - Took(q)
             /\ Gave(q)' \in Nat /\ Took(q)' \in Nat /\ g[q] = Gave(q)' - Took(q)'
  <2>1. NetTypes /\ NetTypes'
    BY NetType, PTL
  <2> QED BY <2>1 DEF NetTypes
<1>3. \A q \in Proposals : f[q] \in Int /\ g[q] \in Int
  BY <1>2
<1>4. f[p] + c <= g[p] /\ c \in Int
  BY <1>1, <1>2
<1>5. ASSUME NEW q \in Proposals \ {p} PROVE f[q] <= g[q]
  <2>1. Gave(q) <= Gave(q)'
    BY <1>2, GaveStays
  <2> QED BY <1>2, <2>1
<1> HIDE DEF f, g, c
<1>6. SumFunctionOnSet(f, Proposals) + c <= SumFunctionOnSet(g, Proposals)
  BY <1>3, <1>4, <1>5, ProposalsFinite, SumRaised
<1>7. SumFunctionOnSet(f, Proposals) \in Int /\ SumFunctionOnSet(g, Proposals) \in Int
  BY <1>3, ProposalsFinite, SumInt
<1>8. free <= Other + SumFunctionOnSet(f, Proposals)
  BY DEF f, FreeIsAccounted
<1>9. free' <= Other + SumFunctionOnSet(g, Proposals)
  BY <1>1, <1>6, <1>7, <1>8 DEF c
<1> QED BY <1>9 DEF g, FreeIsAccounted

\* A step of the ledger or of the process, and an answer without effect.
LEMMA QuietCoins ==
    ASSUME ExitInv, ExitInv', FreeIsAccounted, StartsStay, UNCHANGED exchange,
           NEW p \in Proposals
    PROVE  FreeIsAccounted'
<1>1. SizesStay /\ \A q \in Proposals : Took(q)' = Took(q)
  BY DEF exchange, SizesStay, Took
<1>2. NetTypes /\ NetTypes' /\ free \in Nat
  BY NetType, PTL DEF ExitInv, ExitType
<1>3. Gave(p) \in Nat /\ Gave(p)' \in Nat /\ Took(p) \in Nat
  BY <1>2 DEF NetTypes
<1>4. Gave(p) <= Gave(p)'
  BY <1>1, <1>3, GaveStays
<1>5. free' = free /\ Took(p)' = Took(p)
  BY <1>1 DEF exchange
<1>6. free' + Gave(p) + Took(p)' <= free + Gave(p)' + Took(p)
  BY <1>2, <1>3, <1>4, <1>5
<1> QED BY <1>1, <1>6, CoinsStep

LEMMA ProposeCoins ==
    ASSUME CoinInv, ExitInv', NEW p \in Proposals,
           \/ p \in Partials /\ \E pct \in Percentages : ProposePartialExit(p, pct)
           \/ p \in Cancels /\ ProposeCancel(p)
           \/ p \in Restores /\ ProposeRestore(p)
           \/ p \in Closes /\ ProposeClose(p)
    PROVE  CoinInv'
<1>0. ExitType /\ ExitInv
  BY DEF CoinInv, ExitInv
<1>1. PICK t : Propose(p, t)
  BY DEF ProposePartialExit, ProposeCancel, ProposeRestore, ProposeClose
<1>2. UNCHANGED exchange /\ status[p] = "ABSENT" /\ status'[p] = "PENDING"
  BY <1>0, <1>1 DEF Propose, ExitType
<1>3. \A q \in Proposals \ {p} : status'[q] = status[q] /\ terms'[q] = terms[q]
  BY <1>0, <1>1 DEF Propose, ExitType
<1>4. StartsStay
  BY <1>2, <1>3 DEF StartsStay, Started
<1>5. FreeIsAccounted'
  BY <1>0, <1>2, <1>4, QuietCoins DEF CoinInv
<1>6. NoListGrows'
  BY <1>2 DEF CoinInv, NoListGrows, exchange
<1>7. ASSUME p \in Partials
      PROVE  terms'[p].sell + terms'[p].rest = placed'[terms'[p].list]
  <2>1. PICK pct \in Percentages : ProposePartialExit(p, pct)
    BY <1>7, ExitAssumption
  <2>2. PICK l \in Active :
          LET sell == Share(placed[l], pct)
              rest == placed[l] - sell IN
          Propose(p, [list |-> l, sell |-> sell, rest |-> rest])
    BY <2>1 DEF ProposePartialExit
  <2> DEFINE sell == Share(placed[l], pct)
             rest == placed[l] - sell
  <2>3. placed[l] \in Nat /\ pct \in Nat
    BY <1>0, ExitAssumption DEF Active, ExitType
  <2>4. sell \in Int
    BY <2>3 DEF Share
  <2> HIDE DEF sell
  <2>5. terms'[p] = [list |-> l, sell |-> sell, rest |-> rest]
    BY <1>0, <2>2 DEF Propose, ExitType, sell
  <2>6. placed'[l] = placed[l]
    BY <1>2 DEF exchange
  <2> QED BY <2>3, <2>4, <2>5, <2>6
<1>8. ASSUME NEW q \in Partials \ {p}, status'[q] # "ABSENT"
      PROVE  terms'[q].sell + terms'[q].rest = placed'[terms'[q].list]
  <2>1. q \in Proposals
    BY DEF Proposals
  <2> QED BY <1>2, <1>3, <1>8, <2>1 DEF CoinInv, SharesAddUp, exchange
<1>9. SharesAddUp'
  BY <1>7, <1>8 DEF SharesAddUp
<1> QED BY <1>5, <1>6, <1>9 DEF CoinInv

\* Everything but a new proposal and the exchange.
LEMMA ProcessCoins ==
    ASSUME CoinInv, ExitInv', NEW p \in Proposals,
           \/ Claim(p) \/ LeaseExpires(p) \/ Crash(p)
           \/ Execute(p) \/ Refuse(p)
    PROVE  CoinInv'
<1>0. ExitType /\ ExitInv /\ RowInv(p)
  BY DEF CoinInv, ExitInv
<1>1. UNCHANGED exchange /\ terms' = terms
  BY DEF Claim, LeaseExpires, Crash, Execute, Refuse, Answer, Start, HearCancel,
     ReadOrders, ReadBalance, HearSale, AfterSale, HearList, Uncertain, Settles,
     Reads, Sends, exchange
<1>2. \/ status' = status
      \/ \E s \in {"EXECUTING", "RECONCILE", "EXECUTED"} :
           status' = [status EXCEPT ![p] = s] /\ status[p] # "ABSENT"
  <2>1. pc[p] # "off" => status[p] \in {"EXECUTING", "RECONCILE"}
    BY <1>0 DEF RowInv, StatusInv
  <2>2. CASE Claim(p) \/ LeaseExpires(p) \/ Crash(p) \/ Refuse(p)
    BY <2>2 DEF Claim, LeaseExpires, Crash, Refuse, Answer
  <2>3. CASE Execute(p)
    <3>1. \/ status' = status
          \/ \E o \in {"RECONCILE", "EXECUTED"} : pc[p] # "off" /\ Settles(p, o)
      BY <2>3 DEF Execute, Start, HearCancel, ReadOrders, ReadBalance, HearSale,
         AfterSale, HearList, Uncertain, Reads, Sends
    <3>2. ASSUME NEW o \in {"RECONCILE", "EXECUTED"}, pc[p] # "off", Settles(p, o)
          PROVE  \E s \in {"EXECUTING", "RECONCILE", "EXECUTED"} :
                   status' = [status EXCEPT ![p] = s] /\ status[p] # "ABSENT"
      <4> DEFINE s == IF status[p] = "EXECUTING" THEN o ELSE status[p]
      <4>1. s \in {"EXECUTING", "RECONCILE", "EXECUTED"} /\ status[p] # "ABSENT"
        BY <2>1, <3>2
      <4>2. status' = [status EXCEPT ![p] = s]
        BY <3>2 DEF Settles
      <4> QED BY <4>1, <4>2
    <3> QED BY <3>1, <3>2
  <2> QED BY <2>2, <2>3
<1>3. /\ StartsStay
      /\ \A q \in Proposals : status'[q] # "ABSENT" => status[q] # "ABSENT"
  BY <1>0, <1>1, <1>2 DEF StartsStay, Started, ExitType
<1>4. FreeIsAccounted'
  BY <1>0, <1>1, <1>3, QuietCoins DEF CoinInv
<1>5. NoListGrows' /\ SharesAddUp'
  BY <1>1, <1>3 DEF CoinInv, NoListGrows, SharesAddUp, exchange, Proposals
<1> QED BY <1>4, <1>5 DEF CoinInv

\* The sizes of lists that are in force, and the terms, as the exchange moves.
LEMMA SharesStay ==
    ASSUME CoinInv, SizesStay, terms' = terms, status' = status
    PROVE  SharesAddUp'
<1>1. ASSUME NEW p \in Partials, status[p] # "ABSENT"
      PROVE  terms[p].sell + terms[p].rest = placed'[terms[p].list]
  <2>1. p \in Proposals /\ RowInv(p)
    BY DEF CoinInv, ExitInv, Proposals
  <2>2. terms[p].list \in Lists /\ placed[terms[p].list] > 0
    BY <1>1, <2>1 DEF RowInv, StatusInv, TermsInv
  <2> QED BY <1>1, <2>2 DEF CoinInv, SharesAddUp, SizesStay
<1> QED BY <1>1 DEF SharesAddUp

LEMMA CancelCoins ==
    ASSUME CoinInv, ExitInv', NEW p \in Proposals, CancelList(p)
    PROVE  CoinInv'
<1> DEFINE l == terms[p].list
<1>0. ExitType /\ RowInv(p) /\ ExitInv
  BY DEF CoinInv, ExitInv
<1>1. /\ l \in Lists /\ locked[l] > 0 /\ free' = free + locked[l]
      /\ UNCHANGED <<placed, sold, terms, status>>
  BY DEF CancelList, Active, Answer
<1>2. locked'[l] = 0 /\ \A k \in Lists \ {l} : locked'[k] = locked[k]
  BY <1>0, <1>1 DEF ExitType, CancelList
<1>3. locked[l] \in Nat /\ placed[l] \in Nat /\ free \in Nat /\ locked[l] <= placed[l]
  BY <1>0, <1>1 DEF ExitType, CoinInv, NoListGrows
<1>4. SizesStay /\ StartsStay
  BY <1>1, <1>2 DEF SizesStay, StartsStay, Started
<1>5. p \in Partials \cup Cancels /\ Started(p)
  BY <1>0 DEF CancelList, RowInv, PhaseInv, StatusInv, Started
<1>6. Gave(p) = 0 /\ Gave(p)' = placed[l]
  BY <1>1, <1>2, <1>3, <1>5 DEF Gave, Started
<1>7. \A q \in Proposals : Took(q)' = Took(q)
  BY <1>1 DEF Took
<1>8. Took(p) \in Nat
  BY <1>0, NetType DEF NetTypes
<1>9. free' + Gave(p) + Took(p)' <= free + Gave(p)' + Took(p)
  BY <1>1, <1>3, <1>6, <1>7, <1>8
<1>10. FreeIsAccounted'
  BY <1>0, <1>4, <1>7, <1>9, CoinsStep DEF CoinInv
<1>11. ASSUME NEW k \in Lists PROVE locked'[k] <= placed'[k]
  <2>1. CASE k = l
    BY <1>1, <1>2, <1>3, <2>1
  <2>2. CASE k # l
    BY <1>1, <1>2, <2>2 DEF CoinInv, NoListGrows
  <2> QED BY <2>1, <2>2
<1>12. NoListGrows'
  BY <1>11 DEF NoListGrows
<1> QED BY <1>1, <1>4, <1>10, <1>12, SharesStay DEF CoinInv

LEMMA SellCoins ==
    ASSUME CoinInv, ExitInv', NEW p \in Proposals, Sell(p)
    PROVE  CoinInv'
<1>0. ExitType /\ ExitInv
  BY DEF CoinInv, ExitInv
<1>1. PICK q \in 1..terms[p].sell : free' = free - q /\ sold' = [sold EXCEPT ![p] = @ + q]
  BY DEF Sell
<1>2. UNCHANGED <<locked, placed, terms, status>>
  BY DEF Sell, Answer
<1>3. q \in Nat /\ free \in Nat /\ sold[p] \in Nat
  BY <1>0 DEF ExitType, Terms
<1>4. sold'[p] = sold[p] + q /\ \A k \in Proposals \ {p} : sold'[k] = sold[k]
  BY <1>0, <1>1 DEF ExitType
<1>5. SizesStay /\ StartsStay /\ NoListGrows'
  BY <1>2 DEF SizesStay, StartsStay, Started, CoinInv, NoListGrows
<1>6. \A k \in Proposals \ {p} : Took(k)' = Took(k)
  BY <1>2, <1>4 DEF Took
<1>7. Gave(p)' = Gave(p)
  BY <1>2 DEF Gave, Started
<1>8. Took(p)' = Took(p) + q
  <2>1. CASE p \in Partials \cup Restores
    <3>1. placed[p] \in Nat
      BY <1>0, <2>1 DEF ExitType, Lists
    <3>2. Took(p) = sold[p] + placed[p] /\ Took(p)' = sold[p] + q + placed[p]
      BY <1>2, <1>4, <2>1 DEF Took
    <3> QED BY <1>3, <3>1, <3>2
  <2>2. CASE p \notin Partials \cup Restores
    <3>1. Took(p) = sold[p] + 0 /\ Took(p)' = sold[p] + q + 0
      BY <1>4, <2>2 DEF Took
    <3> QED BY <1>3, <3>1
  <2> QED BY <2>1, <2>2
<1>9. Gave(p) \in Nat /\ Took(p) \in Nat
  BY <1>0, NetType DEF NetTypes
<1>10. free' + Gave(p) + Took(p)' <= free + Gave(p)' + Took(p)
  BY <1>1, <1>3, <1>7, <1>8, <1>9
<1>11. FreeIsAccounted'
  BY <1>0, <1>5, <1>6, <1>10, CoinsStep DEF CoinInv
<1> QED BY <1>2, <1>5, <1>11, SharesStay DEF CoinInv

LEMMA PlaceCoins ==
    ASSUME CoinInv, ExitInv', NEW p \in Proposals, PlaceList(p)
    PROVE  CoinInv'
<1>0. ExitType /\ ExitInv /\ RowInv(p)
  BY DEF CoinInv, ExitInv
<1>1. /\ p \in Partials \cup Restores /\ p \in Lists /\ placed[p] = 0
      /\ terms[p].rest \in Nat /\ terms[p].rest > 0
  BY <1>0 DEF PlaceList, RowInv, PhaseInv, EffectInv, ExitType, Terms, Lists
<1>2. UNCHANGED <<sold, terms, status>>
  BY DEF PlaceList, Answer, exchange
<1>3. StartsStay
  BY <1>2 DEF StartsStay, Started
<1>4. CASE UNCHANGED exchange
  <2>1. NoListGrows' /\ FreeIsAccounted'
    BY <1>0, <1>3, <1>4, QuietCoins DEF CoinInv, NoListGrows, exchange
  <2>2. SizesStay
    BY <1>4 DEF SizesStay, exchange
  <2> QED BY <1>2, <2>1, <2>2, SharesStay DEF CoinInv
<1>5. CASE /\ free' = free - terms[p].rest
           /\ locked' = [locked EXCEPT ![p] = terms[p].rest]
           /\ placed' = [placed EXCEPT ![p] = terms[p].rest]
  <2>1. /\ locked'[p] = terms[p].rest /\ placed'[p] = terms[p].rest
        /\ \A l \in Lists \ {p} : locked'[l] = locked[l] /\ placed'[l] = placed[l]
    BY <1>0, <1>1, <1>5 DEF ExitType
  <2>2. SizesStay
    BY <1>1, <2>1 DEF SizesStay
  <2>3. \A q \in Proposals \ {p} : Took(q)' = Took(q)
    BY <1>2, <2>1 DEF Took, Lists
  <2>4. free \in Nat /\ sold[p] \in Nat
    BY <1>0 DEF ExitType
  <2>5. Took(p) = sold[p] /\ Took(p)' = sold[p] + terms[p].rest
    BY <1>1, <1>2, <2>1, <2>4 DEF Took
  <2>6. NetTypes /\ NetTypes'
    BY <1>0, NetType, PTL
  <2>7. Gave(p) \in Nat /\ Gave(p)' \in Nat
    BY <2>6 DEF NetTypes
  <2>8. Gave(p) <= Gave(p)'
    BY <1>0, <1>3, <2>2, <2>7, GaveStays
  <2>9. free' + Gave(p) + Took(p)' <= free + Gave(p)' + Took(p)
    BY <1>1, <1>5, <2>4, <2>5, <2>7, <2>8
  <2>10. FreeIsAccounted'
    BY <1>0, <1>3, <2>2, <2>3, <2>9, CoinsStep DEF CoinInv
  <2>11. ASSUME NEW l \in Lists PROVE locked'[l] <= placed'[l]
    <3>1. CASE l = p
      BY <1>1, <2>1, <3>1
    <3>2. CASE l # p
      BY <2>1, <3>2 DEF CoinInv, NoListGrows
    <3> QED BY <3>1, <3>2
  <2>12. NoListGrows'
    BY <2>11 DEF NoListGrows
  <2> QED BY <1>2, <2>2, <2>10, <2>12, SharesStay DEF CoinInv
<1> QED BY <1>4, <1>5 DEF PlaceList

\* Fills take coins out of a list and never out of the books.
LEMMA LegCoins ==
    ASSUME CoinInv, ExitInv', NEW l \in Lists, LegFills(l)
    PROVE  CoinInv'
<1>0. ExitType /\ ExitInv
  BY DEF CoinInv, ExitInv
<1>1. UNCHANGED <<free, placed, sold, status, terms>>
  BY DEF LegFills
<1>2. PICK n \in 1..locked[l] : locked' = [locked EXCEPT ![l] = @ - n]
  BY DEF LegFills
<1>3. \A k \in Lists : locked[k] \in Nat /\ placed[k] \in Nat
  BY <1>0 DEF ExitType
<1>4. locked'[l] = locked[l] - n /\ \A k \in Lists \ {l} : locked'[k] = locked[k]
  BY <1>0, <1>2 DEF ExitType
<1>5. n \in Nat /\ n > 0 /\ n <= locked[l]
  BY <1>2, <1>3
<1>6. ASSUME NEW k \in Lists
      PROVE  /\ locked'[k] <= placed[k]
             /\ locked[k] = 0 => locked'[k] = 0
  <2>1. locked[k] <= placed[k]
    BY DEF CoinInv, NoListGrows
  <2>2. CASE k = l
    BY <1>3, <1>4, <1>5, <2>1, <2>2
  <2>3. CASE k # l
    BY <1>4, <2>1, <2>3
  <2> QED BY <2>2, <2>3
<1>7. SizesStay /\ NoListGrows' /\ StartsStay
  BY <1>1, <1>6 DEF SizesStay, NoListGrows, StartsStay, Started
<1>8. \A q \in Proposals : Took(q)' = Took(q)
  BY <1>1 DEF Took
<1>9. FreeIsAccounted'
  <2>1. CASE Proposals = {}
    BY <1>1, <2>1 DEF CoinInv, FreeIsAccounted, Net
  <2>2. ASSUME NEW p \in Proposals PROVE FreeIsAccounted'
    <3>1. NetTypes /\ NetTypes' /\ free \in Nat
      BY <1>0, NetType, PTL DEF ExitType
    <3>2. Gave(p) \in Nat /\ Gave(p)' \in Nat /\ Took(p) \in Nat
      BY <3>1 DEF NetTypes
    <3>3. Gave(p) <= Gave(p)'
      BY <1>0, <1>7, <3>2, GaveStays
    <3>4. free' = free /\ Took(p)' = Took(p)
      BY <1>1, <1>8
    <3>5. free' + Gave(p) + Took(p)' <= free + Gave(p)' + Took(p)
      BY <3>1, <3>2, <3>3, <3>4
    <3> QED BY <1>0, <1>7, <1>8, <3>5, CoinsStep DEF CoinInv
  <2> QED BY <2>1, <2>2
<1> QED BY <1>1, <1>7, <1>9, SharesStay DEF CoinInv

-----------------------------------------------------------------------------
(***************************************************************************)
(* The theorems.                                                           *)
(***************************************************************************)
LEMMA CoinInit == Init => CoinInv
<1> SUFFICES ASSUME Init PROVE CoinInv
  OBVIOUS
<1>0. ExitInv
  BY ExitInit
<1>1. NoListGrows
  BY <1>0 DEF Init, ExitInv, ExitType, NoListGrows
<1>2. SharesAddUp
  BY DEF Init, SharesAddUp, Proposals
<1>3. ASSUME NEW p \in Proposals PROVE Net[p] = 0
  <2>1. sold[p] = 0 /\ ~ Started(p)
    BY DEF Init, Started
  <2>2. p \in Partials \cup Restores => placed[p] = 0
    BY ExitAssumption DEF Init, Lists
  <2> QED BY <2>1, <2>2 DEF Net, Gave, Took
<1>4. SumFunctionOnSet(Net, Proposals) \in Nat
  <2>1. \A p \in Proposals : Net[p] \in Nat
    BY <1>3
  <2> QED BY <2>1, ProposalsFinite, SumNat
<1>5. free = Other /\ Other \in Nat
  BY ExitAssumption DEF Init
<1>6. FreeIsAccounted
  BY <1>4, <1>5 DEF FreeIsAccounted
<1> QED BY <1>0, <1>1, <1>2, <1>6 DEF CoinInv

LEMMA CoinStep == CoinInv /\ [Next]_vars => CoinInv'
<1> SUFFICES ASSUME CoinInv, [Next]_vars PROVE CoinInv'
  OBVIOUS
<1>0. ExitInv'
  BY ExitInvStep DEF CoinInv
<1>1. CASE \/ \E p \in Partials, pct \in Percentages : ProposePartialExit(p, pct)
           \/ \E p \in Cancels : ProposeCancel(p)
           \/ \E p \in Restores : ProposeRestore(p)
           \/ \E p \in Closes : ProposeClose(p)
  BY <1>0, <1>1, ProposeCoins DEF Proposals
<1>2. ASSUME NEW p \in Proposals,
             Claim(p) \/ LeaseExpires(p) \/ Crash(p) \/ Execute(p) \/ Refuse(p)
      PROVE  CoinInv'
  BY <1>0, <1>2, ProcessCoins
<1>3. ASSUME NEW p \in Proposals, CancelList(p) \/ Sell(p) \/ PlaceList(p) PROVE CoinInv'
  BY <1>0, <1>3, CancelCoins, SellCoins, PlaceCoins
<1>4. ASSUME NEW l \in Lists, LegFills(l) PROVE CoinInv'
  BY <1>0, <1>4, LegCoins
<1>5. CASE UNCHANGED vars
  BY <1>0, <1>5 DEF vars, CoinInv, NoListGrows, SharesAddUp, FreeIsAccounted, Net,
     Gave, Took, Started
<1> QED BY <1>1, <1>2, <1>3, <1>4, <1>5 DEF Next, Exchange

\* Where no exit is under way or in doubt and no cancellation was carried out,
\* every list that was given up was given up by a partial exit that sold a share
\* of it and protected the rest.
LEMMA NothingLoose ==
    ASSUME CoinInv,
           \A p \in Proposals : status[p] \notin {"EXECUTING", "RECONCILE"},
           \A p \in Cancels : status[p] # "EXECUTED"
    PROVE  free <= Other
<1>0. ExitType /\ ExitInv /\ NetTypes
  BY NetType DEF CoinInv, ExitInv
<1>1. ASSUME NEW p \in Proposals PROVE Net[p] \in Int /\ Net[p] <= 0
  <2>1. Gave(p) \in Nat /\ Took(p) \in Nat /\ Net[p] = Gave(p) - Took(p)
    BY <1>0 DEF NetTypes
  <2>2. ASSUME Gave(p) # 0 PROVE Gave(p) <= Took(p)
    <3>1. p \in Partials \cup Cancels /\ Started(p) /\ Gave(p) = placed[terms[p].list]
      BY <2>2 DEF Gave
    <3>2. status[p] = "EXECUTED" /\ p \in Partials /\ p \in Lists
      BY <1>0, <3>1 DEF ExitType, Statuses, Started, Lists
    <3>3. Gave(p) = terms[p].sell + terms[p].rest
      BY <3>1, <3>2 DEF CoinInv, SharesAddUp
    <3>4. RowInv(p)
      BY <1>0 DEF ExitInv
    <3>5. sold[p] = terms[p].sell /\ (terms[p].rest > 0 => placed[p] = terms[p].rest)
      BY <3>2, <3>4 DEF RowInv, StatusInv
    <3>6. Took(p) = sold[p] + placed[p]
      BY <3>2 DEF Took
    <3>7. placed[p] \in Nat /\ terms[p].sell \in Nat /\ terms[p].rest \in Nat
      BY <1>0, <3>2 DEF ExitType, Terms
    <3> QED BY <3>3, <3>5, <3>6, <3>7
  <2> QED BY <2>1, <2>2
<1> DEFINE none == [p \in Proposals |-> 0]
<1>2. \A p \in Proposals : none[p] \in Int /\ none[p] = 0 /\ none[p] \in Nat
  OBVIOUS
<1> HIDE DEF none
<1>3. SumFunctionOnSet(Net, Proposals) <= SumFunctionOnSet(none, Proposals)
  BY <1>1, <1>2, ProposalsFinite, SumMonotone
<1>4. SumFunctionOnSet(none, Proposals) = SumFunctionOnSet(none, {})
  BY <1>2, ProposalsFinite, SumRestrict
<1>5. SumFunctionOnSet(none, {}) = 0
  BY SumEmpty
<1>6. SumFunctionOnSet(Net, Proposals) \in Int
  BY <1>1, ProposalsFinite, SumInt
<1>7. free <= Other + SumFunctionOnSet(Net, Proposals) /\ free \in Nat /\ Other \in Nat
  BY <1>0, ExitAssumption DEF CoinInv, FreeIsAccounted, ExitType
<1> QED BY <1>3, <1>4, <1>5, <1>6, <1>7

\* Every write of an exit is sent once and in its turn, and a list that is gone
\* stays gone (execute_partial_exit, and the exits of execute_live).
THEOREM ExitInvariant == Spec => []ExitInv
BY ExitInit, ExitInvStep, PTL DEF Spec

\* EXECUTED means all of it, whatever answers were lost and whoever else wrote
\* to the same bracket.
THEOREM ExecutedMeansComplete == Spec => []ExecutedIsComplete
<1>1. ExitInv => ExecutedIsComplete
  BY DEF ExitInv, RowInv, StatusInv, Released, ExecutedIsComplete
<1> QED BY <1>1, ExitInvariant, PTL

\* A partial exit that sold has given up its list first.
THEOREM SaleNeedsRelease == Spec => []SoldOnlyReleased
<1>1. ExitInv => SoldOnlyReleased
  BY DEF ExitInv, RowInv, EffectInv, Released, SoldOnlyReleased, Proposals
<1> QED BY <1>1, ExitInvariant, PTL

\* The coins are accounted for proposal by proposal.
THEOREM CoinInvariant == Spec => []CoinInv
BY CoinInit, CoinStep, PTL DEF Spec

\* Protection that was lost is never lost silently: coins beyond those the account
\* held anyway are free only while the ledger shows an exit under way or in doubt,
\* or a cancellation that was carried out (uncertain_execution, lease expiry).
THEOREM ReleaseIsKnown == Spec => []ReleasedIsKnown
<1>1. CoinInv => ReleasedIsKnown
  <2> SUFFICES ASSUME CoinInv, free >= Other + MinQuantity
               PROVE  \/ \E p \in Proposals : status[p] \in {"EXECUTING", "RECONCILE"}
                      \/ \E p \in Cancels : status[p] = "EXECUTED"
    BY DEF ReleasedIsKnown
  <2>1. ~ (free <= Other)
    BY ExitAssumption DEF CoinInv, ExitInv, ExitType
  <2> QED BY <2>1, NothingLoose
<1> QED BY <1>1, CoinInvariant, PTL

=============================================================================
