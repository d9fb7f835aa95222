--------------------------- MODULE ExitProtection ---------------------------
(***************************************************************************)
(* What LIVE exits do to one holding and its protection: the exit          *)
(* proposals of src/spotguard/service.py and the writes they make through  *)
(* src/spotguard/live_execution.py.                                        *)
(*                                                                         *)
(* The coins of one symbol are free or locked in OCO lists, whose legs may *)
(* fill at any time.  A partial exit cancels its list, sells a share and   *)
(* protects the rest again: three writes, each of which may be refused,    *)
(* answered vaguely, lost, or carried out after its process gave it up or  *)
(* died.  Quantities count steps of the exchange's LOT_SIZE, at one price. *)
(***************************************************************************)
EXTENDS Integers, FiniteSets

CONSTANTS
    None,
    Partials,     \* proposals that sell a share of a protected holding
    Cancels,      \* proposals that cancel its protection
    Restores,     \* proposals that protect free coins again
    Closes,       \* proposals that sell free coins
    Entries,      \* brackets that entries have placed
    Holding,      \* coins an entry bought
    Other,        \* coins of the same kind the account holds beside
    MinQuantity,  \* the least quantity the exchange trades
    Percentages   \* what the owner asks a partial exit for

ASSUME ExitAssumption ==
    /\ Holding \in Nat /\ Other \in Nat /\ MinQuantity \in Nat \ {0}
    /\ Percentages \subseteq 1..100
    /\ IsFiniteSet(Partials \cup Cancels \cup Restores \cup Closes \cup Entries)
    /\ None \notin Partials \cup Cancels \cup Restores \cup Closes \cup Entries
    /\ Partials \cap (Cancels \cup Restores \cup Closes \cup Entries) = {}
    /\ Cancels \cap (Restores \cup Closes) = {} /\ Restores \cap (Closes \cup Entries) = {}

VARIABLES
    free,       \* coins not locked in an order
    locked,     \* coins each OCO list still holds
    placed,     \* the quantity it was placed with
    status,     \* of each proposal, in the ledger
    terms,      \* its immutable terms
    pc,         \* where its execution is
    request,    \* the write that is under way to the exchange
    reply,      \* the answer to it
    sold        \* coins its market order has sold

vars == <<free, locked, placed, status, terms, pc, request, reply, sold>>
exchange == <<free, locked, placed, sold>>

Proposals == Partials \cup Cancels \cup Restores \cup Closes
Lists == Entries \cup Partials \cup Restores
Active == {l \in Lists : locked[l] > 0}

NoTerms == [list |-> None, sell |-> 0, rest |-> 0]

Init ==
    /\ free = Other
    /\ locked = [l \in Lists |-> IF l \in Entries THEN Holding ELSE 0]
    /\ placed = locked
    /\ status = [p \in Proposals |-> "ABSENT"]
    /\ terms = [p \in Proposals |-> NoTerms]
    /\ pc = [p \in Proposals |-> "off"]
    /\ request = [p \in Proposals |-> "none"]
    /\ reply = [p \in Proposals |-> "none"]
    /\ sold = [p \in Proposals |-> 0]

(***************************************************************************)
(* Proposing.                                                              *)
(***************************************************************************)
Propose(p, t) ==
    /\ status[p] = "ABSENT"
    /\ status' = [status EXCEPT ![p] = "PENDING"]
    /\ terms' = [terms EXCEPT ![p] = t]
    /\ UNCHANGED <<exchange, pc, request, reply>>

\* validate_active_protective_oco: both legs whole and open.
TheWholeList(l) == Active = {l} /\ locked[l] = placed[l]

\* Of a hundred percent everything; a close of a protected holding comes here.
Share(quantity, pct) == (quantity * pct) \div 100

ProposePartialExit(p, pct) ==
    \E l \in Active :
        LET sell == Share(placed[l], pct)
            rest == placed[l] - sell IN
        /\ TheWholeList(l)
        /\ sell >= MinQuantity
        /\ pct < 100 => rest >= MinQuantity
        /\ Propose(p, [list |-> l, sell |-> sell, rest |-> rest])

ProposeCancel(p) ==
    \E l \in Active :
        TheWholeList(l) /\ Propose(p, [NoTerms EXCEPT !.list = l])

\* The bracket is that of an earlier proposal, which an entry always is.
ProposeRestore(p) ==
    /\ Active = {}
    /\ free >= MinQuantity
    /\ Propose(p, [NoTerms EXCEPT !.rest = free])

ProposeClose(p) ==
    /\ Active = {}
    /\ free >= MinQuantity
    /\ Propose(p, [NoTerms EXCEPT !.sell = free])

(***************************************************************************)
(* Approval, and what may happen to an execution.                          *)
(***************************************************************************)
Goes(p, label) == pc' = [pc EXCEPT ![p] = label]

Claim(p) ==
    /\ status[p] = "PENDING"
    /\ status' = [status EXCEPT ![p] = "EXECUTING"]
    /\ Goes(p, "claimed")
    /\ UNCHANGED <<exchange, terms, request, reply>>

\* A lease runs out while its process goes on.
LeaseExpires(p) ==
    /\ status[p] = "EXECUTING"
    /\ status' = [status EXCEPT ![p] = "RECONCILE"]
    /\ UNCHANGED <<exchange, terms, pc, request, reply>>

Crash(p) ==
    /\ pc[p] # "off"
    /\ Goes(p, "off")
    /\ reply' = [reply EXCEPT ![p] = "none"]
    /\ UNCHANGED <<exchange, status, terms, request>>

(***************************************************************************)
(* Executing: reads decide, answers are judged.  The step that decides     *)
(* also sends the next write or records the outcome: whatever could come   *)
(* in between can come while the write is under way.                       *)
(***************************************************************************)
Writing == {"cancelling", "selling", "arming"}

Reads(p, label) ==
    /\ Goes(p, label)
    /\ reply' = [reply EXCEPT ![p] = "none"]
    /\ UNCHANGED <<exchange, status, terms, request>>

Sends(p, what, label) ==
    /\ request' = [request EXCEPT ![p] = what]
    /\ reply' = [reply EXCEPT ![p] = "none"]
    /\ Goes(p, label)
    /\ UNCHANGED <<exchange, status, terms>>

Settles(p, outcome) ==
    /\ status' = [status EXCEPT ![p] = IF @ = "EXECUTING" THEN outcome ELSE @]
    /\ Goes(p, "off")
    /\ reply' = [reply EXCEPT ![p] = "none"]
    /\ UNCHANGED <<exchange, terms, request>>

\* uncertain_execution: after the claim any exception leaves the outcome open.
\* A read may fail at any time, an answer not come, and evidence not be stored;
\* the write may still be carried out.
Uncertain(p) == pc[p] # "off" /\ Settles(p, "RECONCILE")

\* Before its write a cancellation finds its list open, a close its coins free;
\* the others look at nothing.
Start(p) ==
    /\ pc[p] = "claimed"
    /\ \/ p \in Partials /\ Sends(p, "cancel", "cancelling")
       \/ /\ p \in Cancels
          /\ terms[p].list \in Active
          /\ Sends(p, "cancel", "cancelling")
       \/ p \in Closes /\ terms[p].sell <= free /\ Sends(p, "sell", "selling")
       \/ p \in Restores /\ Sends(p, "list", "arming")

\* A cancellation has to be confirmed; a partial exit goes on without as well.
HearCancel(p) ==
    /\ pc[p] = "cancelling"
    /\ \/ reply[p] = "CANCELED"
       \/ reply[p] = "unclear" /\ p \in Partials
    /\ Reads(p, "reading")

\* Mutant: the answer counts, not the open orders.
TrustCancel(p) ==
    /\ pc[p] = "reading"
    /\ IF p \in Cancels THEN Settles(p, "EXECUTED") ELSE Reads(p, "released")

\* Both need an order book without the list.
ReadOrders(p) ==
    /\ pc[p] = "reading"
    /\ terms[p].list \notin Active
    /\ IF p \in Cancels THEN Settles(p, "EXECUTED") ELSE Reads(p, "released")

ReadBalance(p) ==
    /\ pc[p] = "released"
    /\ free >= terms[p].sell
    /\ Sends(p, "sell", "selling")

AfterSale(p) ==
    IF terms[p].rest > 0 THEN Sends(p, "list", "arming")
                         ELSE Settles(p, "EXECUTED")

\* Mutant: an acknowledged sale counts as a filled one.
HearAnySale(p) ==
    /\ pc[p] = "selling"
    /\ reply[p] \in {"FILLED", "not filled"}
    /\ AfterSale(p)

HearSale(p) ==
    /\ pc[p] = "selling"
    /\ reply[p] = "FILLED"
    /\ AfterSale(p)

\* Mutant: nobody looks at the legs of the new list.
HearAnyList(p) ==
    /\ pc[p] = "arming"
    /\ reply[p] \in {"armed", "leg rejected"}
    /\ Settles(p, "EXECUTED")

\* validate_write_response and validate_protective_legs.
HearList(p) ==
    /\ pc[p] = "arming"
    /\ reply[p] = "armed"
    /\ Settles(p, "EXECUTED")

(***************************************************************************)
(* The exchange.                                                           *)
(***************************************************************************)
Answer(p, r) ==
    /\ request' = [request EXCEPT ![p] = "none"]
    /\ reply' = [reply EXCEPT ![p] = IF pc[p] # "off" THEN r ELSE @]
    /\ UNCHANGED <<status, terms, pc>>

\* A refusal raises at the process (Uncertain), or reads like an answer that
\* says nothing.  (Nobody hears a late one: that write just stays undone.)
Refuse(p) ==
    /\ request[p] # "none" /\ pc[p] # "off"
    /\ \/ Answer(p, "none")
       \/ request[p] = "cancel" /\ Answer(p, "unclear")
    /\ UNCHANGED exchange

CancelList(p) ==
    LET l == terms[p].list IN
    /\ request[p] = "cancel"
    /\ l \in Active
    /\ free' = free + locked[l]
    /\ locked' = [locked EXCEPT ![l] = 0]
    /\ \E r \in {"CANCELED", "unclear"} : Answer(p, r)
    /\ UNCHANGED <<placed, sold>>

\* A market order fills, or stops short in a thin book.
Sell(p) ==
    /\ request[p] = "sell"
    /\ free >= terms[p].sell
    /\ \E q \in 1..terms[p].sell :
         /\ free' = free - q
         /\ sold' = [sold EXCEPT ![p] = @ + q]
         /\ Answer(p, IF q = terms[p].sell THEN "FILLED" ELSE "not filled")
    /\ UNCHANGED <<locked, placed>>

PlaceList(p) ==
    /\ request[p] = "list"
    /\ free >= terms[p].rest
    /\ \/ /\ free' = free - terms[p].rest
          /\ locked' = [locked EXCEPT ![p] = terms[p].rest]
          /\ placed' = [placed EXCEPT ![p] = terms[p].rest]
          /\ Answer(p, "armed")
          /\ UNCHANGED sold
       \/ Answer(p, "leg rejected") /\ UNCHANGED exchange

\* The stop or the target of a list trades.
LegFills(l) ==
    /\ \E q \in 1..locked[l] : locked' = [locked EXCEPT ![l] = @ - q]
    /\ UNCHANGED <<free, placed, sold, status, terms, pc, request, reply>>

(***************************************************************************)
(* The next-state relation.                                                *)
(***************************************************************************)
Execute(p) ==
    \/ Start(p)
    \/ HearCancel(p)
    \/ ReadOrders(p)
    \/ ReadBalance(p)
    \/ HearSale(p)
    \/ HearList(p)
    \/ Uncertain(p)

Exchange(p) ==
    \/ Refuse(p)
    \/ CancelList(p)
    \/ Sell(p)
    \/ PlaceList(p)

Next ==
    \/ \E p \in Partials, pct \in Percentages : ProposePartialExit(p, pct)
    \/ \E p \in Cancels : ProposeCancel(p)
    \/ \E p \in Restores : ProposeRestore(p)
    \/ \E p \in Closes : ProposeClose(p)
    \/ \E p \in Proposals :
         \/ Claim(p)
         \/ LeaseExpires(p)
         \/ Crash(p)
         \/ Execute(p)
         \/ Exchange(p)
    \/ \E l \in Lists : LegFills(l)

Spec == Init /\ [][Next]_vars

-----------------------------------------------------------------------------
(***************************************************************************)
(* Properties.                                                             *)
(***************************************************************************)
\* Coins that lost their protection are no secret: whoever looks at the ledger
\* finds an exit under way or in doubt, or a cancellation that was wanted.
ReleasedIsKnown ==
    free >= Other + MinQuantity =>
        \/ \E p \in Proposals : status[p] \in {"EXECUTING", "RECONCILE"}
        \/ \E p \in Cancels : status[p] = "EXECUTED"

\* EXECUTED means all of it: the list is gone, the quantity is sold to the last
\* step and the rest is protected by a list of exactly that size.
ExecutedIsComplete ==
    \A p \in Proposals :
        status[p] = "EXECUTED" =>
            /\ terms[p].list # None => locked[terms[p].list] = 0
            /\ sold[p] = terms[p].sell
            /\ terms[p].rest > 0 => placed[p] = terms[p].rest

\* ARCHITECTURE.md:38, "post-cancel order-list verification": even when other
\* coins are free to sell, a partial exit whose cancellation was not confirmed
\* sells nothing while the list it gives up is in force.
SoldOnlyReleased ==
    \A p \in Partials : sold[p] > 0 => locked[terms[p].list] = 0

=============================================================================
