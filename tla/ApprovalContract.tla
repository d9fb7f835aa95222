-------------------------- MODULE ApprovalContract --------------------------
(***************************************************************************)
(* What the approval workflow promises its owner, without clocks, tables   *)
(* or leases.  A proposal is offered, may be approved once, and is then    *)
(* settled for good; a simulated fill happens only to an approved          *)
(* proposal, at most once, and settles it; and never more than Slots       *)
(* proposals are offered or approved at a time.                            *)
(***************************************************************************)
EXTENDS Integers, FiniteSets

CONSTANTS Proposals, Slots

VARIABLES phase,    \* where each proposal is
          filled    \* proposals whose fill opened a position

vars == <<phase, filled>>

Phases == {"none", "offered", "approved", "settled"}

Init == phase = [p \in Proposals |-> "none"] /\ filled = {}

InPlay == {p \in Proposals : phase[p] \in {"offered", "approved"}}

\* The table after the proposals of S are settled without a fill.
Settled(S) == [p \in Proposals |-> IF p \in S THEN "settled" ELSE phase[p]]

\* Rejection, expiry, failure or an unresolved outcome.
Drop(S) ==
    /\ S \subseteq InPlay
    /\ phase' = Settled(S)
    /\ UNCHANGED filled

\* A new proposal, after stale ones were dropped to free their slots.
Offer(p, S) ==
    /\ phase[p] = "none"
    /\ S \subseteq InPlay
    /\ Cardinality(InPlay \ S) < Slots
    /\ phase' = [Settled(S) EXCEPT ![p] = "offered"]
    /\ UNCHANGED filled

Approve(p) ==
    /\ phase[p] = "offered"
    /\ phase' = [phase EXCEPT ![p] = "approved"]
    /\ UNCHANGED filled

Fill(p) ==
    /\ phase[p] = "approved"
    /\ phase' = [phase EXCEPT ![p] = "settled"]
    /\ filled' = filled \cup {p}

Next ==
    \/ \E S \in SUBSET Proposals : Drop(S)
    \/ \E p \in Proposals, S \in SUBSET Proposals : Offer(p, S)
    \/ \E p \in Proposals : Approve(p) \/ Fill(p)

Spec == Init /\ [][Next]_vars

=============================================================================
