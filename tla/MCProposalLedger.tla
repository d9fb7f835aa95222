-------------------------- MODULE MCProposalLedger --------------------------
(***************************************************************************)
(* Small instances of ProposalLedger for TLC.  Identifiers of one kind   *)
(* are interchangeable, and so are candidates and workers.                 *)
(***************************************************************************)
EXTENDS ProposalLedger, TLC

\* An exit commits no quote.
UnitQuote == [p \in Proposals |-> IF p \in LiveExits THEN 0 ELSE 1]

Symmetry ==
    Permutations(PaperProposals) \cup Permutations(LiveExits)
        \cup Permutations(LiveProposals \ LiveExits)
        \cup Permutations(Candidates) \cup Permutations(Workers)

=============================================================================
