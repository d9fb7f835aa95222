-------------------------- MODULE MCPaperApproval --------------------------
(***************************************************************************)
(* Small instances of PaperApproval for TLC.                               *)
(***************************************************************************)
EXTENDS PaperApproval, TLC

UnitQuote == [p \in Proposals |-> 1]

\* Processes, proposals and candidates are interchangeable.
Symmetry ==
    Permutations(Workers) \cup Permutations(PaperProposals)
        \cup Permutations(Candidates)

=============================================================================
