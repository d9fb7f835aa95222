-------------------------- MODULE MCCandidateReview --------------------------
(***************************************************************************)
(* Small instances of CandidateReview for TLC.                             *)
(***************************************************************************)
EXTENDS CandidateReview, TLC

CONSTANTS c1, c2

OneThenTwo == c1 :> 1 @@ c2 :> 2
NoQuote == [p \in Proposals |-> 0]

=============================================================================
