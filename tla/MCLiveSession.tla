---------------------------- MODULE MCLiveSession ----------------------------
(* LiveSession on a small instance. *)
EXTENDS LiveSession, TLC

WorkerSymmetry == Permutations(Workers)

=============================================================================
