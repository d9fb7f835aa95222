-------------------------- MODULE MCExitProtection --------------------------
(***************************************************************************)
(* Instances of ExitProtection for TLC: one proposal of each kind, so that *)
(* no two values can be exchanged, and quantities of a few steps.          *)
(***************************************************************************)
EXTENDS ExitProtection

=============================================================================
