---------------------------- MODULE MCPaperBook ----------------------------
(***************************************************************************)
(* Small instances of PaperBook for TLC: all tranches are of one symbol.   *)
(* Timer is named by the fairness only, so the symmetry of the processes is *)
(* sound for the runs that check safety.                                   *)
(***************************************************************************)
EXTENDS PaperBook, TLC

OneSymbol == [t \in Tranches |-> "BTCUSDT"]
TwoThenOne == [t \in Tranches |-> IF t = 1 THEN 2 ELSE 1]
Ones == [t \in Tranches |-> 1]

Symmetry == Permutations(Closes) \cup Permutations(Processes)

=============================================================================
