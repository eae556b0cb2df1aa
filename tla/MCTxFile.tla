------------------------------ MODULE MCTxFile ------------------------------
(* Small instances of TxFile for TLC. *)
EXTENDS TxFile, TLC

CONSTANTS r1, r2, r3, f1, f2, w1, w2, A, B

Symmetry == Permutations(Runs) \cup Permutations(TxFiles) \cup Permutations(Contents)
=============================================================================
