------------------------------ MODULE MCTxPath ------------------------------
(* Instances of TxPath for TLC. *)
EXTENDS TxPath, TLC

PktSymmetry == Permutations(Pkt)

=============================================================================
