------------------------------ MODULE MCTxSender ------------------------------
(* Instances of TxSender for TLC: the executors of two pools sharing a        *)
(* wallet.                                                                     *)
EXTENDS TxSender, TLC

Executors == Permutations(Tasks)
=============================================================================
