---------------------------- MODULE MCWalletTopUp ----------------------------
(* Instances of the wallet top-ups for TLC. *)
EXTENDS WalletTopUpProperties, TLC

Slots == Permutations(Procs)
=============================================================================
