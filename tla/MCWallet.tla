------------------------------ MODULE MCWallet ------------------------------
(* Small instances of Wallet.                                              *)
EXTENDS Wallet, TLC

Slots == Permutations(Requests) \cup Permutations(Entries)
=============================================================================
