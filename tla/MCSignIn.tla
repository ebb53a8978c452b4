------------------------------ MODULE MCSignIn ------------------------------
(* Small instances of SignIn.                                              *)
EXTENDS SignIn, TLC

CONSTANTS u1, d1, ann

Anns == [a \in Registered |-> ann]
Slots == Permutations(Requests)
=============================================================================
