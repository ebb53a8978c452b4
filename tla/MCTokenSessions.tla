--------------------------- MODULE MCTokenSessions ---------------------------
(* Small instances of TokenSessions.                                       *)
EXTENDS TokenSessions, TLC

Slots == Permutations(Requests)
=============================================================================
