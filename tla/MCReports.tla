------------------------------ MODULE MCReports ------------------------------
(* A small instance of Reports: the hours around two midnights, Lagos's at *)
(* 23 and the server's at 24.                                              *)
EXTENDS Reports, TLC

Slots == Permutations(Rides) \cup Permutations(Moves)
=============================================================================
