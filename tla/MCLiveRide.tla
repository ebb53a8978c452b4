----------------------------- MODULE MCLiveRide -----------------------------
(* Small instances of LiveRide.                                            *)
EXTENDS LiveRide, TLC

CONSTANT u1

AllTheirs == [r \in Rides |-> u1]
Private == [r \in Rides |-> "private"]
AnyServes == [d \in Drivers |-> {"private", "shared"}]
Alike == Permutations(Drivers) \cup Permutations(Requests)
=============================================================================
