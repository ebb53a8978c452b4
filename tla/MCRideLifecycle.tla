--------------------------- MODULE MCRideLifecycle ---------------------------
(* Small instances of RideLifecycle.                                       *)
EXTENDS RideLifecycle, TLC

\* Every ride is the one rider's; every driver owns a vehicle of every type.
OneRider == [r \in Rides |-> CHOOSE u \in Riders : TRUE]
FullGarage == [d \in Drivers |-> VehicleTypes]
AllShared == [r \in Rides |-> "shared"]
AllPrivate == [r \in Rides |-> "private"]

Slots == Permutations(Requests)
=============================================================================
