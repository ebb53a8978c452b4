----------------------------- MODULE MCRideRaces -----------------------------
(* A small instance of RideRaces.                                          *)
EXTENDS RideRaces, TLC

OneRider == [r \in Rides |-> CHOOSE u \in Riders : TRUE]
FullGarage == [d \in Drivers |-> VehicleTypes]

\* One ride takes the driver whole, the others pool.
MixedCategories ==
    LET alone == CHOOSE r \in Rides : TRUE
    IN [r \in Rides |-> IF r = alone THEN "okada" ELSE "shared"]

Slots == Permutations(Requests) \cup Permutations(Drivers)
=============================================================================
