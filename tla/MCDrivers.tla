----------------------------- MODULE MCDrivers -----------------------------
(* Small instances of Ratings, and so of DriverAccounts.                   *)
EXTENDS Ratings, TLC

AllVotes == [ride: Rides, rateeType: {"driver", "user"}, request: Requests]
FirstPhone == [d \in Registered |-> CHOOSE p \in Phones : TRUE]

\* One vehicle there is, the others may be added.
OnePlate ==
    LET first == CHOOSE v \in Vehicles : TRUE
    IN [v \in Vehicles |-> IF v = first THEN CHOOSE q \in Plates : TRUE ELSE None]
OneRiderOf == [r \in Rides |-> CHOOSE u \in Riders : TRUE]
OneDriverOf == [r \in Rides |-> CHOOSE d \in Registered : TRUE]

Slots == Permutations(Requests)
=============================================================================
