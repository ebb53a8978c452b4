\* Two rides settling on the same balances, with fairness.
SPECIFICATION FairSpec
CONSTANTS
    Rides = {r1, r2}
    Drivers = {d1}
    Riders = {u1}
    Requests = {t1, t2}
    Rider <- OneRider
    Category <- AllShared
    Garage <- FullGarage
    MaxActiveSharedRides = 4
    SlowHandlers = FALSE
    Failures = FALSE
    None = None
    Orphan = Orphan
PROPERTIES EveryRequestEnds
