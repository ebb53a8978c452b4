\* One ride, two drivers, three requests in flight.
SPECIFICATION Spec
CONSTANTS
    Rides = {r1}
    Drivers = {d1, d2}
    Riders = {u1}
    Requests = {t1, t2, t3}
    Rider <- OneRider
    Category <- AllPrivate
    Garage <- FullGarage
    MaxActiveSharedRides = 4
    SlowHandlers = FALSE
    Failures = TRUE
    None = None
    Orphan = Orphan
SYMMETRY Slots
INVARIANTS OneWinner
PROPERTIES ContractSpec PaysAssignedDriver
