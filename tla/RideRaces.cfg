\* Two rides and one driver, two requests in flight, locks that expire.
SPECIFICATION RaceSpec
CONSTANTS
    Rides = {r1, r2}
    Drivers = {d1}
    Riders = {u1}
    Requests = {t1, t2}
    Rider <- OneRider
    Category <- MixedCategories
    Garage <- FullGarage
    MaxActiveSharedRides = 4
    SlowHandlers = TRUE
    Failures = FALSE
    None = None
    Orphan = Orphan
SYMMETRY Slots
INVARIANTS MoneyFollowsLedger CompletedIsPaid
PROPERTIES OnlyRacesReorder OnlyRacesOverbook
