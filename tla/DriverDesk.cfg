\* Three requests about one registered driver and one who registers.
SPECIFICATION RatingSpec
CONSTANTS
    Requests = {t1, t2, t3}
    Drivers = {d1, d2}
    Registered = {d1}
    Vehicles = {v1, v2}
    Phones = {p1, p2}
    Plates = {q1, q2}
    PhoneOf <- FirstPhone
    PlateOf <- OnePlate
    Votes <- AllVotes
    Moves = {m1}
    Rides = {r1, r2}
    Riders = {u1}
    RiderOf <- OneRiderOf
    DriverOf <- OneDriverOf
    Failures = TRUE
    None = None
    Removed = Removed
\* The requests of the instance come to an end.
CHECK_DEADLOCK FALSE
SYMMETRY Slots
INVARIANTS RowsAgree AverageWasOnceTrue
PROPERTIES OnlyRacesReinstate OnlyStaleSavesLoseMoney
