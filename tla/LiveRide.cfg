\* A ride two drivers are after, two requests in flight, the app of anybody.
SPECIFICATION Spec
CONSTANTS
    u1 = u1
    Rides = {r1}
    Users = {u1, u2}
    Drivers = {d1, d2}
    Admins = {a1}
    RiderOf <- AllTheirs
    CategoryOf <- Private
    Serves <- AnyServes
    Requests = {t1, t2}
    Sockets = {s1}
    MaxActiveSharedRides = 4
    SlowHandlers = TRUE
    None = None
SYMMETRY Alike
INVARIANTS OnlyPartiesHear PartiesHear EventsFollowCommits
