\* Three calls: a rider with an account and a number that is written two ways.
SPECIFICATION Spec
CONSTANTS
    Requests = {t1, t2, t3}
    Users = {u1, u2, u3}
    Registered = {u1}
    Phones = {p1, p2, p3}
    PhoneOf <- OnePhoneOf
    Digits <- TwoNumbers
    Places = {a}
    Trips <- OkadaTrip
    Failures = TRUE
    None = None
\* The requests of the instance come to an end.
CHECK_DEADLOCK FALSE
SYMMETRY Slots
INVARIANTS CallsAreServed DoubleTapBooksOnce SharesAddUp
PROPERTIES OnlyItsSetterUnlocks KeepsTheContract
