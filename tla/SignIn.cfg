\* Ann rides and may come to drive; a second DID; three requests, two ways to write her address.
SPECIFICATION Spec
CONSTANTS
    u1 = u1  d1 = d1  ann = ann
    Requests = {t1, t2, t3}
    RiderIds = {u1, u2}
    DriverIds = {d1}
    Registered = {u1}
    BoxOf <- Anns
    Boxes = {ann}
    Dids = {x, y}
    AdminBoxes = {ann}
    Spellings = {TRUE, FALSE}
    Passwords = {p}
    Codes = {c1, c2}
    Failures = TRUE
    None = None
SYMMETRY Slots
CHECK_DEADLOCK FALSE
INVARIANTS AccountsAreSound
PROPERTIES LinksAreProven OnlyRacesRepoint OnlyRacesUndo SpentCodesAreDead
