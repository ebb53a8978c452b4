\* One ride, one movement of money.
SPECIFICATION ReportSpec
CONSTANTS
    Rides = {r1}
    Moves = {m1}
    East = 1
    Days = 0
    FirstHour = 22
    LastHour = 25
    Page = 1
    None = None
\* The hours of the instance are over in the end.
CHECK_DEADLOCK FALSE
INVARIANTS StatementShowsTheBalance
