\* Two rides, one movement of money, four hours around the two midnights.
SPECIFICATION ReportSpec
CONSTANTS
    Rides = {r1, r2}
    Moves = {m1}
    East = 1
    Days = 0
    FirstHour = 22
    LastHour = 25
    Page = 1
    None = None
\* The hours of the instance are over in the end.
CHECK_DEADLOCK FALSE
SYMMETRY Slots
INVARIANTS FiguresAgree  PagesMissNothingOld
