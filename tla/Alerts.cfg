\* An SOS beside a verdict or a mail, with more trouble than a mail and less than an alert survives.
SPECIFICATION FairSpec
CONSTANTS
    Presses = {s1}
    Others = {a1}
    Targets = {x, y}
    SendGrid = SendGrid
    Failures = TRUE
    MaxOutages = 3
    MaxDeaths = 1
\* The calls of the instance come to an end.
CHECK_DEADLOCK FALSE
INVARIANTS QueueIsHonest
PROPERTIES AlertsLand JobsAreSettled
