\* Three requests in flight over a family of three tokens.
SPECIFICATION Spec
CONSTANTS
    Requests = {t1, t2, t3}
    Tokens = {k1, k2, k3}
    First = k1
    Failures = TRUE
    None = None
SYMMETRY Slots
INVARIANTS OneLine TokenValidOnce CompromisedNotRenewed
PROPERTIES DeathIsFinal
