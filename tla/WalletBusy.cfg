\* Two requests in flight, three entries, two days, lost answers and crashes.
SPECIFICATION Spec
CONSTANTS
    Requests = {t1, t2}
    Entries = {e1, e2, e3}
    Amounts = {1, 2}
    Fares = {1}
    DailyLimit = 2
    LastDay = 1
    Failures = TRUE
    None = None
\* The ledger of the instance is full in the end.
CHECK_DEADLOCK FALSE
SYMMETRY Slots
INVARIANTS BalanceFollowsLedger OverdraftIsRefusedFuel DailyCap LedgerTrustsGateway
PROPERTIES ContractSpec
