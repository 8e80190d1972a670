\* Two callers that trigger and clear at any time, scans cancelled elsewhere.
SPECIFICATION FairSpec
CONSTANTS
    Callers = {c1, c2}
    Lists = {l1, l2}
    Jobs = {j1, j2, j3}
    ScreenOnly = FALSE
    None = None
INVARIANTS
    ScanIsRegistered
    BusyHasScan
PROPERTIES
    Coalesces
