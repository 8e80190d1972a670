\* The grid's main thread alone.
SPECIFICATION FairSpec
CONSTANTS
    Callers = {main}
    Lists = {l1, l2}
    Jobs = {j1, j2}
    ScreenOnly = TRUE
    None = None
CHECK_DEADLOCK FALSE
PROPERTIES
    ListScanned
