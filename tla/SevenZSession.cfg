\* Two callers, all calls, passwords changing; four session objects at a time.
SPECIFICATION Spec
CONSTANTS
    Procs = {p1, p2}
    Passwords = {w1, w2}
    Sessions = {s1, s2, s3, s4}
    Offered = {"extractSequential", "extractToFile", "verifyPassword", "prewarmSession",
               "closeSession", "closeAll", "reapIdleSessions", "purgeCache"}
    None = None
SYMMETRY Symmetry
INVARIANTS
    UsedHandleIsOpen
    RegisteredIsLive
