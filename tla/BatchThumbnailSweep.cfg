\* Two requests, two workers, two images.
SPECIFICATION FairSpec
CONSTANTS
    Entries = {e1, e2}
    Requests = {r1, r2}
    Workers = {w1, w2}
    None = None
INVARIANTS
    NoPauseForNobody
    SessionOutlivesBuffers
    SolidProgressCompletes
PROPERTIES
    SweepsEnd
