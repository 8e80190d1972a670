\* Two callers under fairness, one password.
SPECIFICATION FairSpec
CONSTANTS
    Procs = {p1, p2}
    Passwords = {w1}
    Sessions = {s1, s2, s3, s4}
    Offered = {"extractThumbnailResult", "extractToFile", "closeSession"}
    None = None
PROPERTIES
    CallsEnd
