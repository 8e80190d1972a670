\* Every maintenance operation, one fetcher: the global lock is given back.
SPECIFICATION FairSpec
CONSTANTS
    a = a
    b = b
    s1 = s1
    s2 = s2
    Fetchers = {f1}
    Maintainers = {m}
    Keys <- MCKeys
    Encrypted <- MCEncrypted
    Stripes <- MCStripes
    StripeOf <- MCStripeOf
    Bytes <- MCBytes
    MaxBytes <- MCMaxBytes
    MaintenanceOps = {"trimToSize", "clearEncrypted", "clearAll"}
    NoProc = NoProc
    NoKey = NoKey
    Orphan = Orphan
PROPERTIES
    GlobalLockReleased
