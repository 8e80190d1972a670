\* The operations the app calls: two fetchers and one maintainer.
SPECIFICATION Spec
CONSTANTS
    a = a
    b = b
    s1 = s1
    s2 = s2
    Fetchers = {f1, f2}
    Maintainers = {m}
    Keys <- MCKeys
    Encrypted <- MCEncrypted
    Stripes <- MCStripes
    StripeOf <- MCStripeOf
    Bytes <- MCBytes
    MaxBytes <- MCMaxBytes
    MaintenanceOps = {"trimToSize", "clearAll"}
    NoProc = NoProc
    NoKey = NoKey
    Orphan = Orphan
SYMMETRY FetcherSymmetry
INVARIANTS
    TypeOK
    SizeNeverUndercounts
    BudgetAtRest
    ReadersKeepTheirFile
    LeasesMatchHandles
    CommitsAreClean
