--------------------------- MODULE ArchiveDiskCache ---------------------------
(***************************************************************************)
(* The disk cache of extracted archive entries (ArchiveDiskCache.kt), the  *)
(* lease registry that is meant to keep its files alive while they are     *)
(* read (CacheFileLeases.kt), and the reader protocol of the image fetcher *)
(* (ZipImageFetcher.kt).                                                   *)
(*                                                                         *)
(* Fetchers look entries up, extract them and read the files; maintainers  *)
(* trim or clear the directory (WatchPictureApp.onTrimMemory, the settings *)
(* screen, CacheMaintenance).  A key stands for one cached entry: archive, *)
(* entry name and password digest.  Bytes[S] is the number of bytes the    *)
(* files of the keys S occupy; a renamed file never changes its length.    *)
(***************************************************************************)
EXTENDS Integers

CONSTANTS
    Fetchers,        \* threads and coroutines that look up and extract entries
    Maintainers,     \* threads that trim or clear the directory
    Keys,            \* cache keys
    Encrypted,       \* the keys whose file has the enc_ prefix
    Stripes,         \* the striped locks
    StripeOf,        \* the stripe of each key
    Bytes,           \* bytes occupied by a set of files
    MaxBytes,        \* maxSizeBytes
    MaintenanceOps,  \* the operations maintainers call
    NoProc,          \* a lock nobody holds
    NoKey,           \* the argument of an idle process
    Orphan           \* a temporary file whose writer died with the process

Procs    == Fetchers \cup Maintainers
PutOps   == {"putDirect", "putDirectSuspend"}
FetchOps == {"get"} \cup PutOps

ASSUME ProcsAssumption ==
    /\ Fetchers \cap Maintainers = {}
    /\ NoProc \notin Procs
    /\ Orphan \notin Procs
    /\ NoKey \notin Keys
    /\ MaintenanceOps \subseteq {"trimToSize", "clearEncrypted", "clearAll"}

ASSUME KeysAssumption ==
    /\ Encrypted \subseteq Keys
    /\ StripeOf \in [Keys -> Stripes]

\* A sum of lengths: additive over disjoint sets of files, and never zero for
\* a file, because an empty file is refused before it is renamed.
ASSUME BytesAssumption ==
    /\ Bytes \in [SUBSET Keys -> Nat]
    /\ \A S, T \in SUBSET Keys :
          S \cap T = {} => Bytes[S \cup T] = Bytes[S] + Bytes[T]
    /\ \A k \in Keys : Bytes[{k}] > 0
    /\ MaxBytes \in Nat

VARIABLES
    files,             \* renamed files in the directory
    tmp,               \* .tmp files, named by their writer
    older,             \* <<j, k>>: j was last used before k (lastModified)
    currentSizeBytes,  \* the atomic size counter, -1 until first needed
    stripeLock,        \* holder of each stripe lock
    globalLock,        \* holder of the global lock
    refCounts,         \* lease registry
    openHandles,       \* the processes that hold a lease they have not closed
    pc, op, key,       \* where each process is, in which call, on which key
    added,             \* addedSize of a writer that renamed its file
    listed, listedTmp, \* what the holder of the global lock has yet to visit
    victims,           \* what it decided to delete and has not deleted yet
    freed,             \* bytes it has deleted
    kept,              \* history: files its last sweep spared as leased
    raced              \* history: readers that verified a file already doomed

dir    == <<files, tmp, older>>
locks  == <<stripeLock, globalLock>>
leases == <<refCounts, openHandles>>
proc   == <<pc, op, key, added>>
sweep  == <<listed, listedTmp, victims, freed>>
ghost  == <<kept, raced>>
vars   == <<dir, currentSizeBytes, locks, leases, proc, sweep, ghost>>

-----------------------------------------------------------------------------
(* State formulae *)

isLeased(k) == refCounts[k] > 0

StripeFree(k) == stripeLock[StripeOf[k]] = NoProc

\* lastModified := now, for a file that exists.
Touched(k, present) ==
    {e \in older : e[1] # k} \cup {<<j, k>> : j \in present \ {k}}

\* Renamed files whose size has not been added to the counter yet.
PendingPcs == {"measure", "init", "account"}
Pending == {p \in Fetchers : pc[p] \in PendingPcs}
Unaccounted == {key[p] : p \in Pending}

\* Mutant: the plan takes the leased files too.
planLruTrimOfAll(present, evictable) ==
    {k \in present :
        Bytes[present] - Bytes[{j \in present : <<j, k>> \in older}] > MaxBytes}

\* planLruTrim: the evictable files, least recently used first, until what
\* remains fits the budget; files that may not go still count.
planLruTrim(present, evictable) ==
    {k \in evictable :
        Bytes[present] - Bytes[{j \in evictable : <<j, k>> \in older}] > MaxBytes}

Busy(p) == pc[p] # "idle"

-----------------------------------------------------------------------------
(* Process bookkeeping *)

Goto(p, l) ==
    pc' = [pc EXCEPT ![p] = l] /\ UNCHANGED <<op, key>>

Finish(p) ==
    /\ pc' = [pc EXCEPT ![p] = "idle"]
    /\ op' = [op EXCEPT ![p] = "none"]
    /\ key' = [key EXCEPT ![p] = NoKey]

Start(p, o, k, l) ==
    /\ pc[p] = "idle"
    /\ pc' = [pc EXCEPT ![p] = l]
    /\ op' = [op EXCEPT ![p] = o]
    /\ key' = [key EXCEPT ![p] = k]

Lock(k, p) == stripeLock' = [stripeLock EXCEPT ![StripeOf[k]] = p]

\* The stripe lock of key k is released if p holds it.
Unlock(k, p) ==
    stripeLock' = IF stripeLock[StripeOf[k]] = p
                  THEN [stripeLock EXCEPT ![StripeOf[k]] = NoProc]
                  ELSE stripeLock

\* Mutant: the handle forgets that it was closed.
ReleaseLeaseEveryTime(p) ==
    /\ refCounts' = [refCounts EXCEPT ![key[p]] = @ - 1]
    /\ openHandles' = openHandles \ {p}

\* Closing a lease handle: only the first close() of a handle counts.
ReleaseLease(p) ==
    IF p \in openHandles
    THEN /\ refCounts' = [refCounts EXCEPT ![key[p]] = @ - 1]
         /\ openHandles' = openHandles \ {p}
    ELSE UNCHANGED leases

Init ==
    /\ files = {} /\ tmp = {} /\ older = {}
    /\ currentSizeBytes = -1
    /\ stripeLock = [s \in Stripes |-> NoProc]
    /\ globalLock = NoProc
    /\ refCounts = [k \in Keys |-> 0]
    /\ openHandles = {}
    /\ pc = [p \in Procs |-> "idle"]
    /\ op = [p \in Procs |-> "none"]
    /\ key = [p \in Procs |-> NoKey]
    /\ added = [p \in Procs |-> 0]
    /\ listed = {} /\ listedTmp = {} /\ victims = {} /\ freed = 0
    /\ kept = {} /\ raced = {}

-----------------------------------------------------------------------------
(* Looking an entry up and writing it *)

\* get, putDirect, putDirectSuspend: the exists() test outside every lock.
\* A get that misses returns null and changes nothing.
Lookup(p) ==
    \E k \in Keys, o \in FetchOps :
        /\ o = "get" => k \in files
        /\ Start(p, o, k, IF k \in files THEN "touch"
                          ELSE IF o = "putDirect" THEN "lock" ELSE "write")
        /\ UNCHANGED <<dir, currentSizeBytes, locks, leases, added, sweep, ghost>>

\* A hit updates the recency under the stripe lock, then returns the file
\* without looking again whether it still exists.
Touch(p) ==
    /\ pc[p] = "touch"
    /\ StripeFree(key[p])
    /\ older' = IF key[p] \in files THEN Touched(key[p], files) ELSE older
    /\ Goto(p, "return")
    /\ UNCHANGED <<files, tmp, currentSizeBytes, locks, leases, added, sweep, ghost>>

\* putDirect: take the stripe lock and test again.
LockAndRecheck(p) ==
    /\ pc[p] = "lock"
    /\ StripeFree(key[p])
    /\ IF key[p] \in files
       THEN /\ older' = Touched(key[p], files)
            /\ Goto(p, "return")
            /\ UNCHANGED stripeLock
       ELSE /\ Lock(key[p], p)
            /\ Goto(p, "write")
            /\ UNCHANGED older
    /\ UNCHANGED <<files, tmp, currentSizeBytes, globalLock, leases, added, sweep, ghost>>

\* The writer creates its uniquely named temporary file.
CreateTmp(p) ==
    /\ pc[p] = "write"
    /\ tmp' = tmp \cup {p}
    /\ Goto(p, "writing")
    /\ UNCHANGED <<files, older, currentSizeBytes, locks, leases, added, sweep, ghost>>

\* Every path into the catch block: the temporary file and the lock go.
Throw(p) ==
    /\ tmp' = tmp \ {p}
    /\ Unlock(key[p], p)
    /\ Finish(p)
    /\ UNCHANGED <<files, older, currentSizeBytes, globalLock, leases, added, sweep, ghost>>

\* The writer threw, was cancelled or produced no bytes.
WriterFails(p) == pc[p] = "writing" /\ Throw(p)

\* The writer returned; a temporary file that is gone means 0 bytes.
WriterReturns(p) ==
    /\ pc[p] = "writing"
    /\ IF p \in tmp
       THEN /\ Goto(p, "rename")
            /\ UNCHANGED <<dir, currentSizeBytes, locks, leases, added, sweep, ghost>>
       ELSE Throw(p)

\* putDirect holds its stripe lock already, putDirectSuspend takes it here.
CanCommit(p) ==
    /\ pc[p] = "rename"
    /\ stripeLock[StripeOf[key[p]]] = IF op[p] = "putDirect" THEN p ELSE NoProc

\* Mutant: putDirectSuspend renames without the stripe lock.
RenameUnlocked(p) ==
    /\ pc[p] = "rename"
    /\ key[p] \in files => op[p] = "putDirectSuspend"
    /\ p \in tmp
    /\ tmp' = tmp \ {p}
    /\ files' = files \cup {key[p]}
    /\ older' = Touched(key[p], files)
    /\ Goto(p, "measure")
    /\ UNCHANGED <<currentSizeBytes, locks, leases, added, sweep, ghost>>

Rename(p) ==
    /\ CanCommit(p)
    /\ op[p] = "putDirectSuspend" => key[p] \notin files
    /\ p \in tmp
    /\ tmp' = tmp \ {p}
    /\ files' = files \cup {key[p]}
    /\ older' = Touched(key[p], files)
    /\ Lock(key[p], p)
    /\ Goto(p, "measure")
    /\ UNCHANGED <<currentSizeBytes, globalLock, leases, added, sweep, ghost>>

\* putDirectSuspend finds that a peer renamed its file first.
DropDuplicate(p) ==
    /\ CanCommit(p)
    /\ op[p] = "putDirectSuspend"
    /\ key[p] \in files
    /\ tmp' = tmp \ {p}
    /\ older' = Touched(key[p], files)
    /\ Goto(p, "return")
    /\ UNCHANGED <<files, currentSizeBytes, locks, leases, added, sweep, ghost>>

\* clearAll deleted the temporary file: renameTo fails, then copyTo throws.
RenameFails(p) ==
    /\ CanCommit(p)
    /\ op[p] = "putDirectSuspend" => key[p] \notin files
    /\ p \notin tmp
    /\ Throw(p)

\* addedSize = targetFile.length(), which is 0 once the file is gone.
Measure(p) ==
    /\ pc[p] = "measure"
    /\ added' = [added EXCEPT ![p] = Bytes[{key[p]} \cap files]]
    /\ Goto(p, "init")
    /\ UNCHANGED <<dir, currentSizeBytes, locks, leases, sweep, ghost>>

getOrInitSize(p) ==
    /\ pc[p] = "init"
    /\ IF currentSizeBytes >= 0
       THEN UNCHANGED currentSizeBytes
       ELSE globalLock = NoProc /\ currentSizeBytes' = Bytes[files]
    /\ Goto(p, "account")
    /\ UNCHANGED <<dir, locks, leases, added, sweep, ghost>>

\* Mutant: the budget test reads the counter before the addition.
AccountTestsOldCounter(p) ==
    /\ pc[p] = "account"
    /\ globalLock = NoProc
    /\ currentSizeBytes' = currentSizeBytes + added[p]
    /\ added' = [added EXCEPT ![p] = 0]
    /\ IF currentSizeBytes > MaxBytes
       THEN globalLock' = p /\ Goto(p, "scan") /\ UNCHANGED stripeLock
       ELSE Unlock(key[p], p) /\ Goto(p, "return") /\ UNCHANGED globalLock
    /\ UNCHANGED <<dir, leases, sweep, ghost>>

\* Under the global lock: add, and trim at once when over the budget.
Account(p) ==
    /\ pc[p] = "account"
    /\ globalLock = NoProc
    /\ currentSizeBytes' = currentSizeBytes + added[p]
    /\ added' = [added EXCEPT ![p] = 0]
    /\ IF currentSizeBytes' > MaxBytes
       THEN /\ globalLock' = p
            /\ Goto(p, "scan")
            /\ UNCHANGED stripeLock
       ELSE /\ Unlock(key[p], p)
            /\ Goto(p, "return")
            /\ UNCHANGED globalLock
    /\ UNCHANGED <<dir, leases, sweep, ghost>>

-----------------------------------------------------------------------------
(* Trimming and clearing *)

StartTrim(p) ==
    /\ "trimToSize" \in MaintenanceOps
    /\ globalLock = NoProc
    /\ globalLock' = p
    /\ Start(p, "trimToSize", NoKey, "scan")
    /\ UNCHANGED <<dir, currentSizeBytes, stripeLock, leases, added, sweep, ghost>>

\* Mutant: the scan leaves the counter as it is.
TrimScanKeepsCounter(p) ==
    /\ pc[p] = "scan"
    /\ victims' = planLruTrim(files, {k \in files : ~isLeased(k)})
    /\ kept' = {k \in files : isLeased(k)}
    /\ Goto(p, "delete")
    /\ UNCHANGED <<dir, currentSizeBytes, locks, leases, added, listed, listedTmp, freed, raced>>

\* trimToSize lists the directory, sets the counter and plans the victims.
TrimScan(p) ==
    /\ pc[p] = "scan"
    /\ currentSizeBytes' = Bytes[files]
    /\ victims' = planLruTrim(files, {k \in files : ~isLeased(k)})
    /\ kept' = {k \in files : isLeased(k)}
    /\ Goto(p, "delete")
    /\ UNCHANGED <<dir, locks, leases, added, listed, listedTmp, freed, raced>>

\* Mutant: a victim is deleted under its stripe lock.
DeleteUnderStripe(p) ==
    /\ pc[p] \in {"delete", "clear"}
    /\ \E k \in victims :
        /\ stripeLock[StripeOf[k]] \in {NoProc, p}
        /\ victims' = victims \ {k}
        /\ freed' = freed + Bytes[{k} \cap files]
        /\ files' = files \ {k}
        /\ older' = {e \in older : e[1] # k /\ e[2] # k}
    /\ UNCHANGED <<tmp, currentSizeBytes, locks, leases, proc, listed, listedTmp, ghost>>

\* file.delete() of one victim, with no further look at its leases.
Delete(p) ==
    /\ pc[p] \in {"delete", "clear"}
    /\ \E k \in victims :
        /\ victims' = victims \ {k}
        /\ freed' = freed + Bytes[{k} \cap files]
        /\ files' = files \ {k}
        /\ older' = {e \in older : e[1] # k /\ e[2] # k}
    /\ UNCHANGED <<tmp, currentSizeBytes, locks, leases, proc, listed, listedTmp, ghost>>

\* The sweep is over: its counter update, then the locks go.
EndSweep(p) ==
    /\ globalLock' = NoProc
    /\ freed' = 0
    /\ IF op[p] \in PutOps
       THEN Unlock(key[p], p) /\ Goto(p, "return")
       ELSE Finish(p) /\ UNCHANGED stripeLock
    /\ UNCHANGED <<dir, leases, added, listed, listedTmp, victims, ghost>>

TrimEnd(p) ==
    /\ pc[p] = "delete" /\ op[p] # "clearEncrypted"
    /\ victims = {}
    /\ currentSizeBytes' = currentSizeBytes - freed
    /\ EndSweep(p)

clearEncrypted(p) ==
    /\ "clearEncrypted" \in MaintenanceOps
    /\ globalLock = NoProc
    /\ globalLock' = p
    /\ victims' = {k \in files \cap Encrypted : ~isLeased(k)}
    /\ Start(p, "clearEncrypted", NoKey, "delete")
    /\ UNCHANGED <<dir, currentSizeBytes, stripeLock, leases, added,
                   listed, listedTmp, freed, ghost>>

ClearEncryptedEnd(p) ==
    /\ pc[p] = "delete" /\ op[p] = "clearEncrypted"
    /\ victims = {}
    /\ currentSizeBytes' = IF currentSizeBytes < 0 THEN currentSizeBytes
                           ELSE IF currentSizeBytes < freed THEN 0
                           ELSE currentSizeBytes - freed
    /\ EndSweep(p)

\* clearAll lists everything, the temporary files of writers included.
clearAll(p) ==
    /\ "clearAll" \in MaintenanceOps
    /\ globalLock = NoProc
    /\ globalLock' = p
    /\ listed' = files
    /\ listedTmp' = tmp
    /\ kept' = {}
    /\ Start(p, "clearAll", NoKey, "clear")
    /\ UNCHANGED <<dir, currentSizeBytes, stripeLock, leases, added, victims, freed, raced>>

\* One listed file: spared when leased, otherwise the next to be deleted.
ClearVisit(p) ==
    /\ pc[p] = "clear" /\ victims = {}
    /\ \E k \in listed :
        /\ listed' = listed \ {k}
        /\ victims' = IF isLeased(k) THEN {} ELSE {k}
        /\ kept' = IF isLeased(k) THEN kept \cup {k} ELSE kept
    /\ UNCHANGED <<dir, currentSizeBytes, locks, leases, proc, listedTmp, freed, raced>>

ClearVisitTmp(p) ==
    /\ pc[p] = "clear" /\ victims = {}
    /\ \E q \in listedTmp :
        /\ listedTmp' = listedTmp \ {q}
        /\ tmp' = tmp \ {q}
    /\ UNCHANGED <<files, older, currentSizeBytes, locks, leases, proc,
                   listed, victims, freed, ghost>>

\* Mutant: the counter is reset to zero instead of being measured again.
ClearAllEndAtZero(p) ==
    /\ pc[p] = "clear"
    /\ victims = {} /\ listed = {} /\ listedTmp = {}
    /\ currentSizeBytes' = 0
    /\ EndSweep(p)

ClearAllEnd(p) ==
    /\ pc[p] = "clear"
    /\ victims = {} /\ listed = {} /\ listedTmp = {}
    /\ currentSizeBytes' = Bytes[files]
    /\ EndSweep(p)

-----------------------------------------------------------------------------
(* Reading a file under a lease *)

\* A prefetch, or a caller that reads no file, drops the result.
DropResult(p) ==
    /\ pc[p] = "return"
    /\ Finish(p)
    /\ UNCHANGED <<dir, currentSizeBytes, locks, leases, added, sweep, ghost>>

AcquireLease(p) ==
    /\ pc[p] = "return"
    /\ refCounts' = [refCounts EXCEPT ![key[p]] = @ + 1]
    /\ openHandles' = openHandles \cup {p}
    /\ Goto(p, "verify")
    /\ UNCHANGED <<dir, currentSizeBytes, locks, added, sweep, ghost>>

\* leaseVerified: a file that is gone gives the lease back.
leaseVerified(p) ==
    /\ pc[p] = "verify"
    /\ IF key[p] \in files
       THEN /\ Goto(p, "reading")
            /\ raced' = IF key[p] \in victims THEN raced \cup {p} ELSE raced
            /\ UNCHANGED leases
       ELSE /\ ReleaseLease(p)
            /\ Finish(p)
            /\ UNCHANGED raced
    /\ UNCHANGED <<dir, currentSizeBytes, locks, added, sweep, kept>>

CloseLease(p) ==
    /\ pc[p] = "reading"
    /\ ReleaseLease(p)
    /\ raced' = raced \ {p}
    /\ Goto(p, "closed")
    /\ UNCHANGED <<dir, currentSizeBytes, locks, added, sweep, kept>>

\* The image loader may close the same source a second time.
CloseAgain(p) ==
    /\ pc[p] = "closed"
    /\ ReleaseLease(p)
    /\ Finish(p)
    /\ UNCHANGED <<dir, currentSizeBytes, locks, added, sweep, ghost>>

-----------------------------------------------------------------------------
(* The process dies: memory is lost, the directory stays as it is. *)
Crash ==
    /\ tmp' = IF tmp = {} THEN {} ELSE {Orphan}
    /\ currentSizeBytes' = -1
    /\ stripeLock' = [s \in Stripes |-> NoProc]
    /\ globalLock' = NoProc
    /\ refCounts' = [k \in Keys |-> 0]
    /\ openHandles' = {}
    /\ pc' = [p \in Procs |-> "idle"]
    /\ op' = [p \in Procs |-> "none"]
    /\ key' = [p \in Procs |-> NoKey]
    /\ added' = [p \in Procs |-> 0]
    /\ listed' = {} /\ listedTmp' = {} /\ victims' = {} /\ freed' = 0
    /\ kept' = {} /\ raced' = {}
    /\ UNCHANGED <<files, older>>

\* The steps a call takes once it has begun.
FetchStep(p) ==
    \/ Touch(p) \/ LockAndRecheck(p) \/ CreateTmp(p) \/ WriterFails(p)
    \/ WriterReturns(p) \/ Rename(p) \/ DropDuplicate(p) \/ RenameFails(p)
    \/ Measure(p) \/ getOrInitSize(p) \/ Account(p)
    \/ DropResult(p) \/ AcquireLease(p) \/ leaseVerified(p)
    \/ CloseLease(p) \/ CloseAgain(p)

SweepStep(p) ==
    \/ TrimScan(p) \/ Delete(p) \/ TrimEnd(p) \/ ClearEncryptedEnd(p)
    \/ ClearVisit(p) \/ ClearVisitTmp(p) \/ ClearAllEnd(p)

Next ==
    \/ \E p \in Fetchers : Lookup(p) \/ FetchStep(p)
    \/ \E p \in Maintainers : StartTrim(p) \/ clearEncrypted(p) \/ clearAll(p)
    \/ \E p \in Procs : SweepStep(p)
    \/ Crash

Spec == Init /\ [][Next]_vars

\* A call that can go on does go on; calls, and the death of the process,
\* are up to the environment.
Fairness ==
    /\ \A p \in Fetchers : WF_vars(FetchStep(p))
    /\ \A p \in Procs : WF_vars(SweepStep(p))

FairSpec == Spec /\ Fairness

-----------------------------------------------------------------------------
(* Properties *)

FetchPcs == {"touch", "lock", "write", "writing", "rename"} \cup PendingPcs
            \cup {"return", "verify", "reading", "closed"}
SweepPcs == {"scan", "delete", "clear"}

\* The type invariant of the cache, its locks and the processes that use it.
TypeOK ==
    /\ files \subseteq Keys
    /\ tmp \subseteq Procs \cup {Orphan}
    /\ older \subseteq Keys \X Keys
    /\ currentSizeBytes \in Int /\ currentSizeBytes >= -1
    /\ stripeLock \in [Stripes -> Procs \cup {NoProc}]
    /\ globalLock \in Procs \cup {NoProc}
    /\ refCounts \in [Keys -> Int]
    /\ openHandles \subseteq Procs
    /\ pc \in [Procs -> {"idle"} \cup FetchPcs \cup SweepPcs]
    /\ op \in [Procs -> {"none"} \cup FetchOps \cup MaintenanceOps]
    /\ key \in [Procs -> Keys \cup {NoKey}]
    /\ added \in [Procs -> Nat]
    /\ listed \subseteq Keys
    /\ listedTmp \subseteq Procs \cup {Orphan}
    /\ victims \subseteq Keys
    /\ freed \in Nat
    /\ kept \subseteq Keys
    /\ raced \subseteq Procs

\* The counter never falls below the bytes on disk, except for files whose
\* writer has renamed them and is about to add them: what makes "counter
\* within the budget" mean "directory within the budget" (putDirect,
\* putDirectSuspend, trimToSize, clearAll).
SizeNeverUndercounts ==
    currentSizeBytes >= 0 /\ globalLock = NoProc
        => Bytes[files \ Unaccounted] <= currentSizeBytes

\* Whenever no writer is between rename and accounting and nobody sweeps, the
\* directory is within maxSizeBytes, or holds only files that the last sweep
\* had to spare because a reader leased them.
BudgetAtRest ==
    (currentSizeBytes >= 0 /\ globalLock = NoProc /\ Pending = {})
        => Bytes[files] <= MaxBytes \/ files \subseteq kept

\* A file under a verified lease is not deleted while it is read, unless the
\* reader took its lease after a sweep had already chosen the file.
ReadersKeepTheirFile ==
    \A p \in Fetchers : pc[p] = "reading" /\ p \notin raced => key[p] \in files

\* The registry counts exactly the handles that are still open, although a
\* handle may be closed twice.
LeasesMatchHandles ==
    \A k \in Keys :
        isLeased(k) <=> \E p \in openHandles : key[p] = k

\* No failed or finished write leaves its temporary file behind; and a writer
\* that has renamed its file and not accounted it yet is alone with its key: no
\* second writer commits, and counts, the same file meanwhile.
CommitsAreClean ==
    /\ \A p \in tmp \ {Orphan} : pc[p] \in {"writing", "rename"}
    /\ \A p, q \in Pending : key[p] = key[q] => p = q

\* Whoever holds the global lock gives it back: it never waits for a stripe
\* lock, which writers hold while they wait for the global lock.
GlobalLockReleased ==
    \A p \in Procs : globalLock = p ~> globalLock # p

=============================================================================
