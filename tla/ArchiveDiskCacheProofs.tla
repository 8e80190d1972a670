------------------------ MODULE ArchiveDiskCacheProofs ------------------------
(***************************************************************************)
(* What holds of ArchiveDiskCache for every number of fetchers,            *)
(* maintainers, keys and stripes and every length of the files.            *)
(* First its types, that its counter never falls below the directory, and  *)
(* that it respects its budget; the last two need that clearEncrypted,     *)
(* which the app never calls, is not among the maintenance operations.     *)
(* Then, for every maintenance operation, its leases and temporary files:  *)
(* the registry counts the open handles, a file is not deleted under a     *)
(* reader but in the one known window, and writers commit one at a time    *)
(* and clean up.                                                           *)
(***************************************************************************)
EXTENDS ArchiveDiskCache, FiniteSetTheorems, WellFoundedInduction, TLAPS

\* The maintenance the app does: nothing calls clearEncrypted.
AppOps == "clearEncrypted" \notin MaintenanceOps

-----------------------------------------------------------------------------
(* Facts about lengths *)

\* A set of files occupies no less than any of its subsets.
LEMMA BytesMonotone ==
    ASSUME NEW S \in SUBSET Keys, NEW T \in SUBSET Keys, S \subseteq T
    PROVE  Bytes[S] \in Nat /\ Bytes[T] \in Nat /\ Bytes[S] <= Bytes[T]
<1>1. /\ S \cap (T \ S) = {} /\ S \cup (T \ S) = T /\ T \ S \in SUBSET Keys
  OBVIOUS
<1>2. Bytes[T] = Bytes[S] + Bytes[T \ S]
  BY <1>1, BytesAssumption
<1>3. Bytes[S] \in Nat /\ Bytes[T] \in Nat /\ Bytes[T \ S] \in Nat
  BY <1>1, BytesAssumption
<1> QED
  BY <1>2, <1>3

\* Deleting a file frees its length, or nothing when it is not there.
LEMMA BytesRemove ==
    ASSUME NEW S \in SUBSET Keys, NEW k \in Keys
    PROVE  /\ Bytes[S] = Bytes[S \ {k}] + Bytes[{k} \cap S]
           /\ Bytes[S \ {k}] \in Nat /\ Bytes[{k} \cap S] \in Nat
<1>1. /\ (S \ {k}) \cap ({k} \cap S) = {} /\ (S \ {k}) \cup ({k} \cap S) = S
      /\ S \ {k} \in SUBSET Keys /\ {k} \cap S \in SUBSET Keys
  OBVIOUS
<1> QED
  BY <1>1, BytesAssumption

\* Together, two sets of files occupy at most the sum of what each does.
LEMMA BytesUnion ==
    ASSUME NEW S \in SUBSET Keys, NEW T \in SUBSET Keys
    PROVE  Bytes[S \cup T] <= Bytes[S] + Bytes[T]
<1>1. /\ S \cap (T \ S) = {} /\ S \cup (T \ S) = S \cup T /\ T \ S \in SUBSET Keys
  OBVIOUS
<1>2. Bytes[S \cup T] = Bytes[S] + Bytes[T \ S]
  BY <1>1, BytesAssumption
<1>3. Bytes[T \ S] <= Bytes[T]
  BY <1>1, BytesMonotone
<1>4. Bytes[S] \in Nat /\ Bytes[T] \in Nat /\ Bytes[T \ S] \in Nat
  BY <1>1, BytesAssumption
<1> QED
  BY <1>2, <1>3, <1>4

-----------------------------------------------------------------------------
(* The invariant of the calls and locks *)

\* A call in progress has a key; so has a writer that is trimming.
CallsHaveKeys ==
    \A p \in Procs : pc[p] \in FetchPcs \/ op[p] \in PutOps => key[p] \in Keys

\* Only the holder of the global lock sweeps.
SweepsHoldGlobalLock ==
    \A p \in Procs : pc[p] \in SweepPcs => globalLock = p

\* From its rename to its accounting a writer holds the stripe of its key.
PendingHoldStripe ==
    \A p \in Fetchers : pc[p] \in PendingPcs => stripeLock[StripeOf[key[p]]] = p

\* What a writer is about to add covers its file, if that still exists.
AddedCoversFile ==
    \A p \in Fetchers :
        pc[p] \in {"init", "account"} => Bytes[{key[p]} \cap files] <= added[p]

\* Nobody accounts before the counter is initialised.
CounterReady ==
    \A p \in Fetchers : pc[p] = "account" => currentSizeBytes >= 0

\* A sweep starts with nothing freed.
FreedStartsAtZero ==
    /\ globalLock = NoProc => freed = 0
    /\ \A p \in Procs : pc[p] = "scan" => freed = 0

\* While a trim deletes, the counter less what is freed covers the files that
\* stay and those still to be deleted.
TrimCoversFiles ==
    \A p \in Procs :
        pc[p] = "delete" /\ op[p] # "clearEncrypted"
            => Bytes[(files \ Unaccounted) \cup victims] <= currentSizeBytes - freed

\* The inductive invariant behind type correctness.
IInv ==
    /\ TypeOK /\ CallsHaveKeys
    /\ SweepsHoldGlobalLock /\ PendingHoldStripe
    /\ AddedCoversFile /\ CounterReady
    /\ FreedStartsAtZero /\ TrimCoversFiles

\* A trim never frees more than the counter holds.
LEMMA TrimLeavesCount ==
    ASSUME IInv, NEW p \in Procs, TrimEnd(p)
    PROVE  currentSizeBytes - freed >= 0
<1>1. /\ pc[p] = "delete" /\ op[p] # "clearEncrypted"
      /\ (files \ Unaccounted) \cup victims \in SUBSET Keys
  BY DEF IInv, TypeOK, TrimEnd
<1> QED
  BY <1>1, BytesAssumption DEF IInv, TypeOK, TrimCoversFiles

\* Every step keeps the types; the counter stays above -1 because a trim frees
\* no more than it has counted.
LEMMA TypeStep ==
    ASSUME IInv, [Next]_vars
    PROVE  TypeOK'
<1> USE BytesAssumption, ProcsAssumption, KeysAssumption DEF TypeOK, IInv, CallsHaveKeys,
        FetchPcs, SweepPcs, PendingPcs, FetchOps, PutOps, Procs, dir, locks, leases, proc,
        sweep, ghost
<1>1. ASSUME NEW p \in Fetchers, Lookup(p) PROVE TypeOK'
  BY <1>1 DEF Lookup, Start
<1>2. ASSUME NEW p \in Fetchers, Touch(p) PROVE TypeOK'
  BY <1>2 DEF Touch, Goto, StripeFree, Touched
<1>3. ASSUME NEW p \in Fetchers, LockAndRecheck(p) PROVE TypeOK'
  BY <1>3 DEF LockAndRecheck, Goto, Lock, StripeFree, Touched
<1>4. ASSUME NEW p \in Fetchers, CreateTmp(p) PROVE TypeOK'
  BY <1>4 DEF CreateTmp, Goto
<1>5. ASSUME NEW p \in Fetchers, WriterFails(p) PROVE TypeOK'
  BY <1>5 DEF WriterFails, Throw, Unlock, Finish
<1>6. ASSUME NEW p \in Fetchers, WriterReturns(p) PROVE TypeOK'
  BY <1>6 DEF WriterReturns, Goto, Throw, Unlock, Finish
<1>7. ASSUME NEW p \in Fetchers, Rename(p) PROVE TypeOK'
  BY <1>7 DEF Rename, Goto, CanCommit, Lock, Touched
<1>8. ASSUME NEW p \in Fetchers, DropDuplicate(p) PROVE TypeOK'
  BY <1>8 DEF DropDuplicate, Goto, CanCommit, Touched
<1>9. ASSUME NEW p \in Fetchers, RenameFails(p) PROVE TypeOK'
  BY <1>9 DEF RenameFails, CanCommit, Throw, Unlock, Finish
<1>10. ASSUME NEW p \in Fetchers, Measure(p) PROVE TypeOK'
  BY <1>10 DEF Measure, Goto
<1>11. ASSUME NEW p \in Fetchers, getOrInitSize(p) PROVE TypeOK'
  BY <1>11 DEF getOrInitSize, Goto
<1>12. ASSUME NEW p \in Fetchers, Account(p) PROVE TypeOK'
  BY <1>12 DEF Account, Goto, Unlock
<1>13. ASSUME NEW p \in Fetchers, DropResult(p) PROVE TypeOK'
  BY <1>13 DEF DropResult, Finish
<1>14. ASSUME NEW p \in Fetchers, AcquireLease(p) PROVE TypeOK'
  BY <1>14 DEF AcquireLease, Goto
<1>15. ASSUME NEW p \in Fetchers, leaseVerified(p) PROVE TypeOK'
  BY <1>15 DEF leaseVerified, Goto, ReleaseLease, Finish
<1>16. ASSUME NEW p \in Fetchers, CloseLease(p) PROVE TypeOK'
  BY <1>16 DEF CloseLease, Goto, ReleaseLease
<1>17. ASSUME NEW p \in Fetchers, CloseAgain(p) PROVE TypeOK'
  BY <1>17 DEF CloseAgain, Finish, ReleaseLease
<1>18. ASSUME NEW p \in Maintainers, StartTrim(p) PROVE TypeOK'
  BY <1>18 DEF StartTrim, Start
<1>19. ASSUME NEW p \in Maintainers, clearEncrypted(p) PROVE TypeOK'
  BY <1>19 DEF clearEncrypted, Start
<1>20. ASSUME NEW p \in Maintainers, clearAll(p) PROVE TypeOK'
  BY <1>20 DEF clearAll, Start
<1>21. ASSUME NEW p \in Procs, TrimScan(p) PROVE TypeOK'
  BY <1>21 DEF TrimScan, Goto, planLruTrim
<1>22. ASSUME NEW p \in Procs, Delete(p) PROVE TypeOK'
  BY <1>22 DEF Delete
<1>23. ASSUME NEW p \in Procs, TrimEnd(p) PROVE TypeOK'
  <2>1. currentSizeBytes - freed >= 0
    BY <1>23, TrimLeavesCount
  <2> QED
    BY <2>1, <1>23 DEF TrimEnd, EndSweep, Goto, Unlock, Finish
<1>24. ASSUME NEW p \in Procs, ClearEncryptedEnd(p) PROVE TypeOK'
  BY <1>24 DEF ClearEncryptedEnd, EndSweep, Goto, Unlock, Finish
<1>25. ASSUME NEW p \in Procs, ClearVisit(p) PROVE TypeOK'
  BY <1>25 DEF ClearVisit
<1>26. ASSUME NEW p \in Procs, ClearVisitTmp(p) PROVE TypeOK'
  BY <1>26 DEF ClearVisitTmp
<1>27. ASSUME NEW p \in Procs, ClearAllEnd(p) PROVE TypeOK'
  BY SMTT(30), <1>27 DEF ClearAllEnd, EndSweep, Goto, Unlock, Finish
<1>28. CASE Crash
  BY <1>28 DEF Crash
<1>29. CASE UNCHANGED vars
  BY <1>29 DEF vars
<1> QED
  BY <1>1, <1>2, <1>3, <1>4, <1>5, <1>6, <1>7, <1>8, <1>9, <1>10, <1>11, <1>12, <1>13,
     <1>14, <1>15, <1>16, <1>17, <1>18, <1>19, <1>20, <1>21, <1>22, <1>23, <1>24, <1>25,
     <1>26, <1>27, <1>28, <1>29 DEF Next, FetchStep, SweepStep

\* Every step keeps a key with each call in progress.
LEMMA CallsStep ==
    ASSUME IInv, [Next]_vars
    PROVE  CallsHaveKeys'
<1> USE DEF IInv, TypeOK, CallsHaveKeys, FetchPcs, SweepPcs, PendingPcs, FetchOps, PutOps,
        Procs, dir, locks, leases, proc, sweep, ghost
<1>1. ASSUME NEW p \in Fetchers, Lookup(p) PROVE CallsHaveKeys'
  BY <1>1 DEF Lookup, Start
<1>2. ASSUME NEW p \in Fetchers, Touch(p) PROVE CallsHaveKeys'
  BY <1>2 DEF Touch, Goto, StripeFree, Touched
<1>3. ASSUME NEW p \in Fetchers, LockAndRecheck(p) PROVE CallsHaveKeys'
  BY <1>3 DEF LockAndRecheck, Goto, Lock, StripeFree, Touched
<1>4. ASSUME NEW p \in Fetchers, CreateTmp(p) PROVE CallsHaveKeys'
  BY <1>4 DEF CreateTmp, Goto
<1>5. ASSUME NEW p \in Fetchers, WriterFails(p) PROVE CallsHaveKeys'
  BY <1>5 DEF WriterFails, Throw, Unlock, Finish
<1>6. ASSUME NEW p \in Fetchers, WriterReturns(p) PROVE CallsHaveKeys'
  BY <1>6 DEF WriterReturns, Goto, Throw, Unlock, Finish
<1>7. ASSUME NEW p \in Fetchers, Rename(p) PROVE CallsHaveKeys'
  BY <1>7 DEF Rename, Goto, CanCommit, Lock, Touched
<1>8. ASSUME NEW p \in Fetchers, DropDuplicate(p) PROVE CallsHaveKeys'
  BY <1>8 DEF DropDuplicate, Goto, CanCommit, Touched
<1>9. ASSUME NEW p \in Fetchers, RenameFails(p) PROVE CallsHaveKeys'
  BY <1>9 DEF RenameFails, CanCommit, Throw, Unlock, Finish
<1>10. ASSUME NEW p \in Fetchers, Measure(p) PROVE CallsHaveKeys'
  BY <1>10 DEF Measure, Goto
<1>11. ASSUME NEW p \in Fetchers, getOrInitSize(p) PROVE CallsHaveKeys'
  BY <1>11 DEF getOrInitSize, Goto
<1>12. ASSUME NEW p \in Fetchers, Account(p) PROVE CallsHaveKeys'
  BY <1>12 DEF Account, Goto, Unlock
<1>13. ASSUME NEW p \in Fetchers, DropResult(p) PROVE CallsHaveKeys'
  BY <1>13 DEF DropResult, Finish
<1>14. ASSUME NEW p \in Fetchers, AcquireLease(p) PROVE CallsHaveKeys'
  BY <1>14 DEF AcquireLease, Goto
<1>15. ASSUME NEW p \in Fetchers, leaseVerified(p) PROVE CallsHaveKeys'
  BY <1>15 DEF leaseVerified, Goto, ReleaseLease, Finish
<1>16. ASSUME NEW p \in Fetchers, CloseLease(p) PROVE CallsHaveKeys'
  BY <1>16 DEF CloseLease, Goto, ReleaseLease
<1>17. ASSUME NEW p \in Fetchers, CloseAgain(p) PROVE CallsHaveKeys'
  BY <1>17 DEF CloseAgain, Finish, ReleaseLease
<1>18. ASSUME NEW p \in Maintainers, StartTrim(p) PROVE CallsHaveKeys'
  BY <1>18 DEF StartTrim, Start
<1>19. ASSUME NEW p \in Maintainers, clearEncrypted(p) PROVE CallsHaveKeys'
  BY <1>19 DEF clearEncrypted, Start
<1>20. ASSUME NEW p \in Maintainers, clearAll(p) PROVE CallsHaveKeys'
  BY <1>20 DEF clearAll, Start
<1>21. ASSUME NEW p \in Procs, TrimScan(p) PROVE CallsHaveKeys'
  BY <1>21 DEF TrimScan, Goto, planLruTrim
<1>22. ASSUME NEW p \in Procs, Delete(p) PROVE CallsHaveKeys'
  BY <1>22 DEF Delete
<1>23. ASSUME NEW p \in Procs, TrimEnd(p) PROVE CallsHaveKeys'
  BY <1>23 DEF TrimEnd, EndSweep, Goto, Unlock, Finish
<1>24. ASSUME NEW p \in Procs, ClearEncryptedEnd(p) PROVE CallsHaveKeys'
  BY <1>24 DEF ClearEncryptedEnd, EndSweep, Goto, Unlock, Finish
<1>25. ASSUME NEW p \in Procs, ClearVisit(p) PROVE CallsHaveKeys'
  BY <1>25 DEF ClearVisit
<1>26. ASSUME NEW p \in Procs, ClearVisitTmp(p) PROVE CallsHaveKeys'
  BY <1>26 DEF ClearVisitTmp
<1>27. ASSUME NEW p \in Procs, ClearAllEnd(p) PROVE CallsHaveKeys'
  BY <1>27 DEF ClearAllEnd, EndSweep, Goto, Unlock, Finish
<1>28. CASE Crash
  BY <1>28 DEF Crash
<1>29. CASE UNCHANGED vars
  BY <1>29 DEF vars
<1> QED
  BY <1>1, <1>2, <1>3, <1>4, <1>5, <1>6, <1>7, <1>8, <1>9, <1>10, <1>11, <1>12, <1>13,
     <1>14, <1>15, <1>16, <1>17, <1>18, <1>19, <1>20, <1>21, <1>22, <1>23, <1>24, <1>25,
     <1>26, <1>27, <1>28, <1>29 DEF Next, FetchStep, SweepStep

\* Every step leaves the sweeps to the holder of the global lock.
LEMMA GlobalLockStep ==
    ASSUME IInv, [Next]_vars
    PROVE  SweepsHoldGlobalLock'
<1> USE DEF IInv, TypeOK, SweepsHoldGlobalLock, FetchPcs, SweepPcs, PendingPcs, Procs,
        dir, locks, leases, proc, sweep, ghost
<1>1. ASSUME NEW p \in Fetchers, Lookup(p) PROVE SweepsHoldGlobalLock'
  BY <1>1, ProcsAssumption DEF Lookup, Start
<1>2. ASSUME NEW p \in Fetchers, Touch(p) PROVE SweepsHoldGlobalLock'
  BY <1>2, ProcsAssumption DEF Touch, Goto, StripeFree, Touched
<1>3. ASSUME NEW p \in Fetchers, LockAndRecheck(p) PROVE SweepsHoldGlobalLock'
  BY <1>3, ProcsAssumption DEF LockAndRecheck, Goto, Lock, StripeFree, Touched
<1>4. ASSUME NEW p \in Fetchers, CreateTmp(p) PROVE SweepsHoldGlobalLock'
  BY <1>4, ProcsAssumption DEF CreateTmp, Goto
<1>5. ASSUME NEW p \in Fetchers, WriterFails(p) PROVE SweepsHoldGlobalLock'
  BY <1>5, ProcsAssumption DEF WriterFails, Throw, Unlock, Finish
<1>6. ASSUME NEW p \in Fetchers, WriterReturns(p) PROVE SweepsHoldGlobalLock'
  BY <1>6, ProcsAssumption DEF WriterReturns, Goto, Throw, Unlock, Finish
<1>7. ASSUME NEW p \in Fetchers, Rename(p) PROVE SweepsHoldGlobalLock'
  BY <1>7, ProcsAssumption DEF Rename, Goto, CanCommit, Lock, Touched
<1>8. ASSUME NEW p \in Fetchers, DropDuplicate(p) PROVE SweepsHoldGlobalLock'
  BY <1>8, ProcsAssumption DEF DropDuplicate, Goto, CanCommit, Touched
<1>9. ASSUME NEW p \in Fetchers, RenameFails(p) PROVE SweepsHoldGlobalLock'
  BY <1>9, ProcsAssumption DEF RenameFails, CanCommit, Throw, Unlock, Finish
<1>10. ASSUME NEW p \in Fetchers, Measure(p) PROVE SweepsHoldGlobalLock'
  BY <1>10, ProcsAssumption DEF Measure, Goto
<1>11. ASSUME NEW p \in Fetchers, getOrInitSize(p) PROVE SweepsHoldGlobalLock'
  BY <1>11, ProcsAssumption DEF getOrInitSize, Goto
<1>12. ASSUME NEW p \in Fetchers, Account(p) PROVE SweepsHoldGlobalLock'
  BY <1>12, ProcsAssumption DEF Account, Goto, Unlock
<1>13. ASSUME NEW p \in Fetchers, DropResult(p) PROVE SweepsHoldGlobalLock'
  BY <1>13, ProcsAssumption DEF DropResult, Finish
<1>14. ASSUME NEW p \in Fetchers, AcquireLease(p) PROVE SweepsHoldGlobalLock'
  BY <1>14, ProcsAssumption DEF AcquireLease, Goto
<1>15. ASSUME NEW p \in Fetchers, leaseVerified(p) PROVE SweepsHoldGlobalLock'
  BY <1>15, ProcsAssumption DEF leaseVerified, Goto, ReleaseLease, Finish
<1>16. ASSUME NEW p \in Fetchers, CloseLease(p) PROVE SweepsHoldGlobalLock'
  BY <1>16, ProcsAssumption DEF CloseLease, Goto, ReleaseLease
<1>17. ASSUME NEW p \in Fetchers, CloseAgain(p) PROVE SweepsHoldGlobalLock'
  BY <1>17, ProcsAssumption DEF CloseAgain, Finish, ReleaseLease
<1>18. ASSUME NEW p \in Maintainers, StartTrim(p) PROVE SweepsHoldGlobalLock'
  BY <1>18, ProcsAssumption DEF StartTrim, Start
<1>19. ASSUME NEW p \in Maintainers, clearEncrypted(p) PROVE SweepsHoldGlobalLock'
  BY <1>19, ProcsAssumption DEF clearEncrypted, Start
<1>20. ASSUME NEW p \in Maintainers, clearAll(p) PROVE SweepsHoldGlobalLock'
  BY <1>20, ProcsAssumption DEF clearAll, Start
<1>21. ASSUME NEW p \in Procs, TrimScan(p) PROVE SweepsHoldGlobalLock'
  BY <1>21, ProcsAssumption DEF TrimScan, Goto, planLruTrim
<1>22. ASSUME NEW p \in Procs, Delete(p) PROVE SweepsHoldGlobalLock'
  BY <1>22, ProcsAssumption DEF Delete
<1>23. ASSUME NEW p \in Procs, TrimEnd(p) PROVE SweepsHoldGlobalLock'
  BY <1>23, ProcsAssumption DEF TrimEnd, EndSweep, Goto, Unlock, Finish
<1>24. ASSUME NEW p \in Procs, ClearEncryptedEnd(p) PROVE SweepsHoldGlobalLock'
  BY <1>24, ProcsAssumption DEF ClearEncryptedEnd, EndSweep, Goto, Unlock, Finish
<1>25. ASSUME NEW p \in Procs, ClearVisit(p) PROVE SweepsHoldGlobalLock'
  BY <1>25, ProcsAssumption DEF ClearVisit
<1>26. ASSUME NEW p \in Procs, ClearVisitTmp(p) PROVE SweepsHoldGlobalLock'
  BY <1>26, ProcsAssumption DEF ClearVisitTmp
<1>27. ASSUME NEW p \in Procs, ClearAllEnd(p) PROVE SweepsHoldGlobalLock'
  BY <1>27, ProcsAssumption DEF ClearAllEnd, EndSweep, Goto, Unlock, Finish
<1>28. CASE Crash
  BY <1>28 DEF Crash
<1>29. CASE UNCHANGED vars
  BY <1>29 DEF vars
<1> QED
  BY <1>1, <1>2, <1>3, <1>4, <1>5, <1>6, <1>7, <1>8, <1>9, <1>10, <1>11, <1>12, <1>13,
     <1>14, <1>15, <1>16, <1>17, <1>18, <1>19, <1>20, <1>21, <1>22, <1>23, <1>24, <1>25,
     <1>26, <1>27, <1>28, <1>29 DEF Next, FetchStep, SweepStep

\* A writer holds its stripe lock from rename to accounting: nobody else
\* releases or takes it.
LEMMA StripeStep ==
    ASSUME IInv, [Next]_vars
    PROVE  PendingHoldStripe'
<1> USE DEF IInv, TypeOK, CallsHaveKeys, PendingHoldStripe, FetchPcs, SweepPcs,
        PendingPcs, PutOps, Procs, dir, locks, leases, proc, sweep, ghost
<1>1. ASSUME NEW p \in Fetchers, Lookup(p) PROVE PendingHoldStripe'
  BY <1>1, ProcsAssumption, KeysAssumption DEF Lookup, Start
<1>2. ASSUME NEW p \in Fetchers, Touch(p) PROVE PendingHoldStripe'
  BY <1>2, ProcsAssumption, KeysAssumption DEF Touch, Goto, StripeFree, Touched
<1>3. ASSUME NEW p \in Fetchers, LockAndRecheck(p) PROVE PendingHoldStripe'
  BY <1>3, ProcsAssumption, KeysAssumption DEF LockAndRecheck, Goto, Lock, StripeFree,
     Touched
<1>4. ASSUME NEW p \in Fetchers, CreateTmp(p) PROVE PendingHoldStripe'
  BY <1>4, ProcsAssumption, KeysAssumption DEF CreateTmp, Goto
<1>5. ASSUME NEW p \in Fetchers, WriterFails(p) PROVE PendingHoldStripe'
  BY <1>5, ProcsAssumption, KeysAssumption DEF WriterFails, Throw, Unlock, Finish
<1>6. ASSUME NEW p \in Fetchers, WriterReturns(p) PROVE PendingHoldStripe'
  BY <1>6, ProcsAssumption, KeysAssumption DEF WriterReturns, Goto, Throw, Unlock, Finish
<1>7. ASSUME NEW p \in Fetchers, Rename(p) PROVE PendingHoldStripe'
  BY <1>7, ProcsAssumption, KeysAssumption DEF Rename, Goto, CanCommit, Lock, Touched
<1>8. ASSUME NEW p \in Fetchers, DropDuplicate(p) PROVE PendingHoldStripe'
  BY <1>8, ProcsAssumption, KeysAssumption DEF DropDuplicate, Goto, CanCommit, Touched
<1>9. ASSUME NEW p \in Fetchers, RenameFails(p) PROVE PendingHoldStripe'
  BY <1>9, ProcsAssumption, KeysAssumption DEF RenameFails, CanCommit, Throw, Unlock,
     Finish
<1>10. ASSUME NEW p \in Fetchers, Measure(p) PROVE PendingHoldStripe'
  BY <1>10, ProcsAssumption, KeysAssumption DEF Measure, Goto
<1>11. ASSUME NEW p \in Fetchers, getOrInitSize(p) PROVE PendingHoldStripe'
  BY <1>11, ProcsAssumption, KeysAssumption DEF getOrInitSize, Goto
<1>12. ASSUME NEW p \in Fetchers, Account(p) PROVE PendingHoldStripe'
  BY <1>12, ProcsAssumption, KeysAssumption DEF Account, Goto, Unlock
<1>13. ASSUME NEW p \in Fetchers, DropResult(p) PROVE PendingHoldStripe'
  BY <1>13, ProcsAssumption, KeysAssumption DEF DropResult, Finish
<1>14. ASSUME NEW p \in Fetchers, AcquireLease(p) PROVE PendingHoldStripe'
  BY <1>14, ProcsAssumption, KeysAssumption DEF AcquireLease, Goto
<1>15. ASSUME NEW p \in Fetchers, leaseVerified(p) PROVE PendingHoldStripe'
  BY <1>15, ProcsAssumption, KeysAssumption DEF leaseVerified, Goto, ReleaseLease, Finish
<1>16. ASSUME NEW p \in Fetchers, CloseLease(p) PROVE PendingHoldStripe'
  BY <1>16, ProcsAssumption, KeysAssumption DEF CloseLease, Goto, ReleaseLease
<1>17. ASSUME NEW p \in Fetchers, CloseAgain(p) PROVE PendingHoldStripe'
  BY <1>17, ProcsAssumption, KeysAssumption DEF CloseAgain, Finish, ReleaseLease
<1>18. ASSUME NEW p \in Maintainers, StartTrim(p) PROVE PendingHoldStripe'
  BY <1>18, ProcsAssumption, KeysAssumption DEF StartTrim, Start
<1>19. ASSUME NEW p \in Maintainers, clearEncrypted(p) PROVE PendingHoldStripe'
  BY <1>19, ProcsAssumption, KeysAssumption DEF clearEncrypted, Start
<1>20. ASSUME NEW p \in Maintainers, clearAll(p) PROVE PendingHoldStripe'
  BY <1>20, ProcsAssumption, KeysAssumption DEF clearAll, Start
<1>21. ASSUME NEW p \in Procs, TrimScan(p) PROVE PendingHoldStripe'
  BY <1>21, ProcsAssumption, KeysAssumption DEF TrimScan, Goto, planLruTrim
<1>22. ASSUME NEW p \in Procs, Delete(p) PROVE PendingHoldStripe'
  BY <1>22, ProcsAssumption, KeysAssumption DEF Delete
<1>23. ASSUME NEW p \in Procs, TrimEnd(p) PROVE PendingHoldStripe'
  BY <1>23, ProcsAssumption, KeysAssumption DEF TrimEnd, EndSweep, Goto, Unlock, Finish
<1>24. ASSUME NEW p \in Procs, ClearEncryptedEnd(p) PROVE PendingHoldStripe'
  BY <1>24, ProcsAssumption, KeysAssumption DEF ClearEncryptedEnd, EndSweep, Goto,
     Unlock, Finish
<1>25. ASSUME NEW p \in Procs, ClearVisit(p) PROVE PendingHoldStripe'
  BY <1>25, ProcsAssumption, KeysAssumption DEF ClearVisit
<1>26. ASSUME NEW p \in Procs, ClearVisitTmp(p) PROVE PendingHoldStripe'
  BY <1>26, ProcsAssumption, KeysAssumption DEF ClearVisitTmp
<1>27. ASSUME NEW p \in Procs, ClearAllEnd(p) PROVE PendingHoldStripe'
  BY <1>27, ProcsAssumption, KeysAssumption DEF ClearAllEnd, EndSweep, Goto, Unlock,
     Finish
<1>28. CASE Crash
  BY <1>28 DEF Crash
<1>29. CASE UNCHANGED vars
  BY <1>29 DEF vars
<1> QED
  BY <1>1, <1>2, <1>3, <1>4, <1>5, <1>6, <1>7, <1>8, <1>9, <1>10, <1>11, <1>12, <1>13,
     <1>14, <1>15, <1>16, <1>17, <1>18, <1>19, <1>20, <1>21, <1>22, <1>23, <1>24, <1>25,
     <1>26, <1>27, <1>28, <1>29 DEF Next, FetchStep, SweepStep

\* Once initialised, the counter stays so until the process dies.
LEMMA CounterStep ==
    ASSUME IInv, [Next]_vars
    PROVE  CounterReady'
<1> USE DEF IInv, TypeOK, CounterReady, PendingPcs, FetchPcs, SweepPcs, Procs, dir, locks,
        leases, proc, sweep, ghost
<1>1. ASSUME NEW p \in Fetchers, Lookup(p) PROVE CounterReady'
  BY <1>1, BytesAssumption DEF Lookup, Start
<1>2. ASSUME NEW p \in Fetchers, Touch(p) PROVE CounterReady'
  BY <1>2, BytesAssumption DEF Touch, Goto, StripeFree, Touched
<1>3. ASSUME NEW p \in Fetchers, LockAndRecheck(p) PROVE CounterReady'
  BY <1>3, BytesAssumption DEF LockAndRecheck, Goto, Lock, StripeFree, Touched
<1>4. ASSUME NEW p \in Fetchers, CreateTmp(p) PROVE CounterReady'
  BY <1>4, BytesAssumption DEF CreateTmp, Goto
<1>5. ASSUME NEW p \in Fetchers, WriterFails(p) PROVE CounterReady'
  BY <1>5, BytesAssumption DEF WriterFails, Throw, Unlock, Finish
<1>6. ASSUME NEW p \in Fetchers, WriterReturns(p) PROVE CounterReady'
  BY <1>6, BytesAssumption DEF WriterReturns, Goto, Throw, Unlock, Finish
<1>7. ASSUME NEW p \in Fetchers, Rename(p) PROVE CounterReady'
  BY <1>7, BytesAssumption DEF Rename, Goto, CanCommit, Lock, Touched
<1>8. ASSUME NEW p \in Fetchers, DropDuplicate(p) PROVE CounterReady'
  BY <1>8, BytesAssumption DEF DropDuplicate, Goto, CanCommit, Touched
<1>9. ASSUME NEW p \in Fetchers, RenameFails(p) PROVE CounterReady'
  BY <1>9, BytesAssumption DEF RenameFails, CanCommit, Throw, Unlock, Finish
<1>10. ASSUME NEW p \in Fetchers, Measure(p) PROVE CounterReady'
  BY <1>10, BytesAssumption DEF Measure, Goto
<1>11. ASSUME NEW p \in Fetchers, getOrInitSize(p) PROVE CounterReady'
  BY <1>11, BytesAssumption DEF getOrInitSize, Goto
<1>12. ASSUME NEW p \in Fetchers, Account(p) PROVE CounterReady'
  BY <1>12, BytesAssumption DEF Account, Goto, Unlock
<1>13. ASSUME NEW p \in Fetchers, DropResult(p) PROVE CounterReady'
  BY <1>13, BytesAssumption DEF DropResult, Finish
<1>14. ASSUME NEW p \in Fetchers, AcquireLease(p) PROVE CounterReady'
  BY <1>14, BytesAssumption DEF AcquireLease, Goto
<1>15. ASSUME NEW p \in Fetchers, leaseVerified(p) PROVE CounterReady'
  BY <1>15, BytesAssumption DEF leaseVerified, Goto, ReleaseLease, Finish
<1>16. ASSUME NEW p \in Fetchers, CloseLease(p) PROVE CounterReady'
  BY <1>16, BytesAssumption DEF CloseLease, Goto, ReleaseLease
<1>17. ASSUME NEW p \in Fetchers, CloseAgain(p) PROVE CounterReady'
  BY <1>17, BytesAssumption DEF CloseAgain, Finish, ReleaseLease
<1>18. ASSUME NEW p \in Maintainers, StartTrim(p) PROVE CounterReady'
  BY <1>18, BytesAssumption DEF StartTrim, Start
<1>19. ASSUME NEW p \in Maintainers, clearEncrypted(p) PROVE CounterReady'
  BY <1>19, BytesAssumption DEF clearEncrypted, Start
<1>20. ASSUME NEW p \in Maintainers, clearAll(p) PROVE CounterReady'
  BY <1>20, BytesAssumption DEF clearAll, Start
<1>21. ASSUME NEW p \in Procs, TrimScan(p) PROVE CounterReady'
  BY <1>21, BytesAssumption DEF TrimScan, Goto, planLruTrim
<1>22. ASSUME NEW p \in Procs, Delete(p) PROVE CounterReady'
  BY <1>22, BytesAssumption DEF Delete
<1>23. ASSUME NEW p \in Procs, TrimEnd(p) PROVE CounterReady'
  BY <1>23, TrimLeavesCount DEF TrimEnd, EndSweep, Goto, Unlock, Finish
<1>24. ASSUME NEW p \in Procs, ClearEncryptedEnd(p) PROVE CounterReady'
  BY <1>24, BytesAssumption DEF ClearEncryptedEnd, EndSweep, Goto, Unlock, Finish
<1>25. ASSUME NEW p \in Procs, ClearVisit(p) PROVE CounterReady'
  BY <1>25, BytesAssumption DEF ClearVisit
<1>26. ASSUME NEW p \in Procs, ClearVisitTmp(p) PROVE CounterReady'
  BY <1>26, BytesAssumption DEF ClearVisitTmp
<1>27. ASSUME NEW p \in Procs, ClearAllEnd(p) PROVE CounterReady'
  BY <1>27, BytesAssumption DEF ClearAllEnd, EndSweep, Goto, Unlock, Finish
<1>28. CASE Crash
  BY <1>28 DEF Crash
<1>29. CASE UNCHANGED vars
  BY <1>29 DEF vars
<1> QED
  BY <1>1, <1>2, <1>3, <1>4, <1>5, <1>6, <1>7, <1>8, <1>9, <1>10, <1>11, <1>12, <1>13,
     <1>14, <1>15, <1>16, <1>17, <1>18, <1>19, <1>20, <1>21, <1>22, <1>23, <1>24, <1>25,
     <1>26, <1>27, <1>28, <1>29 DEF Next, FetchStep, SweepStep

\* Every sweep resets what it has freed before the next one begins.
LEMMA FreedStep ==
    ASSUME IInv, [Next]_vars
    PROVE  FreedStartsAtZero'
<1> USE DEF IInv, TypeOK, FreedStartsAtZero, SweepsHoldGlobalLock, FetchPcs, SweepPcs,
        PendingPcs, Procs, dir, locks, leases, proc, sweep, ghost
<1>1. ASSUME NEW p \in Fetchers, Lookup(p) PROVE FreedStartsAtZero'
  BY <1>1, ProcsAssumption DEF Lookup, Start
<1>2. ASSUME NEW p \in Fetchers, Touch(p) PROVE FreedStartsAtZero'
  BY <1>2, ProcsAssumption DEF Touch, Goto, StripeFree, Touched
<1>3. ASSUME NEW p \in Fetchers, LockAndRecheck(p) PROVE FreedStartsAtZero'
  BY <1>3, ProcsAssumption DEF LockAndRecheck, Goto, Lock, StripeFree, Touched
<1>4. ASSUME NEW p \in Fetchers, CreateTmp(p) PROVE FreedStartsAtZero'
  BY <1>4, ProcsAssumption DEF CreateTmp, Goto
<1>5. ASSUME NEW p \in Fetchers, WriterFails(p) PROVE FreedStartsAtZero'
  BY <1>5, ProcsAssumption DEF WriterFails, Throw, Unlock, Finish
<1>6. ASSUME NEW p \in Fetchers, WriterReturns(p) PROVE FreedStartsAtZero'
  BY <1>6, ProcsAssumption DEF WriterReturns, Goto, Throw, Unlock, Finish
<1>7. ASSUME NEW p \in Fetchers, Rename(p) PROVE FreedStartsAtZero'
  BY <1>7, ProcsAssumption DEF Rename, Goto, CanCommit, Lock, Touched
<1>8. ASSUME NEW p \in Fetchers, DropDuplicate(p) PROVE FreedStartsAtZero'
  BY <1>8, ProcsAssumption DEF DropDuplicate, Goto, CanCommit, Touched
<1>9. ASSUME NEW p \in Fetchers, RenameFails(p) PROVE FreedStartsAtZero'
  BY <1>9, ProcsAssumption DEF RenameFails, CanCommit, Throw, Unlock, Finish
<1>10. ASSUME NEW p \in Fetchers, Measure(p) PROVE FreedStartsAtZero'
  BY <1>10, ProcsAssumption DEF Measure, Goto
<1>11. ASSUME NEW p \in Fetchers, getOrInitSize(p) PROVE FreedStartsAtZero'
  BY <1>11, ProcsAssumption DEF getOrInitSize, Goto
<1>12. ASSUME NEW p \in Fetchers, Account(p) PROVE FreedStartsAtZero'
  BY <1>12, ProcsAssumption DEF Account, Goto, Unlock
<1>13. ASSUME NEW p \in Fetchers, DropResult(p) PROVE FreedStartsAtZero'
  BY <1>13, ProcsAssumption DEF DropResult, Finish
<1>14. ASSUME NEW p \in Fetchers, AcquireLease(p) PROVE FreedStartsAtZero'
  BY <1>14, ProcsAssumption DEF AcquireLease, Goto
<1>15. ASSUME NEW p \in Fetchers, leaseVerified(p) PROVE FreedStartsAtZero'
  BY <1>15, ProcsAssumption DEF leaseVerified, Goto, ReleaseLease, Finish
<1>16. ASSUME NEW p \in Fetchers, CloseLease(p) PROVE FreedStartsAtZero'
  BY <1>16, ProcsAssumption DEF CloseLease, Goto, ReleaseLease
<1>17. ASSUME NEW p \in Fetchers, CloseAgain(p) PROVE FreedStartsAtZero'
  BY <1>17, ProcsAssumption DEF CloseAgain, Finish, ReleaseLease
<1>18. ASSUME NEW p \in Maintainers, StartTrim(p) PROVE FreedStartsAtZero'
  BY <1>18, ProcsAssumption DEF StartTrim, Start
<1>19. ASSUME NEW p \in Maintainers, clearEncrypted(p) PROVE FreedStartsAtZero'
  BY <1>19, ProcsAssumption DEF clearEncrypted, Start
<1>20. ASSUME NEW p \in Maintainers, clearAll(p) PROVE FreedStartsAtZero'
  BY <1>20, ProcsAssumption DEF clearAll, Start
<1>21. ASSUME NEW p \in Procs, TrimScan(p) PROVE FreedStartsAtZero'
  BY <1>21, ProcsAssumption DEF TrimScan, Goto, planLruTrim
<1>22. ASSUME NEW p \in Procs, Delete(p) PROVE FreedStartsAtZero'
  BY <1>22, ProcsAssumption DEF Delete
<1>23. ASSUME NEW p \in Procs, TrimEnd(p) PROVE FreedStartsAtZero'
  BY <1>23, ProcsAssumption DEF TrimEnd, EndSweep, Goto, Unlock, Finish
<1>24. ASSUME NEW p \in Procs, ClearEncryptedEnd(p) PROVE FreedStartsAtZero'
  BY <1>24, ProcsAssumption DEF ClearEncryptedEnd, EndSweep, Goto, Unlock, Finish
<1>25. ASSUME NEW p \in Procs, ClearVisit(p) PROVE FreedStartsAtZero'
  BY <1>25, ProcsAssumption DEF ClearVisit
<1>26. ASSUME NEW p \in Procs, ClearVisitTmp(p) PROVE FreedStartsAtZero'
  BY <1>26, ProcsAssumption DEF ClearVisitTmp
<1>27. ASSUME NEW p \in Procs, ClearAllEnd(p) PROVE FreedStartsAtZero'
  BY <1>27, ProcsAssumption DEF ClearAllEnd, EndSweep, Goto, Unlock, Finish
<1>28. CASE Crash
  BY <1>28 DEF Crash
<1>29. CASE UNCHANGED vars
  BY <1>29 DEF vars
<1> QED
  BY <1>1, <1>2, <1>3, <1>4, <1>5, <1>6, <1>7, <1>8, <1>9, <1>10, <1>11, <1>12, <1>13,
     <1>14, <1>15, <1>16, <1>17, <1>18, <1>19, <1>20, <1>21, <1>22, <1>23, <1>24, <1>25,
     <1>26, <1>27, <1>28, <1>29 DEF Next, FetchStep, SweepStep

\* What a writer measured covers its file until it has added it: nobody else
\* can put a longer file there meanwhile.
LEMMA AddedStep ==
    ASSUME IInv, [Next]_vars
    PROVE  AddedCoversFile'
<1> USE DEF IInv, TypeOK, CallsHaveKeys, PendingHoldStripe, AddedCoversFile, FetchPcs,
        SweepPcs, PendingPcs, Procs, dir, locks, leases, proc, sweep, ghost
<1>1. ASSUME NEW p \in Fetchers, Lookup(p) PROVE AddedCoversFile'
  BY <1>1 DEF Lookup, Start
<1>2. ASSUME NEW p \in Fetchers, Touch(p) PROVE AddedCoversFile'
  BY <1>2 DEF Touch, Goto, StripeFree, Touched
<1>3. ASSUME NEW p \in Fetchers, LockAndRecheck(p) PROVE AddedCoversFile'
  BY <1>3 DEF LockAndRecheck, Goto, Lock, StripeFree, Touched
<1>4. ASSUME NEW p \in Fetchers, CreateTmp(p) PROVE AddedCoversFile'
  BY <1>4 DEF CreateTmp, Goto
<1>5. ASSUME NEW p \in Fetchers, WriterFails(p) PROVE AddedCoversFile'
  BY <1>5 DEF WriterFails, Throw, Unlock, Finish
<1>6. ASSUME NEW p \in Fetchers, WriterReturns(p) PROVE AddedCoversFile'
  BY <1>6 DEF WriterReturns, Goto, Throw, Unlock, Finish
<1>7. ASSUME NEW p \in Fetchers, Rename(p) PROVE AddedCoversFile'
  <2> SUFFICES ASSUME NEW q \in Fetchers, pc'[q] \in {"init", "account"}
               PROVE  Bytes[{key'[q]} \cap files'] <= added'[q]
    BY DEF AddedCoversFile
  <2>1. /\ q # p /\ pc[q] \in {"init", "account"} /\ key'[q] = key[q] /\ added'[q] = added[q]
        /\ files' = files \cup {key[p]}
    BY <1>7 DEF Rename, Goto, CanCommit
  <2>2. key[q] # key[p]
    BY <1>7, <2>1, ProcsAssumption, KeysAssumption DEF Rename, CanCommit
  <2>3. {key[q]} \cap files' = {key[q]} \cap files
    BY <2>1, <2>2
  <2> QED
    BY <2>1, <2>3
<1>8. ASSUME NEW p \in Fetchers, DropDuplicate(p) PROVE AddedCoversFile'
  BY <1>8 DEF DropDuplicate, Goto, CanCommit, Touched
<1>9. ASSUME NEW p \in Fetchers, RenameFails(p) PROVE AddedCoversFile'
  BY <1>9 DEF RenameFails, CanCommit, Throw, Unlock, Finish
<1>10. ASSUME NEW p \in Fetchers, Measure(p) PROVE AddedCoversFile'
  <2> SUFFICES ASSUME NEW q \in Fetchers, pc'[q] \in {"init", "account"}
               PROVE  Bytes[{key'[q]} \cap files'] <= added'[q]
    BY DEF AddedCoversFile
  <2>1. /\ pc[p] = "measure" /\ key' = key /\ files' = files
        /\ added' = [added EXCEPT ![p] = Bytes[{key[p]} \cap files]]
        /\ pc' = [pc EXCEPT ![p] = "init"]
    BY <1>10 DEF Measure, Goto
  <2>2. {key[q]} \cap files \in SUBSET Keys
    OBVIOUS
  <2>3. Bytes[{key[q]} \cap files] \in Nat
    BY <2>2, BytesAssumption
  <2>4. CASE q = p
    BY <2>1, <2>3, <2>4
  <2>5. CASE q # p
    BY <2>1, <2>5
  <2> QED
    BY <2>4, <2>5
<1>11. ASSUME NEW p \in Fetchers, getOrInitSize(p) PROVE AddedCoversFile'
  BY <1>11 DEF getOrInitSize, Goto
<1>12. ASSUME NEW p \in Fetchers, Account(p) PROVE AddedCoversFile'
  BY <1>12 DEF Account, Goto, Unlock
<1>13. ASSUME NEW p \in Fetchers, DropResult(p) PROVE AddedCoversFile'
  BY <1>13 DEF DropResult, Finish
<1>14. ASSUME NEW p \in Fetchers, AcquireLease(p) PROVE AddedCoversFile'
  BY <1>14 DEF AcquireLease, Goto
<1>15. ASSUME NEW p \in Fetchers, leaseVerified(p) PROVE AddedCoversFile'
  BY <1>15 DEF leaseVerified, Goto, ReleaseLease, Finish
<1>16. ASSUME NEW p \in Fetchers, CloseLease(p) PROVE AddedCoversFile'
  BY <1>16 DEF CloseLease, Goto, ReleaseLease
<1>17. ASSUME NEW p \in Fetchers, CloseAgain(p) PROVE AddedCoversFile'
  BY <1>17 DEF CloseAgain, Finish, ReleaseLease
<1>18. ASSUME NEW p \in Maintainers, StartTrim(p) PROVE AddedCoversFile'
  BY <1>18 DEF StartTrim, Start
<1>19. ASSUME NEW p \in Maintainers, clearEncrypted(p) PROVE AddedCoversFile'
  BY <1>19 DEF clearEncrypted, Start
<1>20. ASSUME NEW p \in Maintainers, clearAll(p) PROVE AddedCoversFile'
  BY <1>20 DEF clearAll, Start
<1>21. ASSUME NEW p \in Procs, TrimScan(p) PROVE AddedCoversFile'
  BY <1>21 DEF TrimScan, Goto, planLruTrim
<1>22. ASSUME NEW p \in Procs, Delete(p) PROVE AddedCoversFile'
  <2>1. PICK k \in victims : files' = files \ {k}
    BY <1>22 DEF Delete
  <2> SUFFICES ASSUME NEW q \in Fetchers, pc'[q] \in {"init", "account"}
               PROVE  Bytes[{key'[q]} \cap files'] <= added'[q]
    BY DEF AddedCoversFile
  <2>2. pc[q] \in {"init", "account"} /\ key[q] \in Keys /\ key'[q] = key[q] /\ added'[q] = added[q]
    BY <1>22 DEF Delete
  <2>3. Bytes[{key[q]} \cap files] <= added[q] /\ added[q] \in Nat
    BY <2>2
  <2>4. /\ {key[q]} \cap files' \in SUBSET Keys /\ {key[q]} \cap files \in SUBSET Keys
        /\ {key[q]} \cap files' \subseteq {key[q]} \cap files
    BY <2>1, <2>2
  <2> QED
    BY <2>2, <2>3, <2>4, BytesMonotone
<1>23. ASSUME NEW p \in Procs, TrimEnd(p) PROVE AddedCoversFile'
  BY <1>23 DEF TrimEnd, EndSweep, Goto, Unlock, Finish
<1>24. ASSUME NEW p \in Procs, ClearEncryptedEnd(p) PROVE AddedCoversFile'
  BY <1>24 DEF ClearEncryptedEnd, EndSweep, Goto, Unlock, Finish
<1>25. ASSUME NEW p \in Procs, ClearVisit(p) PROVE AddedCoversFile'
  BY <1>25 DEF ClearVisit
<1>26. ASSUME NEW p \in Procs, ClearVisitTmp(p) PROVE AddedCoversFile'
  BY <1>26 DEF ClearVisitTmp
<1>27. ASSUME NEW p \in Procs, ClearAllEnd(p) PROVE AddedCoversFile'
  BY <1>27 DEF ClearAllEnd, EndSweep, Goto, Unlock, Finish
<1>28. CASE Crash
  BY <1>28 DEF Crash
<1>29. CASE UNCHANGED vars
  BY <1>29 DEF vars
<1> QED
  BY <1>1, <1>2, <1>3, <1>4, <1>5, <1>6, <1>7, <1>8, <1>9, <1>10, <1>11, <1>12, <1>13,
     <1>14, <1>15, <1>16, <1>17, <1>18, <1>19, <1>20, <1>21, <1>22, <1>23, <1>24, <1>25,
     <1>26, <1>27, <1>28, <1>29 DEF Next, FetchStep, SweepStep

\* Apart from accounting, and the death of the process, no step makes a file
\* count as accounted: a renamed file is pending first.
LEMMA AccountedFrame ==
    ASSUME IInv, [Next]_vars, ~Crash, ~ \E p \in Fetchers : Account(p)
    PROVE  /\ files' \ Unaccounted' \subseteq files \ Unaccounted
           /\ files' \subseteq files \cup Unaccounted'
           /\ Unaccounted \subseteq Unaccounted'
<1> DEFINE Goal == /\ files' \ Unaccounted' \subseteq files \ Unaccounted
                   /\ files' \subseteq files \cup Unaccounted'
                   /\ Unaccounted \subseteq Unaccounted'
<1> USE DEF IInv, TypeOK, Unaccounted, Pending, FetchPcs, SweepPcs, PendingPcs, Procs,
        dir, locks, leases, proc, sweep, ghost
<1>1. ASSUME NEW p \in Fetchers, Lookup(p) PROVE Goal
  BY <1>1 DEF Lookup, Start
<1>2. ASSUME NEW p \in Fetchers, Touch(p) PROVE Goal
  BY <1>2 DEF Touch, Goto, StripeFree, Touched
<1>3. ASSUME NEW p \in Fetchers, LockAndRecheck(p) PROVE Goal
  BY <1>3 DEF LockAndRecheck, Goto, Lock, StripeFree, Touched
<1>4. ASSUME NEW p \in Fetchers, CreateTmp(p) PROVE Goal
  BY <1>4 DEF CreateTmp, Goto
<1>5. ASSUME NEW p \in Fetchers, WriterFails(p) PROVE Goal
  BY <1>5 DEF WriterFails, Throw, Unlock, Finish
<1>6. ASSUME NEW p \in Fetchers, WriterReturns(p) PROVE Goal
  BY <1>6 DEF WriterReturns, Goto, Throw, Unlock, Finish
<1>7. ASSUME NEW p \in Fetchers, Rename(p) PROVE Goal
  BY <1>7 DEF Rename, Goto, CanCommit, Lock, Touched
<1>8. ASSUME NEW p \in Fetchers, DropDuplicate(p) PROVE Goal
  BY <1>8 DEF DropDuplicate, Goto, CanCommit, Touched
<1>9. ASSUME NEW p \in Fetchers, RenameFails(p) PROVE Goal
  BY <1>9 DEF RenameFails, CanCommit, Throw, Unlock, Finish
<1>10. ASSUME NEW p \in Fetchers, Measure(p) PROVE Goal
  BY <1>10 DEF Measure, Goto
<1>11. ASSUME NEW p \in Fetchers, getOrInitSize(p) PROVE Goal
  BY <1>11 DEF getOrInitSize, Goto
<1>12. ASSUME NEW p \in Fetchers, DropResult(p) PROVE Goal
  BY <1>12 DEF DropResult, Finish
<1>13. ASSUME NEW p \in Fetchers, AcquireLease(p) PROVE Goal
  BY <1>13 DEF AcquireLease, Goto
<1>14. ASSUME NEW p \in Fetchers, leaseVerified(p) PROVE Goal
  BY <1>14 DEF leaseVerified, Goto, ReleaseLease, Finish
<1>15. ASSUME NEW p \in Fetchers, CloseLease(p) PROVE Goal
  BY <1>15 DEF CloseLease, Goto, ReleaseLease
<1>16. ASSUME NEW p \in Fetchers, CloseAgain(p) PROVE Goal
  BY <1>16 DEF CloseAgain, Finish, ReleaseLease
<1>17. ASSUME NEW p \in Maintainers, StartTrim(p) PROVE Goal
  BY <1>17 DEF StartTrim, Start
<1>18. ASSUME NEW p \in Maintainers, clearEncrypted(p) PROVE Goal
  BY <1>18 DEF clearEncrypted, Start
<1>19. ASSUME NEW p \in Maintainers, clearAll(p) PROVE Goal
  BY <1>19 DEF clearAll, Start
<1>20. ASSUME NEW p \in Procs, TrimScan(p) PROVE Goal
  BY <1>20 DEF TrimScan, Goto, planLruTrim
<1>21. ASSUME NEW p \in Procs, Delete(p) PROVE Goal
  BY <1>21 DEF Delete
<1>22. ASSUME NEW p \in Procs, TrimEnd(p) PROVE Goal
  BY <1>22 DEF TrimEnd, EndSweep, Goto, Unlock, Finish
<1>23. ASSUME NEW p \in Procs, ClearEncryptedEnd(p) PROVE Goal
  BY <1>23 DEF ClearEncryptedEnd, EndSweep, Goto, Unlock, Finish
<1>24. ASSUME NEW p \in Procs, ClearVisit(p) PROVE Goal
  BY <1>24 DEF ClearVisit
<1>25. ASSUME NEW p \in Procs, ClearVisitTmp(p) PROVE Goal
  BY <1>25 DEF ClearVisitTmp
<1>26. ASSUME NEW p \in Procs, ClearAllEnd(p) PROVE Goal
  BY <1>26 DEF ClearAllEnd, EndSweep, Goto, Unlock, Finish
<1>27. CASE UNCHANGED vars
  BY <1>27 DEF vars
<1> QED
  BY <1>1, <1>2, <1>3, <1>4, <1>5, <1>6, <1>7, <1>8, <1>9, <1>10, <1>11, <1>12, <1>13,
     <1>14, <1>15, <1>16, <1>17, <1>18, <1>19, <1>20, <1>21, <1>22, <1>23, <1>24, <1>25,
     <1>26, <1>27 DEF Next, FetchStep, SweepStep

\* While p trims, nobody else touches the counter or the victims.
LEMMA TrimFrame ==
    ASSUME IInv, [Next]_vars, ~Crash, NEW p \in Procs,
           pc'[p] = "delete", op'[p] # "clearEncrypted", ~TrimScan(p)
    PROVE  /\ pc[p] = "delete" /\ op[p] # "clearEncrypted"
           /\ globalLock = p /\ currentSizeBytes' = currentSizeBytes
           /\ \/ Delete(p)
              \/ victims' = victims /\ freed' = freed /\ kept' = kept
<1> DEFINE Goal == /\ pc[p] = "delete" /\ op[p] # "clearEncrypted"
                   /\ globalLock = p /\ currentSizeBytes' = currentSizeBytes
                   /\ Delete(p) \/ (victims' = victims /\ freed' = freed /\ kept' = kept)
<1> USE DEF IInv, TypeOK, SweepsHoldGlobalLock, FetchPcs, SweepPcs, PendingPcs, PutOps,
        Procs, dir, locks, leases, proc, sweep, ghost
<1>1. ASSUME NEW q \in Fetchers, Lookup(q) PROVE Goal
  BY <1>1, ProcsAssumption DEF Lookup, Start
<1>2. ASSUME NEW q \in Fetchers, Touch(q) PROVE Goal
  BY <1>2, ProcsAssumption DEF Touch, Goto, StripeFree, Touched
<1>3. ASSUME NEW q \in Fetchers, LockAndRecheck(q) PROVE Goal
  BY <1>3, ProcsAssumption DEF LockAndRecheck, Goto, Lock, StripeFree, Touched
<1>4. ASSUME NEW q \in Fetchers, CreateTmp(q) PROVE Goal
  BY <1>4, ProcsAssumption DEF CreateTmp, Goto
<1>5. ASSUME NEW q \in Fetchers, WriterFails(q) PROVE Goal
  BY <1>5, ProcsAssumption DEF WriterFails, Throw, Unlock, Finish
<1>6. ASSUME NEW q \in Fetchers, WriterReturns(q) PROVE Goal
  BY <1>6, ProcsAssumption DEF WriterReturns, Goto, Throw, Unlock, Finish
<1>7. ASSUME NEW q \in Fetchers, Rename(q) PROVE Goal
  BY <1>7, ProcsAssumption DEF Rename, Goto, CanCommit, Lock, Touched
<1>8. ASSUME NEW q \in Fetchers, DropDuplicate(q) PROVE Goal
  BY <1>8, ProcsAssumption DEF DropDuplicate, Goto, CanCommit, Touched
<1>9. ASSUME NEW q \in Fetchers, RenameFails(q) PROVE Goal
  BY <1>9, ProcsAssumption DEF RenameFails, CanCommit, Throw, Unlock, Finish
<1>10. ASSUME NEW q \in Fetchers, Measure(q) PROVE Goal
  BY <1>10, ProcsAssumption DEF Measure, Goto
<1>11. ASSUME NEW q \in Fetchers, getOrInitSize(q) PROVE Goal
  BY <1>11, ProcsAssumption DEF getOrInitSize, Goto
<1>12. ASSUME NEW q \in Fetchers, Account(q) PROVE Goal
  BY <1>12, ProcsAssumption DEF Account, Goto, Unlock
<1>13. ASSUME NEW q \in Fetchers, DropResult(q) PROVE Goal
  BY <1>13, ProcsAssumption DEF DropResult, Finish
<1>14. ASSUME NEW q \in Fetchers, AcquireLease(q) PROVE Goal
  BY <1>14, ProcsAssumption DEF AcquireLease, Goto
<1>15. ASSUME NEW q \in Fetchers, leaseVerified(q) PROVE Goal
  BY <1>15, ProcsAssumption DEF leaseVerified, Goto, ReleaseLease, Finish
<1>16. ASSUME NEW q \in Fetchers, CloseLease(q) PROVE Goal
  BY <1>16, ProcsAssumption DEF CloseLease, Goto, ReleaseLease
<1>17. ASSUME NEW q \in Fetchers, CloseAgain(q) PROVE Goal
  BY <1>17, ProcsAssumption DEF CloseAgain, Finish, ReleaseLease
<1>18. ASSUME NEW q \in Maintainers, StartTrim(q) PROVE Goal
  BY <1>18, ProcsAssumption DEF StartTrim, Start
<1>19. ASSUME NEW q \in Maintainers, clearEncrypted(q) PROVE Goal
  BY <1>19, ProcsAssumption DEF clearEncrypted, Start
<1>20. ASSUME NEW q \in Maintainers, clearAll(q) PROVE Goal
  BY <1>20, ProcsAssumption DEF clearAll, Start
<1>21. ASSUME NEW q \in Procs, TrimScan(q) PROVE Goal
  BY <1>21, ProcsAssumption DEF TrimScan, Goto, planLruTrim
<1>22. ASSUME NEW q \in Procs, Delete(q) PROVE Goal
  <2>1. globalLock = q /\ pc' = pc /\ op' = op /\ currentSizeBytes' = currentSizeBytes
    BY <1>22 DEF Delete
  <2>2. globalLock = p /\ pc[p] = "delete" /\ op[p] # "clearEncrypted"
    BY <2>1
  <2> QED
    BY <1>22, <2>1, <2>2
<1>23. ASSUME NEW q \in Procs, TrimEnd(q) PROVE Goal
  BY <1>23, ProcsAssumption DEF TrimEnd, EndSweep, Goto, Unlock, Finish
<1>24. ASSUME NEW q \in Procs, ClearEncryptedEnd(q) PROVE Goal
  BY <1>24, ProcsAssumption DEF ClearEncryptedEnd, EndSweep, Goto, Unlock, Finish
<1>25. ASSUME NEW q \in Procs, ClearVisit(q) PROVE Goal
  BY <1>25, ProcsAssumption DEF ClearVisit
<1>26. ASSUME NEW q \in Procs, ClearVisitTmp(q) PROVE Goal
  BY <1>26, ProcsAssumption DEF ClearVisitTmp
<1>27. ASSUME NEW q \in Procs, ClearAllEnd(q) PROVE Goal
  BY <1>27, ProcsAssumption DEF ClearAllEnd, EndSweep, Goto, Unlock, Finish
<1>28. CASE UNCHANGED vars
  BY <1>28 DEF vars
<1> QED
  BY <1>1, <1>2, <1>3, <1>4, <1>5, <1>6, <1>7, <1>8, <1>9, <1>10, <1>11, <1>12, <1>13,
     <1>14, <1>15, <1>16, <1>17, <1>18, <1>19, <1>20, <1>21, <1>22, <1>23, <1>24, <1>25,
     <1>26, <1>27, <1>28 DEF Next, FetchStep, SweepStep

\* Through every step of a trim, what it has still to subtract is covered.
LEMMA TrimStep ==
    ASSUME IInv, [Next]_vars
    PROVE  TrimCoversFiles'
<1>1. CASE Crash
  BY <1>1 DEF Crash, TrimCoversFiles
<1> SUFFICES ASSUME ~Crash, NEW p \in Procs,
                    pc'[p] = "delete", op'[p] # "clearEncrypted"
             PROVE  Bytes[(files' \ Unaccounted') \cup victims'] <= currentSizeBytes' - freed'
  BY <1>1 DEF TrimCoversFiles
<1> DEFINE X == (files \ Unaccounted) \cup victims
           Y == (files' \ Unaccounted') \cup victims'
<1>2. X \in SUBSET Keys /\ Y \in SUBSET Keys
  BY TypeStep DEF IInv, TypeOK
<1>3. CASE TrimScan(p)
  \* The counter is set to the length of every file that is listed.
  <2>1. /\ currentSizeBytes' = Bytes[files] /\ freed' = 0
        /\ files \in SUBSET Keys /\ Y \subseteq files
    BY <1>3 DEF TrimScan, planLruTrim, dir, IInv, TypeOK, FreedStartsAtZero
  <2> QED
    BY <1>2, <2>1, BytesMonotone
<1>4. CASE ~TrimScan(p)
  <2>1. /\ pc[p] = "delete" /\ op[p] # "clearEncrypted" /\ globalLock = p
        /\ currentSizeBytes' = currentSizeBytes
        /\ Delete(p) \/ (victims' = victims /\ freed' = freed /\ kept' = kept)
    BY <1>4, TrimFrame
  <2>2. /\ Bytes[X] <= currentSizeBytes - freed
        /\ currentSizeBytes \in Int /\ freed \in Nat
    BY <2>1 DEF IInv, TypeOK, TrimCoversFiles
  <2>3. files' \ Unaccounted' \subseteq files \ Unaccounted
    BY <2>1, AccountedFrame, ProcsAssumption DEF Account, Procs
  <2>4. CASE Delete(p)
    <3>1. PICK k \in victims :
            /\ victims' = victims \ {k} /\ files' = files \ {k}
            /\ freed' = freed + Bytes[{k} \cap files]
      BY <2>4 DEF Delete
    <3>2. /\ k \in Keys /\ {k} \cap X = {k} /\ {k} \in SUBSET Keys
          /\ {k} \cap files \in SUBSET Keys /\ {k} \cap files \subseteq {k}
          /\ X \ {k} \in SUBSET Keys /\ Y \subseteq X \ {k}
      BY <1>2, <2>3, <3>1 DEF IInv, TypeOK
    <3>3. Bytes[{k} \cap files] <= Bytes[{k}] /\ Bytes[{k} \cap files] \in Nat
      BY <3>2, BytesMonotone
    <3>4. Bytes[X] = Bytes[X \ {k}] + Bytes[{k}] /\ Bytes[X \ {k}] \in Nat /\ Bytes[{k}] \in Nat
      BY <1>2, <3>2, BytesRemove
    <3>5. Bytes[Y] <= Bytes[X \ {k}] /\ Bytes[Y] \in Nat
      BY <1>2, <3>2, BytesMonotone
    <3> HIDE DEF X, Y
    <3>6. Bytes[Y] <= currentSizeBytes' - freed'
      BY <2>1, <2>2, <3>1, <3>3, <3>4, <3>5
    <3> QED
      BY <3>6 DEF Y
  <2>5. CASE victims' = victims /\ freed' = freed
    <3>1. Y \subseteq X
      BY <2>3, <2>5
    <3>2. Bytes[Y] <= Bytes[X] /\ Bytes[Y] \in Nat /\ Bytes[X] \in Nat
      BY <1>2, <3>1, BytesMonotone
    <3> QED
      BY <2>1, <2>2, <2>5, <3>2
  <2> QED
    BY <2>1, <2>4, <2>5
<1> QED
  BY <1>3, <1>4

\* The invariant holds initially.
LEMMA InitIInv == Init => IInv
<1> SUFFICES ASSUME Init PROVE IInv
  OBVIOUS
<1> USE DEF Init, Procs, FetchPcs, SweepPcs, PendingPcs
<1>1. TypeOK
  BY DEF TypeOK
<1>2. CallsHaveKeys
  BY DEF CallsHaveKeys, PutOps
<1>3. SweepsHoldGlobalLock /\ PendingHoldStripe
  BY DEF SweepsHoldGlobalLock, PendingHoldStripe
<1>4. AddedCoversFile /\ CounterReady
  BY DEF AddedCoversFile, CounterReady
<1>5. FreedStartsAtZero /\ TrimCoversFiles
  BY DEF FreedStartsAtZero, TrimCoversFiles
<1> QED
  BY <1>1, <1>2, <1>3, <1>4, <1>5 DEF IInv

\* The invariant of calls, locks and trims holds in every reachable state.
THEOREM Inductive == Spec => []IInv
<1>1. Init => IInv
  BY InitIInv
<1>2. IInv /\ [Next]_vars => IInv'
  BY TypeStep, CallsStep, GlobalLockStep, StripeStep, AddedStep, CounterStep,
     FreedStep, TrimStep DEF IInv
<1> QED
  BY <1>1, <1>2, PTL DEF Spec

\* Type correctness, for every instance of the cache.
THEOREM TypeCorrect == Spec => []TypeOK
<1>1. IInv => TypeOK
  BY DEF IInv
<1> QED
  BY <1>1, Inductive, PTL

-----------------------------------------------------------------------------
(* planLruTrim *)

\* A nonempty set of naturals has a least element.
LEMMA LeastNat ==
    ASSUME NEW T \in SUBSET Nat, T # {}
    PROVE  \E m \in T : \A n \in T : m <= n
<1> DEFINE R == OpToRel(<, Nat)
<1>1. \E m \in T : \A n \in T : <<n, m>> \notin R
  <2>1. IsWellFoundedOn(R, Nat)
    BY NatLessThanWellFounded
  <2> HIDE DEF R
  <2> QED
    BY <2>1, WFMin
<1>2. \A m, n \in Nat : <<n, m>> \in R <=> n < m
  BY DEF OpToRel
<1> HIDE DEF R
<1>3. PICK m \in T : \A n \in T : <<n, m>> \notin R
  BY <1>1
<1>4. \A n \in T : n \in Nat /\ m \in Nat /\ ~(n < m)
  BY <1>2, <1>3
<1> QED
  BY <1>4

\* The recency order: a strict partial order of the files in the directory.
RecencyOrder ==
    /\ older \subseteq files \X files
    /\ \A k \in files : <<k, k>> \notin older
    /\ \A i, j, k \in files :
          <<i, j>> \in older /\ <<j, k>> \in older => <<i, k>> \in older

\* A plan reaches the budget, or names every file that may be evicted.
LEMMA PlanReachesBudget ==
    ASSUME TypeOK, RecencyOrder, NEW E \in SUBSET files
    PROVE  LET plan == planLruTrim(files, E)
           IN  plan = E \/ Bytes[files] - Bytes[plan] <= MaxBytes
<1> DEFINE plan == planLruTrim(files, E)
           Old(k) == {j \in E : <<j, k>> \in older}
           Rest == E \ plan
           Sizes == {Bytes[Old(k)] : k \in Rest}
<1>1. files \in SUBSET Keys /\ E \in SUBSET Keys /\ plan \in SUBSET E
  BY DEF TypeOK, planLruTrim
<1>2. \A k \in E : Old(k) \in SUBSET Keys /\ Bytes[Old(k)] \in Nat
  BY <1>1, BytesAssumption
<1>3. \A k \in Rest : Bytes[files] - Bytes[Old(k)] <= MaxBytes
  <2> SUFFICES ASSUME NEW k \in Rest PROVE Bytes[files] - Bytes[Old(k)] <= MaxBytes
    OBVIOUS
  <2>1. Bytes[files] \in Nat /\ MaxBytes \in Nat /\ Bytes[Old(k)] \in Nat
    BY <1>1, <1>2, BytesAssumption
  <2>2. ~(Bytes[files] - Bytes[Old(k)] > MaxBytes)
    BY DEF planLruTrim
  <2> HIDE DEF Old
  <2> QED
    BY <2>1, <2>2
<1> SUFFICES ASSUME Rest # {} PROVE Bytes[files] - Bytes[plan] <= MaxBytes
  BY <1>1
<1>4. PICK k \in Rest : \A j \in Rest : Bytes[Old(k)] <= Bytes[Old(j)]
  <2>1. Sizes \in SUBSET Nat /\ Sizes # {}
    BY <1>2
  <2>2. PICK m \in Sizes : \A n \in Sizes : m <= n
    BY <2>1, LeastNat
  <2>3. PICK k \in Rest : m = Bytes[Old(k)]
    OBVIOUS
  <2>4. \A j \in Rest : Bytes[Old(j)] \in Sizes
    OBVIOUS
  <2> QED
    BY <2>2, <2>3, <2>4
\* Whatever is older than k is planned: otherwise it would have been smaller.
<1>5. Old(k) \subseteq plan
  <2> SUFFICES ASSUME NEW j \in Old(k), j \notin plan PROVE FALSE
    OBVIOUS
  <2>1. j \in Rest /\ j \in files /\ k \in files /\ <<j, k>> \in older /\ j \in Keys
    BY <1>1
  <2>2. Old(j) \subseteq Old(k) /\ j \notin Old(j) /\ j \in Old(k)
    BY <1>1, <2>1 DEF RecencyOrder
  <2>3. Old(j) \subseteq Old(k) \ {j} /\ {j} \cap Old(k) = {j}
        /\ Old(j) \in SUBSET Keys /\ Old(k) \in SUBSET Keys /\ Old(k) \ {j} \in SUBSET Keys
    BY <1>1, <2>2
  <2>4. /\ Bytes[Old(k)] = Bytes[Old(k) \ {j}] + Bytes[{j} \cap Old(k)]
        /\ Bytes[Old(k) \ {j}] \in Nat
    BY <2>1, <2>3, BytesRemove
  <2>5. Bytes[Old(j)] <= Bytes[Old(k) \ {j}] /\ Bytes[Old(j)] \in Nat
    BY <2>3, BytesMonotone
  <2>6. Bytes[{j}] \in Nat /\ Bytes[{j}] > 0
    BY <2>1, BytesAssumption
  <2>7. Bytes[Old(k)] <= Bytes[Old(j)]
    BY <1>4, <2>1
  <2> HIDE DEF Old
  <2> QED
    BY <2>3, <2>4, <2>5, <2>6, <2>7
<1>6. Bytes[Old(k)] <= Bytes[plan] /\ Bytes[plan] \in Nat /\ Bytes[Old(k)] \in Nat
  BY <1>1, <1>5, BytesMonotone
<1>7. Bytes[files] - Bytes[Old(k)] <= MaxBytes /\ Bytes[files] \in Nat /\ MaxBytes \in Nat
  BY <1>1, <1>3, BytesAssumption
<1> HIDE DEF plan, Old
<1>8. Bytes[files] - Bytes[plan] <= MaxBytes
  BY <1>6, <1>7
<1> QED
  BY <1>8 DEF plan

-----------------------------------------------------------------------------
(* The counter and the budget, for the operations the app calls *)

\* Between sweeps only accounting, and the first reading of the size, change
\* the counter.
LEMMA CounterFrame ==
    ASSUME IInv, [Next]_vars, ~Crash, globalLock' = NoProc,
           ~ \E p \in Fetchers : Account(p),
           ~ \E p \in Procs : TrimEnd(p) \/ ClearEncryptedEnd(p) \/ ClearAllEnd(p)
    PROVE  /\ globalLock = NoProc
           /\ kept' = kept
           /\ \/ currentSizeBytes' = currentSizeBytes
              \/ /\ currentSizeBytes' = Bytes[files] /\ files' = files
                 /\ \E p \in Fetchers : getOrInitSize(p)
<1> DEFINE Goal == /\ globalLock = NoProc
                   /\ kept' = kept
                   /\ \/ currentSizeBytes' = currentSizeBytes
                      \/ /\ currentSizeBytes' = Bytes[files] /\ files' = files
                         /\ \E p \in Fetchers : getOrInitSize(p)
<1> USE DEF IInv, TypeOK, SweepsHoldGlobalLock, SweepPcs, Procs, dir, locks, leases, proc,
        sweep, ghost
<1>1. ASSUME NEW p \in Fetchers, Lookup(p) PROVE Goal
  BY <1>1, ProcsAssumption DEF Lookup, Start
<1>2. ASSUME NEW p \in Fetchers, Touch(p) PROVE Goal
  BY <1>2, ProcsAssumption DEF Touch, Goto, StripeFree, Touched
<1>3. ASSUME NEW p \in Fetchers, LockAndRecheck(p) PROVE Goal
  BY <1>3, ProcsAssumption DEF LockAndRecheck, Goto, Lock, StripeFree, Touched
<1>4. ASSUME NEW p \in Fetchers, CreateTmp(p) PROVE Goal
  BY <1>4, ProcsAssumption DEF CreateTmp, Goto
<1>5. ASSUME NEW p \in Fetchers, WriterFails(p) PROVE Goal
  BY <1>5, ProcsAssumption DEF WriterFails, Throw, Unlock, Finish
<1>6. ASSUME NEW p \in Fetchers, WriterReturns(p) PROVE Goal
  BY <1>6, ProcsAssumption DEF WriterReturns, Goto, Throw, Unlock, Finish
<1>7. ASSUME NEW p \in Fetchers, Rename(p) PROVE Goal
  BY <1>7, ProcsAssumption DEF Rename, Goto, CanCommit, Lock, Touched
<1>8. ASSUME NEW p \in Fetchers, DropDuplicate(p) PROVE Goal
  BY <1>8, ProcsAssumption DEF DropDuplicate, Goto, CanCommit, Touched
<1>9. ASSUME NEW p \in Fetchers, RenameFails(p) PROVE Goal
  BY <1>9, ProcsAssumption DEF RenameFails, CanCommit, Throw, Unlock, Finish
<1>10. ASSUME NEW p \in Fetchers, Measure(p) PROVE Goal
  BY <1>10, ProcsAssumption DEF Measure, Goto
<1>11. ASSUME NEW p \in Fetchers, getOrInitSize(p) PROVE Goal
  BY <1>11, ProcsAssumption DEF getOrInitSize, Goto
<1>12. ASSUME NEW p \in Fetchers, DropResult(p) PROVE Goal
  BY <1>12, ProcsAssumption DEF DropResult, Finish
<1>13. ASSUME NEW p \in Fetchers, AcquireLease(p) PROVE Goal
  BY <1>13, ProcsAssumption DEF AcquireLease, Goto
<1>14. ASSUME NEW p \in Fetchers, leaseVerified(p) PROVE Goal
  BY <1>14, ProcsAssumption DEF leaseVerified, Goto, ReleaseLease, Finish
<1>15. ASSUME NEW p \in Fetchers, CloseLease(p) PROVE Goal
  BY <1>15, ProcsAssumption DEF CloseLease, Goto, ReleaseLease
<1>16. ASSUME NEW p \in Fetchers, CloseAgain(p) PROVE Goal
  BY <1>16, ProcsAssumption DEF CloseAgain, Finish, ReleaseLease
<1>17. ASSUME NEW p \in Maintainers, StartTrim(p) PROVE Goal
  BY <1>17, ProcsAssumption DEF StartTrim, Start
<1>18. ASSUME NEW p \in Maintainers, clearEncrypted(p) PROVE Goal
  BY <1>18, ProcsAssumption DEF clearEncrypted, Start
<1>19. ASSUME NEW p \in Maintainers, clearAll(p) PROVE Goal
  BY <1>19, ProcsAssumption DEF clearAll, Start
<1>20. ASSUME NEW p \in Procs, TrimScan(p) PROVE Goal
  BY <1>20, ProcsAssumption DEF TrimScan, Goto, planLruTrim
<1>21. ASSUME NEW p \in Procs, Delete(p) PROVE Goal
  BY <1>21, ProcsAssumption DEF Delete
<1>22. ASSUME NEW p \in Procs, ClearVisit(p) PROVE Goal
  BY <1>22, ProcsAssumption DEF ClearVisit
<1>23. ASSUME NEW p \in Procs, ClearVisitTmp(p) PROVE Goal
  BY <1>23, ProcsAssumption DEF ClearVisitTmp
<1>24. CASE UNCHANGED vars
  BY <1>24 DEF vars
<1> QED
  BY <1>1, <1>2, <1>3, <1>4, <1>5, <1>6, <1>7, <1>8, <1>9, <1>10, <1>11, <1>12, <1>13,
     <1>14, <1>15, <1>16, <1>17, <1>18, <1>19, <1>20, <1>21, <1>22, <1>23, <1>24 DEF
     Next, FetchStep, SweepStep

\* Without clearEncrypted no step makes the counter fall below the accounted
\* files: accounting adds before it is relied on, sweeps subtract what they freed.
LEMMA SizeStep ==
    ASSUME IInv, AppOps, SizeNeverUndercounts, [Next]_vars
    PROVE  SizeNeverUndercounts'
<1> DEFINE A == files \ Unaccounted
           B == files' \ Unaccounted'
<1>1. CASE Crash
  BY <1>1 DEF Crash, SizeNeverUndercounts
<1> SUFFICES ASSUME ~Crash, currentSizeBytes' >= 0, globalLock' = NoProc
             PROVE  Bytes[B] <= currentSizeBytes'
  BY <1>1 DEF SizeNeverUndercounts
<1>2. A \in SUBSET Keys /\ B \in SUBSET Keys /\ files \in SUBSET Keys /\ files' \in SUBSET Keys
  BY TypeStep DEF IInv, TypeOK
<1>3. Bytes[A] \in Nat /\ Bytes[B] \in Nat /\ Bytes[files] \in Nat /\ currentSizeBytes \in Int
  BY <1>2, BytesAssumption DEF IInv, TypeOK
<1>4. ASSUME NEW p \in Fetchers, Account(p) PROVE Bytes[B] <= currentSizeBytes'
  \* The writer adds at least the length of the file that is now accounted.
  <2>1. /\ pc[p] = "account" /\ globalLock = NoProc /\ files' = files
        /\ currentSizeBytes' = currentSizeBytes + added[p]
        /\ pc' = [pc EXCEPT ![p] = "return"] /\ key' = key
    BY <1>4, ProcsAssumption DEF Account, Goto, dir, Procs
  <2>2. Unaccounted \subseteq Unaccounted' \cup {key[p]}
    BY <2>1 DEF Unaccounted, Pending, IInv, TypeOK, Procs
  <2> DEFINE K == {key[p]} \cap files
  <2>3. B \subseteq A \cup K /\ K \in SUBSET Keys /\ A \cup K \in SUBSET Keys
    BY <1>2, <2>1, <2>2
  <2>4. Bytes[B] <= Bytes[A \cup K] /\ Bytes[A \cup K] \in Nat
    BY <1>2, <2>3, BytesMonotone
  <2>5. Bytes[A \cup K] <= Bytes[A] + Bytes[K] /\ Bytes[K] \in Nat
    BY <1>2, <2>3, BytesUnion, BytesAssumption
  <2>6. Bytes[K] <= added[p] /\ added[p] \in Nat
    BY <2>1 DEF IInv, TypeOK, AddedCoversFile, Procs
  <2>7. currentSizeBytes >= 0 /\ Bytes[A] <= currentSizeBytes
    BY <2>1 DEF IInv, CounterReady, SizeNeverUndercounts
  <2> HIDE DEF A, B, K
  <2> QED
    BY <1>3, <2>1, <2>4, <2>5, <2>6, <2>7
<1>5. ASSUME NEW p \in Procs, TrimEnd(p) PROVE Bytes[B] <= currentSizeBytes'
  <2>1. /\ pc[p] = "delete" /\ op[p] # "clearEncrypted" /\ victims = {}
        /\ currentSizeBytes' = currentSizeBytes - freed /\ files' = files
        /\ ~ \E q \in Fetchers : Account(q)
    BY <1>5, ProcsAssumption DEF TrimEnd, EndSweep, dir, Account, IInv,
       SweepsHoldGlobalLock, SweepPcs, Procs
  <2>2. Bytes[A \cup victims] <= currentSizeBytes - freed /\ freed \in Nat /\ A \cup victims = A
    BY <2>1 DEF IInv, TypeOK, TrimCoversFiles
  <2>3. B \subseteq A
    BY <2>1, AccountedFrame
  <2>4. Bytes[B] <= Bytes[A]
    BY <1>2, <2>3, BytesMonotone
  <2> HIDE DEF A, B
  <2> QED
    BY <1>3, <2>1, <2>2, <2>4
<1>6. ASSUME NEW p \in Procs, ClearEncryptedEnd(p) PROVE FALSE
  BY <1>6 DEF ClearEncryptedEnd, AppOps, IInv, TypeOK, FetchOps, PutOps
<1>7. ASSUME NEW p \in Procs, ClearAllEnd(p) PROVE Bytes[B] <= currentSizeBytes'
  <2>1. currentSizeBytes' = Bytes[files] /\ files' = files
    BY <1>7 DEF ClearAllEnd, EndSweep, dir
  <2>2. B \subseteq files
    BY <2>1
  <2> QED
    BY <1>2, <2>1, <2>2, BytesMonotone
<1>8. CASE /\ ~ \E p \in Fetchers : Account(p)
           /\ ~ \E p \in Procs : TrimEnd(p) \/ ClearEncryptedEnd(p) \/ ClearAllEnd(p)
  <2>1. /\ globalLock = NoProc
        /\ \/ currentSizeBytes' = currentSizeBytes
           \/ currentSizeBytes' = Bytes[files] /\ files' = files
    BY <1>8, CounterFrame
  <2>2. B \subseteq A
    BY <1>8, AccountedFrame
  <2>3. Bytes[B] <= Bytes[A] /\ Bytes[A] <= Bytes[files]
    BY <1>2, <2>2, BytesMonotone
  <2>4. currentSizeBytes >= 0 => Bytes[A] <= currentSizeBytes
    BY <2>1 DEF SizeNeverUndercounts
  <2> HIDE DEF A, B
  <2> QED
    BY <1>3, <2>1, <2>3, <2>4
<1> QED
  BY <1>4, <1>5, <1>6, <1>7, <1>8

\* The counter never falls below the accounted files of the directory.
THEOREM NeverUndercounts == AppOps => (Spec => []SizeNeverUndercounts)
<1> SUFFICES ASSUME AppOps PROVE Spec => []SizeNeverUndercounts
  OBVIOUS
<1>1. Init => SizeNeverUndercounts
  BY DEF Init, SizeNeverUndercounts
<1>2. IInv /\ SizeNeverUndercounts /\ [Next]_vars => SizeNeverUndercounts'
  BY SizeStep
<1> QED
  BY <1>1, <1>2, Inductive, PTL DEF Spec

\* Every step keeps recency a strict order of the files present.
LEMMA RecencyStep ==
    ASSUME IInv, RecencyOrder, [Next]_vars
    PROVE  RecencyOrder'
<1> USE DEF IInv, TypeOK, CallsHaveKeys, RecencyOrder, FetchPcs, Procs, dir, locks,
        leases, proc, sweep, ghost
<1>1. ASSUME NEW p \in Fetchers, Lookup(p) PROVE RecencyOrder'
  BY <1>1 DEF Lookup, Start
<1>2. ASSUME NEW p \in Fetchers, Touch(p) PROVE RecencyOrder'
  BY <1>2 DEF Touch, Goto, StripeFree, Touched
<1>3. ASSUME NEW p \in Fetchers, LockAndRecheck(p) PROVE RecencyOrder'
  BY <1>3 DEF LockAndRecheck, Goto, Lock, StripeFree, Touched
<1>4. ASSUME NEW p \in Fetchers, CreateTmp(p) PROVE RecencyOrder'
  BY <1>4 DEF CreateTmp, Goto
<1>5. ASSUME NEW p \in Fetchers, WriterFails(p) PROVE RecencyOrder'
  BY <1>5 DEF WriterFails, Throw, Unlock, Finish
<1>6. ASSUME NEW p \in Fetchers, WriterReturns(p) PROVE RecencyOrder'
  BY <1>6 DEF WriterReturns, Goto, Throw, Unlock, Finish
<1>7. ASSUME NEW p \in Fetchers, Rename(p) PROVE RecencyOrder'
  BY <1>7 DEF Rename, Goto, CanCommit, Lock, Touched
<1>8. ASSUME NEW p \in Fetchers, DropDuplicate(p) PROVE RecencyOrder'
  BY <1>8 DEF DropDuplicate, Goto, CanCommit, Touched
<1>9. ASSUME NEW p \in Fetchers, RenameFails(p) PROVE RecencyOrder'
  BY <1>9 DEF RenameFails, CanCommit, Throw, Unlock, Finish
<1>10. ASSUME NEW p \in Fetchers, Measure(p) PROVE RecencyOrder'
  BY <1>10 DEF Measure, Goto
<1>11. ASSUME NEW p \in Fetchers, getOrInitSize(p) PROVE RecencyOrder'
  BY <1>11 DEF getOrInitSize, Goto
<1>12. ASSUME NEW p \in Fetchers, Account(p) PROVE RecencyOrder'
  BY <1>12 DEF Account, Goto, Unlock
<1>13. ASSUME NEW p \in Fetchers, DropResult(p) PROVE RecencyOrder'
  BY <1>13 DEF DropResult, Finish
<1>14. ASSUME NEW p \in Fetchers, AcquireLease(p) PROVE RecencyOrder'
  BY <1>14 DEF AcquireLease, Goto
<1>15. ASSUME NEW p \in Fetchers, leaseVerified(p) PROVE RecencyOrder'
  BY <1>15 DEF leaseVerified, Goto, ReleaseLease, Finish
<1>16. ASSUME NEW p \in Fetchers, CloseLease(p) PROVE RecencyOrder'
  BY <1>16 DEF CloseLease, Goto, ReleaseLease
<1>17. ASSUME NEW p \in Fetchers, CloseAgain(p) PROVE RecencyOrder'
  BY <1>17 DEF CloseAgain, Finish, ReleaseLease
<1>18. ASSUME NEW p \in Maintainers, StartTrim(p) PROVE RecencyOrder'
  BY <1>18 DEF StartTrim, Start
<1>19. ASSUME NEW p \in Maintainers, clearEncrypted(p) PROVE RecencyOrder'
  BY <1>19 DEF clearEncrypted, Start
<1>20. ASSUME NEW p \in Maintainers, clearAll(p) PROVE RecencyOrder'
  BY <1>20 DEF clearAll, Start
<1>21. ASSUME NEW p \in Procs, TrimScan(p) PROVE RecencyOrder'
  BY <1>21 DEF TrimScan, Goto, planLruTrim
<1>22. ASSUME NEW p \in Procs, Delete(p) PROVE RecencyOrder'
  BY <1>22 DEF Delete
<1>23. ASSUME NEW p \in Procs, TrimEnd(p) PROVE RecencyOrder'
  BY <1>23 DEF TrimEnd, EndSweep, Goto, Unlock, Finish
<1>24. ASSUME NEW p \in Procs, ClearEncryptedEnd(p) PROVE RecencyOrder'
  BY <1>24 DEF ClearEncryptedEnd, EndSweep, Goto, Unlock, Finish
<1>25. ASSUME NEW p \in Procs, ClearVisit(p) PROVE RecencyOrder'
  BY <1>25 DEF ClearVisit
<1>26. ASSUME NEW p \in Procs, ClearVisitTmp(p) PROVE RecencyOrder'
  BY <1>26 DEF ClearVisitTmp
<1>27. ASSUME NEW p \in Procs, ClearAllEnd(p) PROVE RecencyOrder'
  BY <1>27 DEF ClearAllEnd, EndSweep, Goto, Unlock, Finish
<1>28. CASE Crash
  BY <1>28 DEF Crash
<1>29. CASE UNCHANGED vars
  BY <1>29 DEF vars
<1> QED
  BY <1>1, <1>2, <1>3, <1>4, <1>5, <1>6, <1>7, <1>8, <1>9, <1>10, <1>11, <1>12, <1>13,
     <1>14, <1>15, <1>16, <1>17, <1>18, <1>19, <1>20, <1>21, <1>22, <1>23, <1>24, <1>25,
     <1>26, <1>27, <1>28, <1>29 DEF Next, FetchStep, SweepStep

\* A trim deletes files that are there.
VictimsPresent ==
    \A p \in Procs :
        pc[p] = "delete" /\ op[p] # "clearEncrypted" => victims \subseteq files

\* A trim will reach the budget, or leave only files that were leased when it
\* began and files that are not accounted yet.
TrimReachesBudget ==
    \A p \in Procs :
        pc[p] = "delete" /\ op[p] # "clearEncrypted"
            => \/ currentSizeBytes - freed - Bytes[victims] <= MaxBytes
               \/ files \subseteq victims \cup kept \cup Unaccounted

\* clearAll leaves only leased files and files that are not accounted yet.
ClearLeavesLeased ==
    \A p \in Procs :
        pc[p] = "clear" => files \subseteq listed \cup victims \cup kept \cup Unaccounted

\* At rest the counter is within the budget, or every file was leased.
CounterAtRest ==
    (currentSizeBytes >= 0 /\ globalLock = NoProc /\ Pending = {})
        => currentSizeBytes <= MaxBytes \/ files \subseteq kept

\* The strengthening of BudgetAtRest: what each kind of sweep is heading for.
BInv ==
    /\ IInv /\ RecencyOrder
    /\ VictimsPresent /\ TrimReachesBudget /\ ClearLeavesLeased
    /\ CounterAtRest

\* A scan plans enough deletions to reach the budget.
LEMMA TrimScanStep ==
    ASSUME BInv, NEW p \in Procs, TrimScan(p)
    PROVE  /\ victims' \subseteq files'
           /\ \/ currentSizeBytes' - freed' - Bytes[victims'] <= MaxBytes
              \/ files' \subseteq victims' \cup kept' \cup Unaccounted'
<1> DEFINE E == {k \in files : ~isLeased(k)}
<1>1. /\ victims' = planLruTrim(files, E) /\ kept' = files \ E /\ files' = files
      /\ currentSizeBytes' = Bytes[files] /\ freed' = 0
  BY DEF TrimScan, dir, BInv, IInv, FreedStartsAtZero
<1>2. planLruTrim(files, E) \subseteq E
  BY DEF planLruTrim
<1>3. planLruTrim(files, E) = E \/ Bytes[files] - Bytes[planLruTrim(files, E)] <= MaxBytes
  BY PlanReachesBudget DEF BInv, IInv
<1> HIDE DEF E
<1>4. files \in SUBSET Keys /\ planLruTrim(files, E) \in SUBSET Keys
  BY <1>2 DEF BInv, IInv, TypeOK, E
<1>5. Bytes[files] \in Nat /\ Bytes[planLruTrim(files, E)] \in Nat
  BY <1>4, BytesAssumption
<1>6. CASE planLruTrim(files, E) = E
  BY <1>1, <1>6 DEF E
<1>7. CASE Bytes[files] - Bytes[planLruTrim(files, E)] <= MaxBytes
  <2>1. currentSizeBytes' - freed' - Bytes[victims'] <= MaxBytes
    BY <1>1, <1>5, <1>7
  <2> QED
    BY <1>1, <1>2, <2>1 DEF E
<1> QED
  BY <1>3, <1>6, <1>7

\* Only the holder of the global lock deletes renamed files.
LEMMA FilesFrame ==
    ASSUME IInv, [Next]_vars
    PROVE  files \subseteq files' \/ \E p \in Procs : Delete(p) /\ globalLock = p
<1> DEFINE Goal == files \subseteq files' \/ \E p \in Procs : Delete(p) /\ globalLock = p
<1> USE DEF IInv, SweepsHoldGlobalLock, SweepPcs, Procs, dir, locks, leases, proc, sweep,
        ghost
<1>1. ASSUME NEW p \in Fetchers, Lookup(p) PROVE Goal
  BY <1>1 DEF Lookup, Start
<1>2. ASSUME NEW p \in Fetchers, Touch(p) PROVE Goal
  BY <1>2 DEF Touch, Goto, StripeFree, Touched
<1>3. ASSUME NEW p \in Fetchers, LockAndRecheck(p) PROVE Goal
  BY <1>3 DEF LockAndRecheck, Goto, Lock, StripeFree, Touched
<1>4. ASSUME NEW p \in Fetchers, CreateTmp(p) PROVE Goal
  BY <1>4 DEF CreateTmp, Goto
<1>5. ASSUME NEW p \in Fetchers, WriterFails(p) PROVE Goal
  BY <1>5 DEF WriterFails, Throw, Unlock, Finish
<1>6. ASSUME NEW p \in Fetchers, WriterReturns(p) PROVE Goal
  BY <1>6 DEF WriterReturns, Goto, Throw, Unlock, Finish
<1>7. ASSUME NEW p \in Fetchers, Rename(p) PROVE Goal
  BY <1>7 DEF Rename, Goto, CanCommit, Lock, Touched
<1>8. ASSUME NEW p \in Fetchers, DropDuplicate(p) PROVE Goal
  BY <1>8 DEF DropDuplicate, Goto, CanCommit, Touched
<1>9. ASSUME NEW p \in Fetchers, RenameFails(p) PROVE Goal
  BY <1>9 DEF RenameFails, CanCommit, Throw, Unlock, Finish
<1>10. ASSUME NEW p \in Fetchers, Measure(p) PROVE Goal
  BY <1>10 DEF Measure, Goto
<1>11. ASSUME NEW p \in Fetchers, getOrInitSize(p) PROVE Goal
  BY <1>11 DEF getOrInitSize, Goto
<1>12. ASSUME NEW p \in Fetchers, Account(p) PROVE Goal
  BY <1>12 DEF Account, Goto, Unlock
<1>13. ASSUME NEW p \in Fetchers, DropResult(p) PROVE Goal
  BY <1>13 DEF DropResult, Finish
<1>14. ASSUME NEW p \in Fetchers, AcquireLease(p) PROVE Goal
  BY <1>14 DEF AcquireLease, Goto
<1>15. ASSUME NEW p \in Fetchers, leaseVerified(p) PROVE Goal
  BY <1>15 DEF leaseVerified, Goto, ReleaseLease, Finish
<1>16. ASSUME NEW p \in Fetchers, CloseLease(p) PROVE Goal
  BY <1>16 DEF CloseLease, Goto, ReleaseLease
<1>17. ASSUME NEW p \in Fetchers, CloseAgain(p) PROVE Goal
  BY <1>17 DEF CloseAgain, Finish, ReleaseLease
<1>18. ASSUME NEW p \in Maintainers, StartTrim(p) PROVE Goal
  BY <1>18 DEF StartTrim, Start
<1>19. ASSUME NEW p \in Maintainers, clearEncrypted(p) PROVE Goal
  BY <1>19 DEF clearEncrypted, Start
<1>20. ASSUME NEW p \in Maintainers, clearAll(p) PROVE Goal
  BY <1>20 DEF clearAll, Start
<1>21. ASSUME NEW p \in Procs, TrimScan(p) PROVE Goal
  BY <1>21 DEF TrimScan, Goto, planLruTrim
<1>22. ASSUME NEW p \in Procs, Delete(p) PROVE Goal
  <2>1. globalLock = p
    BY <1>22 DEF Delete
  <2> QED
    BY <1>22, <2>1
<1>23. ASSUME NEW p \in Procs, TrimEnd(p) PROVE Goal
  BY <1>23 DEF TrimEnd, EndSweep, Goto, Unlock, Finish
<1>24. ASSUME NEW p \in Procs, ClearEncryptedEnd(p) PROVE Goal
  BY <1>24 DEF ClearEncryptedEnd, EndSweep, Goto, Unlock, Finish
<1>25. ASSUME NEW p \in Procs, ClearVisit(p) PROVE Goal
  BY <1>25 DEF ClearVisit
<1>26. ASSUME NEW p \in Procs, ClearVisitTmp(p) PROVE Goal
  BY <1>26 DEF ClearVisitTmp
<1>27. ASSUME NEW p \in Procs, ClearAllEnd(p) PROVE Goal
  BY <1>27 DEF ClearAllEnd, EndSweep, Goto, Unlock, Finish
<1>28. CASE Crash
  BY <1>28 DEF Crash
<1>29. CASE UNCHANGED vars
  BY <1>29 DEF vars
<1> QED
  BY <1>1, <1>2, <1>3, <1>4, <1>5, <1>6, <1>7, <1>8, <1>9, <1>10, <1>11, <1>12, <1>13,
     <1>14, <1>15, <1>16, <1>17, <1>18, <1>19, <1>20, <1>21, <1>22, <1>23, <1>24, <1>25,
     <1>26, <1>27, <1>28, <1>29 DEF Next, FetchStep, SweepStep

\* Every step keeps the victims of a trim in the directory until it deletes them.
LEMMA VictimsStep ==
    ASSUME BInv, [Next]_vars
    PROVE  VictimsPresent' /\ TrimReachesBudget'
<1>1. CASE Crash
  BY <1>1 DEF Crash, VictimsPresent, TrimReachesBudget
<1> DEFINE Goal == /\ victims' \subseteq files'
                   /\ \/ currentSizeBytes' - freed' - Bytes[victims'] <= MaxBytes
                      \/ files' \subseteq victims' \cup kept' \cup Unaccounted'
<1> SUFFICES ASSUME ~Crash, NEW p \in Procs,
                    pc'[p] = "delete", op'[p] # "clearEncrypted"
             PROVE  Goal
  BY <1>1 DEF VictimsPresent, TrimReachesBudget
<1>2. CASE TrimScan(p)
  BY <1>2, TrimScanStep
<1>3. CASE ~TrimScan(p)
  <2>1. /\ pc[p] = "delete" /\ op[p] # "clearEncrypted" /\ globalLock = p
        /\ currentSizeBytes' = currentSizeBytes
        /\ Delete(p) \/ (victims' = victims /\ freed' = freed /\ kept' = kept)
    BY <1>3, TrimFrame DEF BInv
  <2>2. ~ \E q \in Fetchers : Account(q)
    BY <2>1, ProcsAssumption DEF Account, Procs
  <2>3. files' \subseteq files \cup Unaccounted' /\ Unaccounted \subseteq Unaccounted'
    BY <2>2, AccountedFrame DEF BInv
  <2>4. /\ victims \subseteq files
        /\ \/ currentSizeBytes - freed - Bytes[victims] <= MaxBytes
           \/ files \subseteq victims \cup kept \cup Unaccounted
    BY <2>1 DEF BInv, VictimsPresent, TrimReachesBudget
  <2>5. /\ victims \in SUBSET Keys /\ files \in SUBSET Keys /\ currentSizeBytes \in Int
        /\ freed \in Nat
    BY DEF BInv, IInv, TypeOK
  <2>6. CASE Delete(p)
    <3>1. PICK k \in victims :
            /\ victims' = victims \ {k} /\ files' = files \ {k} /\ kept' = kept
            /\ freed' = freed + Bytes[{k} \cap files]
      BY <2>6 DEF Delete, ghost
    <3>2. {k} \cap files = {k} /\ {k} \cap victims = {k} /\ k \in Keys
      BY <2>4, <2>5
    <3>3. /\ Bytes[victims] = Bytes[victims \ {k}] + Bytes[{k}]
          /\ Bytes[victims \ {k}] \in Nat /\ Bytes[{k}] \in Nat
      BY <2>5, <3>2, BytesRemove
    <3>4. freed' = freed + Bytes[{k}] /\ Bytes[victims'] = Bytes[victims \ {k}]
      BY <3>1, <3>2
    <3>5. currentSizeBytes' - freed' - Bytes[victims'] = currentSizeBytes - freed - Bytes[victims]
      BY <2>1, <2>5, <3>3, <3>4
    <3> QED
      BY <2>3, <2>4, <3>1, <3>5
  <2>7. CASE victims' = victims /\ freed' = freed /\ kept' = kept
    <3>1. victims' \subseteq files'
      <4>1. files \subseteq files' \/ Delete(p)
        BY <2>1, FilesFrame DEF BInv
      <4> QED
        BY <2>4, <2>6, <2>7, <4>1
    <3> QED
      BY <2>1, <2>3, <2>4, <2>7, <3>1
  <2> QED
    BY <2>1, <2>6, <2>7
<1> QED
  BY <1>2, <1>3

\* While p clears the directory nobody else touches what it has listed.
LEMMA ClearFrame ==
    ASSUME IInv, [Next]_vars, ~Crash, NEW p \in Procs, pc'[p] = "clear", ~clearAll(p)
    PROVE  /\ pc[p] = "clear" /\ globalLock = p
           /\ \/ Delete(p) \/ ClearVisit(p)
              \/ victims' = victims /\ listed' = listed /\ kept' = kept
<1> DEFINE Goal == /\ pc[p] = "clear" /\ globalLock = p
                   /\ \/ Delete(p) \/ ClearVisit(p)
                      \/ victims' = victims /\ listed' = listed /\ kept' = kept
<1> USE DEF IInv, TypeOK, SweepsHoldGlobalLock, FetchPcs, SweepPcs, PendingPcs, PutOps,
        Procs, dir, locks, leases, proc, sweep, ghost
<1>1. ASSUME NEW q \in Fetchers, Lookup(q) PROVE Goal
  BY <1>1, ProcsAssumption DEF Lookup, Start
<1>2. ASSUME NEW q \in Fetchers, Touch(q) PROVE Goal
  BY <1>2, ProcsAssumption DEF Touch, Goto, StripeFree, Touched
<1>3. ASSUME NEW q \in Fetchers, LockAndRecheck(q) PROVE Goal
  BY <1>3, ProcsAssumption DEF LockAndRecheck, Goto, Lock, StripeFree, Touched
<1>4. ASSUME NEW q \in Fetchers, CreateTmp(q) PROVE Goal
  BY <1>4, ProcsAssumption DEF CreateTmp, Goto
<1>5. ASSUME NEW q \in Fetchers, WriterFails(q) PROVE Goal
  BY <1>5, ProcsAssumption DEF WriterFails, Throw, Unlock, Finish
<1>6. ASSUME NEW q \in Fetchers, WriterReturns(q) PROVE Goal
  BY <1>6, ProcsAssumption DEF WriterReturns, Goto, Throw, Unlock, Finish
<1>7. ASSUME NEW q \in Fetchers, Rename(q) PROVE Goal
  BY <1>7, ProcsAssumption DEF Rename, Goto, CanCommit, Lock, Touched
<1>8. ASSUME NEW q \in Fetchers, DropDuplicate(q) PROVE Goal
  BY <1>8, ProcsAssumption DEF DropDuplicate, Goto, CanCommit, Touched
<1>9. ASSUME NEW q \in Fetchers, RenameFails(q) PROVE Goal
  BY <1>9, ProcsAssumption DEF RenameFails, CanCommit, Throw, Unlock, Finish
<1>10. ASSUME NEW q \in Fetchers, Measure(q) PROVE Goal
  BY <1>10, ProcsAssumption DEF Measure, Goto
<1>11. ASSUME NEW q \in Fetchers, getOrInitSize(q) PROVE Goal
  BY <1>11, ProcsAssumption DEF getOrInitSize, Goto
<1>12. ASSUME NEW q \in Fetchers, Account(q) PROVE Goal
  BY <1>12, ProcsAssumption DEF Account, Goto, Unlock
<1>13. ASSUME NEW q \in Fetchers, DropResult(q) PROVE Goal
  BY <1>13, ProcsAssumption DEF DropResult, Finish
<1>14. ASSUME NEW q \in Fetchers, AcquireLease(q) PROVE Goal
  BY <1>14, ProcsAssumption DEF AcquireLease, Goto
<1>15. ASSUME NEW q \in Fetchers, leaseVerified(q) PROVE Goal
  BY <1>15, ProcsAssumption DEF leaseVerified, Goto, ReleaseLease, Finish
<1>16. ASSUME NEW q \in Fetchers, CloseLease(q) PROVE Goal
  BY <1>16, ProcsAssumption DEF CloseLease, Goto, ReleaseLease
<1>17. ASSUME NEW q \in Fetchers, CloseAgain(q) PROVE Goal
  BY <1>17, ProcsAssumption DEF CloseAgain, Finish, ReleaseLease
<1>18. ASSUME NEW q \in Maintainers, StartTrim(q) PROVE Goal
  BY <1>18, ProcsAssumption DEF StartTrim, Start
<1>19. ASSUME NEW q \in Maintainers, clearEncrypted(q) PROVE Goal
  BY <1>19, ProcsAssumption DEF clearEncrypted, Start
<1>20. ASSUME NEW q \in Maintainers, clearAll(q) PROVE Goal
  BY <1>20, ProcsAssumption DEF clearAll, Start
<1>21. ASSUME NEW q \in Procs, TrimScan(q) PROVE Goal
  BY <1>21, ProcsAssumption DEF TrimScan, Goto, planLruTrim
<1>22. ASSUME NEW q \in Procs, Delete(q) PROVE Goal
  <2>1. globalLock = q /\ pc' = pc
    BY <1>22 DEF Delete
  <2>2. globalLock = p /\ pc[p] = "clear"
    BY <2>1
  <2> QED
    BY <1>22, <2>1, <2>2
<1>23. ASSUME NEW q \in Procs, TrimEnd(q) PROVE Goal
  BY <1>23, ProcsAssumption DEF TrimEnd, EndSweep, Goto, Unlock, Finish
<1>24. ASSUME NEW q \in Procs, ClearEncryptedEnd(q) PROVE Goal
  BY <1>24, ProcsAssumption DEF ClearEncryptedEnd, EndSweep, Goto, Unlock, Finish
<1>25. ASSUME NEW q \in Procs, ClearVisit(q) PROVE Goal
  <2>1. globalLock = q /\ pc' = pc
    BY <1>25 DEF ClearVisit
  <2>2. globalLock = p /\ pc[p] = "clear"
    BY <2>1
  <2> QED
    BY <1>25, <2>1, <2>2
<1>26. ASSUME NEW q \in Procs, ClearVisitTmp(q) PROVE Goal
  BY <1>26, ProcsAssumption DEF ClearVisitTmp
<1>27. ASSUME NEW q \in Procs, ClearAllEnd(q) PROVE Goal
  BY <1>27, ProcsAssumption DEF ClearAllEnd, EndSweep, Goto, Unlock, Finish
<1>28. CASE UNCHANGED vars
  BY <1>28 DEF vars
<1> QED
  BY <1>1, <1>2, <1>3, <1>4, <1>5, <1>6, <1>7, <1>8, <1>9, <1>10, <1>11, <1>12, <1>13,
     <1>14, <1>15, <1>16, <1>17, <1>18, <1>19, <1>20, <1>21, <1>22, <1>23, <1>24, <1>25,
     <1>26, <1>27, <1>28 DEF Next, FetchStep, SweepStep

\* Through every step clearAll has yet to list, delete or spare each file.
LEMMA ClearStep ==
    ASSUME BInv, [Next]_vars
    PROVE  ClearLeavesLeased'
<1>1. CASE Crash
  BY <1>1 DEF Crash, ClearLeavesLeased
<1> SUFFICES ASSUME ~Crash, NEW p \in Procs, pc'[p] = "clear"
             PROVE  files' \subseteq listed' \cup victims' \cup kept' \cup Unaccounted'
  BY <1>1 DEF ClearLeavesLeased
<1>2. CASE clearAll(p)
  BY <1>2 DEF clearAll, dir
<1>3. CASE ~clearAll(p)
  <2>1. /\ pc[p] = "clear" /\ globalLock = p
        /\ \/ Delete(p) \/ ClearVisit(p)
           \/ victims' = victims /\ listed' = listed /\ kept' = kept
    BY <1>3, ClearFrame DEF BInv
  <2>2. ~ \E q \in Fetchers : Account(q)
    BY <2>1, ProcsAssumption DEF Account, Procs
  <2>3. files' \subseteq files \cup Unaccounted' /\ Unaccounted \subseteq Unaccounted'
    BY <2>2, AccountedFrame DEF BInv
  <2>4. files \subseteq listed \cup victims \cup kept \cup Unaccounted
    BY <2>1 DEF BInv, ClearLeavesLeased
  <2>5. CASE Delete(p)
    BY <2>3, <2>4, <2>5 DEF Delete, ghost
  <2>6. CASE ClearVisit(p)
    <3>1. PICK k \in listed :
            /\ listed' = listed \ {k}
            /\ victims' = IF isLeased(k) THEN {} ELSE {k}
            /\ kept' = IF isLeased(k) THEN kept \cup {k} ELSE kept
            /\ victims = {}
      BY <2>6 DEF ClearVisit
    <3> QED
      BY <2>3, <2>4, <3>1
  <2> QED
    BY <2>1, <2>3, <2>4, <2>5, <2>6
<1> QED
  BY <1>2, <1>3

\* Every step keeps the counter within the budget at rest, because accounting
\* that exceeds it goes on to trim.
LEMMA AtRestStep ==
    ASSUME BInv, AppOps, [Next]_vars
    PROVE  CounterAtRest'
<1>1. CASE Crash
  BY <1>1 DEF Crash, CounterAtRest
<1> SUFFICES ASSUME ~Crash, currentSizeBytes' >= 0, globalLock' = NoProc, Pending' = {}
             PROVE  currentSizeBytes' <= MaxBytes \/ files' \subseteq kept'
  BY <1>1 DEF CounterAtRest
<1>2. Unaccounted' = {}
  BY DEF Unaccounted
<1>3. ASSUME NEW p \in Fetchers, Account(p) PROVE currentSizeBytes' <= MaxBytes
  <2>1. ~(currentSizeBytes' > MaxBytes)
    BY <1>3, ProcsAssumption DEF Account, Procs
  <2>2. currentSizeBytes' \in Int /\ MaxBytes \in Int
    BY TypeStep, BytesAssumption DEF TypeOK, BInv
  <2> QED
    BY <2>1, <2>2
<1>4. ASSUME NEW p \in Procs, TrimEnd(p)
      PROVE  currentSizeBytes' <= MaxBytes \/ files' \subseteq kept'
  <2>1. /\ pc[p] = "delete" /\ op[p] # "clearEncrypted" /\ victims = {}
        /\ currentSizeBytes' = currentSizeBytes - freed /\ files' = files /\ kept' = kept
        /\ ~ \E q \in Fetchers : Account(q)
    BY <1>4, ProcsAssumption
       DEF TrimEnd, EndSweep, dir, ghost, Account, BInv, IInv,
           SweepsHoldGlobalLock, SweepPcs, Procs
  <2>2. Unaccounted = {}
    BY <1>2, <2>1, AccountedFrame DEF BInv
  <2>3. currentSizeBytes - freed - Bytes[victims] <= MaxBytes \/ files \subseteq kept
    BY <2>1, <2>2 DEF BInv, TrimReachesBudget
  <2>4. Bytes[{}] = 0 /\ currentSizeBytes \in Int /\ freed \in Nat
    <3>1. {} \in SUBSET Keys /\ {} \cap {} = {} /\ {} \cup {} = {}
      OBVIOUS
    <3> QED
      BY <3>1, BytesAssumption DEF BInv, IInv, TypeOK
  <2> QED
    BY <2>1, <2>3, <2>4
<1>5. ASSUME NEW p \in Procs, ClearEncryptedEnd(p) PROVE FALSE
  BY <1>5 DEF ClearEncryptedEnd, AppOps, BInv, IInv, TypeOK, FetchOps, PutOps
<1>6. ASSUME NEW p \in Procs, ClearAllEnd(p) PROVE files' \subseteq kept'
  <2>1. /\ pc[p] = "clear" /\ victims = {} /\ listed = {} /\ files' = files /\ kept' = kept
        /\ ~ \E q \in Fetchers : Account(q)
    BY <1>6, ProcsAssumption
       DEF ClearAllEnd, EndSweep, dir, ghost, Account, BInv, IInv,
           SweepsHoldGlobalLock, SweepPcs, Procs
  <2>2. Unaccounted = {}
    BY <1>2, <2>1, AccountedFrame DEF BInv
  <2> QED
    BY <2>1, <2>2 DEF BInv, ClearLeavesLeased
<1>7. CASE /\ ~ \E p \in Fetchers : Account(p)
           /\ ~ \E p \in Procs : TrimEnd(p) \/ ClearEncryptedEnd(p) \/ ClearAllEnd(p)
  <2>1. /\ globalLock = NoProc /\ kept' = kept
        /\ \/ currentSizeBytes' = currentSizeBytes
           \/ \E p \in Fetchers : getOrInitSize(p)
    BY <1>7, CounterFrame DEF BInv
  <2>2. ~ \E p \in Fetchers : getOrInitSize(p)
    \* That writer would still be pending.
    BY DEF getOrInitSize, Goto, Pending, PendingPcs, BInv, IInv, TypeOK, Procs
  <2>3. files' \subseteq files /\ Unaccounted = {}
    BY <1>2, <1>7, AccountedFrame DEF BInv
  <2>4. Pending = {}
    BY <2>3 DEF Unaccounted
  <2>5. currentSizeBytes <= MaxBytes \/ files \subseteq kept
    BY <2>1, <2>2, <2>4 DEF BInv, CounterAtRest
  <2> QED
    BY <2>1, <2>2, <2>3, <2>5
<1> QED
  BY <1>3, <1>4, <1>5, <1>6, <1>7

\* Whenever nothing is in flight the directory is within maxSizeBytes, or holds
\* only files that were leased when it was last swept.
THEOREM RespectsBudget == AppOps => (Spec => []BudgetAtRest)
<1> SUFFICES ASSUME AppOps PROVE Spec => []BudgetAtRest
  OBVIOUS
<1>1. Init => BInv
  <2> SUFFICES ASSUME Init PROVE BInv
    OBVIOUS
  <2>1. RecencyOrder
    BY DEF Init, RecencyOrder
  <2>2. VictimsPresent /\ TrimReachesBudget /\ ClearLeavesLeased /\ CounterAtRest
    BY DEF Init, VictimsPresent, TrimReachesBudget, ClearLeavesLeased, CounterAtRest
  <2> QED
    BY <2>1, <2>2, InitIInv DEF BInv
<1>2. BInv /\ [Next]_vars => BInv'
  <2> SUFFICES ASSUME BInv, [Next]_vars PROVE BInv'
    OBVIOUS
  <2>1. IInv'
    BY TypeStep, CallsStep, GlobalLockStep, StripeStep, AddedStep, CounterStep,
       FreedStep, TrimStep DEF BInv, IInv
  <2>2. RecencyOrder'
    BY RecencyStep DEF BInv
  <2> QED
    BY <2>1, <2>2, VictimsStep, ClearStep, AtRestStep DEF BInv
<1>3. BInv /\ SizeNeverUndercounts => BudgetAtRest
  <2> SUFFICES ASSUME BInv, SizeNeverUndercounts, Pending = {}, globalLock = NoProc,
                      currentSizeBytes >= 0
               PROVE  Bytes[files] <= MaxBytes \/ files \subseteq kept
    BY DEF BudgetAtRest
  <2>1. files \ Unaccounted = files
    BY DEF Unaccounted
  <2>2. Bytes[files] <= currentSizeBytes
    BY <2>1 DEF SizeNeverUndercounts
  <2>3. currentSizeBytes <= MaxBytes \/ files \subseteq kept
    BY DEF BInv, CounterAtRest
  <2>4. Bytes[files] \in Int /\ currentSizeBytes \in Int /\ MaxBytes \in Int
    BY BytesAssumption DEF BInv, IInv, TypeOK
  <2> QED
    BY <2>2, <2>3, <2>4
<1> QED
  BY <1>1, <1>2, <1>3, NeverUndercounts, PTL DEF Spec

-----------------------------------------------------------------------------
(* The invariant of the leases *)

HandlePcs == {"verify", "reading"}
HandlesOf(k) == {p \in openHandles : key[p] = k}

\* A handle is open from its acquisition to the first close() of it, whoever
\* closes it again later.
HandlesAreHeld ==
    /\ openHandles = {p \in Fetchers : pc[p] \in HandlePcs}
    /\ IsFiniteSet(openHandles)

\* The registry counts them.
CountsAreExact == \A k \in Keys : refCounts[k] = Cardinality(HandlesOf(k))

LInv == IInv /\ HandlesAreHeld /\ CountsAreExact

\* A step that leaves the leases, and the processes that hold them, alone;
\* what it deletes was a victim, and what it makes a victim is not leased.
LeasesUntouched ==
    /\ refCounts' = refCounts /\ openHandles' = openHandles /\ raced' = raced
    /\ \A q \in Fetchers : pc[q] \in HandlePcs \/ pc'[q] \in HandlePcs
                              => pc'[q] = pc[q] /\ key'[q] = key[q]
    /\ files \ victims \subseteq files'
    /\ \A k \in victims' : k \in victims \/ ~isLeased(k)

\* The steps that do not.
LeaseStep ==
    \/ \E p \in Fetchers : AcquireLease(p) \/ leaseVerified(p) \/ CloseLease(p)
    \/ Crash

\* All other steps leave the leases alone; the second close of a handle is
\* one of them.
LEMMA QuietSteps ==
    ASSUME IInv, HandlesAreHeld, [Next]_vars, ~LeaseStep
    PROVE  LeasesUntouched
<1> USE DEF LeasesUntouched, HandlesAreHeld, HandlePcs, SweepPcs, IInv, TypeOK, PutOps,
        Procs, dir, locks, leases, proc, sweep, ghost
<1>1. ASSUME NEW p \in Fetchers, Lookup(p) PROVE LeasesUntouched
  BY <1>1, ProcsAssumption DEF Lookup, Start
<1>2. ASSUME NEW p \in Fetchers, Touch(p) PROVE LeasesUntouched
  BY <1>2, ProcsAssumption DEF Touch, Goto
<1>3. ASSUME NEW p \in Fetchers, LockAndRecheck(p) PROVE LeasesUntouched
  BY <1>3, ProcsAssumption DEF LockAndRecheck, Goto
<1>4. ASSUME NEW p \in Fetchers, CreateTmp(p) PROVE LeasesUntouched
  BY <1>4, ProcsAssumption DEF CreateTmp, Goto
<1>5. ASSUME NEW p \in Fetchers, WriterFails(p) PROVE LeasesUntouched
  BY <1>5, ProcsAssumption DEF WriterFails, Throw, Finish
<1>6. ASSUME NEW p \in Fetchers, WriterReturns(p) PROVE LeasesUntouched
  BY <1>6, ProcsAssumption DEF WriterReturns, Goto, Throw, Finish
<1>7. ASSUME NEW p \in Fetchers, Rename(p) PROVE LeasesUntouched
  BY <1>7, ProcsAssumption DEF Rename, Goto, CanCommit
<1>8. ASSUME NEW p \in Fetchers, DropDuplicate(p) PROVE LeasesUntouched
  BY <1>8, ProcsAssumption DEF DropDuplicate, Goto, CanCommit
<1>9. ASSUME NEW p \in Fetchers, RenameFails(p) PROVE LeasesUntouched
  BY <1>9, ProcsAssumption DEF RenameFails, CanCommit, Throw, Finish
<1>10. ASSUME NEW p \in Fetchers, Measure(p) PROVE LeasesUntouched
  BY <1>10, ProcsAssumption DEF Measure, Goto
<1>11. ASSUME NEW p \in Fetchers, getOrInitSize(p) PROVE LeasesUntouched
  BY <1>11, ProcsAssumption DEF getOrInitSize, Goto
<1>12. ASSUME NEW p \in Fetchers, Account(p) PROVE LeasesUntouched
  BY <1>12, ProcsAssumption DEF Account, Goto
<1>13. ASSUME NEW p \in Fetchers, DropResult(p) PROVE LeasesUntouched
  BY <1>13, ProcsAssumption DEF DropResult, Finish
<1>14. ASSUME NEW p \in Fetchers, CloseAgain(p) PROVE LeasesUntouched
  BY <1>14, ProcsAssumption DEF CloseAgain, Finish, ReleaseLease
<1>15. ASSUME NEW p \in Maintainers, StartTrim(p) PROVE LeasesUntouched
  BY <1>15, ProcsAssumption DEF StartTrim, Start
<1>16. ASSUME NEW p \in Maintainers, clearEncrypted(p) PROVE LeasesUntouched
  BY <1>16, ProcsAssumption DEF clearEncrypted, Start
<1>17. ASSUME NEW p \in Maintainers, clearAll(p) PROVE LeasesUntouched
  BY <1>17, ProcsAssumption DEF clearAll, Start
<1>18. ASSUME NEW p \in Procs, TrimScan(p) PROVE LeasesUntouched
  BY <1>18, ProcsAssumption DEF TrimScan, Goto, planLruTrim
<1>19. ASSUME NEW p \in Procs, Delete(p) PROVE LeasesUntouched
  BY <1>19, ProcsAssumption DEF Delete
<1>20. ASSUME NEW p \in Procs, TrimEnd(p) PROVE LeasesUntouched
  BY <1>20, ProcsAssumption DEF TrimEnd, EndSweep, Goto, Finish
<1>21. ASSUME NEW p \in Procs, ClearEncryptedEnd(p) PROVE LeasesUntouched
  BY <1>21, ProcsAssumption DEF ClearEncryptedEnd, EndSweep, Goto, Finish
<1>22. ASSUME NEW p \in Procs, ClearVisit(p) PROVE LeasesUntouched
  BY <1>22, ProcsAssumption DEF ClearVisit
<1>23. ASSUME NEW p \in Procs, ClearVisitTmp(p) PROVE LeasesUntouched
  BY <1>23, ProcsAssumption DEF ClearVisitTmp
<1>24. ASSUME NEW p \in Procs, ClearAllEnd(p) PROVE LeasesUntouched
  BY <1>24, ProcsAssumption DEF ClearAllEnd, EndSweep, Goto, Finish
<1>25. CASE UNCHANGED vars
  BY <1>25, ProcsAssumption DEF vars
<1> QED
  BY <1>1, <1>2, <1>3, <1>4, <1>5, <1>6, <1>7, <1>8, <1>9, <1>10, <1>11, <1>12, <1>13,
     <1>14, <1>15, <1>16, <1>17, <1>18, <1>19, <1>20, <1>21, <1>22, <1>23, <1>24, <1>25
      DEF Next, FetchStep, SweepStep, LeaseStep

\* One handle more or less changes the count of its key by one, and of no other.
LEMMA CountAfterAcquire ==
    ASSUME LInv, NEW p \in Fetchers, AcquireLease(p)
    PROVE  CountsAreExact' /\ IsFiniteSet(openHandles')
<1>1. /\ p \notin openHandles /\ openHandles' = openHandles \cup {p} /\ key' = key /\ key[p] \in Keys
      /\ refCounts' = [refCounts EXCEPT ![key[p]] = @ + 1] /\ refCounts \in [Keys -> Int]
  BY DEF AcquireLease, Goto, LInv, HandlesAreHeld, HandlePcs, IInv, TypeOK, CallsHaveKeys, FetchPcs, Procs
<1>2. IsFiniteSet(openHandles')
  BY <1>1, FS_AddElement DEF LInv, HandlesAreHeld
<1>3. ASSUME NEW k \in Keys PROVE refCounts'[k] = Cardinality(HandlesOf(k)')
  <2>1. IsFiniteSet(HandlesOf(k)) /\ Cardinality(HandlesOf(k)) \in Nat /\ p \notin HandlesOf(k)
    BY <1>1, FS_Subset, FS_CardinalityType DEF LInv, HandlesAreHeld, HandlesOf
  <2>2. refCounts[k] = Cardinality(HandlesOf(k))
    BY DEF LInv, CountsAreExact
  <2>3. CASE k = key[p]
    <3>1. HandlesOf(k)' = HandlesOf(k) \cup {p}
      BY <1>1, <2>3 DEF HandlesOf
    <3>2. Cardinality(HandlesOf(k) \cup {p}) = Cardinality(HandlesOf(k)) + 1
      BY <2>1, FS_AddElement
    <3> QED
      BY <1>1, <2>2, <2>3, <3>1, <3>2
  <2>4. CASE k # key[p]
    <3>1. HandlesOf(k)' = HandlesOf(k)
      BY <1>1, <2>4 DEF HandlesOf
    <3> QED
      BY <1>1, <2>2, <2>4, <3>1
  <2> QED
    BY <2>3, <2>4
<1> QED
  BY <1>2, <1>3 DEF CountsAreExact

\* The count a reader gave back is one less, and it has no handle any more.
LEMMA CountAfterRelease ==
    ASSUME LInv, NEW p \in Fetchers, p \in openHandles, ReleaseLease(p),
           \A q \in Fetchers : q # p => key'[q] = key[q]
    PROVE  CountsAreExact' /\ IsFiniteSet(openHandles') /\ openHandles' = openHandles \ {p}
<1>1. /\ openHandles' = openHandles \ {p} /\ key[p] \in Keys /\ openHandles \subseteq Fetchers
      /\ refCounts' = [refCounts EXCEPT ![key[p]] = @ - 1] /\ refCounts \in [Keys -> Int]
  BY DEF ReleaseLease, LInv, HandlesAreHeld, HandlePcs, IInv, TypeOK, CallsHaveKeys, FetchPcs, Procs
<1>2. IsFiniteSet(openHandles')
  BY <1>1, FS_RemoveElement DEF LInv, HandlesAreHeld
<1>3. ASSUME NEW k \in Keys PROVE refCounts'[k] = Cardinality(HandlesOf(k)')
  <2>1. IsFiniteSet(HandlesOf(k)) /\ Cardinality(HandlesOf(k)) \in Nat
    BY <1>1, FS_Subset, FS_CardinalityType DEF LInv, HandlesAreHeld, HandlesOf
  <2>2. refCounts[k] = Cardinality(HandlesOf(k))
    BY DEF LInv, CountsAreExact
  <2>3. CASE k = key[p]
    <3>1. HandlesOf(k)' = HandlesOf(k) \ {p} /\ p \in HandlesOf(k)
      BY <1>1, <2>3 DEF HandlesOf
    <3>2. Cardinality(HandlesOf(k) \ {p}) = Cardinality(HandlesOf(k)) - 1
      BY <2>1, <3>1, FS_RemoveElement
    <3> QED
      BY <1>1, <2>2, <2>3, <3>1, <3>2
  <2>4. CASE k # key[p]
    <3>1. HandlesOf(k)' = HandlesOf(k)
      BY <1>1, <2>4 DEF HandlesOf
    <3> QED
      BY <1>1, <2>2, <2>4, <3>1
  <2> QED
    BY <2>3, <2>4
<1> QED
  BY <1>1, <1>2, <1>3 DEF CountsAreExact


\* Every step keeps the account of the open handles.
LEMMA LeaseStepKeeps ==
    ASSUME LInv, IInv', [Next]_vars
    PROVE  HandlesAreHeld' /\ CountsAreExact'
<1>1. CASE ~LeaseStep
  <2>1. LeasesUntouched
    BY <1>1, QuietSteps DEF LInv
  <2>2. HandlesAreHeld'
    BY <2>1 DEF LeasesUntouched, LInv, HandlesAreHeld
  <2>3. ASSUME NEW k \in Keys PROVE HandlesOf(k)' = HandlesOf(k)
    BY <2>1 DEF LeasesUntouched, LInv, HandlesAreHeld, HandlesOf
  <2> QED
    BY <2>1, <2>2, <2>3 DEF LeasesUntouched, LInv, CountsAreExact
<1>2. ASSUME NEW p \in Fetchers, AcquireLease(p) PROVE HandlesAreHeld' /\ CountsAreExact'
  <2>1. openHandles' = {q \in Fetchers : pc'[q] \in HandlePcs}
    BY <1>2 DEF AcquireLease, Goto, LInv, HandlesAreHeld, HandlePcs, IInv, TypeOK, Procs
  <2> QED
    BY <1>2, <2>1, CountAfterAcquire DEF HandlesAreHeld
<1>3. ASSUME NEW p \in Fetchers, leaseVerified(p) PROVE HandlesAreHeld' /\ CountsAreExact'
  <2>1. CASE key[p] \in files
    <3>1. /\ UNCHANGED <<leases, key>>
          /\ \A q \in Fetchers : pc'[q] \in HandlePcs <=> pc[q] \in HandlePcs
      BY <1>3, <2>1 DEF leaseVerified, Goto, LInv, HandlePcs, IInv, TypeOK, Procs
    <3>2. ASSUME NEW k \in Keys PROVE HandlesOf(k)' = HandlesOf(k)
      BY <3>1 DEF HandlesOf, leases
    <3> QED
      BY <3>1, <3>2 DEF LInv, HandlesAreHeld, CountsAreExact, leases
  <2>2. CASE key[p] \notin files
    <3>1. /\ p \in openHandles /\ ReleaseLease(p)
          /\ \A q \in Fetchers : q # p => key'[q] = key[q] /\ pc'[q] = pc[q]
          /\ pc'[p] = "idle"
      BY <1>3, <2>2 DEF leaseVerified, Finish, LInv, HandlesAreHeld, HandlePcs, IInv, TypeOK, Procs
    <3>2. openHandles' = {q \in Fetchers : pc'[q] \in HandlePcs} /\ IsFiniteSet(openHandles') /\ CountsAreExact'
      BY <3>1, CountAfterRelease DEF LInv, HandlesAreHeld, HandlePcs
    <3> QED
      BY <3>2 DEF HandlesAreHeld
  <2> QED
    BY <2>1, <2>2
<1>4. ASSUME NEW p \in Fetchers, CloseLease(p) PROVE HandlesAreHeld' /\ CountsAreExact'
  <2>1. /\ p \in openHandles /\ ReleaseLease(p)
        /\ \A q \in Fetchers : q # p => key'[q] = key[q] /\ pc'[q] = pc[q]
        /\ pc'[p] = "closed"
    BY <1>4 DEF CloseLease, Goto, LInv, HandlesAreHeld, HandlePcs, IInv, TypeOK, Procs
  <2>2. openHandles' = {q \in Fetchers : pc'[q] \in HandlePcs} /\ IsFiniteSet(openHandles') /\ CountsAreExact'
    BY <2>1, CountAfterRelease DEF LInv, HandlesAreHeld, HandlePcs
  <2> QED
    BY <2>2 DEF HandlesAreHeld
<1>5. CASE Crash
  <2>1. openHandles' = {} /\ refCounts' = [k \in Keys |-> 0] /\ pc' = [q \in Procs |-> "idle"]
    BY <1>5 DEF Crash
  <2>2. HandlesAreHeld'
    BY <2>1, FS_EmptySet DEF HandlesAreHeld, HandlePcs, Procs
  <2>3. CountsAreExact'
    BY <2>1, FS_EmptySet DEF CountsAreExact, HandlesOf
  <2> QED
    BY <2>2, <2>3
<1> QED
  BY <1>1, <1>2, <1>3, <1>4, <1>5 DEF LeaseStep

\* In every reachable state the registry holds the number of open handles of
\* each key: no close counts twice, none is lost, no count goes below zero.
THEOREM LeasesAreCounted == Spec => []LInv
<1>1. Init => HandlesAreHeld /\ CountsAreExact
  <2> SUFFICES ASSUME Init PROVE HandlesAreHeld /\ CountsAreExact
    OBVIOUS
  <2>1. openHandles = {} /\ refCounts = [k \in Keys |-> 0] /\ pc = [q \in Procs |-> "idle"]
    BY DEF Init
  <2> QED
    BY <2>1, FS_EmptySet DEF HandlesAreHeld, HandlePcs, CountsAreExact, HandlesOf, Procs
<1>2. IInv /\ HandlesAreHeld /\ CountsAreExact /\ IInv' /\ [Next]_vars => HandlesAreHeld' /\ CountsAreExact'
  BY LeaseStepKeeps DEF LInv
<1> QED
  BY <1>1, <1>2, Inductive, PTL DEF Spec, LInv

\* A count is positive exactly when somebody holds a handle.
LEMMA LeasedIsHeld ==
    ASSUME LInv, NEW k \in Keys
    PROVE  isLeased(k) <=> \E p \in openHandles : key[p] = k
<1>1. IsFiniteSet(HandlesOf(k)) /\ Cardinality(HandlesOf(k)) \in Nat
  BY FS_Subset, FS_CardinalityType DEF LInv, HandlesAreHeld, HandlesOf
<1>2. Cardinality(HandlesOf(k)) = 0 <=> HandlesOf(k) = {}
  BY <1>1, FS_EmptySet
<1>3. refCounts[k] = Cardinality(HandlesOf(k))
  BY DEF LInv, CountsAreExact
<1>4. isLeased(k) <=> HandlesOf(k) # {}
  BY <1>1, <1>2, <1>3 DEF isLeased
<1> QED
  BY <1>4 DEF HandlesOf

\* A key is leased exactly while a handle for it is open, although handles are
\* closed twice (CacheFileLeases.kt).
THEOREM LeasesAreBalanced == Spec => []LeasesMatchHandles
<1>1. LInv => LeasesMatchHandles
  BY LeasedIsHeld DEF LeasesMatchHandles
<1> QED
  BY <1>1, LeasesAreCounted, PTL

-----------------------------------------------------------------------------
(* Readers *)

\* The file of a reader is there, and nobody is about to delete it, unless
\* it was doomed before the reader verified it.
FilesAreSpared ==
    \A p \in Fetchers : pc[p] = "reading" /\ p \notin raced => key[p] \in files \ victims

\* What is read is leased, so that it never becomes a victim.
LEMMA ReaderStep ==
    ASSUME LInv, FilesAreSpared, [Next]_vars
    PROVE  FilesAreSpared'
<1>1. CASE ~LeaseStep
  <2>1. LeasesUntouched
    BY <1>1, QuietSteps DEF LInv
  <2> SUFFICES ASSUME NEW p \in Fetchers, pc'[p] = "reading", p \notin raced'
               PROVE  key'[p] \in files' \ victims'
    BY DEF FilesAreSpared
  <2>2. pc[p] = "reading" /\ p \notin raced /\ key'[p] = key[p] /\ p \in openHandles
    BY <2>1 DEF LeasesUntouched, HandlePcs, LInv, HandlesAreHeld
  <2>3. key[p] \in files \ victims
    BY <2>2 DEF FilesAreSpared
  <2>4. key[p] \in Keys
    BY <2>3 DEF LInv, IInv, TypeOK
  <2>5. isLeased(key[p])
    BY <2>2, <2>4, LeasedIsHeld
  <2> QED
    BY <2>1, <2>2, <2>3, <2>5 DEF LeasesUntouched
<1>2. ASSUME NEW p \in Fetchers, AcquireLease(p) PROVE FilesAreSpared'
  BY <1>2 DEF AcquireLease, Goto, LInv, IInv, TypeOK, Procs, FilesAreSpared, dir, sweep, ghost
<1>3. ASSUME NEW p \in Fetchers, leaseVerified(p) PROVE FilesAreSpared'
  BY <1>3 DEF leaseVerified, Goto, Finish, LInv, IInv, TypeOK, Procs, FilesAreSpared, dir, sweep
<1>4. ASSUME NEW p \in Fetchers, CloseLease(p) PROVE FilesAreSpared'
  BY <1>4 DEF CloseLease, Goto, LInv, IInv, TypeOK, Procs, FilesAreSpared, dir, sweep
<1>5. CASE Crash
  BY <1>5 DEF Crash, FilesAreSpared, Procs
<1> QED
  BY <1>1, <1>2, <1>3, <1>4, <1>5 DEF LeaseStep

\* A file is readable as long as its lease is held (ZipImageFetcher.kt), except
\* in the window that trimToSize, clearEncrypted and clearAll leave between the
\* look at the leases and the deletion.
THEOREM ReadersAreSafe == Spec => []ReadersKeepTheirFile
<1>1. Init => FilesAreSpared
  BY DEF Init, FilesAreSpared, Procs
<1>2. LInv /\ FilesAreSpared /\ [Next]_vars => FilesAreSpared'
  BY ReaderStep
<1>3. FilesAreSpared => ReadersKeepTheirFile
  BY DEF FilesAreSpared, ReadersKeepTheirFile
<1> QED
  BY <1>1, <1>2, <1>3, LeasesAreCounted, PTL DEF Spec

-----------------------------------------------------------------------------
(* Writers *)

\* Every temporary file has a writer that will rename it or delete it.
TmpHasWriter ==
    \A p \in tmp \ {Orphan} : p \in Fetchers /\ pc[p] \in {"writing", "rename"}

\* Writing and renaming are the only steps that make a temporary file, or leave it.
LEMMA TmpStep ==
    ASSUME IInv, TmpHasWriter, [Next]_vars
    PROVE  TmpHasWriter'
<1> USE DEF TmpHasWriter, SweepPcs, IInv, TypeOK, PutOps, Procs,
        dir, locks, leases, proc, sweep, ghost
<1>1. ASSUME NEW p \in Fetchers, Lookup(p) PROVE TmpHasWriter'
  BY <1>1, ProcsAssumption DEF Lookup, Start
<1>2. ASSUME NEW p \in Fetchers, Touch(p) PROVE TmpHasWriter'
  BY <1>2, ProcsAssumption DEF Touch, Goto
<1>3. ASSUME NEW p \in Fetchers, LockAndRecheck(p) PROVE TmpHasWriter'
  BY <1>3, ProcsAssumption DEF LockAndRecheck, Goto
<1>4. ASSUME NEW p \in Fetchers, CreateTmp(p) PROVE TmpHasWriter'
  BY <1>4, ProcsAssumption DEF CreateTmp, Goto
<1>5. ASSUME NEW p \in Fetchers, WriterFails(p) PROVE TmpHasWriter'
  BY <1>5, ProcsAssumption DEF WriterFails, Throw, Finish
<1>6. ASSUME NEW p \in Fetchers, WriterReturns(p) PROVE TmpHasWriter'
  BY <1>6, ProcsAssumption DEF WriterReturns, Goto, Throw, Finish
<1>7. ASSUME NEW p \in Fetchers, Rename(p) PROVE TmpHasWriter'
  BY <1>7, ProcsAssumption DEF Rename, Goto, CanCommit
<1>8. ASSUME NEW p \in Fetchers, DropDuplicate(p) PROVE TmpHasWriter'
  BY <1>8, ProcsAssumption DEF DropDuplicate, Goto, CanCommit
<1>9. ASSUME NEW p \in Fetchers, RenameFails(p) PROVE TmpHasWriter'
  BY <1>9, ProcsAssumption DEF RenameFails, CanCommit, Throw, Finish
<1>10. ASSUME NEW p \in Fetchers, Measure(p) PROVE TmpHasWriter'
  BY <1>10, ProcsAssumption DEF Measure, Goto
<1>11. ASSUME NEW p \in Fetchers, getOrInitSize(p) PROVE TmpHasWriter'
  BY <1>11, ProcsAssumption DEF getOrInitSize, Goto
<1>12. ASSUME NEW p \in Fetchers, Account(p) PROVE TmpHasWriter'
  BY <1>12, ProcsAssumption DEF Account, Goto
<1>13. ASSUME NEW p \in Fetchers, DropResult(p) PROVE TmpHasWriter'
  BY <1>13, ProcsAssumption DEF DropResult, Finish
<1>14. ASSUME NEW p \in Fetchers, AcquireLease(p) PROVE TmpHasWriter'
  BY <1>14, ProcsAssumption DEF AcquireLease, Goto
<1>15. ASSUME NEW p \in Fetchers, leaseVerified(p) PROVE TmpHasWriter'
  BY <1>15, ProcsAssumption DEF leaseVerified, Goto, Finish
<1>16. ASSUME NEW p \in Fetchers, CloseLease(p) PROVE TmpHasWriter'
  BY <1>16, ProcsAssumption DEF CloseLease, Goto
<1>17. ASSUME NEW p \in Fetchers, CloseAgain(p) PROVE TmpHasWriter'
  BY <1>17, ProcsAssumption DEF CloseAgain, Finish
<1>18. ASSUME NEW p \in Maintainers, StartTrim(p) PROVE TmpHasWriter'
  BY <1>18, ProcsAssumption DEF StartTrim, Start
<1>19. ASSUME NEW p \in Maintainers, clearEncrypted(p) PROVE TmpHasWriter'
  BY <1>19, ProcsAssumption DEF clearEncrypted, Start
<1>20. ASSUME NEW p \in Maintainers, clearAll(p) PROVE TmpHasWriter'
  BY <1>20, ProcsAssumption DEF clearAll, Start
<1>21. ASSUME NEW p \in Procs, TrimScan(p) PROVE TmpHasWriter'
  BY <1>21, ProcsAssumption DEF TrimScan, Goto, planLruTrim
<1>22. ASSUME NEW p \in Procs, Delete(p) PROVE TmpHasWriter'
  BY <1>22, ProcsAssumption DEF Delete
<1>23. ASSUME NEW p \in Procs, TrimEnd(p) PROVE TmpHasWriter'
  BY <1>23, ProcsAssumption DEF TrimEnd, EndSweep, Goto, Finish
<1>24. ASSUME NEW p \in Procs, ClearEncryptedEnd(p) PROVE TmpHasWriter'
  BY <1>24, ProcsAssumption DEF ClearEncryptedEnd, EndSweep, Goto, Finish
<1>25. ASSUME NEW p \in Procs, ClearVisit(p) PROVE TmpHasWriter'
  BY <1>25, ProcsAssumption DEF ClearVisit
<1>26. ASSUME NEW p \in Procs, ClearVisitTmp(p) PROVE TmpHasWriter'
  BY <1>26, ProcsAssumption DEF ClearVisitTmp
<1>27. ASSUME NEW p \in Procs, ClearAllEnd(p) PROVE TmpHasWriter'
  BY <1>27, ProcsAssumption DEF ClearAllEnd, EndSweep, Goto, Finish
<1>28. CASE Crash
  BY <1>28, ProcsAssumption DEF Crash
<1>29. CASE UNCHANGED vars
  BY <1>29, ProcsAssumption DEF vars
<1> QED
  BY <1>1, <1>2, <1>3, <1>4, <1>5, <1>6, <1>7, <1>8, <1>9, <1>10, <1>11, <1>12, <1>13,
     <1>14, <1>15, <1>16, <1>17, <1>18, <1>19, <1>20, <1>21, <1>22, <1>23, <1>24, <1>25,
     <1>26, <1>27, <1>28, <1>29 DEF Next, FetchStep, SweepStep

\* Two writers that wait for their accounting hold the stripes of their keys,
\* so their keys differ.
LEMMA CommittersDiffer ==
    ASSUME IInv
    PROVE  \A p, q \in Pending : key[p] = key[q] => p = q
BY DEF IInv, PendingHoldStripe, Pending

\* No write leaves a temporary file, and no two count the same file, whatever is
\* trimmed or cleared meanwhile (ArchiveDiskCache.kt, putDirect and
\* putDirectSuspend).
THEOREM WritersCommitCleanly == Spec => []CommitsAreClean
<1>1. Init => TmpHasWriter
  BY DEF Init, TmpHasWriter
<1>2. IInv /\ TmpHasWriter /\ [Next]_vars => TmpHasWriter'
  BY TmpStep
<1>3. IInv /\ TmpHasWriter => CommitsAreClean
  BY CommittersDiffer DEF TmpHasWriter, CommitsAreClean
<1> QED
  BY <1>1, <1>2, <1>3, Inductive, PTL DEF Spec

=============================================================================
