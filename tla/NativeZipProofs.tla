--------------------------- MODULE NativeZipProofs ---------------------------
(* Proofs about NativeZip, for any number of threads, any files and any      *)
(* bound of write().                                                         *)
EXTENDS NativeZip, SequenceTheorems, WellFoundedInduction, TLAPS

-----------------------------------------------------------------------------
(* Who is at work.                                                           *)

Fields == {"at", "entry", "src", "done", "ok", "toFile"}
Working(t) == op[t].at \in {"openOut", "read", "write", "closeOut"}

Shape == /\ DOMAIN op = Threads
         /\ \A t \in Threads : DOMAIN op[t] = Fields
\* A call holds the lock from its first step to its last.
CallsHoldLock == \A t \in Threads : op[t].at \notin {"idle", "returned"} => lock = t
\* The session is open while a call is at work.
WorkersNeedSession == \A t \in Threads : Working(t) => session = "open"
OpenIsMapped == session = "open" => mapped
ClosedIsEmpty == session = "closed" => owned = {} /\ ~mapped

LockInv == Shape /\ CallsHoldLock /\ WorkersNeedSession /\ OpenIsMapped /\ ClosedIsEmpty

\* What Returns leaves of the other calls: nobody else was at work.
LEMMA ReturnKeepsLock ==
  ASSUME LockInv, NEW t \in Threads, lock = t, op'[t].at = "returned", DOMAIN op' = Threads,
         \A u \in Threads \ {t} : op'[u] = op[u]
  PROVE  CallsHoldLock'
BY DEF LockInv, CallsHoldLock

LEMMA LockInit == Init => LockInv
BY DEF Init, LockInv, Shape, Fields, Working, CallsHoldLock, WorkersNeedSession, OpenIsMapped, ClosedIsEmpty, Idle

\* A call that begins finds the lock free, so nobody is at work.
LEMMA EntersAlone ==
  ASSUME LockInv, NEW t \in Threads, Enters(t)
  PROVE  \A u \in Threads : op[u].at \in {"idle", "returned"}
BY ThreadAssumption DEF LockInv, CallsHoldLock, Enters

LEMMA LockStep == LockInv /\ [Next]_vars => LockInv'
<1> SUFFICES ASSUME LockInv, [Next]_vars PROVE LockInv'
  OBVIOUS
<1> USE DEF Fields
<1>1. CASE Open
  BY <1>1 DEF Open, LockInv, Shape, CallsHoldLock, WorkersNeedSession, OpenIsMapped, ClosedIsEmpty, Working
<1>2. ASSUME NEW t \in Threads, NEW i, ExtractToFile(t, i) PROVE LockInv'
  <2>1. \A u \in Threads : op[u].at \in {"idle", "returned"}
    BY <1>2, EntersAlone DEF ExtractToFile
  <2>2. /\ DOMAIN op' = Threads /\ \A u \in Threads : DOMAIN op'[u] = Fields
        /\ \A u \in Threads \ {t} : op'[u] = op[u]
        /\ op'[t].at \in {"openOut", "refuse"} /\ (op'[t].at = "openOut" => session = "open")
    BY <1>2 DEF ExtractToFile, LockInv, Shape, Idle
  <2> QED BY <1>2, <2>1, <2>2 DEF ExtractToFile, Enters, LockInv, Shape, CallsHoldLock, WorkersNeedSession,
                                  OpenIsMapped, ClosedIsEmpty, Working
<1>3. ASSUME NEW t \in Threads, NEW i, ExtractToDirectBuffer(t, i) PROVE LockInv'
  <2>1. \A u \in Threads : op[u].at \in {"idle", "returned"}
    BY <1>3, EntersAlone DEF ExtractToDirectBuffer
  <2>2. /\ DOMAIN op' = Threads /\ \A u \in Threads : DOMAIN op'[u] = Fields
        /\ \A u \in Threads \ {t} : op'[u] = op[u]
        /\ op'[t].at = "leave"
    BY <1>3 DEF ExtractToDirectBuffer, LockInv, Shape, Idle
  <2>3. session = "closed" => owned' = owned
    BY <1>3 DEF ExtractToDirectBuffer
  <2> QED BY <1>3, <2>1, <2>2, <2>3 DEF ExtractToDirectBuffer, Enters, LockInv, Shape, CallsHoldLock,
                                  WorkersNeedSession, OpenIsMapped, ClosedIsEmpty, Working
<1>4. ASSUME NEW t \in Threads, Refuse(t) \/ Leave(t) PROVE LockInv'
  <2>1. /\ DOMAIN op' = Threads /\ \A u \in Threads : DOMAIN op'[u] = Fields
        /\ \A u \in Threads \ {t} : op'[u] = op[u]
        /\ op'[t].at = "returned" /\ lock = t
    BY <1>4 DEF Refuse, Leave, Returns, LockInv, Shape, CallsHoldLock
  <2>2. CallsHoldLock'
    BY <2>1, ReturnKeepsLock
  <2>3. session' = session /\ mapped' = mapped /\ owned' = owned
    BY <1>4 DEF Refuse, Leave
  <2> QED BY <2>1, <2>2, <2>3 DEF LockInv, Shape, WorkersNeedSession, OpenIsMapped, ClosedIsEmpty, Working
<1>5. ASSUME NEW t \in Threads, OpenOut(t) \/ CloseOut(t) PROVE LockInv'
  <2>1. /\ DOMAIN op' = Threads /\ \A u \in Threads : DOMAIN op'[u] = Fields
        /\ \A u \in Threads \ {t} : op'[u] = op[u]
        /\ \/ op'[t].at = "returned"
           \/ op'[t].at = "read" /\ lock' = lock
        /\ lock = t /\ session = "open"
    BY <1>5 DEF OpenOut, CloseOut, Returns, Goes, LockInv, Shape, CallsHoldLock, WorkersNeedSession, Working
  <2>2. CallsHoldLock'
    BY <2>1, ReturnKeepsLock DEF LockInv, CallsHoldLock
  <2> QED BY <1>5, <2>1, <2>2 DEF OpenOut, CloseOut, LockInv, Shape, WorkersNeedSession, OpenIsMapped, ClosedIsEmpty, Working
<1>6. ASSUME NEW t \in Threads, ReadPayload(t) \/ Write(t) PROVE LockInv'
  <2>1. /\ DOMAIN op' = Threads /\ \A u \in Threads : DOMAIN op'[u] = Fields
        /\ \A u \in Threads \ {t} : op'[u] = op[u]
        /\ lock = t /\ lock' = lock /\ session = "open"
    <3>1. CASE ReadPayload(t)
      BY <3>1 DEF ReadPayload, LockInv, Shape, CallsHoldLock, WorkersNeedSession, Working
    <3>2. CASE Write(t)
      BY <3>2 DEF Write, Goes, LockInv, Shape, CallsHoldLock, WorkersNeedSession, Working
    <3> QED BY <1>6, <3>1, <3>2
  <2> QED BY <1>6, <2>1 DEF ReadPayload, Write, LockInv, Shape, CallsHoldLock, WorkersNeedSession, OpenIsMapped, ClosedIsEmpty, Working
<1>7. ASSUME NEW t \in Threads, Close(t) PROVE LockInv'
  <2>1. \A u \in Threads : op[u].at \in {"idle", "returned"}
    BY <1>7, EntersAlone DEF Close
  <2>2. /\ DOMAIN op' = Threads /\ \A u \in Threads : DOMAIN op'[u] = Fields
        /\ \A u \in Threads \ {t} : op'[u] = op[u]
        /\ op'[t].at = "leave"
    BY <1>7 DEF Close, Goes, LockInv, Shape
  <2> QED BY <1>7, <2>1, <2>2 DEF Close, Enters, LockInv, Shape, CallsHoldLock, WorkersNeedSession,
                                  OpenIsMapped, ClosedIsEmpty, Working
<1>8. ASSUME NEW t \in Threads, Again(t) PROVE LockInv'
  <2>1. /\ DOMAIN op' = Threads /\ \A u \in Threads : DOMAIN op'[u] = Fields
        /\ \A u \in Threads \ {t} : op'[u] = op[u]
        /\ op'[t].at = "idle"
    BY <1>8 DEF Again, LockInv, Shape, Idle
  <2> QED BY <1>8, <2>1 DEF Again, LockInv, Shape, CallsHoldLock, WorkersNeedSession, OpenIsMapped, ClosedIsEmpty, Working
<1>9. CASE UNCHANGED vars
  BY <1>9 DEF vars, LockInv, Shape, CallsHoldLock, WorkersNeedSession, OpenIsMapped, ClosedIsEmpty, Working
<1> QED BY <1>1, <1>2, <1>3, <1>4, <1>5, <1>6, <1>7, <1>8, <1>9 DEF Next

THEOREM LockIsKept == Spec => []LockInv
BY LockInit, LockStep, PTL DEF Spec

\* No call of the engine finds its archive gone, and nothing is left of a closed one: whatever threads
\* extract and close at once (NativeZipSession.lifecycleLock, nativeClose).
THEOREM HandlesOutliveCalls == Spec => []HandleOutlivesCalls
<1>1. LockInv => HandleOutlivesCalls
  BY DEF LockInv, WorkersNeedSession, OpenIsMapped, ClosedIsEmpty, HandleOutlivesCalls, Working
<1> QED BY <1>1, LockIsKept, PTL

-----------------------------------------------------------------------------
(* What the parser reads and what its entries are.                           *)

LEMMA LeastNat ==
  ASSUME NEW T \in SUBSET Nat, T # {}
  PROVE  \E m \in T : \A n \in T : m <= n
<1> DEFINE R == OpToRel(<, Nat)
<1>1. \E m \in T : \A n \in T : <<n, m>> \notin R
  <2>1. IsWellFoundedOn(R, Nat)
    BY NatLessThanWellFounded
  <2> HIDE DEF R
  <2> QED BY <2>1, WFMin
<1>2. \A m, n \in Nat : <<n, m>> \in R <=> n < m
  BY DEF OpToRel
<1> HIDE DEF R
<1>3. PICK m \in T : \A n \in T : <<n, m>> \notin R
  BY <1>1
<1>4. \A n \in T : n \in Nat /\ m \in Nat /\ ~(n < m)
  BY <1>2, <1>3
<1> QED BY <1>4

LEMMA LowIsIn ==
  ASSUME NEW T \in SUBSET Nat, T # {}
  PROVE  Low(T) \in T
BY LeastNat DEF Low

\* All reads are inside of the file f.
Inside(f, R) == \A r \in R : r[1] >= 0 /\ r[1] + r[2] <= f.total

LEMMA FileFields ==
  ASSUME NEW f \in Files
  PROVE  f.total \in Nat /\ \A pos \in DOMAIN f.at : Unsigned(f.at[pos])
BY FileAssumption

\* The end record that is found is in the file.
LEMMA EocdInside ==
  ASSUME NEW f \in Files, FindEocd(f) # -1
  PROVE  /\ FindEocd(f) \in Nat /\ FindEocd(f) + EocdMinSize <= f.total
         /\ HasSig(f, FindEocd(f), "eocd")
<1> DEFINE start == f.total - EocdMinSize
           backs == {b \in 0..Lesser(start, CommentMax) : HasSig(f, start - b, "eocd") /\ f.at[start - b].commentLen <= b}
<1>1. ~(start < 0) /\ backs # {} /\ FindEocd(f) = start - Low(backs)
  BY ZenonT(30) DEF FindEocd
<1>2. start \in Int /\ f.total \in Nat
  BY FileFields DEF EocdMinSize
<1>3. start >= 0 /\ backs # {} /\ FindEocd(f) = start - Low(backs)
  BY <1>1, <1>2
<1>4. Lesser(start, CommentMax) \in Nat /\ Lesser(start, CommentMax) <= start
  BY ONLY <1>3, <1>2, LimitAssumption DEF Lesser
<1>5. Low(backs) \in backs
  <2>1. backs \in SUBSET Nat
    BY <1>4
  <2> HIDE DEF backs
  <2> QED BY <1>3, <2>1, LowIsIn
<1>6. Low(backs) \in 0..Lesser(start, CommentMax) /\ HasSig(f, start - Low(backs), "eocd")
  BY ZenonT(30), <1>5
<1> HIDE DEF backs
<1> QED BY <1>3, <1>2, <1>4, <1>6 DEF EocdMinSize

\* Where the directory is said to be is a place, if only a claimed one.
LEMMA DirectoryInside ==
  ASSUME NEW f \in Files, NEW eocd \in Nat, eocd + EocdMinSize <= f.total, HasSig(f, eocd, "eocd")
  PROVE  LET cd == ResolveCentralDirectory(f, eocd) IN
         Inside(f, cd.reads) /\ cd.cdOffset \in Nat /\ cd.cdSize \in Nat /\ cd.entries \in Nat
<1> DEFINE cd == ResolveCentralDirectory(f, eocd)
           locator == eocd - Zip64LocatorSize
           found == locator >= 0 /\ HasSig(f, locator, "locator")
           z == f.at[locator].zip64Eocd
           fits == found /\ z < f.total /\ InBounds(f, z, Zip64EocdMinSize)
           zip64 == fits /\ HasSig(f, z, "zip64Eocd") /\ (f.at[z].cdOffset # 0 \/ f.at[z].cdSize # 0)
           where == IF zip64 THEN f.at[z] ELSE f.at[eocd]
<1>1. /\ cd.cdOffset = where.cdOffset /\ cd.cdSize = where.cdSize /\ cd.entries = where.entries
      /\ cd.reads = {<<eocd, EocdMinSize>>} \cup (IF locator >= 0 THEN {<<locator, 4>>} ELSE {})
                    \cup (IF found THEN {<<locator, Zip64LocatorSize>>} ELSE {})
                    \cup (IF fits THEN {<<z, Zip64EocdMinSize>>} ELSE {})
  BY DEF ResolveCentralDirectory
<1>2. f.total \in Nat /\ locator \in Int
  BY FileFields DEF Zip64LocatorSize
<1>3. {f.at[eocd].entries, f.at[eocd].cdSize, f.at[eocd].cdOffset} \subseteq Nat
  BY FileFields DEF HasSig, Unsigned
<1>4. ASSUME zip64 PROVE {f.at[z].entries, f.at[z].cdSize, f.at[z].cdOffset} \subseteq Nat
  BY <1>4, FileFields DEF HasSig, Unsigned
<1>5. ASSUME found PROVE z \in Nat
  BY <1>5, FileFields DEF HasSig, Unsigned
<1>6. ASSUME fits PROVE z + Zip64EocdMinSize <= f.total
  BY <1>2, <1>5, <1>6 DEF InBounds, Zip64EocdMinSize
<1>7. ASSUME NEW r \in cd.reads PROVE r[1] >= 0 /\ r[1] + r[2] <= f.total
  <2>1. \/ r = <<eocd, EocdMinSize>>
        \/ locator >= 0 /\ r \in {<<locator, 4>>, <<locator, Zip64LocatorSize>>}
        \/ fits /\ r = <<z, Zip64EocdMinSize>>
    BY <1>1, <1>7
  <2>2. CASE r = <<eocd, EocdMinSize>>
    BY <2>2
  <2>3. CASE locator >= 0 /\ r \in {<<locator, 4>>, <<locator, Zip64LocatorSize>>}
    BY <1>2, <2>3 DEF Zip64LocatorSize, EocdMinSize
  <2>4. CASE fits /\ r = <<z, Zip64EocdMinSize>>
    BY <1>5, <1>6, <2>4
  <2> QED BY <2>1, <2>2, <2>3, <2>4
<1> QED BY <1>1, <1>3, <1>4, <1>7 DEF Inside

\* An entry has unsigned numbers, be they those of the record or of its extra field.
IsSized(e) == e.uncompressedSize \in Nat /\ e.compressedSize \in Nat /\ e.localHeaderOffset \in Nat

LEMMA ExtraKeepsSized ==
  ASSUME NEW fields, NEW len, NEW n, IsSized(n),
         DOMAIN fields \subseteq Nat,
         \A i \in DOMAIN fields : fields[i].zip64 =>
            fields[i].size \in Nat /\ \A k \in 1..fields[i].size \div 8 : fields[i].values[k] \in Nat,
         {"uncompressedSize", "compressedSize", "localHeaderOffset"} \subseteq DOMAIN n,
         n = [x \in DOMAIN n |-> n[x]]
  PROVE  IsSized(ApplyZip64Extra(fields, len, n))
<1> DEFINE start == CHOOSE start : start = [i \in 1..Len(fields) + 1 |-> IF i = 1 THEN 0 ELSE start[i - 1] + 4 + fields[i - 1].size]
           whole == {i \in DOMAIN fields : start[i + 1] <= len}
           zip64 == {i \in whole : fields[i].zip64 /\ \A k \in 1..i : k \in whole}
           x == fields[Low(zip64)]
           Next0(v, k) == IF v = Escape32 /\ 8 * (k + 1) <= x.size THEN [v |-> x.values[k + 1], k |-> k + 1] ELSE [v |-> v, k |-> k]
           uncompressed == Next0(n.uncompressedSize, 0)
           compressed == Next0(n.compressedSize, uncompressed.k)
           offset == Next0(n.localHeaderOffset, compressed.k)
<1>1. ApplyZip64Extra(fields, len, n) =
        IF zip64 = {} THEN n
        ELSE [n EXCEPT !.uncompressedSize = uncompressed.v, !.compressedSize = compressed.v, !.localHeaderOffset = offset.v]
  BY DEF ApplyZip64Extra
<1>2. CASE zip64 = {}
  BY <1>1, <1>2
<1>3. CASE zip64 # {}
  <2>1. x.size \in Nat /\ \A k \in 1..x.size \div 8 : x.values[k] \in Nat
    <3>1. zip64 \in SUBSET Nat /\ \A i \in zip64 : i \in DOMAIN fields /\ fields[i].zip64
      OBVIOUS
    <3> HIDE DEF zip64
    <3>2. Low(zip64) \in zip64
      BY <1>3, <3>1, LowIsIn
    <3> QED BY <3>1, <3>2
  <2> HIDE DEF x
  <2>2. ASSUME NEW v \in Nat, NEW k \in Nat PROVE Next0(v, k).v \in Nat /\ Next0(v, k).k \in Nat
    <3>1. CASE 8 * (k + 1) <= x.size
      <4>1. k + 1 \in 1..x.size \div 8
        BY <2>1, <3>1
      <4> QED BY <2>1, <4>1
    <3>2. CASE ~(8 * (k + 1) <= x.size)
      BY <3>2
    <3> QED BY <3>1, <3>2
  <2> HIDE DEF Next0
  <2>3. uncompressed.v \in Nat /\ uncompressed.k \in Nat
    BY <2>2 DEF IsSized
  <2>4. compressed.v \in Nat /\ compressed.k \in Nat
    BY <2>2, <2>3 DEF IsSized
  <2>5. offset.v \in Nat
    BY <2>2, <2>4 DEF IsSized
  <2> HIDE DEF uncompressed, compressed, offset, zip64
  <2> QED BY <1>1, <1>3, <2>3, <2>4, <2>5 DEF IsSized
<1> QED BY <1>2, <1>3

LEMMA EntryIsSized ==
  ASSUME NEW r, r.sig = "central", Unsigned(r)
  PROVE  IsSized(EntryOf(r))
<1> DEFINE n == [name |-> r.name, method |-> r.method, compressedSize |-> r.compressedSize, uncompressedSize |-> r.uncompressedSize,
                 localHeaderOffset |-> r.localHeaderOffset, encrypted |-> r.encrypted,
                 isDirectory |-> r.name # <<>> /\ r.name[Len(r.name)] \in {47, 92}]
<1>1. IsSized(n) /\ {"uncompressedSize", "compressedSize", "localHeaderOffset"} \subseteq DOMAIN n /\ n = [x \in DOMAIN n |-> n[x]]
  BY DEF IsSized, Unsigned
<1> HIDE DEF n
<1>2. IsSized(ApplyZip64Extra(r.extra, r.extraLen, n))
  BY <1>1, ExtraKeepsSized DEF Unsigned
<1> QED BY <1>2 DEF EntryOf, n

FirstRecord(cdOffset) == [ok |-> TRUE, pos |-> cdOffset, entries |-> <<>>, reads |-> {}]

\* There is a function that is defined by what it is one record before.
LEMMA StepsExist ==
  ASSUME NEW f, NEW cdOffset, NEW cdEnd, NEW count \in Nat
  PROVE  \E g : g = [i \in 0..count |-> IF i = 0 THEN FirstRecord(cdOffset) ELSE NextRecord(f, cdEnd, g[i - 1])]
<1> DEFINE Steps(n) == \E g : g = [i \in 0..n |-> IF i = 0 THEN FirstRecord(cdOffset) ELSE NextRecord(f, cdEnd, g[i - 1])]
           Bad == {n \in Nat : ~Steps(n)}
<1>1. Steps(0)
  <2> DEFINE h == [i \in 0..0 |-> FirstRecord(cdOffset)]
  <2>1. h = [i \in 0..0 |-> IF i = 0 THEN FirstRecord(cdOffset) ELSE NextRecord(f, cdEnd, h[i - 1])]
    OBVIOUS
  <2> QED BY <2>1
<1>2. ASSUME NEW n \in Nat, Steps(n) PROVE Steps(n + 1)
  <2>1. PICK g : g = [i \in 0..n |-> IF i = 0 THEN FirstRecord(cdOffset) ELSE NextRecord(f, cdEnd, g[i - 1])]
    BY <1>2
  <2> DEFINE h == [i \in 0..(n + 1) |-> IF i = n + 1 THEN NextRecord(f, cdEnd, g[n]) ELSE g[i]]
  <2>2. \A i \in 0..(n + 1) : h[i] = IF i = 0 THEN FirstRecord(cdOffset) ELSE NextRecord(f, cdEnd, h[i - 1])
    <3> TAKE i \in 0..(n + 1)
    <3>1. CASE i = 0
      <4>1. g[0] = FirstRecord(cdOffset)
        BY <2>1
      <4> QED BY <3>1, <4>1
    <3>2. CASE i \in 1..n
      <4>1. g[i] = NextRecord(f, cdEnd, g[i - 1])
        BY <2>1, <3>2
      <4> QED BY <3>2, <4>1
    <3>3. CASE i = n + 1
      BY <3>3
    <3> QED BY <3>1, <3>2, <3>3
  <2>3. h = [i \in 0..(n + 1) |-> h[i]]
    OBVIOUS
  <2> HIDE DEF h
  <2>4. h = [i \in 0..(n + 1) |-> IF i = 0 THEN FirstRecord(cdOffset) ELSE NextRecord(f, cdEnd, h[i - 1])]
    BY <2>2, <2>3
  <2> QED BY <2>4
<1> HIDE DEF Steps
<1>3. Bad = {}
  <2> SUFFICES ASSUME Bad # {} PROVE FALSE
    OBVIOUS
  <2>1. PICK m \in Bad : \A n \in Bad : m <= n
    BY LeastNat
  <2>2. m # 0
    BY <1>1, <2>1
  <2>3. m - 1 \in Nat /\ m - 1 \notin Bad
    BY <2>1, <2>2
  <2> QED BY <1>2, <2>1, <2>3
<1>4. Steps(count)
  BY <1>3
<1> QED BY <1>4 DEF Steps

\* What holds of the parser after any number of records: no read was outside of the file, and the
\* entries are those of records.
Sound(f, cdEnd, s) ==
  /\ s.ok \in BOOLEAN /\ s.pos \in Nat /\ Inside(f, s.reads)
  /\ s.entries \in Seq({EntryOf(f.at[p]) : p \in {q \in DOMAIN f.at : f.at[q].sig = "central"}})

LEMMA RecordIsSound ==
  ASSUME NEW f \in Files, NEW cdEnd \in Nat, cdEnd <= f.total, NEW s, Sound(f, cdEnd, s)
  PROVE  Sound(f, cdEnd, NextRecord(f, cdEnd, s))
<1> DEFINE header == s.pos + CentralHeaderSize <= cdEnd /\ InBounds(f, s.pos, CentralHeaderSize)
           r == f.at[s.pos]
           fits == header /\ HasSig(f, s.pos, "central") /\ RecordSize(r) <= cdEnd - s.pos
           E == {EntryOf(f.at[p]) : p \in {q \in DOMAIN f.at : f.at[q].sig = "central"}}
           next == NextRecord(f, cdEnd, s)
<1>1. CASE ~s.ok
  BY <1>1 DEF NextRecord
<1>2. CASE s.ok /\ ~fits
  <2>1. next.ok \in BOOLEAN /\ next.pos = s.pos /\ next.entries = s.entries
        /\ next.reads = s.reads \cup (IF header THEN {<<s.pos, CentralHeaderSize>>} ELSE {})
    BY <1>2 DEF NextRecord
  <2>2. ASSUME header PROVE s.pos >= 0 /\ s.pos + CentralHeaderSize <= f.total
    BY <2>2, FileFields DEF Sound, CentralHeaderSize
  <2>3. Inside(f, next.reads)
    BY <2>1, <2>2 DEF Sound, Inside
  <2> QED BY <2>1, <2>3 DEF Sound
<1>3. CASE s.ok /\ fits
  <2>1. next.ok \in BOOLEAN /\ next.pos = s.pos + RecordSize(r) /\ next.entries = Append(s.entries, EntryOf(r))
        /\ next.reads = s.reads \cup {<<s.pos, CentralHeaderSize + r.nameLen + r.extraLen>>}
    BY <1>3 DEF NextRecord
  <2>2. r.nameLen \in Nat /\ r.extraLen \in Nat /\ r.commentLen \in Nat /\ s.pos \in DOMAIN f.at /\ r.sig = "central"
    BY <1>3, FileFields DEF HasSig, Unsigned
  <2>3. RecordSize(r) \in Nat /\ CentralHeaderSize + r.nameLen + r.extraLen <= RecordSize(r)
    BY <2>2 DEF RecordSize, CentralHeaderSize
  <2>4. s.pos >= 0 /\ s.pos + (CentralHeaderSize + r.nameLen + r.extraLen) <= f.total
    <3>1. RecordSize(r) <= cdEnd - s.pos /\ s.pos \in Nat /\ f.total \in Nat
      BY <1>3, FileFields DEF Sound
    <3> QED BY <2>2, <2>3, <3>1 DEF CentralHeaderSize
  <2>5. Inside(f, next.reads)
    BY <2>1, <2>4 DEF Sound, Inside
  <2>6. next.entries \in Seq(E)
    <3>1. EntryOf(r) \in E
      BY <2>2
    <3>2. s.entries \in Seq(E)
      BY DEF Sound
    <3> HIDE DEF E
    <3> QED BY <2>1, <3>1, <3>2
  <2> QED BY <2>1, <2>3, <2>5, <2>6 DEF Sound
<1> QED BY <1>1, <1>2, <1>3 DEF Sound

\* All records of a directory.
LEMMA DirectoryIsSound ==
  ASSUME NEW f \in Files, NEW cdOffset \in Nat, NEW cdSize \in Nat, NEW count \in Nat
  PROVE  LET p == ParseCentralDirectory(f, cdOffset, cdSize, count) IN
         Inside(f, p.reads) /\ \A i \in DOMAIN p.entries : IsSized(p.entries[i])
<1> DEFINE p == ParseCentralDirectory(f, cdOffset, cdSize, count)
           cdEnd == cdOffset + cdSize
           step == CHOOSE g : g = [i \in 0..count |-> IF i = 0 THEN FirstRecord(cdOffset) ELSE NextRecord(f, cdEnd, g[i - 1])]
           n == Lesser(count, (cdSize \div CentralHeaderSize) + 1)
<1>1. CASE cdOffset > f.total \/ cdSize > f.total - cdOffset \/ count = 0 \/ count > CountMax
  BY <1>1 DEF ParseCentralDirectory, Inside
<1>2. CASE ~(cdOffset > f.total \/ cdSize > f.total - cdOffset \/ count = 0 \/ count > CountMax)
  <2>1. p.reads = step[n].reads /\ p.entries = step[n].entries
    BY <1>2 DEF ParseCentralDirectory, FirstRecord
  <2>2. step = [i \in 0..count |-> IF i = 0 THEN FirstRecord(cdOffset) ELSE NextRecord(f, cdEnd, step[i - 1])]
    BY StepsExist
  <2> HIDE DEF step
  <2>3. cdEnd \in Nat /\ cdEnd <= f.total
    BY <1>2, FileFields
  <2> HIDE DEF cdEnd
  <2>4. \A i \in 0..count : Sound(f, cdEnd, step[i])
    <3> DEFINE Bad == {i \in 0..count : ~Sound(f, cdEnd, step[i])}
    <3> SUFFICES ASSUME Bad # {} PROVE FALSE
      OBVIOUS
    <3>1. PICK m \in Bad : \A i \in Bad : m <= i
      <4>1. Bad \in SUBSET Nat
        OBVIOUS
      <4> HIDE DEF Bad
      <4> QED BY <4>1, LeastNat
    <3>2. CASE m = 0
      <4>1. step[0] = FirstRecord(cdOffset)
        BY <2>2
      <4>2. Sound(f, cdEnd, step[0])
        BY <4>1 DEF Sound, FirstRecord, Inside
      <4> QED BY <3>1, <3>2, <4>2
    <3>3. CASE m # 0
      <4>1. m - 1 \in 0..count /\ m - 1 \notin Bad
        BY <3>1, <3>3
      <4>2. Sound(f, cdEnd, step[m - 1])
        BY <4>1
      <4>3. step[m] = NextRecord(f, cdEnd, step[m - 1])
        BY <2>2, <3>1, <3>3
      <4> QED BY <2>3, <3>1, <4>2, <4>3, RecordIsSound
    <3> QED BY <3>2, <3>3
  <2>5. n \in 0..count
    BY DEF Lesser, CentralHeaderSize
  <2> HIDE DEF n
  <2>6. Sound(f, cdEnd, step[n])
    BY <2>4, <2>5
  <2>7. ASSUME NEW i \in DOMAIN p.entries PROVE IsSized(p.entries[i])
    <3>1. PICK q \in DOMAIN f.at : f.at[q].sig = "central" /\ p.entries[i] = EntryOf(f.at[q])
      <4> DEFINE E == {EntryOf(f.at[x]) : x \in {q \in DOMAIN f.at : f.at[q].sig = "central"}}
      <4>1. p.entries \in Seq(E)
        BY <2>1, <2>6 DEF Sound
      <4>2. p.entries[i] \in E
        <5> HIDE DEF E, p
        <5> QED BY <2>7, <4>1
      <4> QED BY <4>2
    <3> QED BY <3>1, EntryIsSized, FileFields
  <2> QED BY <2>1, <2>6, <2>7 DEF Sound
<1> QED BY <1>1, <1>2

\* An open reads nothing outside, and what it found is sized.
LEMMA ParseIsSound ==
  ASSUME NEW f \in Files
  PROVE  Inside(f, Parse(f).reads) /\ \A i \in DOMAIN Parse(f).entries : IsSized(Parse(f).entries[i])
<1> DEFINE eocd == FindEocd(f)
           cd == ResolveCentralDirectory(f, eocd)
           p == ParseCentralDirectory(f, cd.cdOffset, cd.cdSize, cd.entries)
<1>1. CASE eocd = -1
  BY <1>1 DEF Parse, Inside
<1>2. CASE eocd # -1
  <2>1. Inside(f, cd.reads) /\ cd.cdOffset \in Nat /\ cd.cdSize \in Nat /\ cd.entries \in Nat
    BY <1>2, EocdInside, DirectoryInside
  <2>2. Inside(f, p.reads) /\ \A i \in DOMAIN p.entries : IsSized(p.entries[i])
    BY <2>1, DirectoryIsSound
  <2>3. \/ Parse(f).reads = cd.reads /\ Parse(f).entries = <<>>
        \/ Parse(f).reads = p.reads \cup cd.reads /\ Parse(f).entries = p.entries
    BY <1>2 DEF Parse, ParseCentralDirectory
  <2> QED BY <2>1, <2>2, <2>3 DEF Inside
<1> QED BY <1>1, <1>2

-----------------------------------------------------------------------------
(* What is in the destination.                                               *)

\* s has n bytes.
IsBytes(s, n) == n \in Nat /\ s \in [1..n -> {s[i] : i \in 1..n}]
Size(t) == entries[op[t].entry].uncompressedSize

\* The destination of a call: as it was before, then a first part of the source that grows, then all.
Progress(t) ==
  /\ op[t].at \in {"idle", "refuse", "openOut"} => dest[t] \in {Absent, Old}
  /\ op[t].at \in {"idle", "leave"} => ~op[t].toFile
  /\ op[t].at \in {"openOut", "read"} => op[t].done = 0
  /\ op[t].at = "read" => dest[t] = <<>>
  /\ Working(t) => IsExtractable(entries, op[t].entry)
  /\ op[t].at = "write" => /\ op[t].ok /\ IsBytes(op[t].src, Size(t)) /\ op[t].done \in 0..Size(t)
                           /\ dest[t] = SubSeq(op[t].src, 1, op[t].done)
  /\ op[t].at = "closeOut" /\ op[t].ok => dest[t] = op[t].src /\ Len(op[t].src) = Size(t)
  /\ op[t].at = "returned" /\ op[t].toFile =>
       IF op[t].ok THEN dest[t] = op[t].src /\ Len(dest[t]) = Size(t) ELSE dest[t] \in {Absent, Old}

EntriesAreSized == \A i \in DOMAIN entries : IsSized(entries[i])
UnopenedIsIdle == session = "none" => \A t \in Threads : op[t].at = "idle"

FileInv == /\ LockInv /\ DOMAIN dest = Threads /\ file \in Files /\ EntriesAreSized /\ UnopenedIsIdle
           /\ \A t \in Threads : Progress(t)

LEMMA BytesAreASequence ==
  ASSUME NEW s, NEW n, IsBytes(s, n)
  PROVE  s \in Seq({s[i] : i \in 1..n}) /\ Len(s) = n
BY DEF IsBytes

\* A short write puts the next bytes behind those already there (writeAll).
LEMMA PiecesJoin ==
  ASSUME NEW s, NEW n, IsBytes(s, n), NEW d \in 0..n, NEW k \in 1..(n - d)
  PROVE  SubSeq(s, 1, d) \o Written(s, d, k) = SubSeq(s, 1, d + k)
<1> DEFINE S == {s[i] : i \in 1..n}
<1>1. s \in Seq(S) /\ Len(s) = n /\ n \in Nat
  BY BytesAreASequence DEF IsBytes
<1> HIDE DEF S
<1> QED BY <1>1 DEF Written

LEMMA AllIsWhole ==
  ASSUME NEW s, NEW n, IsBytes(s, n)
  PROVE  SubSeq(s, 1, n) = s
<1> DEFINE S == {s[i] : i \in 1..n}
<1>1. s \in Seq(S) /\ Len(s) = n /\ n \in Nat
  BY BytesAreASequence DEF IsBytes
<1> HIDE DEF S
<1> QED BY <1>1

LEMMA BytesAreWhole ==
  ASSUME NEW e, NEW data, e.uncompressedSize \in Nat
  PROVE  IsBytes(Bytes(e, data), e.uncompressedSize)
BY DEF Bytes, IsBytes

\* A payload that is there has as many bytes as its entry says.
LEMMA PayloadIsWhole ==
  ASSUME NEW e, e.uncompressedSize \in Nat, Payload(e).ok
  PROVE  IsBytes(Payload(e).bytes, e.uncompressedSize)
BY BytesAreWhole DEF Payload

LEMMA FileInit == Init => FileInv
<1> SUFFICES ASSUME Init PROVE FileInv
  OBVIOUS
<1>1. LockInv
  BY LockInit
<1>2. DOMAIN dest = Threads /\ file \in Files /\ EntriesAreSized /\ UnopenedIsIdle
  BY DEF Init, EntriesAreSized, UnopenedIsIdle, Idle
<1>3. ASSUME NEW t \in Threads PROVE Progress(t)
  BY DEF Init, Idle, Progress, Working
<1> QED BY <1>1, <1>2, <1>3 DEF FileInv

\* A step of one call: the others' destinations are their own.
LEMMA OneCall ==
  ASSUME FileInv, LockInv', NEW t \in Threads, Progress(t)',
         \A u \in Threads \ {t} : op'[u] = op[u] /\ dest'[u] = dest[u],
         DOMAIN dest' = Threads, file' = file, entries' = entries, session' # "none"
  PROVE  FileInv'
<1>1. ASSUME NEW u \in Threads PROVE Progress(u)'
  <2>1. CASE u = t
    BY <2>1
  <2>2. CASE u # t
    BY <2>2 DEF FileInv, Progress, Working, Size
  <2> QED BY <2>1, <2>2
<1> QED BY <1>1 DEF FileInv, EntriesAreSized, UnopenedIsIdle

LEMMA FileStep == FileInv /\ [Next]_vars => FileInv'
<1> SUFFICES ASSUME FileInv, [Next]_vars PROVE FileInv'
  OBVIOUS
<1>0. LockInv' /\ LockInv
  BY LockStep DEF FileInv
<1> USE DEF Fields
<1>1. CASE Open
  <2>1. session = "none" /\ \A t \in Threads : op[t].at = "idle"
    BY <1>1 DEF Open, FileInv, UnopenedIsIdle
  <2>2. EntriesAreSized'
    <3>1. entries' \in {Parse(file).entries, <<>>}
      BY <1>1 DEF Open, GetEntries
    <3> QED BY <3>1, ParseIsSound DEF FileInv, EntriesAreSized
  <2>3. op' = op /\ dest' = dest /\ file' = file /\ session' # "none"
    BY <1>1 DEF Open
  <2>4. ASSUME NEW t \in Threads PROVE Progress(t)'
    BY <2>1, <2>3 DEF FileInv, Progress, Working
  <2> QED BY <1>0, <2>2, <2>3, <2>4 DEF FileInv, UnopenedIsIdle
<1>2. ASSUME NEW t \in Threads, NEW i, ExtractToFile(t, i) PROVE FileInv'
  <2>1. op[t].at = "idle" /\ session \in {"open", "closed"} /\ session' = session /\ file' = file
        /\ entries' = entries /\ dest' = dest
    BY <1>2 DEF ExtractToFile, Enters
  <2>2. /\ \A u \in Threads \ {t} : op'[u] = op[u]
        /\ op'[t].at \in {"openOut", "refuse"} /\ op'[t].done = 0 /\ op'[t].entry = i
        /\ op'[t].at = "openOut" => IsExtractable(entries, i)
    BY <1>0, <1>2 DEF ExtractToFile, LockInv, Shape, Idle
  <2>3. Progress(t)'
    BY <2>1, <2>2 DEF FileInv, Progress, Working
  <2> QED BY <1>0, <2>1, <2>2, <2>3, OneCall DEF FileInv
<1>3. ASSUME NEW t \in Threads, NEW i, ExtractToDirectBuffer(t, i) PROVE FileInv'
  <2>1. session \in {"open", "closed"} /\ session' = session /\ file' = file /\ entries' = entries /\ dest' = dest
    BY <1>3 DEF ExtractToDirectBuffer, Enters
  <2>2. \A u \in Threads \ {t} : op'[u] = op[u]
    BY <1>0, <1>3 DEF ExtractToDirectBuffer, LockInv, Shape
  <2>3. op'[t].at = "leave" /\ ~op'[t].toFile
    BY <1>0, <1>3 DEF ExtractToDirectBuffer, LockInv, Shape, Idle
  <2>4. Progress(t)'
    BY <2>3 DEF Progress, Working
  <2> QED BY <1>0, <2>1, <2>2, <2>4, OneCall DEF FileInv
<1>4. ASSUME NEW t \in Threads, Refuse(t) PROVE FileInv'
  <2>1. op[t].at = "refuse" /\ session' = session /\ file' = file /\ entries' = entries /\ dest' = dest
    BY <1>4 DEF Refuse
  <2>2. \A u \in Threads \ {t} : op'[u] = op[u]
    BY <1>0, <1>4 DEF Refuse, Returns, LockInv, Shape
  <2>3. op'[t].at = "returned" /\ ~op'[t].ok
    BY <1>0, <1>4 DEF Refuse, Returns, LockInv, Shape
  <2>4. Progress(t)'
    BY <2>1, <2>3 DEF FileInv, Progress, Working
  <2> QED BY <1>0, <2>1, <2>2, <2>4, OneCall DEF FileInv, UnopenedIsIdle
<1>5. ASSUME NEW t \in Threads, Leave(t) PROVE FileInv'
  <2>1. op[t].at = "leave" /\ session' = session /\ file' = file /\ entries' = entries /\ dest' = dest
    BY <1>5 DEF Leave
  <2>2. \A u \in Threads \ {t} : op'[u] = op[u]
    BY <1>0, <1>5 DEF Leave, Returns, LockInv, Shape
  <2>3. op'[t].at = "returned" /\ op'[t].toFile = op[t].toFile
    BY <1>0, <1>5 DEF Leave, Returns, LockInv, Shape
  <2>4. Progress(t)'
    BY <2>1, <2>3 DEF FileInv, Progress, Working
  <2> QED BY <1>0, <2>1, <2>2, <2>4, OneCall DEF FileInv, UnopenedIsIdle
<1>6. ASSUME NEW t \in Threads, OpenOut(t) PROVE FileInv'
  <2>1. op[t].at = "openOut" /\ session' = session /\ file' = file /\ entries' = entries
    BY <1>6 DEF OpenOut
  <2>2. \A u \in Threads \ {t} : op'[u] = op[u] /\ dest'[u] = dest[u]
    BY <1>0, <1>6 DEF OpenOut, Returns, Goes, LockInv, Shape, FileInv
  <2>3. DOMAIN dest' = Threads
    BY <1>6 DEF OpenOut, FileInv
  <2>4. \/ op'[t].at = "read" /\ dest'[t] = <<>> /\ op'[t].done = op[t].done /\ op'[t].entry = op[t].entry
        \/ op'[t].at = "returned" /\ ~op'[t].ok /\ dest'[t] = dest[t]
    BY ZenonT(60), <1>0, <1>6 DEF OpenOut, Returns, Goes, LockInv, Shape, FileInv
  <2>5. Progress(t)'
    BY <2>1, <2>4 DEF FileInv, Progress, Working
  <2> QED BY <1>0, <2>1, <2>2, <2>3, <2>5, OneCall DEF FileInv, UnopenedIsIdle
<1>7. ASSUME NEW t \in Threads, ReadPayload(t) PROVE FileInv'
  <2> DEFINE e == entries[op[t].entry]
  <2>1. op[t].at = "read" /\ session' = session /\ file' = file /\ entries' = entries /\ dest' = dest
    BY <1>7 DEF ReadPayload
  <2>2. \A u \in Threads \ {t} : op'[u] = op[u]
    BY <1>0, <1>7 DEF ReadPayload, LockInv, Shape
  <2>3. /\ op'[t].at = IF Payload(e).ok THEN "write" ELSE "closeOut"
        /\ op'[t].src = Payload(e).bytes /\ op'[t].done = op[t].done /\ op'[t].entry = op[t].entry
    BY <1>0, <1>7 DEF ReadPayload, LockInv, Shape
  <2>4. op'[t].ok = Payload(e).ok
    BY <1>0, <1>7 DEF ReadPayload, LockInv, Shape
  <2>5. e.uncompressedSize \in Nat /\ IsExtractable(entries, op[t].entry) /\ op[t].done = 0 /\ dest[t] = <<>>
    <3>1. IsExtractable(entries, op[t].entry) /\ op[t].done = 0 /\ dest[t] = <<>>
      BY <2>1 DEF FileInv, Progress, Working
    <3>2. op[t].entry \in DOMAIN entries
      BY <3>1 DEF IsExtractable
    <3> QED BY <3>1, <3>2 DEF FileInv, EntriesAreSized, IsSized
  <2>6. CASE Payload(e).ok
    <3>1. IsBytes(Payload(e).bytes, e.uncompressedSize)
      BY <2>5, <2>6, PayloadIsWhole
    <3>2. SubSeq(Payload(e).bytes, 1, 0) = <<>>
      BY <3>1, BytesAreASequence
    <3>3. Size(t)' = e.uncompressedSize
      BY <2>1, <2>3 DEF Size
    <3>4. op'[t].at = "write" /\ op'[t].ok
      BY <2>3, <2>4, <2>6
    <3>5. Progress(t)'
      BY <2>1, <2>3, <2>5, <3>1, <3>2, <3>3, <3>4 DEF Progress, Working
    <3> QED BY <1>0, <2>1, <2>2, <3>5, OneCall DEF FileInv, UnopenedIsIdle
  <2>7. CASE ~Payload(e).ok
    <3>1. op'[t].at = "closeOut" /\ ~op'[t].ok
      BY <2>3, <2>4, <2>7
    <3>2. Progress(t)'
      BY <2>1, <2>3, <2>5, <3>1 DEF Progress, Working
    <3> QED BY <1>0, <2>1, <2>2, <3>2, OneCall DEF FileInv, UnopenedIsIdle
  <2> QED BY <2>6, <2>7
<1>8. ASSUME NEW t \in Threads, Write(t) PROVE FileInv'
  <2> DEFINE o == op[t]
             left == Len(o.src) - o.done
  <2>1. o.at = "write" /\ session' = session /\ file' = file /\ entries' = entries
    BY <1>8 DEF Write
  <2>2. /\ o.ok /\ IsBytes(o.src, Size(t)) /\ o.done \in 0..Size(t)
        /\ dest[t] = SubSeq(o.src, 1, o.done) /\ IsExtractable(entries, o.entry)
    BY <2>1 DEF FileInv, Progress, Working
  <2>3. Len(o.src) = Size(t) /\ Size(t) \in Nat
    BY <2>2, BytesAreASequence DEF IsBytes
  <2>4. CASE left = 0 /\ Goes(t, "closeOut") /\ dest' = dest
    <3>1. op'[t].at = "closeOut" /\ op'[t].src = o.src /\ op'[t].entry = o.entry
          /\ \A u \in Threads \ {t} : op'[u] = op[u]
      BY <1>0, <2>4 DEF Goes, LockInv, Shape
    <3>2. dest[t] = o.src
      BY <2>2, <2>3, <2>4, AllIsWhole
    <3>3. Size(t)' = Size(t)
      BY <2>1, <3>1 DEF Size
    <3>4. Progress(t)'
      BY <2>1, <2>2, <2>3, <2>4, <3>1, <3>2, <3>3 DEF Progress, Working
    <3> QED BY <1>0, <2>1, <2>4, <3>1, <3>4, OneCall DEF FileInv, UnopenedIsIdle
  <2>5. ASSUME NEW n \in 1..Lesser(left, MaxWrite), left > 0,
               dest' = [dest EXCEPT ![t] = @ \o Written(o.src, o.done, n)],
               op' = [op EXCEPT ![t].done = @ + n]
        PROVE  FileInv'
    <3>1. n \in 1..(Size(t) - o.done)
      BY <2>2, <2>3, <2>5, WriteAssumption DEF Lesser
    <3>2. /\ op'[t].at = "write" /\ op'[t].src = o.src /\ op'[t].entry = o.entry /\ op'[t].done = o.done + n
          /\ \A u \in Threads \ {t} : op'[u] = op[u]
      BY <1>0, <2>1, <2>5 DEF LockInv, Shape
    <3>3. op'[t].ok
      BY <1>0, <2>2, <2>5 DEF LockInv, Shape
    <3>4. dest'[t] = SubSeq(o.src, 1, o.done + n)
      <4>1. dest'[t] = dest[t] \o Written(o.src, o.done, n)
        BY <2>5 DEF FileInv
      <4>2. SubSeq(o.src, 1, o.done) \o Written(o.src, o.done, n) = SubSeq(o.src, 1, o.done + n)
        <5> DEFINE s == o.src
                   d == o.done
                   z == Size(t)
        <5>1. IsBytes(s, z) /\ d \in 0..z /\ n \in 1..(z - d)
          BY <2>2, <3>1
        <5> HIDE DEF s, d, z
        <5>2. SubSeq(s, 1, d) \o Written(s, d, n) = SubSeq(s, 1, d + n)
          BY <5>1, PiecesJoin
        <5> QED BY <5>2 DEF s, d
      <4> QED BY <2>2, <4>1, <4>2
    <3>5. DOMAIN dest' = Threads /\ \A u \in Threads \ {t} : dest'[u] = dest[u]
      BY <2>5 DEF FileInv
    <3>6. Size(t)' = Size(t) /\ o.done + n \in 0..Size(t)
      BY <2>1, <2>2, <2>3, <3>1, <3>2 DEF Size
    <3>7. Progress(t)'
      BY <2>1, <2>2, <3>2, <3>3, <3>4, <3>6 DEF Progress, Working
    <3> QED BY <1>0, <2>1, <3>2, <3>5, <3>7, OneCall DEF FileInv, UnopenedIsIdle
  <2>6. CASE op' = op /\ dest' = dest
    BY <1>0, <2>1, <2>6, OneCall DEF FileInv, UnopenedIsIdle, Progress, Working, Size
  <2>7. CASE op' = [op EXCEPT ![t].at = "closeOut", ![t].ok = FALSE] /\ dest' = dest
    <3>1. op'[t].at = "closeOut" /\ op'[t].entry = o.entry /\ \A u \in Threads \ {t} : op'[u] = op[u]
      BY <1>0, <2>7 DEF LockInv, Shape
    <3>2. ~op'[t].ok
      BY <1>0, <2>7 DEF LockInv, Shape
    <3>3. Progress(t)'
      BY <2>1, <2>2, <3>1, <3>2 DEF Progress, Working
    <3> QED BY <1>0, <2>1, <2>7, <3>1, <3>3, OneCall DEF FileInv, UnopenedIsIdle
  <2> QED BY <1>8, <2>4, <2>5, <2>6, <2>7 DEF Write
<1>9. ASSUME NEW t \in Threads, CloseOut(t) PROVE FileInv'
  <2>1. op[t].at = "closeOut" /\ session' = session /\ file' = file /\ entries' = entries
    BY <1>9 DEF CloseOut
  <2>2. PICK closes \in BOOLEAN :
          /\ dest' = (IF op[t].ok /\ closes THEN dest ELSE [dest EXCEPT ![t] = Absent])
          /\ Returns(t, op[t].ok /\ closes)
    BY <1>9 DEF CloseOut
  <2>3. /\ op'[t].at = "returned" /\ op'[t].src = op[t].src /\ op'[t].entry = op[t].entry
        /\ \A u \in Threads \ {t} : op'[u] = op[u]
    BY <1>0, <2>2 DEF Returns, LockInv, Shape
  <2>4. op'[t].ok = (op[t].ok /\ closes)
    BY <1>0, <2>2 DEF Returns, LockInv, Shape
  <2>5. DOMAIN dest' = Threads /\ \A u \in Threads \ {t} : dest'[u] = dest[u]
    BY <2>2 DEF FileInv
  <2>6. Size(t)' = Size(t)
    BY <2>1, <2>3 DEF Size
  <2>7. CASE op[t].ok /\ closes
    <3>1. dest'[t] = op[t].src /\ Len(op[t].src) = Size(t)
      BY <2>1, <2>2, <2>7 DEF FileInv, Progress
    <3>2. op'[t].ok
      BY <2>4, <2>7
    <3>3. Progress(t)'
      BY <2>3, <2>6, <3>1, <3>2 DEF Progress, Working
    <3> QED BY <1>0, <2>1, <2>3, <2>5, <3>3, OneCall DEF FileInv, UnopenedIsIdle
  <2>8. CASE ~(op[t].ok /\ closes)
    <3>1. dest'[t] = Absent
      BY <2>2, <2>8 DEF FileInv
    <3>2. ~op'[t].ok
      BY <2>4, <2>8
    <3>3. Progress(t)'
      BY <2>3, <3>1, <3>2 DEF Progress, Working
    <3> QED BY <1>0, <2>1, <2>3, <2>5, <3>3, OneCall DEF FileInv, UnopenedIsIdle
  <2> QED BY <2>7, <2>8
<1>10. ASSUME NEW t \in Threads, Close(t) PROVE FileInv'
  <2>1. op[t].at = "idle" /\ session' = "closed" /\ file' = file /\ entries' = entries /\ dest' = dest
    BY <1>10 DEF Close, Enters
  <2>2. /\ op'[t].at = "leave" /\ op'[t].toFile = op[t].toFile
        /\ \A u \in Threads \ {t} : op'[u] = op[u]
    BY <1>0, <1>10 DEF Close, Goes, LockInv, Shape
  <2>3. Progress(t)'
    BY <2>1, <2>2 DEF FileInv, Progress, Working
  <2> QED BY <1>0, <2>1, <2>2, <2>3, OneCall DEF FileInv
<1>11. ASSUME NEW t \in Threads, Again(t) PROVE FileInv'
  <2>1. op[t].at = "returned" /\ session' = session /\ file' = file /\ entries' = entries
    BY <1>11 DEF Again
  <2>2. /\ op'[t].at = "idle" /\ dest'[t] = Absent /\ DOMAIN dest' = Threads
        /\ \A u \in Threads \ {t} : op'[u] = op[u] /\ dest'[u] = dest[u]
    BY <1>0, <1>11 DEF Again, LockInv, Shape, FileInv, Idle
  <2>3. ~op'[t].toFile
    BY <1>0, <1>11 DEF Again, LockInv, Shape, Idle
  <2>4. Progress(t)'
    BY <2>2, <2>3 DEF Progress, Working
  <2> QED BY <1>0, <2>1, <2>2, <2>4, OneCall DEF FileInv, UnopenedIsIdle
<1>12. CASE UNCHANGED vars
  BY <1>0, <1>12 DEF vars, FileInv, EntriesAreSized, UnopenedIsIdle, Progress, Working, Size
<1> QED BY <1>1, <1>2, <1>3, <1>4, <1>5, <1>6, <1>7, <1>8, <1>9, <1>10, <1>11, <1>12 DEF Next

\* Whatever write() and close() do, an extraction that answers true has left the whole entry in its file,
\* and one that answers false no part of it (nativeExtractToFile, writeAll).
THEOREM FilesAreWholeOrGone == Spec => []FileIsWholeOrGone
<1>1. FileInv => FileIsWholeOrGone
  BY DEF FileInv, Progress, Size, FileIsWholeOrGone
<1> QED BY <1>1, FileInit, FileStep, PTL DEF Spec
-----------------------------------------------------------------------------
(* What is read.                                                             *)

\* The bytes of an entry that may be extracted are in the file.
LEMMA PayloadInside ==
  ASSUME NEW i, file \in Files, IsExtractable(entries, i), IsSized(entries[i])
  PROVE  Inside(file, Payload(entries[i]).reads)
<1> DEFINE e == entries[i]
           data == ResolveDataOffset(file, e)
           len == IF e.method = Stored THEN e.uncompressedSize ELSE e.compressedSize
           pos == e.localHeaderOffset
<1>1. Payload(e).reads = (IF InBounds(file, pos, LocalHeaderSize) THEN {<<pos, LocalHeaderSize>>} ELSE {})
                         \cup (IF data = -1 THEN {} ELSE {<<data, len>>})
  BY DEF Payload
<1>2. pos \in Nat /\ e.uncompressedSize \in Nat /\ e.compressedSize \in Nat /\ file.total \in Nat
  BY FileFields DEF IsSized
<1>3. len \in Nat /\ len <= e.compressedSize
  BY <1>2 DEF IsExtractable
<1>4. ASSUME InBounds(file, pos, LocalHeaderSize) PROVE pos >= 0 /\ pos + LocalHeaderSize <= file.total
  BY <1>2, <1>4 DEF InBounds, LocalHeaderSize
<1>5. ASSUME data # -1 PROVE data >= 0 /\ data + len <= file.total
  <2>1. /\ HasSig(file, pos, "local") /\ data = pos + LocalHeaderSize + file.at[pos].nameLen + file.at[pos].extraLen
        /\ ~(data > file.total) /\ ~(e.compressedSize > file.total - data)
    BY <1>5 DEF ResolveDataOffset
  <2>2. file.at[pos].nameLen \in Nat /\ file.at[pos].extraLen \in Nat
    BY <2>1, FileFields DEF HasSig, Unsigned
  <2> HIDE DEF data, len, pos, e
  <2> QED BY <1>2, <1>3, <2>1, <2>2 DEF LocalHeaderSize
<1> HIDE DEF data, len, pos
<1> QED BY <1>1, <1>4, <1>5 DEF Inside

LEMMA ReadsStep ==
  ASSUME FileInv, ReadsStayInside, [Next]_vars
  PROVE  ReadsStayInside'
<1> USE DEF ReadsStayInside
<1>1. file \in Files /\ EntriesAreSized
  BY DEF FileInv
<1>2. CASE Open
  <2>1. reads' \in {{}, Parse(file).reads} /\ file' = file
    BY <1>2 DEF Open
  <2> QED BY <1>1, <2>1, ParseIsSound DEF Inside
<1>3. ASSUME NEW t \in Threads, ReadPayload(t) PROVE ReadsStayInside'
  <2>1. IsExtractable(entries, op[t].entry)
    BY <1>3 DEF FileInv, Progress, Working, ReadPayload
  <2>2. IsSized(entries[op[t].entry])
    BY <1>1, <2>1 DEF IsExtractable, EntriesAreSized
  <2>3. reads' = Payload(entries[op[t].entry]).reads /\ file' = file
    BY <1>3 DEF ReadPayload
  <2> QED BY <1>1, <2>1, <2>2, <2>3, PayloadInside DEF Inside
<1>4. ASSUME NEW t \in Threads, NEW i, ExtractToDirectBuffer(t, i) PROVE ReadsStayInside'
  <2>1. reads' = (IF session = "open" /\ IsExtractable(entries, i) THEN Payload(entries[i]).reads ELSE {}) /\ file' = file
    BY <1>4 DEF ExtractToDirectBuffer
  <2>2. ASSUME IsExtractable(entries, i) PROVE Inside(file, Payload(entries[i]).reads)
    BY <1>1, <2>2, PayloadInside DEF IsExtractable, EntriesAreSized
  <2> QED BY <2>1, <2>2 DEF Inside
<1>5. ASSUME reads' = {} PROVE ReadsStayInside'
  BY <1>5
<1>6. ASSUME NEW t \in Threads, NEW i, ExtractToFile(t, i) PROVE reads' = {}
  BY <1>6 DEF ExtractToFile
<1>7. ASSUME NEW t \in Threads, \/ Refuse(t) \/ OpenOut(t) \/ Write(t) \/ CloseOut(t) \/ Leave(t) \/ Close(t) \/ Again(t)
      PROVE  reads' = {}
  BY <1>7 DEF Refuse, OpenOut, Write, CloseOut, Leave, Close, Again
<1>8. CASE UNCHANGED vars
  BY <1>8 DEF vars
<1> QED BY <1>2, <1>3, <1>4, <1>5, <1>6, <1>7, <1>8 DEF Next

\* Whatever the numbers in the file say, the parser and the extraction read only bytes of the file
\* (findEocd, resolveCentralDirectory, parseCentralDirectory, resolveDataOffset, isExtractable).
THEOREM ReadsAreInside == Spec => []ReadsStayInside
<1>1. Init => ReadsStayInside
  BY DEF Init, ReadsStayInside
<1>2. FileInv /\ ReadsStayInside /\ [Next]_vars => ReadsStayInside'
  BY ReadsStep
<1> QED BY <1>1, <1>2, FileInit, FileStep, PTL DEF Spec
=============================================================================
