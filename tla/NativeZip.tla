------------------------------ MODULE NativeZip ------------------------------
(* A session of the ZIP engine: NativeZipSession (NativeZip.kt) over the     *)
(* handle of nativezip_jni.cpp.  Threads extract entries to files or to      *)
(* direct buffers while one of them closes the session; every call holds     *)
(* lifecycleLock.  System calls may fail, write() may do less than asked.    *)
EXTENDS ZipFile

CONSTANTS
  Threads,
  Files,        \* [total, at, written, eocd]: written is what a writer put in, <<>> if it is no archive,
                \* and eocd where its end record stands
  MaxWrite,     \* 1 << 20: bytes for one write()
  Interrupts,   \* bound: write() is interrupted that often
  None

ASSUME ThreadAssumption == None \notin Threads
ASSUME WriteAssumption == MaxWrite \in Nat \ {0}
\* The numbers that a record has are unsigned, those of the extra field of a record of the directory
\* too; whatever else they are is the file's.
Unsigned(r) ==
  /\ r.sig = "eocd" => {r.commentLen, r.entries, r.cdSize, r.cdOffset} \subseteq Nat
  /\ r.sig = "locator" => r.zip64Eocd \in Nat
  /\ r.sig = "zip64Eocd" => {r.entries, r.cdSize, r.cdOffset} \subseteq Nat
  /\ r.sig = "local" => {r.nameLen, r.extraLen} \subseteq Nat
  /\ r.sig = "central" =>
       /\ {r.nameLen, r.extraLen, r.commentLen, r.compressedSize, r.uncompressedSize, r.localHeaderOffset} \subseteq Nat
       /\ DOMAIN r.extra \subseteq Nat
       /\ \A i \in DOMAIN r.extra : r.extra[i].zip64 =>
            r.extra[i].size \in Nat /\ \A k \in 1..r.extra[i].size \div 8 : r.extra[i].values[k] \in Nat
ASSUME FileAssumption == \A f \in Files : f.total \in Nat /\ \A pos \in DOMAIN f.at : Unsigned(f.at[pos])

VARIABLES
  file, entries,
  session,      \* "none", "open", "failed", "closed"
  mapped,       \* the mapping is there
  owned,        \* the buffers of inflated entries, by the thread that got them
  lock,         \* who holds lifecycleLock
  op,           \* op[t]: [at, entry, src, done, ok, toFile], the call of t and how far it is
  dest,         \* dest[t]: the file t extracts to, <<"absent">> or its bytes
  reads,        \* the bytes of the file that the last step read
  interrupts

vars == <<file, entries, session, mapped, owned, lock, op, dest, reads, interrupts>>

Idle == [at |-> "idle", entry |-> 0, src |-> <<>>, done |-> 0, ok |-> TRUE, toFile |-> FALSE]
Absent == <<"absent">>
Old == <<"old">>

Init == /\ file \in Files /\ entries = <<>> /\ session = "none" /\ mapped = FALSE /\ owned = {}
        /\ lock = None /\ op = [t \in Threads |-> Idle] /\ dest = [t \in Threads |-> Old]
        /\ reads = {} /\ interrupts = 0

-----------------------------------------------------------------------------
(* Opening.                                                                  *)

\* mapFileForRead: an empty file is not mapped, another one may fail to.
Maps(f) == {m \in BOOLEAN : m => f.total > 0}
\* nativeGetEntries: the table; null, upon which the caller closes the handle; or an exception, upon
\* which nobody does.
GetEntries(r) == {[answer |-> "table", entries |-> r.entries]} \cup {[answer |-> a, entries |-> <<>>] : a \in {"null", "exception"}}

\* NativeZipSession.open and openFd: nativeOpen maps the file and parses it, a failure deletes the archive.
Open ==
  LET r == Parse(file) IN
  /\ session = "none"
  /\ \E maps \in Maps(file), table \in GetEntries(r) :
       LET opens == maps /\ r.ok IN
       /\ session' = IF opens /\ table.answer = "table" THEN "open" ELSE "failed"
       /\ mapped' = (opens /\ table.answer # "null")
       /\ entries' = IF opens THEN table.entries ELSE <<>>
       /\ reads' = IF maps THEN r.reads ELSE {}
  /\ UNCHANGED <<file, owned, lock, op, dest, interrupts>>

-----------------------------------------------------------------------------
(* The calls.                                                                *)

Goes(t, at) == op' = [op EXCEPT ![t].at = at]
\* A mutant: the lock is not waited for.
EntersFreely(t) == session \in {"open", "closed"} /\ op[t].at = "idle" /\ lock' = lock
Enters(t) == session \in {"open", "closed"} /\ op[t].at = "idle" /\ lock = None /\ lock' = t
Returns(t, ok) == /\ op' = [op EXCEPT ![t] = [op[t] EXCEPT !.at = "returned", !.ok = ok]]
                  /\ lock' = None

\* The bytes of entry e: those of the mapping, or those that inflate makes of them, exactly as
\* many as the entry says; <<FALSE>>: there are none to be had.
Inflates(e) == e.uncompressedSize \in {0, file.at[e.localHeaderOffset].inflated}
Bytes(e, data) == IF e.method = Stored THEN [k \in 1..e.uncompressedSize |-> data + k]
                  ELSE [k \in 1..e.uncompressedSize |-> -k]
Payload(e) ==
  LET data == ResolveDataOffset(file, e)
      ok == data # -1 /\ (e.method = Stored \/ Inflates(e))
  IN [ok |-> ok, bytes |-> IF ok THEN Bytes(e, data) ELSE <<>>,
      reads |-> (IF InBounds(file, e.localHeaderOffset, LocalHeaderSize) THEN {<<e.localHeaderOffset, LocalHeaderSize>>} ELSE {})
                \cup (IF data = -1 THEN {} ELSE {<<data, IF e.method = Stored THEN e.uncompressedSize ELSE e.compressedSize>>})]

\* extractToFile, nativeExtractToFile: the destination is emptied first.
ExtractToFile(t, i) ==
  /\ Enters(t)
  /\ op' = [op EXCEPT ![t] = [Idle EXCEPT !.at = IF session = "open" /\ IsExtractable(entries, i) THEN "openOut" ELSE "refuse", !.entry = i, !.toFile = TRUE]]
  /\ UNCHANGED <<file, entries, session, mapped, owned, dest, interrupts>> /\ reads' = {}

Refuse(t) == /\ op[t].at = "refuse" /\ Returns(t, FALSE)
             /\ UNCHANGED <<file, entries, session, mapped, owned, dest, interrupts>> /\ reads' = {}

OpenOut(t) ==
  /\ op[t].at = "openOut"
  /\ \/ dest' = [dest EXCEPT ![t] = <<>>] /\ Goes(t, "read") /\ UNCHANGED lock
     \/ Returns(t, FALSE) /\ UNCHANGED dest
  /\ UNCHANGED <<file, entries, session, mapped, owned, interrupts>> /\ reads' = {}

ReadPayload(t) ==
  LET r == Payload(entries[op[t].entry]) IN
  /\ op[t].at = "read"
  /\ op' = [op EXCEPT ![t].at = IF r.ok THEN "write" ELSE "closeOut", ![t].src = r.bytes, ![t].ok = r.ok]
  /\ reads' = r.reads
  /\ UNCHANGED <<file, entries, session, mapped, owned, lock, dest, interrupts>>

\* A mutant: the source does not move on after a short write.
WrittenFromStart(src, done, n) == SubSeq(src, 1, n)
Written(src, done, n) == SubSeq(src, done + 1, done + n)

\* A turn of writeAll: all of the chunk, a part of it, nothing, an interruption, an error.
Write(t) ==
  LET o == op[t]
      left == Len(o.src) - o.done
      chunk == Lesser(left, MaxWrite)
  IN /\ o.at = "write"
     /\ \/ left = 0 /\ Goes(t, "closeOut") /\ UNCHANGED <<dest, interrupts>>
        \/ /\ left > 0
           /\ \E n \in 1..chunk : /\ dest' = [dest EXCEPT ![t] = @ \o Written(o.src, o.done, n)]
                                  /\ op' = [op EXCEPT ![t].done = @ + n]
           /\ UNCHANGED interrupts
        \/ /\ left > 0 /\ interrupts < Interrupts
           /\ interrupts' = interrupts + 1 /\ UNCHANGED <<dest, op>>
        \/ left > 0 /\ op' = [op EXCEPT ![t].at = "closeOut", ![t].ok = FALSE] /\ UNCHANGED <<dest, interrupts>>
     /\ UNCHANGED <<file, entries, session, mapped, owned, lock>> /\ reads' = {}

\* close() may fail, too; what is not whole is removed.
CloseOut(t) ==
  /\ op[t].at = "closeOut"
  /\ \E closes \in BOOLEAN :
       LET ok == op[t].ok /\ closes
       IN dest' = (IF ok THEN dest ELSE [dest EXCEPT ![t] = Absent]) /\ Returns(t, ok)
  /\ UNCHANGED <<file, entries, session, mapped, owned, interrupts>> /\ reads' = {}

\* extractToDirectBuffer: a slice of the mapping, or a buffer that the archive owns.
ExtractToDirectBuffer(t, i) ==
  LET may == session = "open" /\ IsExtractable(entries, i)
      r == Payload(entries[i])
  IN /\ Enters(t)
     /\ op' = [op EXCEPT ![t] = [Idle EXCEPT !.at = "leave", !.entry = i, !.ok = may /\ r.ok, !.src = IF may THEN r.bytes ELSE <<>>]]
     /\ owned' = IF may /\ r.ok /\ entries[i].method = Deflate THEN owned \cup {t} ELSE owned
     /\ reads' = IF may THEN r.reads ELSE {}
     /\ UNCHANGED <<file, entries, session, mapped, dest, interrupts>>

Leave(t) == /\ op[t].at = "leave" /\ Returns(t, op[t].ok)
            /\ UNCHANGED <<file, entries, session, mapped, owned, dest, interrupts>> /\ reads' = {}

\* close, nativeClose: once; the mapping and all buffers go.
Close(t) ==
  /\ Enters(t) /\ Goes(t, "leave")
  /\ session' = "closed" /\ mapped' = FALSE /\ owned' = {}
  /\ UNCHANGED <<file, entries, dest, interrupts>> /\ reads' = {}

\* The caller forgets a result before it calls again.
Again(t) == /\ op[t].at = "returned" /\ op' = [op EXCEPT ![t] = Idle] /\ dest' = [dest EXCEPT ![t] = Absent]
            /\ UNCHANGED <<file, entries, session, mapped, owned, lock, interrupts>> /\ reads' = {}

Next ==
  \/ Open
  \/ \E t \in Threads :
       \/ \E i \in 1..Len(entries) + 1 : ExtractToFile(t, i) \/ ExtractToDirectBuffer(t, i)
       \/ Refuse(t) \/ OpenOut(t) \/ ReadPayload(t) \/ Write(t) \/ CloseOut(t) \/ Leave(t) \/ Close(t) \/ Again(t)
Spec == Init /\ [][Next]_vars

-----------------------------------------------------------------------------
(* Properties.                                                               *)

\* Whatever the numbers in the file say, no byte is read that the mapping does not have
\* (resolveCentralDirectory, parseCentralDirectory, resolveDataOffset, isExtractable).
ReadsStayInside == \A r \in reads : r[1] >= 0 /\ r[1] + r[2] <= file.total

\* What a writer made does open, with the entries the writer put in, in its order, with their names,
\* sizes and places, and those that can be extracted are extracted - with or without ZIP64 records,
\* bytes in front, and a comment, even one with the signature of an end record in it, as long as the
\* comment that this one states does not fit behind it: FakesAreRejected is about one that does
\* (findEocd, resolveCentralDirectory, applyZip64Extra, parseCentralDirectory, entryNameToJString).
ReadsWhatWasWritten ==
  file.written # <<>> =>
    /\ Parse(file).ok
    /\ session = "open" =>
         /\ Len(entries) = Len(file.written)
         /\ \A i \in DOMAIN entries :
              LET e == entries[i]
                  w == file.written[i]
              IN /\ EntryName(e.name) = w.name /\ e.isDirectory = w.isDirectory /\ e.uncompressedSize = w.size
                 /\ ResolveDataOffset(file, e) = w.data
                 /\ IsExtractable(entries, i) = w.extractable
                 /\ w.extractable => Payload(e).ok

\* The comment of findEocd says that its test "rejects fake signatures inside a real trailing comment":
\* an archive is opened by the end record that its writer wrote.
FakesAreRejected == file.written # <<>> /\ session # "none" => FindEocd(file) = file.eocd

\* extractToFile that answers true leaves all bytes of the entry in the destination, one that answers
\* false leaves no part of them, whatever write() and close() do ("so callers never observe a
\* partially-written file").
FileIsWholeOrGone ==
  \A t \in Threads : op[t].at = "returned" /\ op[t].toFile =>
    IF op[t].ok THEN dest[t] = op[t].src /\ Len(dest[t]) = entries[op[t].entry].uncompressedSize
    ELSE dest[t] \in {Absent, Old}

\* While a call is at work in the engine its mapping is there, and after the close nothing is left
\* of it: no call brings a buffer to an archive that is gone (lifecycleLock).
HandleOutlivesCalls ==
  /\ \A t \in Threads : op[t].at \in {"openOut", "read", "write", "closeOut"} => mapped
  /\ session = "closed" => owned = {} /\ ~mapped
=============================================================================
