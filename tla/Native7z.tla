------------------------------ MODULE Native7z ------------------------------
(* One handle of the native 7z library: the cached solid block (outBuffer,   *)
(* blockIndex), the decoder that has produced a first part of it and is      *)
(* continued on demand, and the look-ahead stream both depend on.  The       *)
(* decoder keeps raw pointers into the handle and no record of where the     *)
(* stream stands; that the three stay in step through errors, switches of    *)
(* block, purges and closes is what the module is about.                     *)
(* The archive is a file of cells 1..FileLength; folder f packs the cells    *)
(* start+1..start+inSize and unpacks to Len(need) cells, of which cell i     *)
(* needs the first need[i] packed cells.  A decoded cell is "right" or, when *)
(* it came from other packed cells, from a broken cipher chain or from the   *)
(* wrong key, "wrong"; a cell never written is "raw".                        *)
EXTENDS Integers, Sequences, FiniteSets

CONSTANTS
  Folder,       \* sequence of [start, inSize, need, method, aes, key, damage]
  File,         \* sequence of [folder, offset, size]; folder 0: an empty file
  FileLength,
  BufSize,      \* kInputBufSize, in cells
  Window,       \* 1 << 18, in cells
  Block, AesBuf,\* the cipher block and kAesStreamBufSize, in cells
  HasPassword   \* was the handle opened with a password?

Files == 1..Len(File)
Folders == 1..Len(Folder)
Sinks == {"file", "bytes", "buffer"}
Total(f) == Len(Folder[f].need)

Keys == [salt : Nat, cycles : Nat]      \* with the password they make the key

ASSUME SizeAssumption ==
  /\ {BufSize, Window, Block} \subseteq Nat \ {0} /\ AesBuf \in {Block * k : k \in 1..8}
  /\ FileLength \in Nat /\ HasPassword \in BOOLEAN

\* A cell that needs more than is packed is damaged; a packed stream behind the cipher is
\* padded to whole blocks.
FolderRecords == [start : Nat, inSize : Nat, need : Seq(Nat), method : STRING, aes : BOOLEAN,
                  key : Keys, damage : Nat \ {0}, crc : BOOLEAN]
ASSUME FolderAssumption ==
  /\ Folder \in Seq(FolderRecords)
  /\ \A f \in Folders : LET F == Folder[f] IN
       /\ F.start + F.inSize <= FileLength
       /\ \A i \in 1..Total(f) : F.need[i] > F.inSize => F.damage <= i
       /\ F.method = "Copy" => \A i \in 1..Total(f) : F.need[i] = i
       /\ F.aes => F.inSize \in {Block * k : k \in 0..F.inSize}

\* A file lies within its folder.  Damage that only shows in what a stored folder holds is
\* caught by the CRC of the files it reaches.
FileRecords == [folder : Nat, offset : Nat, size : Nat, crc : BOOLEAN]
ASSUME FileAssumption ==
  /\ File \in Seq(FileRecords)
  /\ \A i \in Files : LET x == File[i] IN
       /\ x.folder = 0 => x.size = 0
       /\ x.folder # 0 => x.folder \in Folders /\ x.offset + x.size <= Total(x.folder)
       /\ (x.folder # 0 /\ Folder[x.folder].method = "Copy"
           /\ Folder[x.folder].damage <= Folder[x.folder].inSize
           /\ Folder[x.folder].damage <= x.offset + x.size) => x.crc /\ x.size > 0

None == [none |-> TRUE]

VARIABLES
  blockIndex, outBuffer,  \* the handle: cached folder (0: none) and its cells, or None
  dec,                    \* the incremental decoder, or None when it could not be created
  look, filePos,          \* CLookToRead2 and the offset of the file descriptor
  keyCache,               \* the derived key the archive remembers, or None
  pc, req, res,           \* the call under way, its request and its result
  out,                    \* what the caller has been given
  fault                   \* ghost: has anything failed during this call?

vars == <<blockIndex, outBuffer, dec, look, filePos, keyCache, pc, req, res, out, fault>>
handle == <<blockIndex, outBuffer, dec, look, filePos, keyCache>>

Lesser(a, b) == IF a < b THEN a ELSE b
Greater(a, b) == IF a > b THEN a ELSE b

-----------------------------------------------------------------------------
(* The streams.  An outcome is a record of what a call gives back and leaves *)
(* behind; a read of the file may fail, giving a part of what was asked.     *)

EmptyLook == [base |-> 0, size |-> 0, pos |-> 0]
Avail(l) == l.size - l.pos

\* File_Read of n cells with the descriptor at at.
FileRead(n, at) == LET got == Greater(0, Lesser(n, FileLength - at)) IN
  {[ok |-> TRUE, n |-> got]} \cup {[ok |-> FALSE, n |-> k] : k \in 0..(Greater(got, 1) - 1)}

\* LookToRead2_Look_Exact and the cells it shows, from + 1 .. from + n of the file.
LookExact(size) ==
  IF Avail(look) = 0 /\ size # 0
  THEN {[ok |-> r.ok, from |-> filePos, n |-> r.n, sound |-> TRUE, filePos |-> filePos + r.n,
         look |-> [base |-> filePos, size |-> r.n, pos |-> 0], aes |-> None]
          : r \in FileRead(Lesser(size, BufSize), filePos)}
  ELSE {[ok |-> TRUE, from |-> look.base + look.pos, n |-> Lesser(size, Avail(look)), sound |-> TRUE,
         filePos |-> filePos, look |-> look, aes |-> None]}

\* File_Seek: the descriptor stands at p afterwards, or the seek fails.
SeekTo(p) == {[ok |-> TRUE, filePos |-> p], [ok |-> FALSE, filePos |-> filePos]}

\* LookToRead2_Read of n cells: what is left of the buffer, else straight from the file.
LookRead(n, l, at) ==
  IF Avail(l) > 0
  THEN LET k == Lesser(n, Avail(l)) IN
       {[ok |-> TRUE, n |-> k, from |-> l.base + l.pos, look |-> [l EXCEPT !.pos = @ + k], filePos |-> at]}
  ELSE {[ok |-> r.ok, n |-> r.n, from |-> at, look |-> l, filePos |-> at + r.n] : r \in FileRead(n, at)}

\* LookInStream_Read2: read until n cells are there; the buffer first, then the file.
ReadExactly(n) ==
  UNION {IF ~r.ok \/ r.n = n THEN {[ok |-> r.ok /\ r.n = n, n |-> r.n, from |-> r.from, look |-> r.look,
                 filePos |-> r.filePos, sound |-> TRUE]}
         ELSE {[ok |-> q.ok /\ r.n + q.n = n, n |-> r.n + q.n, from |-> r.from, look |-> q.look,
                filePos |-> q.filePos, sound |-> q.from = r.from + r.n]
                 : q \in LookRead(n - r.n, r.look, r.filePos)}
           : r \in LookRead(n, look, filePos)}

\* AesLookInStream_Look: refill by whole cipher blocks, then show what is decrypted.
AesLook(size) ==
  LET a == dec.aes
      f == Folder[dec.folderIndex]
      left == f.inSize - a.inProcessed
      chunk == Lesser(AesBuf, left)
      toRead == IF chunk >= Block THEN (chunk \div Block) * Block ELSE chunk
      Show(b, o) == [ok |-> TRUE, from |-> b.base + b.pos, n |-> Lesser(size, b.size - b.pos),
                     sound |-> b.sound, filePos |-> o.filePos, look |-> o.look, aes |-> b]
  IN IF a.pos # a.size \/ toRead = 0
     THEN {Show(IF a.pos # a.size THEN a ELSE [a EXCEPT !.pos = 0, !.size = 0],
                [filePos |-> filePos, look |-> look])}
     ELSE {IF o.ok
           THEN Show([inProcessed |-> a.inProcessed + toRead, pos |-> 0, size |-> toRead,
                      base |-> f.start + a.inProcessed,
                      sound |-> a.sound /\ o.sound /\ o.from = f.start + a.inProcessed
                                /\ toRead >= Block], o)
           ELSE [ok |-> FALSE, from |-> 0, n |-> 0, sound |-> FALSE, filePos |-> o.filePos,
                 look |-> o.look, aes |-> [a EXCEPT !.pos = 0, !.size = 0]]
             : o \in ReadExactly(toRead)}

\* AesLookInStream_Init on the packed stream of folder fo, under the key given.
AesInit(fo, key) == [inProcessed |-> 0, pos |-> 0, size |-> 0, base |-> Folder[fo].start,
                     sound |-> key = Folder[fo].key]

ActiveLook(size) == IF dec.aes = None THEN LookExact(size) ELSE AesLook(size)

\* A mutant: the whole window is skipped, not what the codec used.
SkippedWhole(o, n) == [look |-> IF dec.aes = None THEN [o.look EXCEPT !.pos = @ + o.n] ELSE o.look,
                       aes |-> IF dec.aes = None THEN None ELSE [o.aes EXCEPT !.pos = @ + o.n]]

\* ILookInStream_Skip on the active stream, after a look with outcome o.
Skipped(o, n) == [look |-> IF dec.aes = None THEN [o.look EXCEPT !.pos = @ + n] ELSE o.look,
                  aes |-> IF dec.aes = None THEN None ELSE [o.aes EXCEPT !.pos = @ + n]]

-----------------------------------------------------------------------------
(* The incremental decoder.                                                  *)

Address == 1..2         \* what an allocation may return; a freed address comes back

\* SzFolderDecoder_Create, SzFolderDecoder_Reset.
Idle == [active |-> FALSE, crcChecked |-> FALSE, folderIndex |-> 0, remaining |-> 0,
         outBuffer |-> 0, total |-> 0, decoded |-> 0, aes |-> None, lzIn |-> 0, lzSound |-> TRUE]
Reset(d) == IF d = None THEN None ELSE Idle

\* CheckSupportedFolder has accepted the folder: one streaming method, maybe behind the cipher.
CanStream(f) == Folder[f].method \in {"Copy", "LZMA"}

\* A mutant: the cached key is taken for the salt alone.
DerivedKeyBySalt(f) == IF keyCache # None /\ keyCache.salt = Folder[f].key.salt
                       THEN keyCache.key ELSE Folder[f].key

\* GetAesKeyAndIv: the key of the cache when salt and cycles agree, else a new one.
DerivedKey(f) ==
  LET hit == keyCache # None /\ keyCache.salt = Folder[f].key.salt
             /\ keyCache.cycles = Folder[f].key.cycles
  IN IF hit THEN keyCache.key ELSE Folder[f].key

-----------------------------------------------------------------------------
TargetSize == LET x == File[req.file] IN x.offset + x.size

Reply(r) == /\ res' = r /\ pc' = "reply"
Fail(d) == /\ Reply("error") /\ dec' = Reset(d) /\ fault' = TRUE

\* SzArEx_ExtractIncremental, the cases that decode nothing: an empty file, a block of no cells.
BeginEmpty(f) ==
  LET x == File[f] IN
  /\ x.folder # 0 => Total(x.folder) = 0
  /\ blockIndex' = x.folder /\ outBuffer' = None /\ dec' = Reset(dec)
  /\ pc' = "deliver" /\ res' = "ok" /\ fault' = FALSE
  /\ UNCHANGED <<look, filePos, keyCache>>

\* The block to decode into: the cached one, or a new one when the folder changes.
NeedsBuffer(f) == outBuffer = None \/ blockIndex # File[f].folder
NewBuffer(fo) == {[addr |-> a, cells |-> [i \in 1..Total(fo) |-> "raw"]] : a \in Address}

\* A new block that cannot be allocated leaves its index behind and no buffer.
BeginOutOfMemory(f) ==
  /\ File[f].folder # 0 /\ Total(File[f].folder) # 0 /\ NeedsBuffer(f)
  /\ blockIndex' = File[f].folder /\ outBuffer' = None
  /\ Fail(dec) /\ UNCHANGED <<look, filePos, keyCache>>

Cached(fo) == IF Folder[fo].aes
              THEN [salt |-> Folder[fo].key.salt, cycles |-> Folder[fo].key.cycles, key |-> DerivedKey(fo)]
              ELSE keyCache
Locked(fo) == Folder[fo].aes /\ ~HasPassword
Damaged(fo) == Folder[fo].damage <= Total(fo)

\* A stored folder without a CRC is decoded whatever its cells hold.
Unnoticed(fo) == Folder[fo].method = "Copy" /\ ~Folder[fo].crc /\ Total(fo) <= Folder[fo].inSize

\* SzAr_DecodeFolder: no decoder, or a folder it cannot stream; the whole block at once.
\* The read, cipher and codec errors inside it are one choice.
DecodeWhole(fo, buf) ==
  /\ filePos' \in {Folder[fo].start, Folder[fo].start + Folder[fo].inSize} /\ look' = EmptyLook
  /\ keyCache' = IF Locked(fo) THEN keyCache ELSE Cached(fo)
  /\ \/ /\ Damaged(fo) => Unnoticed(fo)
        /\ ~Locked(fo)
        /\ outBuffer' = [buf EXCEPT !.cells = [i \in DOMAIN @ |->
                           IF \/ Folder[fo].aes /\ DerivedKey(fo) # Folder[fo].key
                              \/ i >= Folder[fo].damage
                           THEN "wrong" ELSE "right"]]
        /\ dec' = IF dec = None THEN None
                  ELSE [Idle EXCEPT !.active = TRUE, !.crcChecked = TRUE, !.folderIndex = fo,
                          !.outBuffer = buf.addr, !.total = Total(fo), !.decoded = Total(fo)]
        /\ res' = "ok" /\ pc' = "check" /\ fault' = FALSE
     \/ /\ outBuffer' \in {buf, [buf EXCEPT !.cells = [i \in DOMAIN @ |-> "wrong"]]}
        /\ dec' = Reset(dec) /\ Reply("error")
        /\ fault' = (~(Damaged(fo) \/ Locked(fo)) \/ dec = None)

\* SzAr_DecodeFolderUpTo, opening the folder: seek, key, cipher stream, decoder state.
OpenFolder(fo, buf) ==
  LET F == Folder[fo] IN
  /\ look' = EmptyLook /\ outBuffer' = buf
  /\ \E s \in SeekTo(F.start) :
     /\ filePos' = s.filePos
     /\ \/ /\ ~s.ok /\ keyCache' = keyCache /\ Fail(dec)
        \/ /\ s.ok /\ ~Locked(fo) /\ keyCache' = Cached(fo)
           /\ dec' = [Idle EXCEPT !.active = TRUE, !.folderIndex = fo, !.remaining = F.inSize,
                        !.outBuffer = buf.addr, !.total = Total(fo),
                        !.aes = IF F.aes THEN AesInit(fo, DerivedKey(fo)) ELSE None]
           /\ pc' = "step" /\ res' = "ok" /\ fault' = FALSE
        \/ /\ s.ok /\ ~Locked(fo) /\ keyCache' = Cached(fo) /\ Fail(dec)    \* no memory
        \/ /\ s.ok /\ Locked(fo) /\ keyCache' = keyCache
           /\ dec' = Reset(dec) /\ Reply("error") /\ fault' = FALSE

\* SzArEx_ExtractIncremental up to the decoding loop.
BeginDecode(f) ==
  LET fo == File[f].folder
      d == IF NeedsBuffer(f) THEN Reset(dec) ELSE dec
  IN
  /\ fo # 0 /\ Total(fo) # 0 /\ blockIndex' = fo
  /\ \E buf \in IF NeedsBuffer(f) THEN NewBuffer(fo) ELSE {outBuffer} :
       LET resumes == d # None /\ d.active /\ d.folderIndex = fo
                      /\ d.outBuffer = buf.addr /\ d.total = Total(fo)
       IN \/ /\ resumes
             /\ outBuffer' = buf /\ pc' = "step" /\ res' = "ok" /\ fault' = FALSE
             /\ UNCHANGED <<dec, look, filePos, keyCache>>
          \/ ~resumes /\ d # None /\ CanStream(fo) /\ OpenFolder(fo, buf)
          \/ ~resumes /\ (d = None \/ ~CanStream(fo)) /\ DecodeWhole(fo, buf)

Extract(f, s) ==
  /\ pc = "idle" /\ req' = [file |-> f, sink |-> s] /\ out' = <<>>
  /\ BeginEmpty(f) \/ BeginOutOfMemory(f) \/ BeginDecode(f)

-----------------------------------------------------------------------------
(* SzFolderDecoder_StepTo: decode until the last cell of the file asked for. *)

Target == Lesser(TargetSize, dec.total)
CallVars == <<blockIndex, keyCache, req, out>>

\* Cells first..last of the block, decoded from sound input or not.
Produced(first, last, sound) ==
  [outBuffer EXCEPT !.cells = [i \in DOMAIN @ |->
     IF i \notin first..last THEN @[i]
     ELSE IF sound /\ i < Folder[dec.folderIndex].damage THEN "right" ELSE "wrong"]]

StepFails(o, why) ==
  /\ look' = o.look /\ filePos' = o.filePos /\ outBuffer' = outBuffer
  /\ dec' = Reset(dec) /\ Reply("error") /\ fault' = why

StepAdvances(o, used, last, sound) ==
  LET s == Skipped(o, used) IN
  /\ look' = s.look /\ filePos' = o.filePos
  /\ outBuffer' = Produced(dec.decoded + 1, last, sound)
  /\ dec' = [dec EXCEPT !.aes = s.aes, !.remaining = @ - used, !.lzIn = @ + used,
                        !.decoded = last, !.lzSound = sound]
  /\ UNCHANGED <<pc, res, fault>>

\* Were the cells of window o the next ones of the folder's packed stream?
Sound(o) == dec.lzSound /\ o.sound /\ o.from = Folder[dec.folderIndex].start + dec.lzIn

StepCopy ==
  /\ pc = "step" /\ dec.decoded < Target /\ Folder[dec.folderIndex].method = "Copy"
  /\ \E o \in ActiveLook(Lesser(Lesser(Target - dec.decoded, Window), dec.remaining)) :
       IF ~o.ok \/ o.n = 0 THEN StepFails(o, ~o.ok)
       ELSE StepAdvances(o, o.n, dec.decoded + o.n, Sound(o))
  /\ UNCHANGED CallVars

\* A mutant: a turn of the loop that neither reads nor writes is not noticed.
NeverStuck(used, last) == FALSE

\* The loop gives up when a turn neither reads nor writes.
NoProgress(used, last) == used = 0 /\ last = dec.decoded

\* LzmaDec_DecodeToDic (see Lzma) stops at the target or at the end of the window.
StepLzma ==
  /\ pc = "step" /\ dec.decoded < Target /\ Folder[dec.folderIndex].method = "LZMA"
  /\ \E o \in ActiveLook(Lesser(Window, dec.remaining)), last \in dec.decoded..Target :
       LET F == Folder[dec.folderIndex]
           used == IF last = Target THEN Greater(0, F.need[last] - dec.lzIn) ELSE o.n
       IN
       /\ last # dec.decoded => F.need[last] <= dec.lzIn + o.n
       /\ last # Target => F.need[last + 1] > dec.lzIn + o.n
       /\ IF ~o.ok THEN StepFails(o, TRUE)
          ELSE IF NoProgress(used, last) \/ last >= F.damage THEN StepFails(o, FALSE)
          ELSE StepAdvances(o, used, last, IF used = 0 THEN dec.lzSound ELSE Sound(o))
  /\ UNCHANGED CallVars

\* A mutant: a block decoded to its end lets its decoder go.
FolderDoneForgets ==
  /\ pc = "step" /\ dec.decoded >= Target
  /\ dec' = IF dec.decoded = dec.total THEN Reset(dec) ELSE dec
  /\ pc' = "check" /\ UNCHANGED <<blockIndex, outBuffer, look, filePos, keyCache, req, res, out, fault>>

\* SzAr_DecodeFolderUpTo after the loop: the folder's CRC, once, when the block is complete.
FolderDone ==
  /\ pc = "step" /\ dec.decoded >= Target
  /\ IF /\ dec.decoded = dec.total /\ ~dec.crcChecked /\ Folder[dec.folderIndex].crc
        /\ \E i \in DOMAIN outBuffer.cells : outBuffer.cells[i] # "right"
     THEN dec' = Reset(dec) /\ Reply("error")
     ELSE /\ dec' = [dec EXCEPT !.crcChecked = @ \/ dec.decoded = dec.total]
          /\ pc' = "check" /\ UNCHANGED res
  /\ UNCHANGED <<blockIndex, outBuffer, look, filePos, keyCache, req, out, fault>>

Slice == IF outBuffer = None THEN <<>>
         ELSE SubSeq(outBuffer.cells, File[req.file].offset + 1, TargetSize)

\* SzArEx_ExtractIncremental, the file's CRC; a mismatch leaves the decoder as it is.
CheckFile ==
  /\ pc = "check"
  /\ IF File[req.file].crc /\ \E i \in DOMAIN Slice : Slice[i] # "right"
     THEN Reply("error") ELSE pc' = "deliver" /\ UNCHANGED res
  /\ UNCHANGED <<handle, req, out, fault>>

-----------------------------------------------------------------------------
(* native7z_jni.cpp: what is handed to the caller, and the handle's life.    *)

DeliverFails(f) == Reply("error") /\ fault' = f /\ UNCHANGED <<handle, req, out>>

DeliverBytes ==
  /\ pc = "deliver" /\ req.sink = "bytes"
  /\ \/ out' = Slice /\ Reply("ok") /\ UNCHANGED <<handle, req, fault>>
     \/ DeliverFails(TRUE)

\* A pointer into the block; there is none when the block is empty.
DeliverBuffer ==
  /\ pc = "deliver" /\ req.sink = "buffer"
  /\ IF outBuffer = None THEN DeliverFails(fault)
     ELSE out' = Slice /\ Reply("ok") /\ UNCHANGED <<handle, req, fault>>

\* open, then write until nothing remains; an error leaves what was written.
DeliverFile ==
  /\ pc = "deliver" /\ req.sink = "file"
  /\ \/ /\ Len(out) < Len(Slice)
        /\ \E k \in 1..(Len(Slice) - Len(out)) : out' = out \o SubSeq(Slice, Len(out) + 1, Len(out) + k)
        /\ UNCHANGED <<handle, req, res, pc, fault>>
     \/ out = Slice /\ Reply("ok") /\ UNCHANGED <<handle, req, out, fault>>
     \/ DeliverFails(TRUE)

Return == /\ pc = "reply" /\ pc' = "idle" /\ res' = "none" /\ out' = <<>> /\ fault' = FALSE
          /\ UNCHANGED <<handle, req>>

\* purgeBlockCache, between two calls: both take the handle's mutex.
Purge == /\ pc = "idle"
         /\ dec' = Reset(dec) /\ outBuffer' = None
         /\ blockIndex' = IF outBuffer = None THEN blockIndex ELSE 0
         /\ UNCHANGED <<look, filePos, keyCache, pc, req, res, out, fault>>

\* nativeClose: nothing of the handle is left.
Closed == blockIndex' = 0 /\ outBuffer' = None /\ keyCache' = None

\* nativeOpen makes the next handle, maybe without a decoder.
Reopen == /\ pc = "idle" /\ Closed
          /\ dec' \in {Idle, None} /\ look' = EmptyLook /\ filePos' = FileLength
          /\ UNCHANGED <<pc, req, res, out, fault>>

Init == /\ blockIndex = 0 /\ outBuffer = None /\ dec \in {Idle, None}
        /\ look = EmptyLook /\ filePos = FileLength /\ keyCache = None
        /\ pc = "idle" /\ req = [file |-> 1, sink |-> "bytes"] /\ res = "none" /\ out = <<>>
        /\ fault = FALSE

Work == StepCopy \/ StepLzma \/ FolderDone \/ CheckFile
        \/ DeliverBytes \/ DeliverBuffer \/ DeliverFile \/ Return

Next == Work \/ Purge \/ Reopen \/ \E f \in Files, s \in Sinks : Extract(f, s)

\* A call runs to its end on the thread that made it; nobody has to make one.
Spec == Init /\ [][Next]_vars /\ WF_vars(Work)

-----------------------------------------------------------------------------
(* Properties.                                                               *)

\* The stream stands where the decoder stopped.  Between calls, a decoder that is to be
\* continued points at the handle's block, has decoded a right prefix of it, and finds its
\* next packed cell at the head of the stream it reads (7zDec.c SzFolderDecoder_StepTo).
NextInFile == IF Avail(look) > 0 THEN look.base + look.pos ELSE filePos
StreamFollowsDecoder ==
  (pc = "idle" /\ dec # None /\ dec.active) =>
    LET F == Folder[dec.folderIndex] IN
    /\ outBuffer # None /\ dec.outBuffer = outBuffer.addr /\ blockIndex = dec.folderIndex
    /\ \A i \in 1..Lesser(dec.decoded, F.damage - 1) : outBuffer.cells[i] = "right"
    /\ dec.decoded < dec.total =>
         IF dec.aes = None
         THEN NextInFile = F.start + F.inSize - dec.remaining
         ELSE /\ NextInFile = F.start + dec.aes.inProcessed
              /\ dec.aes.inProcessed - (dec.aes.size - dec.aes.pos) = F.inSize - dec.remaining

\* Decoded cells stay decoded: as long as the block is cached and nothing fails, no call
\* goes back in a block it has begun (the point of the incremental decoder).
NoRework ==
  [][ /\ dec # None /\ dec.active /\ dec' # None /\ ~fault' /\ res' # "error"
      /\ blockIndex' = blockIndex /\ outBuffer' # None
      => dec'.active /\ dec'.decoded >= dec.decoded ]_vars

\* Every call returns: each turn of the decoding loop makes progress or gives up.
EveryCallReturns == pc # "idle" ~> pc = "idle"

\* The handle keeps the promise of ArchiveReads, whatever was extracted before.
Requests == Files \X Sinks
Content == [r \in Requests |-> [i \in 1..File[r[1]].size |-> "right"]]
Hopeless == {r \in Requests :
               LET x == File[r[1]] IN
               IF x.folder = 0 \/ Total(x.folder) = 0 THEN r[2] = "buffer"
               ELSE \/ x.offset + x.size >= Folder[x.folder].damage
                    \/ Damaged(x.folder) /\ ~CanStream(x.folder)
                    \/ Locked(x.folder)}
Reads == INSTANCE ArchiveReads WITH
  Files <- Requests, Unreadable <- Hopeless, NoFile <- <<0, "none">>, NoReply <- <<"none">>,
  Failed <- <<"failed">>,
  asked <- IF pc = "idle" THEN <<0, "none">> ELSE <<req.file, req.sink>>,
  reply <- IF pc # "reply" THEN <<"none">> ELSE IF res = "ok" THEN out ELSE <<"failed">>,
  disturbed <- fault
ServesEveryFile == Reads!Spec
=============================================================================
