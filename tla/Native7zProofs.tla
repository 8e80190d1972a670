---------------------------- MODULE Native7zProofs ----------------------------
(***************************************************************************)
(* What holds of a native 7z handle for every archive, buffer size and     *)
(* order of requests: the stream stands where the decoder stopped, decoded *)
(* cells stay decoded, and every request is answered as ArchiveReads       *)
(* promises, whatever was asked or went wrong before it.                   *)
(***************************************************************************)
EXTENDS Native7z, SequenceTheorems, TLAPS

-----------------------------------------------------------------------------
(* The invariant *)

Looks      == [base : Nat, size : Nat, pos : Nat]
AesStreams == [inProcessed : Nat, pos : Nat, size : Nat, base : Nat, sound : BOOLEAN]
Decoders   == [active : BOOLEAN, crcChecked : BOOLEAN, folderIndex : Nat, remaining : Nat,
               outBuffer : Nat, total : Nat, decoded : Nat, aes : AesStreams \cup {None},
               lzIn : Nat, lzSound : BOOLEAN]
KeyCaches  == [salt : Nat, cycles : Nat, key : Keys]
Cells      == {"right", "wrong", "raw"}
Buffers(fo) == [addr : Address, cells : [1..Total(fo) -> Cells]]

TypeOK ==
  /\ blockIndex \in {0} \cup Folders
  /\ outBuffer # None => blockIndex # 0 /\ outBuffer \in Buffers(blockIndex)
  /\ dec \in Decoders \cup {None}
  /\ look \in Looks /\ filePos \in Nat
  /\ keyCache \in KeyCaches \cup {None}
  /\ pc \in {"idle", "step", "check", "deliver", "reply"}
  /\ pc # "idle" => req \in [file : Files, sink : Sinks]
  /\ fault \in BOOLEAN

\* The key that is remembered is the one its salt and cycles lead to.
KeyKnown ==
  keyCache # None => keyCache.key = [salt |-> keyCache.salt, cycles |-> keyCache.cycles]

\* The packed cell after the first n of folder fo is the next that stream l, descriptor at
\* and, when there is one, cipher stream a give.
Position(fo, a, n, l, at) ==
  LET F == Folder[fo] IN
  IF a = None
  THEN /\ l.pos <= l.size
       /\ IF l.pos < l.size THEN l.base + l.pos = F.start + n /\ at = l.base + l.size
          ELSE at = F.start + n
  ELSE /\ l.pos = l.size
       /\ at = F.start + a.inProcessed
       /\ a.pos <= a.size /\ a.size <= a.inProcessed
       /\ a.inProcessed - (a.size - a.pos) = n
       /\ a.pos < a.size => a.base + a.size = at
       /\ a.sound
       /\ \E k \in 0..F.inSize : F.inSize = a.inProcessed + Block * k

\* The first n cells of folder fo have been decoded, those from the damage on wrong.
Decodes(c, fo, n) == \A i \in 1..n : c[i] = IF i < Folder[fo].damage THEN "right" ELSE "wrong"

\* They can have been: with the key, and not past a damage the codec notices.
Fit(fo, n) ==
  /\ ~Locked(fo)
  /\ CanStream(fo) \/ ~Damaged(fo)
  /\ Folder[fo].method = "LZMA" => n < Folder[fo].damage
  /\ Folder[fo].method = "Copy" => n <= Folder[fo].inSize \/ n < Folder[fo].damage

\* What there is of a block that is to be continued, and where its stream stands.
Follows ==
  dec # None /\ dec.active =>
    LET fo == dec.folderIndex IN
    /\ outBuffer # None /\ dec.outBuffer = outBuffer.addr /\ blockIndex = fo
    /\ dec.total = Total(fo) /\ dec.decoded <= Total(fo)
    /\ Decodes(outBuffer.cells, fo, dec.decoded) /\ Fit(fo, dec.decoded) /\ dec.lzSound
    /\ dec.decoded < Total(fo) =>
         /\ CanStream(fo)
         /\ Position(fo, dec.aes, dec.lzIn, look, filePos)
         /\ dec.lzIn + dec.remaining = Folder[fo].inSize
         /\ Folder[fo].method = "Copy" => dec.lzIn = dec.decoded
    /\ dec.decoded = Total(fo) /\ ~dec.crcChecked => pc = "step" /\ TargetSize >= Total(fo)

Request == <<req.file, req.sink>>

\* Each stage of a call has what it needs, and nothing went wrong before the reply.
InCall ==
  LET fo == File[req.file].folder IN
  /\ pc \in {"step", "check", "deliver"} => ~fault
  /\ pc \in {"step", "check"} => fo # 0 /\ Total(fo) # 0
  /\ pc = "step" => dec # None /\ dec.active /\ dec.folderIndex = fo
  /\ pc = "check" => /\ outBuffer # None /\ blockIndex = fo
                     /\ Decodes(outBuffer.cells, fo, TargetSize) /\ Fit(fo, TargetSize)
  /\ pc = "deliver" => /\ Slice = Content[Request]
                       /\ Request \in Hopeless <=> req.sink = "buffer" /\ outBuffer = None
  /\ pc = "reply" => IF res = "ok" THEN out = Content[Request] /\ Request \notin Hopeless
                     ELSE Request \in Hopeless \/ fault

IInv == TypeOK /\ KeyKnown /\ Follows /\ InCall

-----------------------------------------------------------------------------
(* The constants *)

\* What is assumed of the sizes, conjunct by conjunct.
LEMMA Sizes ==
  /\ BufSize \in Nat \ {0} /\ Window \in Nat \ {0} /\ Block \in Nat \ {0} /\ FileLength \in Nat
  /\ HasPassword \in BOOLEAN
  /\ \E k \in Nat \ {0} : AesBuf = Block * k
BY SizeAssumption

\* ... of a folder's record,
LEMMA FolderTyped ==
  ASSUME NEW fo \in Folders
  PROVE  /\ fo \in Nat \ {0} /\ Folder[fo] \in FolderRecords /\ Total(fo) \in Nat
         /\ Folder[fo].need \in [1..Total(fo) -> Nat]
<1>1. Folder[fo] \in FolderRecords
  BY ONLY FolderAssumption, ElementOfSeq, fo \in Folders DEF Folders
<1>2. Folder[fo].need \in Seq(Nat)
  BY <1>1 DEF FolderRecords
<1>3. ASSUME NEW s \in Seq(Nat) PROVE Len(s) \in Nat /\ s \in [1..Len(s) -> Nat]
  OBVIOUS
<1> QED
  BY <1>1, <1>2, <1>3 DEF Total, Folders

\* ... of its fields,
LEMMA FolderFields ==
  ASSUME NEW fo \in Folders
  PROVE  /\ Folder[fo].start \in Nat /\ Folder[fo].inSize \in Nat /\ Folder[fo].damage \in Nat \ {0}
         /\ Folder[fo].key \in Keys /\ Folder[fo].aes \in BOOLEAN /\ Folder[fo].crc \in BOOLEAN
         /\ Folder[fo].start + Folder[fo].inSize <= FileLength
         /\ \A i \in 1..Total(fo) : Folder[fo].need[i] > Folder[fo].inSize => Folder[fo].damage <= i
         /\ Folder[fo].method = "Copy" => \A i \in 1..Total(fo) : Folder[fo].need[i] = i
         /\ Folder[fo].aes => \E k \in 0..Folder[fo].inSize : Folder[fo].inSize = Block * k
<1>1. Folder[fo] \in FolderRecords
  BY FolderTyped
<1>2. /\ Folder[fo].start \in Nat /\ Folder[fo].inSize \in Nat /\ Folder[fo].damage \in Nat \ {0}
      /\ Folder[fo].key \in Keys /\ Folder[fo].aes \in BOOLEAN /\ Folder[fo].crc \in BOOLEAN
  BY <1>1 DEF FolderRecords
<1>3. /\ Folder[fo].start + Folder[fo].inSize <= FileLength
      /\ \A i \in 1..Total(fo) : Folder[fo].need[i] > Folder[fo].inSize => Folder[fo].damage <= i
      /\ Folder[fo].method = "Copy" => \A i \in 1..Total(fo) : Folder[fo].need[i] = i
      /\ Folder[fo].aes => \E k \in 0..Folder[fo].inSize : Folder[fo].inSize = Block * k
  BY FolderAssumption
<1> QED
  BY <1>2, <1>3

\* ... and of a file.
LEMMA FileFields ==
  ASSUME NEW f \in Files
  PROVE  /\ File[f].folder \in {0} \cup Folders /\ File[f].offset \in Nat /\ File[f].size \in Nat
         /\ File[f].crc \in BOOLEAN
         /\ File[f].folder = 0 => File[f].size = 0
         /\ File[f].folder # 0 => File[f].offset + File[f].size <= Total(File[f].folder)
         /\ (File[f].folder # 0 /\ Folder[File[f].folder].method = "Copy"
             /\ Folder[File[f].folder].damage <= Folder[File[f].folder].inSize
             /\ Folder[File[f].folder].damage <= File[f].offset + File[f].size)
            => File[f].crc /\ File[f].size > 0
<1>1. File[f] \in FileRecords
  BY ONLY FileAssumption, ElementOfSeq, f \in Files DEF Files
<1>2. /\ File[f].folder \in Nat /\ File[f].offset \in Nat /\ File[f].size \in Nat
      /\ File[f].crc \in BOOLEAN
  BY <1>1 DEF FileRecords
<1> QED
  BY <1>2, FileAssumption

\* No record that the handle keeps is None.
LEMMA NotNone ==
  /\ None \notin Decoders /\ None \notin AesStreams /\ None \notin KeyCaches
  /\ \A fo : None \notin Buffers(fo)
BY DEF None, Decoders, AesStreams, KeyCaches, Buffers

LEMMA IdleTyped == Idle \in Decoders /\ ~Idle.active
BY DEF Idle, Decoders

\* Whole cipher blocks: what is read of a rest of whole blocks are whole blocks, too.
LEMMA WholeBlocks ==
  ASSUME NEW m \in Nat \ {0}, NEW left \in Nat, NEW k \in Nat, left = Block * k, left # 0,
         NEW chunk, chunk = Lesser(Block * m, left)
  PROVE  /\ chunk >= Block
         /\ \E j \in Nat \ {0} : (chunk \div Block) * Block = Block * j /\ j <= k
<1>1. Block \in Nat \ {0}
  BY Sizes
<1>2. k >= 1 /\ chunk \in {Block * m, Block * k}
  BY <1>1 DEF Lesser
<1>3. ASSUME NEW j \in Nat \ {0} PROVE (Block * j) \div Block = j /\ Block * j >= Block
                                       /\ Block * j = j * Block
  BY <1>1
<1>4. CASE Block * m <= Block * k
  <2>1. chunk = Block * m /\ m <= k
    BY <1>1, <1>4 DEF Lesser
  <2>2. chunk >= Block /\ (chunk \div Block) * Block = Block * m
    BY <1>3, <2>1
  <2> QED
    BY <2>1, <2>2
<1>5. CASE ~(Block * m <= Block * k)
  <2>1. chunk = Block * k /\ k \in Nat \ {0}
    BY <1>2, <1>5 DEF Lesser
  <2>2. chunk >= Block /\ (chunk \div Block) * Block = Block * k
    BY <1>3, <2>1
  <2> QED
    BY <2>1, <2>2
<1> QED
  BY <1>4, <1>5

-----------------------------------------------------------------------------
(* What a look at the active stream gives *)

\* A read that succeeds gives all that was asked, as far as the file goes.
LEMMA FileGives ==
  ASSUME NEW at \in Nat, NEW n \in Nat, NEW r \in FileRead(n, at)
  PROVE  /\ r.ok \in BOOLEAN /\ r.n \in Nat
         /\ r.ok => r.n <= n /\ (at + n <= FileLength => r.n = n)
<1> DEFINE got == Greater(0, Lesser(n, FileLength - at))
<1>1. FileLength \in Nat
  BY Sizes
<1>2. got \in Nat /\ got <= n /\ (at + n <= FileLength => got = n)
  BY <1>1 DEF Lesser, Greater
<1>3. Greater(got, 1) - 1 \in Nat
  BY <1>2 DEF Greater
<1>4. r = [ok |-> TRUE, n |-> got] \/ \E k \in 0..(Greater(got, 1) - 1) : r = [ok |-> FALSE, n |-> k]
  BY DEF FileRead
<1> HIDE DEF got
<1>5. CASE r = [ok |-> TRUE, n |-> got]
  <2>1. r.ok = TRUE /\ r.n = got
    BY <1>5
  <2> QED
    BY <2>1, <1>2
<1>6. ASSUME NEW k \in 0..(Greater(got, 1) - 1), r = [ok |-> FALSE, n |-> k]
      PROVE  r.ok = FALSE /\ r.n \in Nat
  BY <1>3, <1>6
<1> QED
  BY <1>4, <1>5, <1>6

\* The folder, its cipher stream and its place in the file while a decoder is at work.
AtWork(size) ==
  /\ dec \in Decoders /\ dec.folderIndex \in Folders /\ dec.lzSound
  /\ look \in Looks /\ filePos \in Nat
  /\ Position(dec.folderIndex, dec.aes, dec.lzIn, look, filePos)
  /\ dec.lzIn + dec.remaining = Folder[dec.folderIndex].inSize
  /\ size \in 0..dec.remaining

\* A look gives the next packed cells of the folder, at least one if there is one left,
\* and the stream stands behind those that are then used.
Gives(o, size) ==
  /\ o.ok \in BOOLEAN /\ o.look \in Looks /\ o.filePos \in Nat
  /\ o.ok => /\ o.n \in 0..size /\ (size > 0 => o.n > 0 /\ Sound(o))
             /\ \A u \in 0..o.n : LET s == Skipped(o, u) IN
                  /\ s.look \in Looks /\ s.aes \in AesStreams \cup {None}
                  /\ Position(dec.folderIndex, s.aes, dec.lzIn + u, s.look, o.filePos)

\* A look at the file itself, when the folder is not behind the cipher.
LEMMA LookExactGives ==
  ASSUME NEW size, AtWork(size), dec.aes = None, NEW o \in LookExact(size)
  PROVE  Gives(o, size)
<1> DEFINE fo == dec.folderIndex
<1>1. /\ dec.lzIn \in Nat /\ dec.remaining \in Nat /\ size \in Nat
      /\ Folder[fo].start \in Nat /\ Folder[fo].inSize \in Nat
      /\ Folder[fo].start + Folder[fo].inSize <= FileLength
      /\ look.base \in Nat /\ look.size \in Nat /\ look.pos \in Nat /\ filePos \in Nat
      /\ FileLength \in Nat /\ BufSize \in Nat \ {0}
  BY FolderFields, Sizes DEF AtWork, Decoders, Looks
<1>2. /\ look.pos <= look.size
      /\ look.pos < look.size => /\ look.base + look.pos = Folder[fo].start + dec.lzIn
                                 /\ filePos = look.base + look.size
      /\ look.pos = look.size => filePos = Folder[fo].start + dec.lzIn
  BY <1>1 DEF AtWork, Position
<1>3. CASE Avail(look) = 0 /\ size # 0
  <2>1. PICK r \in FileRead(Lesser(size, BufSize), filePos) :
           o = [ok |-> r.ok, from |-> filePos, n |-> r.n, sound |-> TRUE, filePos |-> filePos + r.n,
                look |-> [base |-> filePos, size |-> r.n, pos |-> 0], aes |-> None]
    BY <1>3 DEF LookExact
  <2>2. /\ Lesser(size, BufSize) \in Nat \ {0} /\ Lesser(size, BufSize) <= size
        /\ filePos = Folder[fo].start + dec.lzIn
        /\ filePos + Lesser(size, BufSize) <= FileLength
    BY <1>1, <1>2, <1>3 DEF Lesser, Avail, AtWork
  <2>3. /\ r.ok \in BOOLEAN /\ r.n \in Nat
        /\ r.ok => r.n = Lesser(size, BufSize)
    BY <1>1, <2>2, FileGives
  <2>4. o.look \in Looks
    BY <1>1, <2>1, <2>3 DEF Looks
  <2>5. ASSUME r.ok, NEW u \in 0..r.n
        PROVE  /\ Skipped(o, u).look = [base |-> filePos, size |-> r.n, pos |-> u]
               /\ Skipped(o, u).aes = None
    BY <2>1, <2>3 DEF Skipped, AtWork
  <2>6. ASSUME o.ok
        PROVE  /\ o.n \in 0..size /\ (size > 0 => o.n > 0 /\ Sound(o))
               /\ \A u \in 0..o.n : /\ Skipped(o, u).look \in Looks
                                    /\ Skipped(o, u).aes \in AesStreams \cup {None}
                                    /\ Position(fo, Skipped(o, u).aes, dec.lzIn + u, Skipped(o, u).look, o.filePos)
    <3>1. o.n = r.n /\ r.n \in 0..size /\ r.n > 0 /\ o.filePos = filePos + r.n
      BY <2>1, <2>2, <2>3, <2>6, <1>1
    <3>2. Sound(o)
      BY <2>1, <2>2 DEF Sound, AtWork
    <3>3. ASSUME NEW u \in 0..r.n
          PROVE  Position(fo, None, dec.lzIn + u, [base |-> filePos, size |-> r.n, pos |-> u], filePos + r.n)
      BY <1>1, <2>2, <2>3 DEF Position
    <3>4. ASSUME NEW u \in 0..r.n PROVE [base |-> filePos, size |-> r.n, pos |-> u] \in Looks
      BY <1>1, <2>3 DEF Looks
    <3>5. r.ok
      BY <2>1, <2>6
    <3>6. ASSUME NEW u \in 0..o.n
          PROVE  /\ Skipped(o, u).look \in Looks
                 /\ Skipped(o, u).aes \in AesStreams \cup {None}
                 /\ Position(fo, Skipped(o, u).aes, dec.lzIn + u, Skipped(o, u).look, o.filePos)
      <4>1. u \in 0..r.n
        BY <3>1
      <4>2. /\ Skipped(o, u).look = [base |-> filePos, size |-> r.n, pos |-> u]
            /\ Skipped(o, u).aes = None
        BY <4>1, <3>5, <2>5
      <4> QED
        BY <4>1, <4>2, <3>1, <3>3, <3>4
    <3> QED
      BY <3>1, <3>2, <3>6
  <2>7. o.ok \in BOOLEAN /\ o.filePos \in Nat
    BY <1>1, <2>1, <2>3
  <2> QED
    BY <2>4, <2>6, <2>7 DEF Gives
<1>4. CASE ~(Avail(look) = 0 /\ size # 0)
  <2>1. o = [ok |-> TRUE, from |-> look.base + look.pos, n |-> Lesser(size, Avail(look)), sound |-> TRUE,
             filePos |-> filePos, look |-> look, aes |-> None]
    BY <1>4 DEF LookExact
  <2>2. /\ Lesser(size, Avail(look)) \in 0..size /\ Lesser(size, Avail(look)) <= look.size - look.pos
        /\ size > 0 => Lesser(size, Avail(look)) > 0 /\ look.pos < look.size
    BY <1>1, <1>2, <1>4 DEF Lesser, Avail
  <2>3. ASSUME NEW u \in 0..Lesser(size, Avail(look))
        PROVE  /\ Skipped(o, u).look = [base |-> look.base, size |-> look.size, pos |-> look.pos + u]
               /\ Skipped(o, u).aes = None
    BY <2>1 DEF Skipped, AtWork, Looks
  <2>4. o.ok /\ o.n = Lesser(size, Avail(look)) /\ o.look \in Looks /\ o.filePos = filePos
    BY <2>1 DEF AtWork
  <2>5. size > 0 => Sound(o)
    BY <1>2, <2>1, <2>2, <1>1 DEF Sound, AtWork
  <2>6. ASSUME NEW u \in 0..o.n
        PROVE  /\ Skipped(o, u).look \in Looks
               /\ Position(fo, Skipped(o, u).aes, dec.lzIn + u, Skipped(o, u).look, o.filePos)
    <3> DEFINE l == [base |-> look.base, size |-> look.size, pos |-> look.pos + u]
    <3>1. u \in Nat /\ u <= look.size - look.pos /\ u <= size
      BY <2>2, <2>4, <1>1
    <3>2. l \in Looks
      BY <1>1, <3>1 DEF Looks
    <3>3. Position(fo, None, dec.lzIn + u, l, filePos)
      <4>1. l.base = look.base /\ l.size = look.size /\ l.pos = look.pos + u
        OBVIOUS
      <4>2. l.pos <= l.size
        BY <1>1, <3>1, <4>1
      <4>3. l.pos < l.size => l.base + l.pos = Folder[fo].start + (dec.lzIn + u) /\ filePos = l.base + l.size
        BY <1>1, <1>2, <3>1, <4>1
      <4>4. ~(l.pos < l.size) => filePos = Folder[fo].start + (dec.lzIn + u)
        BY <1>1, <1>2, <3>1, <4>1
      <4> HIDE DEF l
      <4> QED
        BY <4>2, <4>3, <4>4 DEF Position
    <3>4. Skipped(o, u).look = l /\ Skipped(o, u).aes = None
      BY <2>3, <2>4
    <3> HIDE DEF l
    <3> QED
      BY <2>4, <3>2, <3>3, <3>4
  <2>7. \A u \in 0..o.n : Skipped(o, u).aes = None
    BY <2>3, <2>4
  <2>8. o.ok \in BOOLEAN /\ o.filePos \in Nat
    BY <1>1, <2>1
  <2> QED
    BY <2>2, <2>4, <2>5, <2>6, <2>7, <2>8 DEF Gives
<1> QED
  BY <1>3, <1>4

\* With an empty buffer, LookInStream_Read2 gives the cells at the descriptor.
LEMMA ReadGives ==
  ASSUME look \in Looks, look.pos = look.size, filePos \in Nat,
         NEW n \in Nat \ {0}, filePos + n <= FileLength, NEW o \in ReadExactly(n)
  PROVE  /\ o.ok \in BOOLEAN /\ o.look = look /\ o.filePos \in Nat
         /\ o.ok => o.n = n /\ o.sound /\ o.from = filePos /\ o.filePos = filePos + n
<1> DEFINE Read(m, at) == {[ok |-> r.ok, n |-> r.n, from |-> at, look |-> look, filePos |-> at + r.n]
                             : r \in FileRead(m, at)}
<1>1. \A m, at : LookRead(m, look, at) = Read(m, at)
  BY DEF LookRead, Avail, Looks
<1>2. PICK r \in Read(n, filePos) :
         \/ (~r.ok \/ r.n = n) /\ o = [ok |-> r.ok /\ r.n = n, n |-> r.n, from |-> r.from,
                                       look |-> r.look, filePos |-> r.filePos, sound |-> TRUE]
         \/ /\ r.ok /\ r.n # n
            /\ \E q \in LookRead(n - r.n, r.look, r.filePos) :
                  o = [ok |-> q.ok /\ r.n + q.n = n, n |-> r.n + q.n, from |-> r.from, look |-> q.look,
                       filePos |-> q.filePos, sound |-> q.from = r.from + r.n]
  BY <1>1 DEF ReadExactly
<1>3. PICK x \in FileRead(n, filePos) : r = [ok |-> x.ok, n |-> x.n, from |-> filePos, look |-> look,
                                             filePos |-> filePos + x.n]
  BY <1>2
<1>4. x.ok \in BOOLEAN /\ x.n \in Nat /\ (x.ok => x.n = n)
  BY FileGives
<1>5. o = [ok |-> r.ok /\ r.n = n, n |-> r.n, from |-> r.from, look |-> r.look,
           filePos |-> r.filePos, sound |-> TRUE]
  BY <1>2, <1>3, <1>4
<1> QED
  BY <1>3, <1>4, <1>5

\* A refill of the cipher stream, or none.
LEMMA AesLookGives ==
  ASSUME NEW size, AtWork(size), dec.aes # None, NEW o \in AesLook(size)
  PROVE  Gives(o, size)
<1> DEFINE fo == dec.folderIndex
           a == dec.aes
           left == Folder[fo].inSize - a.inProcessed
           chunk == Lesser(AesBuf, left)
           toRead == IF chunk >= Block THEN (chunk \div Block) * Block ELSE chunk
<1>1. /\ dec.lzIn \in Nat /\ dec.remaining \in Nat /\ size \in Nat /\ a \in AesStreams
      /\ a.inProcessed \in Nat /\ a.pos \in Nat /\ a.size \in Nat /\ a.base \in Nat
      /\ Folder[fo].start \in Nat /\ Folder[fo].inSize \in Nat
      /\ Folder[fo].start + Folder[fo].inSize <= FileLength
      /\ look \in Looks /\ filePos \in Nat /\ FileLength \in Nat /\ Block \in Nat \ {0}
      /\ size <= dec.remaining /\ dec.lzIn + dec.remaining = Folder[fo].inSize
  BY FolderFields, Sizes DEF AtWork, Decoders, AesStreams
<1>2. /\ look.pos = look.size
      /\ filePos = Folder[fo].start + a.inProcessed
      /\ a.pos <= a.size /\ a.size <= a.inProcessed
      /\ a.inProcessed - (a.size - a.pos) = dec.lzIn
      /\ a.pos < a.size => a.base + a.size = filePos
  BY <1>1 DEF AtWork, Position
<1>8. a.sound = TRUE /\ \E k \in 0..Folder[fo].inSize : Folder[fo].inSize = a.inProcessed + Block * k
  BY <1>1 DEF AtWork, Position, AesStreams
\* What a stream b shows, found or just refilled.
<1>3. ASSUME NEW b \in AesStreams, NEW at \in Nat, o.ok = TRUE, o.from = b.base + b.pos,
             o.n = Lesser(size, b.size - b.pos), o.sound = b.sound, o.filePos = at, o.look = look, o.aes = b,
             Position(fo, b, dec.lzIn, look, at), size > 0 => b.pos < b.size
      PROVE  Gives(o, size)
  <2>1. /\ b.pos \in Nat /\ b.size \in Nat /\ b.base \in Nat /\ b.inProcessed \in Nat /\ b # None
    BY NotNone DEF AesStreams
  <2>2. /\ at = Folder[fo].start + b.inProcessed
        /\ b.pos <= b.size /\ b.size <= b.inProcessed
        /\ b.inProcessed - (b.size - b.pos) = dec.lzIn
        /\ b.pos < b.size => b.base + b.size = at
    BY <1>3, <2>1 DEF Position
  <2>6. b.sound = TRUE /\ \E k \in 0..Folder[fo].inSize : Folder[fo].inSize = b.inProcessed + Block * k
    BY <1>3, <2>1 DEF Position, AesStreams
  <2>3. /\ o.n \in 0..size /\ o.n <= b.size - b.pos
        /\ size > 0 => o.n > 0
    BY <1>1, <1>3, <2>1, <2>2 DEF Lesser
  <2>4. size > 0 => Sound(o)
    <3>1. size > 0 => o.from = Folder[fo].start + dec.lzIn
      BY <1>1, <1>3, <2>1, <2>2
    <3>2. dec.lzSound /\ o.sound
      BY <1>3, <2>6 DEF AtWork
    <3> QED
      BY <3>1, <3>2 DEF Sound
  <2>5. ASSUME NEW u \in 0..o.n
        PROVE  /\ Skipped(o, u).look \in Looks
               /\ Skipped(o, u).aes \in AesStreams \cup {None}
               /\ Position(fo, Skipped(o, u).aes, dec.lzIn + u, Skipped(o, u).look, o.filePos)
    <3> DEFINE c == [b EXCEPT !.pos = @ + u]
    <3>1. Skipped(o, u).look = look /\ Skipped(o, u).aes = c
      BY <1>3 DEF Skipped, AtWork
    <3>2. c \in AesStreams /\ c.pos = b.pos + u /\ c.size = b.size /\ c.base = b.base
          /\ c.inProcessed = b.inProcessed /\ c.sound = b.sound
      BY <2>1, <2>3 DEF AesStreams
    <3> HIDE DEF c
    <3>3. c # None
      BY <3>2, NotNone
    <3>4. c.pos <= c.size /\ c.inProcessed - (c.size - c.pos) = dec.lzIn + u
          /\ (c.pos < c.size => c.base + c.size = at)
      <4>1. size \in Nat /\ u \in 0..o.n
        BY <1>1
      <4> QED
        BY ONLY <2>1, <2>2, <2>3, <3>2, <4>1
    <3>5. Position(fo, c, dec.lzIn + u, look, at)
      BY <1>2, <2>2, <2>6, <3>2, <3>3, <3>4 DEF Position
    <3> QED
      BY <1>1, <1>3, <3>1, <3>2, <3>5
  <2> QED
    BY <1>1, <1>3, <2>3, <2>4, <2>5 DEF Gives
<1>4. CASE a.pos # a.size
  <2>1. o = [ok |-> TRUE, from |-> a.base + a.pos, n |-> Lesser(size, a.size - a.pos),
             sound |-> a.sound, filePos |-> filePos, look |-> look, aes |-> a]
    BY <1>4 DEF AesLook
  <2>2. a.pos < a.size
    <3>1. a.pos \in Nat /\ a.size \in Nat /\ a.pos <= a.size
      BY <1>1, <1>2
    <3> QED
      BY ONLY <1>4, <3>1
  <2> QED
    BY <1>1, <1>3, <2>1, <2>2 DEF AtWork
<1>5. left \in Nat /\ (left # 0 => /\ toRead \in Nat \ {0} /\ toRead >= Block /\ toRead <= left
                                   /\ \E k \in 0..Folder[fo].inSize : left = toRead + Block * k)
  <2>1. PICK k \in 0..Folder[fo].inSize : Folder[fo].inSize = a.inProcessed + Block * k
    BY <1>8
  <2>2. left = Block * k /\ left \in Nat
    BY <1>1, <2>1
  <2>3. PICK m \in Nat \ {0} : AesBuf = Block * m
    BY Sizes
  <2>4. CASE left # 0
    <3>1. PICK j \in Nat \ {0} : (chunk \div Block) * Block = Block * j /\ j <= k /\ chunk >= Block
      BY <2>2, <2>3, <2>4, WholeBlocks
    <3>2. toRead = Block * j
      BY <3>1
    <3>3. k - j \in 0..Folder[fo].inSize /\ Block * k = Block * j + Block * (k - j)
          /\ Block * j \in Nat \ {0} /\ Block * j >= Block /\ Block * (k - j) \in Nat
      BY <1>1, <3>1
    <3> HIDE DEF toRead, left
    <3> QED
      BY <1>1, <2>2, <3>2, <3>3
  <2> QED
    BY <2>2, <2>4
<1>6. CASE a.pos = a.size /\ toRead = 0
  <2> DEFINE b == [a EXCEPT !.pos = 0, !.size = 0]
  <2>1. o = [ok |-> TRUE, from |-> b.base + b.pos, n |-> Lesser(size, b.size - b.pos),
             sound |-> b.sound, filePos |-> filePos, look |-> look, aes |-> b]
    BY <1>6 DEF AesLook
  <2>2. /\ b \in AesStreams /\ b.pos = 0 /\ b.size = 0 /\ b.sound /\ b.inProcessed = a.inProcessed
    BY <1>1, <1>8 DEF AesStreams
  <2>3. left = 0
    BY <1>5, <1>6
  <2>4. size = 0
    BY <1>1, <1>2, <1>6, <2>3
  <2> HIDE DEF b
  <2>5. Position(fo, b, dec.lzIn, look, filePos)
    BY <1>1, <1>2, <1>6, <1>8, <2>2, NotNone DEF Position
  <2> QED
    BY <1>1, <1>3, <2>1, <2>2, <2>4, <2>5
<1>7. CASE a.pos = a.size /\ toRead # 0
  <2>1. /\ toRead \in Nat \ {0} /\ toRead >= Block /\ toRead <= left /\ left # 0
        /\ \E k \in 0..Folder[fo].inSize : left = toRead + Block * k
    <3>1. left # 0
      BY <1>1, <1>5, <1>7, Sizes DEF Lesser
    <3> QED
      BY <1>5, <3>1
  <2>2. PICK r \in ReadExactly(toRead) :
           LET b == [inProcessed |-> a.inProcessed + toRead, pos |-> 0, size |-> toRead,
                     base |-> Folder[fo].start + a.inProcessed,
                     sound |-> a.sound /\ r.sound /\ r.from = Folder[fo].start + a.inProcessed
                               /\ toRead >= Block]
           IN IF r.ok
              THEN o = [ok |-> TRUE, from |-> b.base + b.pos, n |-> Lesser(size, b.size - b.pos),
                        sound |-> b.sound, filePos |-> r.filePos, look |-> r.look, aes |-> b]
              ELSE o = [ok |-> FALSE, from |-> 0, n |-> 0, sound |-> FALSE, filePos |-> r.filePos,
                        look |-> r.look, aes |-> [a EXCEPT !.pos = 0, !.size = 0]]
    BY <1>7 DEF AesLook
  <2> HIDE DEF toRead
  <2>3. filePos + toRead <= FileLength
    BY <1>1, <1>2, <2>1
  <2>4. /\ r.ok \in BOOLEAN /\ r.look = look /\ r.filePos \in Nat
        /\ r.ok => r.n = toRead /\ r.sound /\ r.from = filePos /\ r.filePos = filePos + toRead
    BY <1>1, <1>2, <2>1, <2>3, ReadGives
  <2>5. CASE ~r.ok
    <3>1. o.ok = FALSE /\ o.look = r.look /\ o.filePos = r.filePos
      BY <2>2, <2>5
    <3> QED
      BY <1>1, <2>4, <3>1 DEF Gives
  <2>6. CASE r.ok
    <3> DEFINE b == [inProcessed |-> a.inProcessed + toRead, pos |-> 0, size |-> toRead,
                     base |-> Folder[fo].start + a.inProcessed,
                     sound |-> a.sound /\ r.sound /\ r.from = Folder[fo].start + a.inProcessed
                               /\ toRead >= Block]
    <3>1. o = [ok |-> TRUE, from |-> b.base + b.pos, n |-> Lesser(size, b.size - b.pos),
               sound |-> b.sound, filePos |-> r.filePos, look |-> r.look, aes |-> b]
      BY <2>2, <2>6
    <3>2. /\ b \in AesStreams /\ b.pos = 0 /\ b.size = toRead /\ b.base = filePos
          /\ b.inProcessed = a.inProcessed + toRead /\ b.sound
      <4>1. a.sound /\ r.sound /\ r.from = Folder[fo].start + a.inProcessed /\ toRead >= Block
        BY <1>2, <1>8, <2>1, <2>4, <2>6
      <4>2. Folder[fo].start + a.inProcessed = filePos /\ a.inProcessed + toRead \in Nat
        BY <1>1, <1>2, <2>1
      <4> QED
        BY <1>1, <2>1, <4>1, <4>2 DEF AesStreams
    <3> HIDE DEF b
    <3>3. Position(fo, b, dec.lzIn, look, filePos + toRead)
      <4>1. b # None /\ b.pos <= b.size /\ b.size <= b.inProcessed /\ b.sound
            /\ b.inProcessed - (b.size - b.pos) = dec.lzIn /\ b.base + b.size = filePos + toRead
            /\ filePos + toRead = Folder[fo].start + b.inProcessed
        BY <1>1, <1>2, <1>7, <2>1, <3>2, NotNone
      <4>2. \E k \in 0..Folder[fo].inSize : Folder[fo].inSize = b.inProcessed + Block * k
        <5>1. PICK k \in 0..Folder[fo].inSize : left = toRead + Block * k
          BY <2>1
        <5>2. Block * k \in Nat
          BY <1>1, <5>1
        <5> QED
          BY <1>1, <2>1, <3>2, <5>1, <5>2
      <4> QED
        BY <1>2, <4>1, <4>2 DEF Position
    <3> QED
      <4>1. o.ok = TRUE /\ o.from = b.base + b.pos /\ o.n = Lesser(size, b.size - b.pos)
            /\ o.sound = b.sound /\ o.filePos = filePos + toRead /\ o.look = look /\ o.aes = b
        BY <2>4, <2>6, <3>1
      <4>2. filePos + toRead \in Nat /\ b.pos < b.size
        BY <1>1, <2>1, <3>2
      <4> QED
        BY <1>3, <3>2, <3>3, <4>1, <4>2
  <2> QED
    BY <2>4, <2>5, <2>6
<1> QED
  BY <1>4, <1>6, <1>7

\* Whichever stream the decoder reads.
LEMMA ActiveLookGives ==
  ASSUME NEW size, AtWork(size), NEW o \in ActiveLook(size)
  PROVE  Gives(o, size)
BY LookExactGives, AesLookGives DEF ActiveLook

-----------------------------------------------------------------------------
(* The decoding loop *)

\* What the loop knows before a turn.
LEMMA AtStep ==
  ASSUME IInv, pc = "step"
  PROVE  /\ req \in [file : Files, sink : Sinks] /\ ~fault
         /\ dec \in Decoders /\ dec.active = TRUE
         /\ dec.folderIndex = File[req.file].folder /\ dec.folderIndex \in Folders
         /\ blockIndex = dec.folderIndex
         /\ outBuffer # None /\ outBuffer \in Buffers(blockIndex) /\ dec.outBuffer = outBuffer.addr
         /\ dec.total = Total(dec.folderIndex) /\ dec.decoded \in 0..dec.total
         /\ TargetSize = File[req.file].offset + File[req.file].size
         /\ TargetSize \in 0..dec.total /\ Target = TargetSize
<1>1. req \in [file : Files, sink : Sinks] /\ ~fault /\ dec # None /\ dec.active
      /\ dec.folderIndex = File[req.file].folder /\ File[req.file].folder # 0
  BY DEF IInv, TypeOK, InCall
<1>2. req.file \in Files
  BY <1>1
<1>3. /\ dec \in Decoders /\ dec.folderIndex \in Folders /\ dec.active = TRUE
      /\ File[req.file].offset + File[req.file].size \in 0..Total(dec.folderIndex)
  BY <1>1, <1>2, FileFields, FolderTyped DEF IInv, TypeOK, Decoders
<1>4. /\ outBuffer # None /\ dec.outBuffer = outBuffer.addr /\ blockIndex = dec.folderIndex
      /\ dec.total = Total(dec.folderIndex) /\ dec.decoded <= dec.total
  BY <1>1 DEF IInv, Follows
<1>5. outBuffer \in Buffers(blockIndex)
  BY <1>4 DEF IInv, TypeOK
<1>6. dec.decoded \in Nat
  BY <1>3 DEF Decoders
<1>7. TargetSize = File[req.file].offset + File[req.file].size
  BY DEF TargetSize
<1> QED
  BY <1>1, <1>3, <1>4, <1>5, <1>6, <1>7, FolderTyped DEF Target, Lesser

\* ... and when it has cells to decode.
LEMMA StepAtWork ==
  ASSUME IInv, pc = "step", dec.decoded < Target
  PROVE  /\ \A size \in 0..dec.remaining : AtWork(size)
         /\ dec.remaining \in Nat /\ dec.lzIn \in Nat /\ dec.aes \in AesStreams \cup {None}
         /\ dec.lzIn + dec.remaining = Folder[dec.folderIndex].inSize
         /\ Folder[dec.folderIndex].method = "Copy" => dec.lzIn = dec.decoded
         /\ Decodes(outBuffer.cells, dec.folderIndex, dec.decoded)
         /\ Fit(dec.folderIndex, dec.decoded) /\ CanStream(dec.folderIndex)
<1>1. /\ dec.decoded < Total(dec.folderIndex) /\ dec \in Decoders /\ dec # None /\ dec.active
      /\ dec.folderIndex \in Folders
  <2>1. /\ dec \in Decoders /\ dec.active = TRUE /\ dec.folderIndex \in Folders
        /\ dec.total = Total(dec.folderIndex) /\ dec.decoded \in 0..dec.total
        /\ TargetSize \in 0..dec.total /\ Target = TargetSize
    BY AtStep
  <2>2. dec.total \in Nat
    BY <2>1, FolderTyped
  <2> QED
    BY <2>1, <2>2, NotNone
<1>2. /\ Position(dec.folderIndex, dec.aes, dec.lzIn, look, filePos)
      /\ dec.lzIn + dec.remaining = Folder[dec.folderIndex].inSize
      /\ Folder[dec.folderIndex].method = "Copy" => dec.lzIn = dec.decoded
      /\ Decodes(outBuffer.cells, dec.folderIndex, dec.decoded)
      /\ Fit(dec.folderIndex, dec.decoded) /\ dec.lzSound
      /\ CanStream(dec.folderIndex)
  BY <1>1 DEF IInv, Follows
<1>3. look \in Looks /\ filePos \in Nat
  BY DEF IInv, TypeOK
<1> QED
  BY <1>1, <1>2, <1>3 DEF AtWork, Decoders

\* The cells of a turn are right up to the damage.
LEMMA CellsProduced ==
  ASSUME IInv, pc = "step", Decodes(outBuffer.cells, dec.folderIndex, dec.decoded),
         NEW last \in dec.decoded..Total(dec.folderIndex),
         NEW b, b = Produced(dec.decoded + 1, last, TRUE)
  PROVE  /\ b \in Buffers(dec.folderIndex) /\ b.addr = outBuffer.addr
         /\ Decodes(b.cells, dec.folderIndex, last)
<1>1. /\ outBuffer \in Buffers(dec.folderIndex) /\ dec.decoded \in Nat
      /\ Total(dec.folderIndex) \in Nat /\ Folder[dec.folderIndex].damage \in Nat
  BY AtStep, FolderTyped, FolderFields
<1>2. /\ outBuffer.addr \in Address
      /\ outBuffer.cells \in [1..Total(dec.folderIndex) -> Cells]
  BY <1>1 DEF Buffers
<1> DEFINE c == [i \in 1..Total(dec.folderIndex) |->
                   IF i \notin (dec.decoded + 1)..last THEN outBuffer.cells[i]
                   ELSE IF i < Folder[dec.folderIndex].damage THEN "right" ELSE "wrong"]
<1>3. b = [addr |-> outBuffer.addr, cells |-> c]
  BY <1>1, <1>2 DEF Produced, Buffers
<1>4. c \in [1..Total(dec.folderIndex) -> Cells]
  BY <1>1, <1>2 DEF Cells
<1>5. Decodes(c, dec.folderIndex, last)
  BY <1>1, <1>2 DEF Decodes
<1> HIDE DEF c
<1>6. b.addr = outBuffer.addr /\ b.cells = c
  BY ONLY <1>3
<1> QED
  BY <1>2, <1>3, <1>4, <1>5, <1>6 DEF Buffers

\* A turn that goes on.
LEMMA AdvanceKeeps ==
  ASSUME IInv, pc = "step", dec.decoded < Target,
         NEW size, NEW o, Gives(o, size), o.ok, NEW used \in 0..o.n, size \in 0..dec.remaining,
         NEW last \in dec.decoded..Target,
         StepAdvances(o, used, last, TRUE), UNCHANGED CallVars,
         Folder[dec.folderIndex].method = "Copy" => last = dec.decoded + used,
         Folder[dec.folderIndex].method = "LZMA" => last < Folder[dec.folderIndex].damage
  PROVE  IInv'
<1> DEFINE fo == dec.folderIndex
<1>1. /\ dec \in Decoders /\ dec.active = TRUE /\ fo \in Folders /\ ~fault
      /\ fo = File[req.file].folder /\ req \in [file : Files, sink : Sinks]
      /\ blockIndex = fo /\ outBuffer # None /\ dec.outBuffer = outBuffer.addr
      /\ dec.total = Total(fo) /\ TargetSize \in 0..Total(fo) /\ Target = TargetSize
      /\ Total(fo) \in Nat /\ Folder[fo].inSize \in Nat /\ Folder[fo].damage \in Nat
      /\ dec.decoded \in Nat
  <2>1. /\ dec \in Decoders /\ dec.active = TRUE /\ fo \in Folders /\ ~fault
        /\ fo = File[req.file].folder /\ req \in [file : Files, sink : Sinks]
        /\ blockIndex = fo /\ outBuffer # None /\ dec.outBuffer = outBuffer.addr
        /\ dec.total = Total(fo) /\ TargetSize \in 0..dec.total /\ Target = TargetSize
        /\ dec.decoded \in 0..dec.total
    BY AtStep
  <2> QED
    BY <2>1, FolderTyped, FolderFields
<1>2. /\ dec.remaining \in Nat /\ dec.lzIn \in Nat
      /\ dec.lzIn + dec.remaining = Folder[fo].inSize
      /\ Folder[fo].method = "Copy" => dec.lzIn = dec.decoded
      /\ Decodes(outBuffer.cells, fo, dec.decoded) /\ Fit(fo, dec.decoded) /\ CanStream(fo)
  BY StepAtWork
<1>3. used \in Nat /\ used <= dec.remaining /\ o.n \in 0..size
  BY <1>2 DEF Gives
<1>4. /\ look' = Skipped(o, used).look /\ filePos' = o.filePos
      /\ outBuffer' = Produced(dec.decoded + 1, last, TRUE)
      /\ dec' = [dec EXCEPT !.aes = Skipped(o, used).aes, !.remaining = dec.remaining - used,
                            !.lzIn = dec.lzIn + used, !.decoded = last, !.lzSound = TRUE]
      /\ UNCHANGED <<pc, res, fault, blockIndex, keyCache, req, out>>
  BY DEF StepAdvances, CallVars
<1>5. /\ Skipped(o, used).look \in Looks /\ Skipped(o, used).aes \in AesStreams \cup {None}
      /\ o.filePos \in Nat
      /\ Position(fo, Skipped(o, used).aes, dec.lzIn + used, Skipped(o, used).look, o.filePos)
  BY DEF Gives
<1>6. last \in dec.decoded..Total(fo) /\ last \in Nat
  BY <1>1
<1>7. /\ dec' \in Decoders /\ dec'.aes = Skipped(o, used).aes /\ dec'.remaining = dec.remaining - used
      /\ dec'.lzIn = dec.lzIn + used /\ dec'.decoded = last
      /\ dec'.lzSound = TRUE /\ dec'.active = TRUE /\ dec'.folderIndex = fo /\ dec'.total = Total(fo)
      /\ dec'.outBuffer = dec.outBuffer /\ dec'.crcChecked = dec.crcChecked
  <2>1. dec.remaining - used \in Nat /\ dec.lzIn + used \in Nat
    BY <1>2, <1>3
  <2> DEFINE x == Skipped(o, used).aes
             r == dec.remaining - used
             n == dec.lzIn + used
  <2>2. dec' = [dec EXCEPT !.aes = x, !.remaining = r, !.lzIn = n, !.decoded = last, !.lzSound = TRUE]
    BY <1>4
  <2>3. x \in AesStreams \cup {None}
    BY <1>5
  <2> HIDE DEF x, r, n
  <2>4. /\ dec' \in Decoders /\ dec'.aes = x /\ dec'.remaining = r /\ dec'.lzIn = n /\ dec'.decoded = last
        /\ dec'.lzSound = TRUE /\ dec'.active = dec.active /\ dec'.folderIndex = dec.folderIndex
        /\ dec'.total = dec.total
        /\ dec'.outBuffer = dec.outBuffer /\ dec'.crcChecked = dec.crcChecked
    <3>1. dec \in Decoders /\ last \in Nat /\ r \in Nat /\ n \in Nat
      BY <1>1, <1>6, <2>1 DEF r, n
    <3> QED
      BY ONLY <3>1, <2>2, <2>3 DEF Decoders
  <2> QED
    BY <1>1, <2>4 DEF x, r, n
<1>8. /\ outBuffer' \in Buffers(fo) /\ outBuffer'.addr = outBuffer.addr
      /\ Decodes(outBuffer'.cells, fo, last) /\ outBuffer' # None
  BY <1>2, <1>4, <1>6, CellsProduced, NotNone
<1>9. TypeOK' /\ KeyKnown'
  BY <1>1, <1>4, <1>5, <1>7, <1>8 DEF IInv, TypeOK, KeyKnown
<1>10. Fit(fo, last)
  BY <1>1, <1>2, <1>3, <1>6 DEF Fit
<1>11. Follows'
  <2>1. TargetSize' = TargetSize
    BY <1>4 DEF TargetSize
  <2>2. last < Total(fo) =>
          /\ CanStream(fo)
          /\ Position(fo, dec'.aes, dec'.lzIn, look', filePos')
          /\ dec'.lzIn + dec'.remaining = Folder[fo].inSize
          /\ Folder[fo].method = "Copy" => dec'.lzIn = last
    <3>1. CanStream(fo) /\ (Folder[fo].method = "Copy" => dec'.lzIn = last)
      BY SMTT(30), <1>2, <1>7
    <3>2. Position(fo, dec'.aes, dec'.lzIn, look', filePos')
      BY <1>4, <1>5, <1>7
    <3>3. dec'.lzIn + dec'.remaining = Folder[fo].inSize
      BY ONLY <1>1, <1>2, <1>3, <1>7
    <3> QED
      BY <3>1, <3>2, <3>3
  <2>3. last = Total(fo) => TargetSize' >= Total(fo) /\ pc' = "step"
    BY <1>1, <1>4, <2>1
  <2>4. /\ dec'.outBuffer = outBuffer'.addr /\ blockIndex' = fo
        /\ dec'.decoded <= Total(fo) /\ dec'.decoded = last
    <3>1. last <= Total(fo)
      BY ONLY <1>1, <1>6
    <3> QED
      BY ONLY <1>1, <1>4, <1>7, <1>8, <3>1
  <2> HIDE DEF fo
  <2> QED
    BY <1>7, <1>8, <1>10, <2>2, <2>3, <2>4 DEF Follows
<1>12. InCall'
  BY <1>1, <1>4, <1>7, NotNone, FolderTyped DEF InCall
<1> QED
  BY <1>9, <1>11, <1>12 DEF IInv

\* A turn that ends the call with an error.
LEMMA FailKeeps ==
  ASSUME IInv, pc = "step", NEW o, o.look \in Looks, o.filePos \in Nat,
         NEW why \in BOOLEAN, StepFails(o, why), UNCHANGED CallVars,
         why \/ Request \in Hopeless
  PROVE  IInv'
<1>1. /\ dec \in Decoders /\ dec # None /\ req \in [file : Files, sink : Sinks]
  BY AtStep, NotNone
<1>2. /\ look' = o.look /\ filePos' = o.filePos /\ dec' = Idle /\ res' = "error" /\ pc' = "reply"
      /\ fault' = why /\ UNCHANGED <<outBuffer, blockIndex, keyCache, req, out>>
  BY <1>1 DEF StepFails, CallVars, Reset, Reply
<1>3. TypeOK' /\ KeyKnown' /\ Follows'
  BY <1>1, <1>2, IdleTyped DEF IInv, TypeOK, KeyKnown, Follows
<1>4. Request' = Request
  BY <1>2 DEF Request
<1>5. InCall'
  BY <1>2, <1>4 DEF InCall
<1> QED
  BY <1>3, <1>5 DEF IInv

\* Which requests have no answer but an error.
LEMMA HopelessRequest ==
  ASSUME req \in [file : Files, sink : Sinks]
  PROVE  Request \in Hopeless <=>
           LET x == File[req.file] IN
           IF x.folder = 0 \/ Total(x.folder) = 0 THEN req.sink = "buffer"
           ELSE \/ x.offset + x.size >= Folder[x.folder].damage
                \/ Damaged(x.folder) /\ ~CanStream(x.folder)
                \/ Locked(x.folder)
<1>1. Request \in Requests /\ Request[1] = req.file /\ Request[2] = req.sink
  BY DEF Request, Requests
<1> QED
  BY <1>1 DEF Hopeless

\* A file that reaches the damage of its folder cannot be served.
LEMMA DamageIsHopeless ==
  ASSUME IInv, pc = "step", Folder[dec.folderIndex].damage <= TargetSize
  PROVE  Request \in Hopeless
<1>1. /\ req \in [file : Files, sink : Sinks]
      /\ dec.folderIndex = File[req.file].folder /\ dec.folderIndex \in Folders
      /\ TargetSize = File[req.file].offset + File[req.file].size
      /\ TargetSize \in 0..dec.total /\ dec.total = Total(dec.folderIndex)
  BY AtStep
<1>2. dec.folderIndex # 0 /\ Total(dec.folderIndex) \in Nat /\ Folder[dec.folderIndex].damage \in Nat \ {0}
  BY <1>1, FolderTyped, FolderFields
<1>3. Total(dec.folderIndex) # 0
  BY <1>1, <1>2
<1> QED
  BY <1>1, <1>2, <1>3, HopelessRequest

\* A turn of the loop over a stored folder: no more packed cells means a damaged folder.
LEMMA CopyKeeps ==
  ASSUME IInv, StepCopy
  PROVE  IInv'
<1> DEFINE fo == dec.folderIndex
           size == Lesser(Lesser(Target - dec.decoded, Window), dec.remaining)
<1>1. /\ pc = "step" /\ dec.decoded < Target /\ Folder[fo].method = "Copy" /\ UNCHANGED CallVars
      /\ \E o \in ActiveLook(size) :
           IF ~o.ok \/ o.n = 0 THEN StepFails(o, ~o.ok)
           ELSE StepAdvances(o, o.n, dec.decoded + o.n, Sound(o))
  BY DEF StepCopy
<1>2. PICK o \in ActiveLook(size) :
         IF ~o.ok \/ o.n = 0 THEN StepFails(o, ~o.ok)
         ELSE StepAdvances(o, o.n, dec.decoded + o.n, Sound(o))
  BY <1>1
<1>3. /\ dec.decoded \in Nat /\ fo \in Folders /\ TargetSize \in 0..Total(fo) /\ Total(fo) \in Nat
      /\ Target = TargetSize
  <2>1. fo \in Folders /\ dec.total = Total(fo) /\ dec.decoded \in 0..dec.total
        /\ TargetSize \in 0..dec.total /\ Target = TargetSize
    BY <1>1, AtStep
  <2> QED
    BY <2>1, FolderTyped
<1>4. /\ dec.remaining \in Nat /\ dec.lzIn \in Nat /\ dec.lzIn + dec.remaining = Folder[fo].inSize
      /\ dec.lzIn = dec.decoded
      /\ \A n \in 0..dec.remaining : AtWork(n)
  BY <1>1, StepAtWork
<1>5. /\ size \in 0..dec.remaining /\ size <= Target - dec.decoded
      /\ size = 0 => dec.remaining = 0
  BY <1>1, <1>3, <1>4, Sizes DEF Lesser
<1>6. Gives(o, size)
  BY <1>2, <1>4, <1>5, ActiveLookGives
<1> HIDE DEF size
<1>7. CASE ~o.ok
  <2>1. StepFails(o, TRUE)
    BY <1>2, <1>6, <1>7 DEF Gives
  <2> QED
    BY <1>1, <1>6, <2>1, FailKeeps DEF Gives
<1>8. CASE o.ok /\ o.n = 0
  <2>1. StepFails(o, FALSE)
    BY <1>2, <1>6, <1>8 DEF Gives
  <2>2. dec.remaining = 0
    BY <1>5, <1>6, <1>8 DEF Gives
  <2>3. dec.decoded + 1 \in 1..Total(fo) /\ dec.decoded + 1 > Folder[fo].inSize /\ dec.decoded + 1 <= TargetSize
    BY <1>1, <1>3, <1>4, <2>2
  <2>4. Folder[fo].damage <= dec.decoded + 1 /\ Folder[fo].damage \in Nat
    BY <1>1, <1>3, <2>3, FolderFields
  <2>5. Request \in Hopeless
    BY <1>1, <1>3, <2>3, <2>4, DamageIsHopeless
  <2> QED
    BY <1>1, <1>6, <2>1, <2>5, FailKeeps DEF Gives
<1>9. CASE o.ok /\ o.n # 0
  <2>1. o.n \in 0..size /\ Sound(o) /\ o.n \in Nat /\ size > 0
    BY <1>5, <1>6, <1>9 DEF Gives
  <2>2. StepAdvances(o, o.n, dec.decoded + o.n, TRUE)
    BY <1>2, <1>9, <2>1 DEF StepAdvances, Sound
  <2>3. dec.decoded + o.n \in dec.decoded..Target /\ o.n \in 0..o.n
    BY <1>3, <1>5, <2>1
  <2>4. Folder[fo].method # "LZMA"
    BY <1>1
  <2> QED
    BY <1>1, <1>5, <1>6, <1>9, <2>2, <2>3, <2>4, AdvanceKeeps
<1> QED
  BY <1>6, <1>7, <1>8, <1>9 DEF Gives

\* A turn of the loop over a compressed folder.
LEMMA LzmaKeeps ==
  ASSUME IInv, StepLzma
  PROVE  IInv'
<1> DEFINE fo == dec.folderIndex
           F == Folder[fo]
           size == Lesser(Window, dec.remaining)
           Used(o, last) == IF last = Target THEN Greater(0, F.need[last] - dec.lzIn) ELSE o.n
<1>1. /\ pc = "step" /\ dec.decoded < Target /\ F.method = "LZMA" /\ UNCHANGED CallVars
  BY DEF StepLzma
<1>2. PICK o \in ActiveLook(size), last \in dec.decoded..Target :
         /\ last # dec.decoded => F.need[last] <= dec.lzIn + o.n
         /\ last # Target => F.need[last + 1] > dec.lzIn + o.n
         /\ IF ~o.ok THEN StepFails(o, TRUE)
            ELSE IF NoProgress(Used(o, last), last) \/ last >= F.damage THEN StepFails(o, FALSE)
            ELSE StepAdvances(o, Used(o, last), last, IF Used(o, last) = 0 THEN dec.lzSound ELSE Sound(o))
  BY DEF StepLzma
<1>3. /\ dec.decoded \in Nat /\ fo \in Folders /\ TargetSize \in 0..Total(fo) /\ Total(fo) \in Nat
      /\ Target = TargetSize /\ F.damage \in Nat /\ F.need \in [1..Total(fo) -> Nat]
  <2>1. fo \in Folders /\ dec.total = Total(fo) /\ dec.decoded \in 0..dec.total
        /\ TargetSize \in 0..dec.total /\ Target = TargetSize
    BY <1>1, AtStep
  <2> QED
    BY <2>1, FolderTyped, FolderFields
<1>4. /\ dec.remaining \in Nat /\ dec.lzIn \in Nat /\ dec.lzIn + dec.remaining = F.inSize
      /\ \A n \in 0..dec.remaining : AtWork(n)
  BY <1>1, StepAtWork
<1>5. size \in 0..dec.remaining /\ (size = 0 => dec.remaining = 0)
  BY <1>4, Sizes DEF Lesser
<1>6. Gives(o, size) /\ dec.lzSound
  BY <1>2, <1>4, <1>5, ActiveLookGives DEF AtWork
<1> HIDE DEF size
<1>7. CASE ~o.ok
  BY <1>1, <1>2, <1>6, <1>7, FailKeeps DEF Gives
<1>8. CASE o.ok
  <2>1. o.n \in Nat /\ o.n <= dec.remaining /\ (dec.remaining > 0 => o.n > 0)
    BY <1>4, <1>5, <1>6, <1>8 DEF Gives
  <2>2. last \in Nat /\ last <= TargetSize
    BY <1>2, <1>3
  <2>3. CASE NoProgress(Used(o, last), last)
    <3>1. last = dec.decoded /\ last # Target /\ Used(o, last) = 0
      BY <1>1, <1>3, <2>3 DEF NoProgress
    <3>2. o.n = 0 /\ dec.remaining = 0 /\ last + 1 \in 1..Total(fo) /\ F.need[last + 1] > F.inSize
      BY <1>2, <1>3, <1>4, <2>1, <2>2, <3>1
    <3>3. F.damage <= last + 1 /\ last + 1 <= TargetSize
      BY <1>3, <2>2, <3>1, <3>2, FolderFields
    <3>4. Request \in Hopeless
      BY <1>1, <1>3, <2>2, <3>3, DamageIsHopeless
    <3>5. StepFails(o, FALSE)
      BY <1>2, <1>8, <2>3
    <3> QED
      BY <1>1, <1>6, <3>4, <3>5, FailKeeps DEF Gives
  <2>4. CASE last >= F.damage
    <3>1. Request \in Hopeless
      BY <1>1, <1>3, <2>2, <2>4, DamageIsHopeless
    <3>2. StepFails(o, FALSE)
      BY <1>2, <1>8, <2>4
    <3> QED
      BY <1>1, <1>6, <3>1, <3>2, FailKeeps DEF Gives
  <2>5. CASE ~NoProgress(Used(o, last), last) /\ ~(last >= F.damage)
    <3>1. Used(o, last) \in 0..o.n
      <4>1. CASE last = Target
        <5>1. last # dec.decoded /\ last \in 1..Total(fo)
          BY <1>1, <1>3, <4>1
        <5>2. F.need[last] \in Nat /\ F.need[last] <= dec.lzIn + o.n
          BY <1>2, <1>3, <5>1
        <5> QED
          BY <1>4, <2>1, <4>1, <5>2 DEF Greater
      <4>2. CASE last # Target
        BY <2>1, <4>2
      <4> QED
        BY <4>1, <4>2
    <3>2. Used(o, last) # 0 => Sound(o)
      BY <1>5, <1>6, <1>8, <2>1, <3>1 DEF Gives
    <3>3. StepAdvances(o, Used(o, last), last, TRUE)
      <4> DEFINE snd == IF Used(o, last) = 0 THEN dec.lzSound ELSE Sound(o)
      <4>1. StepAdvances(o, Used(o, last), last, snd)
        BY <1>2, <1>8, <2>5
      <4>2. snd = TRUE
        BY <1>3, <1>6, <3>2 DEF Sound, AtWork, Decoders
      <4> HIDE DEF snd
      <4> QED
        BY <4>1, <4>2
    <3>4. F.method # "Copy" /\ last < F.damage
      BY <1>1, <1>3, <2>2, <2>5
    <3> HIDE DEF Used
    <3> QED
      BY <1>1, <1>2, <1>5, <1>6, <1>8, <3>1, <3>3, <3>4, AdvanceKeeps
  <2> QED
    BY <2>3, <2>4, <2>5
<1> QED
  BY <1>6, <1>7, <1>8 DEF Gives

-----------------------------------------------------------------------------
(* The checks and the delivery *)

\* Only a damaged folder fails its CRC.
LEMMA FolderDoneKeeps ==
  ASSUME IInv, FolderDone
  PROVE  IInv'
<1> DEFINE fo == dec.folderIndex
<1>1. /\ pc = "step" /\ dec.decoded >= Target
      /\ UNCHANGED <<blockIndex, outBuffer, look, filePos, keyCache, req, out, fault>>
  BY DEF FolderDone
<1>2. /\ dec \in Decoders /\ dec # None /\ dec.active = TRUE /\ fo \in Folders /\ ~fault
      /\ fo = File[req.file].folder /\ req \in [file : Files, sink : Sinks]
      /\ blockIndex = fo /\ outBuffer # None /\ dec.outBuffer = outBuffer.addr
      /\ outBuffer \in Buffers(fo)
      /\ dec.total = Total(fo) /\ TargetSize \in 0..Total(fo) /\ Target = TargetSize
      /\ dec.decoded \in 0..Total(fo) /\ Total(fo) \in Nat /\ Folder[fo].damage \in Nat
  <2>1. /\ dec \in Decoders /\ dec.active = TRUE /\ fo \in Folders /\ ~fault
        /\ fo = File[req.file].folder /\ req \in [file : Files, sink : Sinks]
        /\ blockIndex = fo /\ outBuffer # None /\ dec.outBuffer = outBuffer.addr
        /\ outBuffer \in Buffers(blockIndex)
        /\ dec.total = Total(fo) /\ TargetSize \in 0..dec.total /\ Target = TargetSize
        /\ dec.decoded \in 0..dec.total
    BY <1>1, AtStep
  <2> QED
    BY <2>1, FolderTyped, FolderFields, NotNone
<1>3. Decodes(outBuffer.cells, fo, dec.decoded) /\ Fit(fo, dec.decoded)
      /\ (dec.decoded = Total(fo) /\ ~dec.crcChecked => TargetSize >= Total(fo))
  BY <1>2 DEF IInv, Follows
<1>4. Request' = Request /\ TargetSize' = TargetSize
  BY <1>1 DEF Request, TargetSize
<1>5. CASE /\ dec.decoded = dec.total /\ ~dec.crcChecked
           /\ \E i \in DOMAIN outBuffer.cells : outBuffer.cells[i] # "right"
           /\ dec' = Reset(dec) /\ Reply("error")
  <2>1. dec' = Idle /\ pc' = "reply" /\ res' = "error"
    BY <1>2, <1>5 DEF Reset, Reply
  <2>2. PICK i \in 1..Total(fo) : outBuffer.cells[i] # "right"
    BY <1>2, <1>5 DEF Buffers
  <2>3. Folder[fo].damage <= TargetSize
    BY <1>2, <1>3, <1>5, <2>2 DEF Decodes
  <2>4. Request' \in Hopeless
    BY <1>1, <1>4, <2>3, DamageIsHopeless
  <2>5. TypeOK' /\ KeyKnown' /\ Follows'
    BY <1>1, <1>2, <2>1, IdleTyped DEF IInv, TypeOK, KeyKnown, Follows
  <2>6. InCall'
    BY <2>1, <2>4 DEF InCall
  <2> QED
    BY <2>5, <2>6 DEF IInv
<1>6. CASE /\ dec' = [dec EXCEPT !.crcChecked = dec.crcChecked \/ dec.decoded = dec.total]
           /\ pc' = "check"
  <2>1. /\ dec' \in Decoders /\ dec'.active = TRUE /\ dec'.folderIndex = fo /\ dec'.total = Total(fo)
        /\ dec'.outBuffer = dec.outBuffer /\ dec'.decoded = dec.decoded
        /\ dec'.aes = dec.aes /\ dec'.lzIn = dec.lzIn /\ dec'.remaining = dec.remaining
        /\ dec'.lzSound = dec.lzSound /\ (dec.decoded = Total(fo) => dec'.crcChecked)
    BY <1>2, <1>6 DEF Decoders
  <2>2. TypeOK' /\ KeyKnown'
    BY <1>1, <1>2, <1>6, <2>1 DEF IInv, TypeOK, KeyKnown
  <2>3. Follows'
    BY <1>1, <1>2, <2>1 DEF IInv, Follows
  <2>4. Decodes(outBuffer.cells, fo, TargetSize) /\ Fit(fo, TargetSize)
    <3>1. TargetSize <= dec.decoded /\ TargetSize \in Nat
      BY <1>1, <1>2
    <3>2. Decodes(outBuffer.cells, fo, dec.decoded) /\ Fit(fo, dec.decoded) /\ dec.decoded \in Nat
      BY <1>2, <1>3
    <3>3. fo \in Folders /\ Folder[fo].damage \in Nat /\ Folder[fo].inSize \in Nat
      BY <1>2, FolderFields
    <3> QED
      BY ONLY <3>1, <3>2, <3>3 DEF Decodes, Fit
  <2>5. Total(fo) # 0
    BY <1>1, <1>2 DEF IInv, InCall
  <2>6. InCall'
    BY <1>1, <1>2, <1>4, <1>6, <2>4, <2>5, FolderTyped DEF InCall
  <2> QED
    BY <2>2, <2>3, <2>6 DEF IInv
<1> QED
  BY <1>5, <1>6 DEF FolderDone

\* The handle is left as it is, and the call is past its loop.
LEMMA HandleKept ==
  ASSUME IInv, UNCHANGED <<handle, req>>, pc \in {"check", "deliver", "reply"},
         pc' \in {"idle", "check", "deliver", "reply"}, fault' \in BOOLEAN
  PROVE  /\ TypeOK' /\ KeyKnown' /\ Follows'
         /\ req \in [file : Files, sink : Sinks] /\ Request' = Request
<1> USE DEF handle
<1>1. TypeOK' /\ KeyKnown'
  BY DEF IInv, TypeOK, KeyKnown
<1>2. Follows'
  BY DEF IInv, Follows
<1>3. req \in [file : Files, sink : Sinks] /\ Request' = Request
  BY DEF IInv, TypeOK, Request
<1> QED
  BY <1>1, <1>2, <1>3

\* The cells of the file, and how many they are.
LEMMA SliceCells ==
  ASSUME TypeOK, req \in [file : Files, sink : Sinks], outBuffer # None,
         blockIndex = File[req.file].folder
  PROVE  /\ TargetSize \in 0..Total(blockIndex) /\ blockIndex \in Folders
         /\ TargetSize = File[req.file].offset + File[req.file].size
         /\ outBuffer.cells \in [1..Total(blockIndex) -> Cells]
         /\ Slice = [i \in 1..File[req.file].size |-> outBuffer.cells[File[req.file].offset + i]]
<1>1. /\ req.file \in Files /\ blockIndex \in Folders /\ outBuffer \in Buffers(blockIndex)
  BY DEF TypeOK
<1>2. /\ File[req.file].offset \in Nat /\ File[req.file].size \in Nat
      /\ File[req.file].offset + File[req.file].size <= Total(blockIndex)
      /\ Total(blockIndex) \in Nat
  BY <1>1, FileFields, FolderTyped
<1>3. TargetSize = File[req.file].offset + File[req.file].size
  BY DEF TargetSize
<1>4. outBuffer.cells \in [1..Total(blockIndex) -> Cells]
  BY <1>1 DEF Buffers
<1>5. Slice = SubSeq(outBuffer.cells, File[req.file].offset + 1, File[req.file].offset + File[req.file].size)
  BY <1>3 DEF Slice
<1>6. Slice = [i \in 1..File[req.file].size |-> outBuffer.cells[File[req.file].offset + i]]
  <2> DEFINE a == File[req.file].offset
             b == File[req.file].size
             c == outBuffer.cells
  <2>1. a \in Nat /\ b \in Nat /\ Slice = SubSeq(c, a + 1, a + b)
    BY <1>2, <1>5
  <2> HIDE DEF a, b, c
  <2>2. SubSeq(c, a + 1, a + b) = [i \in 1..b |-> c[a + i]]
    BY <2>1
  <2>3. Slice = [i \in 1..b |-> c[a + i]]
    BY ONLY <2>1, <2>2
  <2> QED
    BY ONLY <2>3 DEF a, b, c
<1>7. TargetSize \in 0..Total(blockIndex)
  BY <1>2, <1>3
<1> QED
  BY <1>1, <1>3, <1>4, <1>6, <1>7

\* A file whose CRC agrees, or which needs none, is as it was packed.
LEMMA CheckFileKeeps ==
  ASSUME IInv, CheckFile
  PROVE  IInv'
<1> DEFINE fo == File[req.file].folder
           x == File[req.file]
<1>1. pc = "check" /\ UNCHANGED <<handle, req, out, fault>> /\ pc' \in {"reply", "deliver"}
  BY DEF CheckFile, Reply
<1>2. /\ TypeOK' /\ KeyKnown' /\ Follows' /\ fault \in BOOLEAN
      /\ req \in [file : Files, sink : Sinks] /\ Request' = Request
  BY <1>1, HandleKept DEF IInv, TypeOK
<1>3. /\ ~fault /\ fo # 0 /\ outBuffer # None /\ blockIndex = fo
      /\ Decodes(outBuffer.cells, fo, TargetSize) /\ Fit(fo, TargetSize)
  BY <1>1 DEF IInv, InCall
<1>4. /\ TargetSize \in 0..Total(fo) /\ fo \in Folders /\ TargetSize = x.offset + x.size
      /\ outBuffer.cells \in [1..Total(fo) -> Cells]
      /\ Slice = [i \in 1..x.size |-> outBuffer.cells[x.offset + i]]
  BY <1>2, <1>3, SliceCells DEF IInv
<1>5. /\ x.offset \in Nat /\ x.size \in Nat /\ Total(fo) \in Nat /\ Folder[fo].damage \in Nat \ {0}
      /\ Folder[fo].inSize \in Nat /\ req.file \in Files
  BY <1>2, <1>4, FolderTyped, FolderFields, FileFields
<1>6. DOMAIN Slice = 1..x.size
  BY <1>4
<1>7. CASE x.crc /\ \E i \in DOMAIN Slice : Slice[i] # "right"
  <2>1. pc' = "reply" /\ res' = "error"
    BY <1>7 DEF CheckFile, Reply
  <2>2. PICK i \in 1..x.size : outBuffer.cells[x.offset + i] # "right"
    BY <1>4, <1>6, <1>7
  <2>3. x.offset + i \in 1..TargetSize
    BY SMTT(30), <1>4, <1>5, <2>2
  <2>4. Folder[fo].damage <= TargetSize /\ Total(fo) # 0
    <3> DEFINE j == x.offset + i
    <3>1. j \in 1..TargetSize /\ outBuffer.cells[j] # "right"
      BY <2>2, <2>3
    <3> HIDE DEF j
    <3>2. ~(j < Folder[fo].damage)
      BY <1>3, <3>1 DEF Decodes
    <3> QED
      BY <1>4, <1>5, <3>1, <3>2
  <2>5. Request \in Hopeless
    BY <1>2, <1>3, <1>4, <2>4, HopelessRequest
  <2>6. InCall'
    BY <1>2, <2>1, <2>5 DEF InCall
  <2> QED
    BY <1>2, <2>6 DEF IInv
<1>8. CASE ~(x.crc /\ \E i \in DOMAIN Slice : Slice[i] # "right")
  <2>1. pc' = "deliver"
    BY <1>8 DEF CheckFile
  <2>2. TargetSize < Folder[fo].damage
    <3>0. Fit(fo, TargetSize)
      BY <1>3
    <3>00. Decodes(outBuffer.cells, fo, TargetSize)
      BY <1>3
    <3>1. CASE Folder[fo].method = "LZMA"
      BY <1>3, <3>1 DEF Fit
    <3>2. CASE ~CanStream(fo)
      <4>1. ~Damaged(fo)
        BY ONLY <3>0, <3>2 DEF Fit
      <4> QED
        BY ONLY <1>4, <1>5, <4>1 DEF Damaged
    <3>3. CASE Folder[fo].method = "Copy"
      <4>0. SUFFICES ASSUME Folder[fo].damage <= TargetSize PROVE FALSE
        BY <1>4, <1>5
      <4>1. TargetSize <= Folder[fo].inSize
        BY ONLY <4>0, <1>4, <1>5, <3>0, <3>3 DEF Fit
      <4>2. x.crc /\ x.size > 0
        <5>1. (x.folder # 0 /\ Folder[x.folder].method = "Copy" /\ Folder[x.folder].damage <= Folder[x.folder].inSize
               /\ Folder[x.folder].damage <= x.offset + x.size) => x.crc /\ x.size > 0
          BY ONLY <1>5, FileFields
        <5>2. fo # 0
          BY <1>3
        <5> QED
          BY ONLY <4>0, <1>4, <1>5, <3>3, <4>1, <5>1, <5>2
      <4>3. TargetSize \in 1..TargetSize /\ x.size \in 1..x.size /\ x.offset + x.size = TargetSize
        BY <1>4, <1>5, <4>2
      <4>4. outBuffer.cells[TargetSize] = "wrong"
        BY ONLY <4>0, <1>4, <1>5, <3>00, <4>3 DEF Decodes
      <4>5. Slice[x.size] = "wrong"
        BY <1>4, <4>3, <4>4
      <4> QED
        BY <1>6, <1>8, <4>2, <4>3, <4>5
    <3> QED
      BY <3>1, <3>2, <3>3 DEF CanStream
  <2>3. ASSUME NEW i \in 1..x.size PROVE outBuffer.cells[x.offset + i] = "right"
    <3> DEFINE j == x.offset + i
    <3>1. j \in 1..TargetSize
      BY SMTT(30), <1>4, <1>5
    <3>2. j < Folder[fo].damage
      BY SMTT(30), <1>4, <1>5, <2>2, <3>1
    <3> HIDE DEF j
    <3>3. outBuffer.cells[j] = "right"
      BY <1>3, <3>1, <3>2 DEF Decodes
    <3> QED
      BY <3>3 DEF j
  <2>4. Slice = [i \in 1..x.size |-> "right"]
    BY <1>4, <2>3
  <2>5. Content[Request] = [i \in 1..x.size |-> "right"]
    BY <1>2 DEF Content, Request, Requests
  <2>6. Request \notin Hopeless
    <3>1. ~Locked(fo) /\ ~(Damaged(fo) /\ ~CanStream(fo)) /\ Total(fo) # 0
      BY <1>1, <1>3 DEF Fit, IInv, InCall
    <3> QED
      BY <1>2, <1>3, <1>4, <1>5, <2>2, <3>1, HopelessRequest
  <2>7. Slice' = Slice
    BY <1>1 DEF handle, Slice, TargetSize
  <2>8. InCall'
    BY <1>1, <1>2, <1>3, <2>1, <2>4, <2>5, <2>6, <2>7 DEF InCall, handle
  <2> QED
    BY <1>2, <2>8 DEF IInv
<1> QED
  BY <1>7, <1>8

\* What a call has at hand when its file is delivered.
LEMMA AtDelivery ==
  ASSUME IInv, pc = "deliver", UNCHANGED <<handle, req>>
  PROVE  /\ Slice = Content[Request] /\ Slice' = Slice /\ Content[Request]' = Content[Request]
         /\ Request \in Hopeless <=> req.sink = "buffer" /\ outBuffer = None
         /\ Hopeless' = Hopeless /\ fault = FALSE
<1>1. Slice' = Slice /\ Request' = Request
  BY DEF handle, Slice, TargetSize, Request
<1>2. Hopeless' = Hopeless /\ Content[Request]' = Content[Request]
  BY <1>1 DEF Hopeless, Content, Requests
<1> QED
  BY <1>1, <1>2 DEF IInv, InCall, TypeOK

\* The cells of the file are handed out as they are, or the call fails.
LEMMA DeliverKeeps ==
  ASSUME IInv, DeliverBytes \/ DeliverBuffer \/ DeliverFile
  PROVE  IInv'
<1>1. pc = "deliver" /\ UNCHANGED <<handle, req>> /\ pc' \in {"deliver", "reply"}
  BY DEF DeliverBytes, DeliverBuffer, DeliverFile, DeliverFails, Reply
<1>2. /\ Slice = Content[Request] /\ Slice' = Slice /\ Content[Request]' = Content[Request]
      /\ Request \in Hopeless <=> req.sink = "buffer" /\ outBuffer = None
      /\ Hopeless' = Hopeless /\ fault = FALSE
  BY <1>1, AtDelivery
<1>3. fault' \in BOOLEAN
  BY <1>2 DEF DeliverBytes, DeliverBuffer, DeliverFile, DeliverFails
<1>4. TypeOK' /\ KeyKnown' /\ Follows' /\ Request' = Request
  BY <1>1, <1>3, HandleKept
<1>5. outBuffer' = outBuffer /\ req' = req
  BY <1>1 DEF handle
<1>6. CASE DeliverBytes
  <2>1. /\ pc' = "reply" /\ req.sink = "bytes"
        /\ \/ res' = "ok" /\ out' = Slice
           \/ res' = "error" /\ fault' = TRUE
    BY <1>6 DEF DeliverBytes, DeliverFails, Reply
  <2> QED
    BY <1>2, <1>4, <2>1 DEF IInv, InCall
<1>7. CASE DeliverBuffer
  <2>1. pc' = "reply" /\ req.sink = "buffer"
        /\ IF outBuffer = None THEN res' = "error" ELSE res' = "ok" /\ out' = Slice
    BY <1>7 DEF DeliverBuffer, DeliverFails, Reply
  <2> QED
    BY <1>2, <1>4, <2>1 DEF IInv, InCall
<1>8. CASE DeliverFile
  <2>1. \/ pc' = "deliver" /\ fault' = FALSE
        \/ pc' = "reply" /\ res' = "ok" /\ out' = Slice
        \/ pc' = "reply" /\ res' = "error" /\ fault' = TRUE
    BY <1>1, <1>2, <1>8 DEF DeliverFile, DeliverFails, Reply
  <2>2. req.sink = "file"
    BY <1>8 DEF DeliverFile
  <2> QED
    BY <1>2, <1>4, <1>5, <2>1, <2>2 DEF IInv, InCall
<1> QED
  BY <1>6, <1>7, <1>8

\* A call leaves the handle as it was when it replied.
LEMMA ReturnKeeps ==
  ASSUME IInv, Return
  PROVE  IInv'
<1>1. pc = "reply" /\ pc' = "idle" /\ fault' = FALSE /\ UNCHANGED <<handle, req>>
  BY DEF Return
<1>2. TypeOK' /\ KeyKnown' /\ Follows'
  BY <1>1, HandleKept
<1>3. InCall'
  BY <1>1 DEF InCall
<1> QED
  BY <1>2, <1>3 DEF IInv

\* A purge and a new handle leave no decoder to be continued.
LEMMA RenewKeeps ==
  ASSUME IInv, Purge \/ Reopen
  PROVE  IInv'
<1>1. pc' = "idle" /\ UNCHANGED <<pc, req, res, out, fault>> /\ dec' \in {Idle, None} /\ outBuffer' = None
  BY DEF Purge, Reopen, Closed, Reset, None, Idle
<1>2. blockIndex' \in {blockIndex, 0} /\ keyCache' \in {keyCache, None}
  BY DEF Purge, Reopen, Closed
<1>3. FileLength \in Nat /\ EmptyLook \in Looks
  BY Sizes DEF EmptyLook, Looks
<1>4. look' \in Looks /\ filePos' \in Nat
  BY <1>3 DEF Purge, Reopen, IInv, TypeOK
<1>5. TypeOK' /\ KeyKnown'
  BY <1>1, <1>2, <1>4, IdleTyped DEF IInv, TypeOK, KeyKnown
<1>6. Follows' /\ InCall'
  BY <1>1, IdleTyped DEF Follows, InCall
<1> QED
  BY <1>5, <1>6 DEF IInv

\* A new handle has nothing to be continued.
LEMMA InitHolds ==
  ASSUME Init
  PROVE  IInv
<1>1. FileLength \in Nat /\ EmptyLook \in Looks
  BY Sizes DEF EmptyLook, Looks
<1>2. TypeOK /\ KeyKnown
  BY <1>1, IdleTyped DEF Init, TypeOK, KeyKnown
<1>3. Follows /\ InCall
  BY IdleTyped DEF Init, Follows, InCall
<1> QED
  BY <1>2, <1>3 DEF IInv

-----------------------------------------------------------------------------
(* The start of a call *)

\* The key that the archive remembers is the folder's when salt and cycles agree.
LEMMA KeyDerived ==
  ASSUME IInv, NEW fo \in Folders
  PROVE  /\ DerivedKey(fo) = Folder[fo].key
         /\ Cached(fo) \in KeyCaches \cup {None}
         /\ Cached(fo) # None => Cached(fo).key = [salt |-> Cached(fo).salt, cycles |-> Cached(fo).cycles]
<1>1. /\ Folder[fo].key \in Keys /\ keyCache \in KeyCaches \cup {None}
      /\ keyCache # None => keyCache.key = [salt |-> keyCache.salt, cycles |-> keyCache.cycles]
  BY FolderFields DEF IInv, TypeOK, KeyKnown
<1>2. Folder[fo].key = [salt |-> Folder[fo].key.salt, cycles |-> Folder[fo].key.cycles]
  BY <1>1 DEF Keys
<1>3. DerivedKey(fo) = Folder[fo].key
  BY <1>1, <1>2 DEF DerivedKey
<1>4. CASE Folder[fo].aes
  <2>1. Cached(fo) = [salt |-> Folder[fo].key.salt, cycles |-> Folder[fo].key.cycles, key |-> Folder[fo].key]
    BY <1>3, <1>4 DEF Cached
  <2> QED
    BY <1>1, <1>2, <1>3, <2>1 DEF KeyCaches, Keys
<1>5. CASE ~Folder[fo].aes
  BY <1>1, <1>3, <1>5 DEF Cached
<1> QED
  BY <1>4, <1>5

\* A call for file f of a folder with cells, from a handle at rest.
Begins(f, s) ==
  /\ IInv /\ pc = "idle" /\ f \in Files /\ s \in Sinks
  /\ req' = [file |-> f, sink |-> s]
  /\ File[f].folder # 0 /\ Total(File[f].folder) # 0 /\ blockIndex' = File[f].folder

\* What such a call asks for.
LEMMA AtBegin ==
  ASSUME NEW f, NEW s, Begins(f, s), NEW fo, fo = File[f].folder
  PROVE  /\ fo \in Folders /\ fo # 0 /\ Total(fo) \in Nat \ {0} /\ blockIndex' = fo
         /\ req' \in [file : Files, sink : Sinks] /\ req'.file = f /\ Request' = <<f, s>>
         /\ TargetSize' = File[f].offset + File[f].size /\ TargetSize' \in 0..Total(fo)
         /\ <<f, s>> \in Hopeless <=> \/ TargetSize' >= Folder[fo].damage
                                      \/ Damaged(fo) /\ ~CanStream(fo)
                                      \/ Locked(fo)
<1>1. fo \in Folders /\ fo # 0 /\ blockIndex' = fo /\ f \in Files /\ s \in Sinks
      /\ File[f].offset + File[f].size <= Total(fo)
      /\ File[f].offset \in Nat /\ File[f].size \in Nat
  BY FileFields DEF Begins
<1>2. Total(fo) \in Nat \ {0}
  BY <1>1, FolderTyped DEF Begins
<1>3. req' \in [file : Files, sink : Sinks] /\ req'.file = f /\ req'.sink = s
  BY DEF Begins
<1>4. Request' = <<f, s>> /\ TargetSize' = File[f].offset + File[f].size
  BY <1>3 DEF Request, TargetSize
<1>5. <<f, s>> \in Requests
  BY <1>1 DEF Requests
<1>6. <<f, s>> \in Hopeless <=> \/ TargetSize' >= Folder[fo].damage
                                \/ Damaged(fo) /\ ~CanStream(fo)
                                \/ Locked(fo)
  BY <1>1, <1>2, <1>4, <1>5 DEF Hopeless
<1> QED
  BY <1>1, <1>2, <1>3, <1>4, <1>6

\* A call that ends with an error when it has hardly begun.
LEMMA BeginFails ==
  ASSUME NEW f, NEW s, Begins(f, s), dec' = Reset(dec), pc' = "reply", res' = "error",
         fault' \in BOOLEAN, fault' \/ <<f, s>> \in Hopeless,
         outBuffer' # None => outBuffer' \in Buffers(File[f].folder),
         look' \in Looks, filePos' \in Nat,
         keyCache' = keyCache \/ keyCache' = Cached(File[f].folder)
  PROVE  IInv'
<1> DEFINE fo == File[f].folder
<1>1. fo \in Folders /\ fo # 0 /\ blockIndex' = fo /\ req' \in [file : Files, sink : Sinks]
      /\ Request' = <<f, s>>
  BY AtBegin
<1>2. dec' \in {Idle, None}
  BY DEF Reset
<1>3. TypeOK' /\ KeyKnown'
  BY <1>1, <1>2, KeyDerived, IdleTyped DEF Begins, IInv, TypeOK, KeyKnown
<1>4. Follows'
  BY <1>2, IdleTyped DEF Follows
<1>5. InCall'
  BY <1>1 DEF InCall, Hopeless
<1> QED
  BY <1>3, <1>4, <1>5 DEF IInv

\* A decoder is continued where it stopped.
LEMMA ResumeKeeps ==
  ASSUME NEW f, NEW s, Begins(f, s), ~NeedsBuffer(f), dec # None, dec.active,
         dec.folderIndex = File[f].folder, pc' = "step", fault' = FALSE,
         UNCHANGED <<outBuffer, dec, look, filePos, keyCache>>
  PROVE  IInv'
<1> DEFINE fo == File[f].folder
<1>1. fo \in Folders /\ fo # 0 /\ blockIndex' = fo /\ req' \in [file : Files, sink : Sinks]
      /\ Total(fo) # 0 /\ req'.file = f
  BY AtBegin
<1>2. IInv /\ pc = "idle" /\ outBuffer # None /\ blockIndex = fo
  BY DEF Begins, NeedsBuffer
<1>3. TypeOK' /\ KeyKnown'
  BY <1>1, <1>2 DEF IInv, TypeOK, KeyKnown
<1>4. Follows'
  BY <1>1, <1>2 DEF IInv, Follows
<1>5. InCall'
  BY <1>1 DEF InCall
<1> QED
  BY <1>3, <1>4, <1>5 DEF IInv

\* Where a decoder stands that has just been opened.
LEMMA OpenedPosition ==
  ASSUME NEW fo \in Folders, NEW a,
         a = IF Folder[fo].aes THEN AesInit(fo, Folder[fo].key) ELSE None
  PROVE  a \in AesStreams \cup {None} /\ Position(fo, a, 0, EmptyLook, Folder[fo].start)
<1>1. /\ Folder[fo].start \in Nat /\ Folder[fo].inSize \in Nat /\ Folder[fo].aes \in BOOLEAN
      /\ Folder[fo].aes => \E k \in 0..Folder[fo].inSize : Folder[fo].inSize = Block * k
  BY FolderFields
<1>2. EmptyLook.base = 0 /\ EmptyLook.size = 0 /\ EmptyLook.pos = 0
  BY DEF EmptyLook
<1>3. CASE ~Folder[fo].aes
  BY <1>1, <1>2, <1>3 DEF Position
<1>4. CASE Folder[fo].aes
  <2>1. a = [inProcessed |-> 0, pos |-> 0, size |-> 0, base |-> Folder[fo].start, sound |-> TRUE]
    BY <1>4 DEF AesInit
  <2>2. a \in AesStreams
    <3> DEFINE b == Folder[fo].start
    <3>1. b \in Nat /\ a = [inProcessed |-> 0, pos |-> 0, size |-> 0, base |-> b, sound |-> TRUE]
      BY <1>1, <2>1
    <3> HIDE DEF b
    <3> QED
      BY ONLY <3>1 DEF AesStreams
  <2>3. a # None
    BY <2>2, NotNone
  <2>4. a.inProcessed = 0 /\ a.pos = 0 /\ a.size = 0 /\ a.sound
    BY <2>1
  <2>5. PICK k \in 0..Folder[fo].inSize : Folder[fo].inSize = Block * k
    BY <1>1, <1>4
  <2>6. Folder[fo].inSize = a.inProcessed + Block * k
    <3> DEFINE n == Block * k
    <3>1. Folder[fo].inSize = n
      BY <2>5
    <3> HIDE DEF n
    <3>2. Folder[fo].inSize = a.inProcessed + n
      BY <1>1, <2>4, <3>1
    <3> QED
      BY <3>2 DEF n
  <2> HIDE DEF AesInit
  <2>7. /\ Folder[fo].start = Folder[fo].start + a.inProcessed
        /\ a.pos <= a.size /\ a.size <= a.inProcessed /\ ~(a.pos < a.size)
        /\ a.inProcessed - (a.size - a.pos) = 0
    BY <1>1, <2>4
  <2> QED
    BY <1>2, <2>2, <2>3, <2>4, <2>6, <2>7 DEF Position
<1> QED
  BY <1>1, <1>3, <1>4

\* The folder is opened from its first packed cell.
LEMMA OpenKeeps ==
  ASSUME NEW f, NEW s, Begins(f, s), dec # None, CanStream(File[f].folder),
         NEW buf \in Buffers(File[f].folder), OpenFolder(File[f].folder, buf)
  PROVE  IInv'
<1> DEFINE fo == File[f].folder
           F == Folder[fo]
<1>1. /\ fo \in Folders /\ fo # 0 /\ Total(fo) \in Nat \ {0} /\ blockIndex' = fo
      /\ req' \in [file : Files, sink : Sinks] /\ req'.file = f
      /\ F.start \in Nat /\ F.inSize \in Nat /\ F.damage \in Nat \ {0}
      /\ Locked(fo) => <<f, s>> \in Hopeless
  BY AtBegin, FolderFields
<1>2. EmptyLook \in Looks /\ filePos \in Nat /\ IInv /\ pc = "idle"
  BY DEF EmptyLook, Looks, Begins, IInv, TypeOK
<1>3. look' = EmptyLook /\ outBuffer' = buf /\ buf # None
  BY NotNone DEF OpenFolder
<1>4. PICK o \in SeekTo(F.start) :
     /\ filePos' = o.filePos
     /\ \/ /\ ~o.ok /\ keyCache' = keyCache /\ Fail(dec)
        \/ /\ o.ok /\ ~Locked(fo) /\ keyCache' = Cached(fo)
           /\ dec' = [Idle EXCEPT !.active = TRUE, !.folderIndex = fo, !.remaining = F.inSize,
                        !.outBuffer = buf.addr, !.total = Total(fo),
                        !.aes = IF F.aes THEN AesInit(fo, DerivedKey(fo)) ELSE None]
           /\ pc' = "step" /\ res' = "ok" /\ fault' = FALSE
        \/ /\ o.ok /\ ~Locked(fo) /\ keyCache' = Cached(fo) /\ Fail(dec)
        \/ /\ o.ok /\ Locked(fo) /\ keyCache' = keyCache
           /\ dec' = Reset(dec) /\ Reply("error") /\ fault' = FALSE
  BY DEF OpenFolder
<1>5. filePos' \in Nat /\ (o.ok => filePos' = F.start)
  BY <1>1, <1>2, <1>4 DEF SeekTo
<1>6. CASE Fail(dec) /\ keyCache' \in {keyCache, Cached(fo)}
  <2>1. dec' = Reset(dec) /\ pc' = "reply" /\ res' = "error" /\ fault' = TRUE
    BY <1>6 DEF Fail, Reply
  <2> QED
    BY <1>2, <1>3, <1>5, <1>6, <2>1, BeginFails
<1>7. CASE Locked(fo) /\ keyCache' = keyCache /\ dec' = Reset(dec) /\ Reply("error") /\ fault' = FALSE
  BY <1>1, <1>2, <1>3, <1>5, <1>7, BeginFails DEF Reply
<1>8. CASE /\ o.ok /\ ~Locked(fo) /\ keyCache' = Cached(fo)
           /\ dec' = [Idle EXCEPT !.active = TRUE, !.folderIndex = fo, !.remaining = F.inSize,
                        !.outBuffer = buf.addr, !.total = Total(fo),
                        !.aes = IF F.aes THEN AesInit(fo, DerivedKey(fo)) ELSE None]
           /\ pc' = "step" /\ res' = "ok" /\ fault' = FALSE
  <2> DEFINE a == IF F.aes THEN AesInit(fo, F.key) ELSE None
  <2>1. a \in AesStreams \cup {None} /\ Position(fo, a, 0, EmptyLook, F.start)
    BY <1>1, OpenedPosition
  <2>2. dec' = [active |-> TRUE, crcChecked |-> FALSE, folderIndex |-> fo, remaining |-> F.inSize,
                outBuffer |-> buf.addr, total |-> Total(fo), decoded |-> 0, aes |-> a,
                lzIn |-> 0, lzSound |-> TRUE]
    <3>1. DerivedKey(fo) = F.key
      BY <1>1, <1>2, KeyDerived
    <3>2. a = IF F.aes THEN AesInit(fo, DerivedKey(fo)) ELSE None
      BY <3>1
    <3>3. dec' = [Idle EXCEPT !.active = TRUE, !.folderIndex = fo, !.remaining = F.inSize,
                    !.outBuffer = buf.addr, !.total = Total(fo), !.aes = a]
      BY <1>8, <3>2
    <3> HIDE DEF a, fo, F
    <3> QED
      BY ONLY <3>3 DEF Idle
  <2> HIDE DEF a
  <2>3. /\ dec'.active = TRUE /\ dec'.folderIndex = fo /\ dec'.remaining = F.inSize
        /\ dec'.outBuffer = buf.addr /\ dec'.total = Total(fo) /\ dec'.decoded = 0 /\ dec'.aes = a
        /\ dec'.lzIn = 0 /\ dec'.lzSound = TRUE
    BY ONLY <2>2
  <2>4. buf.addr \in Nat
    BY DEF Buffers, Address
  <2>5. dec' \in Decoders
    <3>1. fo \in Nat /\ Total(fo) \in Nat
      BY <1>1, FolderTyped
    <3> QED
      BY <1>1, <2>1, <2>2, <2>4, <3>1 DEF Decoders
  <2>6. dec' # None
    BY <2>5, NotNone
  <2>7. TypeOK' /\ KeyKnown'
    BY <1>1, <1>2, <1>3, <1>5, <1>8, <2>5, KeyDerived DEF IInv, TypeOK, KeyKnown
  <2>8. Fit(fo, 0) /\ Decodes(buf.cells, fo, 0)
    BY <1>1, <1>8 DEF Fit, Decodes
  <2>9. Follows'
    <3>1. look' = EmptyLook /\ filePos' = F.start
      BY <1>3, <1>5, <1>8
    <3>2. Position(fo, dec'.aes, dec'.lzIn, look', filePos')
      BY <2>1, <2>3, <3>1
    <3>3. dec'.lzIn + dec'.remaining = F.inSize /\ dec'.lzIn = dec'.decoded
          /\ dec'.decoded <= Total(fo) /\ dec'.decoded # Total(fo)
      BY <1>1, <2>3
    <3> HIDE DEF fo
    <3> QED
      BY <1>1, <1>3, <2>3, <2>8, <3>2, <3>3 DEF Follows, fo
  <2>10. InCall'
    BY <1>1, <1>8, <2>3, <2>6 DEF InCall
  <2> QED
    BY <2>7, <2>9, <2>10 DEF IInv
<1> QED
  BY <1>4, <1>6, <1>7, <1>8

\* The whole block at once, when there is no decoder or none that can stream the folder.
LEMMA WholeKeeps ==
  ASSUME NEW f, NEW s, Begins(f, s), dec = None \/ ~CanStream(File[f].folder),
         NEW buf \in Buffers(File[f].folder), DecodeWhole(File[f].folder, buf)
  PROVE  IInv'
<1> DEFINE fo == File[f].folder
           F == Folder[fo]
<1>1. /\ fo \in Folders /\ fo # 0 /\ Total(fo) \in Nat \ {0} /\ blockIndex' = fo
      /\ req' \in [file : Files, sink : Sinks] /\ req'.file = f
      /\ TargetSize' \in 0..Total(fo)
      /\ F.start \in Nat /\ F.inSize \in Nat /\ F.damage \in Nat \ {0}
      /\ (Locked(fo) \/ (Damaged(fo) /\ ~CanStream(fo))) => <<f, s>> \in Hopeless
  BY AtBegin, FolderFields
<1>2. EmptyLook \in Looks /\ IInv /\ pc = "idle"
  BY DEF EmptyLook, Looks, Begins
<1>3. /\ look' = EmptyLook /\ filePos' \in {F.start, F.start + F.inSize}
      /\ keyCache' \in {keyCache, Cached(fo)}
  BY DEF DecodeWhole
<1>4. filePos' \in Nat
  BY <1>1, <1>3
<1>5. /\ buf.addr \in Address /\ buf.cells \in [1..Total(fo) -> Cells]
      /\ buf = [addr |-> buf.addr, cells |-> buf.cells]
  BY DEF Buffers
<1>6. CASE /\ outBuffer' \in {buf, [buf EXCEPT !.cells = [i \in DOMAIN @ |-> "wrong"]]}
           /\ dec' = Reset(dec) /\ Reply("error")
           /\ fault' = (~(Damaged(fo) \/ Locked(fo)) \/ dec = None)
  <2>1. [buf EXCEPT !.cells = [i \in DOMAIN @ |-> "wrong"]] \in Buffers(fo)
    <3>1. [buf EXCEPT !.cells = [i \in DOMAIN @ |-> "wrong"]]
            = [addr |-> buf.addr, cells |-> [i \in 1..Total(fo) |-> "wrong"]]
      <4>1. DOMAIN buf.cells = 1..Total(fo)
        BY <1>5
      <4>2. [buf EXCEPT !.cells = [i \in DOMAIN @ |-> "wrong"]]
              = [addr |-> buf.addr, cells |-> [i \in DOMAIN buf.cells |-> "wrong"]]
        BY ONLY <1>5
      <4> QED
        BY ONLY <4>1, <4>2
    <3> QED
      BY <1>5, <3>1 DEF Buffers, Cells
  <2>2. outBuffer' \in Buffers(fo) /\ fault' \in BOOLEAN /\ pc' = "reply" /\ res' = "error"
    BY <1>6, <2>1 DEF Reply
  <2>3. fault' \/ <<f, s>> \in Hopeless
    BY <1>1, <1>6
  <2> QED
    BY <1>2, <1>3, <1>4, <1>6, <2>2, <2>3, BeginFails
<1>7. CASE /\ Damaged(fo) => Unnoticed(fo)
           /\ ~Locked(fo)
           /\ outBuffer' = [buf EXCEPT !.cells = [i \in DOMAIN @ |->
                              IF (F.aes /\ DerivedKey(fo) # F.key) \/ i >= F.damage
                              THEN "wrong" ELSE "right"]]
           /\ dec' = IF dec = None THEN None
                     ELSE [Idle EXCEPT !.active = TRUE, !.crcChecked = TRUE, !.folderIndex = fo,
                             !.outBuffer = buf.addr, !.total = Total(fo), !.decoded = Total(fo)]
           /\ res' = "ok" /\ pc' = "check" /\ fault' = FALSE
  <2> DEFINE c == [i \in 1..Total(fo) |-> IF i >= F.damage THEN "wrong" ELSE "right"]
  <2>1. outBuffer' = [addr |-> buf.addr, cells |-> c]
    BY <1>1, <1>2, <1>5, <1>7, KeyDerived
  <2>2. c \in [1..Total(fo) -> Cells]
    BY DEF Cells
  <2>3. Decodes(c, fo, Total(fo))
    BY <1>1, <1>7 DEF Decodes
  <2> HIDE DEF c
  <2>4. outBuffer' \in Buffers(fo) /\ outBuffer'.cells = c /\ outBuffer'.addr = buf.addr
        /\ outBuffer' # None
    BY <1>5, <2>1, <2>2, NotNone DEF Buffers
  <2>5. ASSUME NEW n \in 0..Total(fo) PROVE Fit(fo, n) /\ Decodes(c, fo, n)
    <3>1. Decodes(c, fo, n)
      BY <1>1, <2>3 DEF Decodes
    <3>2. n \in Nat /\ n <= Total(fo) /\ Total(fo) \in Nat /\ Folder[fo].damage \in Nat /\ Folder[fo].inSize \in Nat
      BY <1>1
    <3>3. ~Locked(fo) /\ (Damaged(fo) => Unnoticed(fo))
      BY <1>7
    <3> QED
      BY ONLY <3>1, <3>2, <3>3 DEF Fit, Damaged, Unnoticed, CanStream
  <2>6. dec' # None =>
          dec' = [active |-> TRUE, crcChecked |-> TRUE, folderIndex |-> fo, remaining |-> 0,
                  outBuffer |-> buf.addr, total |-> Total(fo), decoded |-> Total(fo), aes |-> None,
                  lzIn |-> 0, lzSound |-> TRUE]
    BY <1>7 DEF Idle
  <2>7. dec' # None =>
          /\ dec'.folderIndex = fo /\ dec'.outBuffer = buf.addr /\ dec'.total = Total(fo)
          /\ dec'.decoded = Total(fo) /\ dec'.lzSound = TRUE /\ dec'.crcChecked = TRUE
    BY <2>6
  <2>8. dec' \in Decoders \cup {None}
    <3> DEFINE t == Total(fo)
               b == buf.addr
    <3>1. fo \in Nat /\ t \in Nat /\ b \in Nat
      BY <1>1, <1>5, FolderTyped DEF Address
    <3>2. dec' # None =>
            dec' = [active |-> TRUE, crcChecked |-> TRUE, folderIndex |-> fo, remaining |-> 0,
                    outBuffer |-> b, total |-> t, decoded |-> t, aes |-> None,
                    lzIn |-> 0, lzSound |-> TRUE]
      BY <2>6
    <3> HIDE DEF fo, t, b
    <3>3. ASSUME NEW a \in AesStreams \cup {None}
          PROVE  [active |-> TRUE, crcChecked |-> TRUE, folderIndex |-> fo, remaining |-> 0,
                  outBuffer |-> b, total |-> t, decoded |-> t, aes |-> a,
                  lzIn |-> 0, lzSound |-> TRUE] \in Decoders
      BY ONLY <3>1 DEF Decoders
    <3> QED
      BY ONLY <3>2, <3>3
  <2>9. TypeOK' /\ KeyKnown'
    BY <1>1, <1>2, <1>3, <1>4, <1>7, <2>4, <2>8, KeyDerived DEF IInv, TypeOK, KeyKnown
  <2>10. Follows'
    BY <1>1, <2>4, <2>5, <2>7 DEF Follows
  <2>11. InCall'
    BY <1>1, <1>7, <2>4, <2>5 DEF InCall
  <2> QED
    BY <2>9, <2>10, <2>11 DEF IInv
<1> QED
  BY <1>6, <1>7 DEF DecodeWhole

\* Continued, opened or decoded at once.
LEMMA BeginDecodeKeeps ==
  ASSUME NEW f, NEW s, Begins(f, s), BeginDecode(f)
  PROVE  IInv'
<1> DEFINE fo == File[f].folder
           d == IF NeedsBuffer(f) THEN Reset(dec) ELSE dec
<1>1. /\ fo \in Folders /\ Total(fo) \in Nat \ {0} /\ IInv
  BY AtBegin DEF Begins
<1>2. PICK buf \in IF NeedsBuffer(f) THEN NewBuffer(fo) ELSE {outBuffer} :
       LET resumes == d # None /\ d.active /\ d.folderIndex = fo
                      /\ d.outBuffer = buf.addr /\ d.total = Total(fo)
       IN \/ /\ resumes
             /\ outBuffer' = buf /\ pc' = "step" /\ res' = "ok" /\ fault' = FALSE
             /\ UNCHANGED <<dec, look, filePos, keyCache>>
          \/ ~resumes /\ d # None /\ CanStream(fo) /\ OpenFolder(fo, buf)
          \/ ~resumes /\ (d = None \/ ~CanStream(fo)) /\ DecodeWhole(fo, buf)
  BY DEF BeginDecode
<1>3. buf \in Buffers(fo)
  <2>1. CASE NeedsBuffer(f)
    <3>1. PICK a \in Address : buf = [addr |-> a, cells |-> [i \in 1..Total(fo) |-> "raw"]]
      BY <1>2, <2>1 DEF NewBuffer
    <3> QED
      BY <3>1 DEF Buffers, Cells
  <2>2. CASE ~NeedsBuffer(f)
    <3>1. buf = outBuffer /\ outBuffer # None /\ blockIndex = fo
      BY <1>2, <2>2 DEF NeedsBuffer
    <3> QED
      BY <1>1, <3>1 DEF IInv, TypeOK
  <2> QED
    BY <2>1, <2>2
<1>4. d = None <=> dec = None
  BY DEF Reset, Idle, None
<1>5. CASE OpenFolder(fo, buf) /\ d # None /\ CanStream(fo)
  BY <1>3, <1>4, <1>5, OpenKeeps
<1>6. CASE DecodeWhole(fo, buf) /\ (d = None \/ ~CanStream(fo))
  BY <1>3, <1>4, <1>6, WholeKeeps
<1>7. CASE /\ d # None /\ d.active /\ d.folderIndex = fo
           /\ outBuffer' = buf /\ pc' = "step" /\ res' = "ok" /\ fault' = FALSE
           /\ UNCHANGED <<dec, look, filePos, keyCache>>
  <2>1. ~NeedsBuffer(f)
    BY <1>7 DEF Reset, Idle
  <2>2. d = dec /\ buf = outBuffer
    BY <1>2, <2>1
  <2> QED
    BY <1>7, <2>1, <2>2, ResumeKeeps
<1> QED
  BY <1>2, <1>5, <1>6, <1>7

\* A file of no cells needs no block.
LEMMA BeginEmptyKeeps ==
  ASSUME IInv, pc = "idle", NEW f \in Files, NEW s \in Sinks,
         req' = [file |-> f, sink |-> s], BeginEmpty(f)
  PROVE  IInv'
<1>1. /\ File[f].folder \in {0} \cup Folders /\ File[f].size \in Nat /\ File[f].offset \in Nat
      /\ File[f].folder # 0 => Total(File[f].folder) = 0
      /\ blockIndex' = File[f].folder /\ outBuffer' = None /\ dec' = Reset(dec)
      /\ pc' = "deliver" /\ fault' = FALSE /\ UNCHANGED <<look, filePos, keyCache>>
  BY FileFields DEF BeginEmpty
<1>2. File[f].size = 0
  BY <1>1, FileFields
<1>3. req' \in [file : Files, sink : Sinks] /\ req'.file = f /\ req'.sink = s
  OBVIOUS
<1>4. <<f, s>> \in Requests /\ Request' = <<f, s>>
  BY <1>3 DEF Request, Requests
<1>5. dec' \in {Idle, None}
  BY <1>1 DEF Reset
<1>6. TypeOK' /\ KeyKnown' /\ Follows'
  BY <1>1, <1>3, <1>5, IdleTyped DEF IInv, TypeOK, KeyKnown, Follows
<1>7. Slice' = <<>>
  BY <1>1 DEF Slice
<1>8. Content[<<f, s>>] = <<>>
  <2>1. Content[<<f, s>>] = [i \in 1..File[f].size |-> "right"]
    BY <1>4 DEF Content
  <2>2. [i \in 1..0 |-> "right"] = <<>>
    OBVIOUS
  <2> QED
    BY <1>2, <2>1, <2>2
<1>9. <<f, s>> \in Hopeless <=> s = "buffer"
  BY <1>1, <1>4 DEF Hopeless
<1>10. InCall'
  BY <1>1, <1>3, <1>4, <1>7, <1>8, <1>9 DEF InCall, Hopeless, Content, Requests
<1> QED
  BY <1>6, <1>10 DEF IInv

\* However a call begins.
LEMMA ExtractKeeps ==
  ASSUME IInv, NEW f \in Files, NEW s \in Sinks, Extract(f, s)
  PROVE  IInv'
<1>1. pc = "idle" /\ req' = [file |-> f, sink |-> s]
  BY DEF Extract
<1>2. CASE BeginEmpty(f)
  BY <1>1, <1>2, BeginEmptyKeeps
<1>3. CASE BeginOutOfMemory(f)
  <2>1. Begins(f, s)
    BY <1>1, <1>3 DEF Begins, BeginOutOfMemory
  <2>2. /\ dec' = Reset(dec) /\ pc' = "reply" /\ res' = "error" /\ fault' = TRUE
        /\ outBuffer' = None /\ look' \in Looks /\ filePos' \in Nat /\ keyCache' = keyCache
    BY <1>3 DEF BeginOutOfMemory, Fail, Reply, IInv, TypeOK
  <2> QED
    BY <2>1, <2>2, BeginFails
<1>4. CASE BeginDecode(f)
  <2>1. Begins(f, s)
    BY <1>1, <1>4 DEF Begins, BeginDecode
  <2> QED
    BY <1>4, <2>1, BeginDecodeKeeps
<1> QED
  BY <1>2, <1>3, <1>4 DEF Extract

-----------------------------------------------------------------------------
(* The theorems *)

\* Each action has its lemma above.
LEMMA StepKeeps ==
  ASSUME IInv, [Next]_vars
  PROVE  IInv'
<1>1. CASE UNCHANGED vars
  <2>1. TypeOK' /\ KeyKnown'
    BY SMTT(30), <1>1 DEF vars, IInv, TypeOK, KeyKnown
  <2>2. Follows'
    BY SMTT(30), <1>1 DEF vars, IInv, Follows, TargetSize, Request, Slice, Hopeless, Content, Requests
  <2>3. InCall'
    BY ZenonT(90), <1>1 DEF vars, IInv, InCall, TargetSize, Request, Slice, Hopeless, Content, Requests
  <2> QED
    BY <2>1, <2>2, <2>3 DEF IInv
<1>2. CASE Work
  BY <1>2, CopyKeeps, LzmaKeeps, FolderDoneKeeps, CheckFileKeeps, DeliverKeeps, ReturnKeeps DEF Work
<1>3. CASE Purge \/ Reopen
  BY <1>3, RenewKeeps
<1>4. CASE \E f \in Files, s \in Sinks : Extract(f, s)
  BY <1>4, ExtractKeeps
<1> QED
  BY <1>1, <1>2, <1>3, <1>4 DEF Next

\* Decoder, block and stream agree in every state of every history of a handle: extractions,
\* errors, switches of block, purges and reopenings.
THEOREM HandleInvariant == Spec => []IInv
BY InitHolds, StepKeeps, PTL DEF Spec

\* Between calls, a decoder that is to be continued finds its next packed cell at the head of
\* the stream it reads, and has decoded a right prefix of the block it points at
\* (SzFolderDecoder_StepTo, CLookToRead2, AesLookInStream).
THEOREM StreamStaysInStep == Spec => []StreamFollowsDecoder
<1>1. IInv => StreamFollowsDecoder
  <2> SUFFICES ASSUME IInv, pc = "idle", dec # None, dec.active
               PROVE  LET F == Folder[dec.folderIndex] IN
                      /\ outBuffer # None /\ dec.outBuffer = outBuffer.addr /\ blockIndex = dec.folderIndex
                      /\ \A i \in 1..Lesser(dec.decoded, F.damage - 1) : outBuffer.cells[i] = "right"
                      /\ dec.decoded < dec.total =>
                           IF dec.aes = None
                           THEN NextInFile = F.start + F.inSize - dec.remaining
                           ELSE /\ NextInFile = F.start + dec.aes.inProcessed
                                /\ dec.aes.inProcessed - (dec.aes.size - dec.aes.pos) = F.inSize - dec.remaining
    BY DEF StreamFollowsDecoder
  <2> DEFINE fo == dec.folderIndex
             F == Folder[fo]
  <2>1. /\ outBuffer # None /\ dec.outBuffer = outBuffer.addr /\ blockIndex = fo
        /\ dec.total = Total(fo) /\ Decodes(outBuffer.cells, fo, dec.decoded)
        /\ dec.decoded < Total(fo) => /\ Position(fo, dec.aes, dec.lzIn, look, filePos)
                                      /\ dec.lzIn + dec.remaining = F.inSize
    BY DEF IInv, Follows
  <2>2. fo \in Folders /\ dec \in Decoders /\ look \in Looks /\ filePos \in Nat
    BY <2>1 DEF IInv, TypeOK
  <2>3. /\ F.start \in Nat /\ F.inSize \in Nat /\ F.damage \in Nat \ {0} /\ dec.decoded \in Nat
        /\ dec.remaining \in Nat /\ dec.lzIn \in Nat
        /\ look.base \in Nat /\ look.pos \in Nat /\ look.size \in Nat
    BY <2>2, FolderFields DEF Decoders, Looks
  <2>4. ASSUME NEW i \in 1..Lesser(dec.decoded, F.damage - 1) PROVE outBuffer.cells[i] = "right"
    <3>1. i \in 1..dec.decoded /\ i < F.damage
      BY <2>3 DEF Lesser
    <3> QED
      BY <2>1, <3>1 DEF Decodes
  <2>5. ASSUME dec.decoded < Total(fo), dec.aes = None
        PROVE  NextInFile = F.start + F.inSize - dec.remaining
    <3>1. dec.lzIn = F.inSize - dec.remaining
      BY <2>1, <2>3, <2>5
    <3>2. NextInFile = F.start + dec.lzIn
      BY <2>1, <2>2, <2>3, <2>5 DEF Position, NextInFile, Avail
    <3> QED
      BY <2>3, <3>1, <3>2
  <2>6. ASSUME dec.decoded < Total(fo), dec.aes # None
        PROVE  /\ NextInFile = F.start + dec.aes.inProcessed
               /\ dec.aes.inProcessed - (dec.aes.size - dec.aes.pos) = F.inSize - dec.remaining
    <3>1. dec.lzIn = F.inSize - dec.remaining
      BY <2>1, <2>3, <2>6
    <3>2. /\ look.pos = look.size /\ filePos = F.start + dec.aes.inProcessed
          /\ dec.aes.inProcessed - (dec.aes.size - dec.aes.pos) = dec.lzIn
      BY <2>1, <2>6 DEF Position
    <3>3. NextInFile = filePos
      BY <2>3, <3>2 DEF NextInFile, Avail
    <3> QED
      BY <3>1, <3>2, <3>3
  <2> QED
    BY <2>1, <2>4, <2>5, <2>6
<1> QED
  BY <1>1, HandleInvariant, PTL

\* A turn of the loop never goes back.
LEMMA TurnGoesOn ==
  ASSUME IInv, StepCopy \/ StepLzma, res' # "error"
  PROVE  dec'.active /\ dec'.decoded >= dec.decoded
<1>1. /\ pc = "step" /\ dec.decoded < Target
  BY DEF StepCopy, StepLzma
<1>2. /\ dec \in Decoders /\ dec.active = TRUE /\ dec.decoded \in Nat /\ Target \in Int
      /\ dec.remaining \in Nat /\ \A n \in 0..dec.remaining : AtWork(n)
  <2>1. dec \in Decoders /\ dec.active = TRUE /\ Target = TargetSize /\ TargetSize \in 0..dec.total
    BY <1>1, AtStep
  <2> QED
    BY <1>1, <2>1, StepAtWork DEF Decoders
<1>3. ASSUME NEW o, NEW why, StepFails(o, why) PROVE FALSE
  BY <1>3 DEF StepFails, Reply
<1>4. CASE StepCopy
  <2> DEFINE size == Lesser(Lesser(Target - dec.decoded, Window), dec.remaining)
  <2>1. PICK o \in ActiveLook(size) : /\ o.ok /\ o.n # 0
                                      /\ StepAdvances(o, o.n, dec.decoded + o.n, Sound(o))
    BY <1>3, <1>4 DEF StepCopy
  <2>2. size \in 0..dec.remaining
    BY <1>1, <1>2, Sizes DEF Lesser
  <2>3. Gives(o, size)
    BY <1>2, <2>1, <2>2, ActiveLookGives
  <2> HIDE DEF size
  <2>4. o.n \in Nat
    BY <1>2, <2>1, <2>2, <2>3 DEF Gives
  <2>5. dec'.active = TRUE /\ dec'.decoded = dec.decoded + o.n
    BY <1>2, <2>1 DEF StepAdvances, Decoders
  <2> QED
    BY <1>2, <2>4, <2>5
<1>5. CASE StepLzma
  <2> DEFINE F == Folder[dec.folderIndex]
             Used(o, last) == IF last = Target THEN Greater(0, F.need[last] - dec.lzIn) ELSE o.n
             Snd(o, last) == IF Used(o, last) = 0 THEN dec.lzSound ELSE Sound(o)
  <2>1. PICK o \in ActiveLook(Lesser(Window, dec.remaining)), last \in dec.decoded..Target :
           IF ~o.ok THEN StepFails(o, TRUE)
           ELSE IF NoProgress(Used(o, last), last) \/ last >= F.damage THEN StepFails(o, FALSE)
           ELSE StepAdvances(o, Used(o, last), last, Snd(o, last))
    BY <1>5 DEF StepLzma
  <2> HIDE DEF Used, Snd
  <2>2. StepAdvances(o, Used(o, last), last, Snd(o, last))
    BY <1>3, <2>1
  <2>3. dec'.active = TRUE /\ dec'.decoded = last
    BY <1>2, <2>2 DEF StepAdvances, Decoders
  <2> QED
    BY <1>2, <2>3
<1> QED
  BY <1>4, <1>5

\* As long as a block is cached and nothing fails, no call goes back in a block it has begun
\* (SzArEx_ExtractIncremental keeps the decoder, SzFolderDecoder_StepTo continues it).
THEOREM NothingIsReworked == Spec => NoRework
<1> DEFINE Kept == dec # None /\ dec.active /\ dec' # None /\ ~fault' /\ res' # "error"
                   /\ blockIndex' = blockIndex /\ outBuffer' # None
                   => dec'.active /\ dec'.decoded >= dec.decoded
<1>1. ASSUME IInv, [Next]_vars PROVE Kept
  <2> SUFFICES ASSUME dec # None, dec.active, dec' # None, ~fault', res' # "error",
                      blockIndex' = blockIndex, outBuffer' # None
               PROVE  dec'.active /\ dec'.decoded >= dec.decoded
    OBVIOUS
  <2>1. dec \in Decoders /\ dec.decoded \in Nat /\ dec.decoded >= dec.decoded
    BY <1>1 DEF IInv, TypeOK, Decoders
  <2>2. CASE dec' = dec
    BY <2>1, <2>2
  <2>3. CASE StepCopy \/ StepLzma
    BY <1>1, <2>3, TurnGoesOn
  <2>4. CASE FolderDone
    <3>1. dec' = [dec EXCEPT !.crcChecked = dec.crcChecked \/ dec.decoded = dec.total]
      BY <2>4 DEF FolderDone, Reply
    <3> QED
      BY <2>1, <3>1 DEF Decoders
  <2>5. CASE CheckFile \/ DeliverBytes \/ DeliverBuffer \/ DeliverFile \/ Return
    BY <2>2, <2>5 DEF CheckFile, DeliverBytes, DeliverBuffer, DeliverFile, DeliverFails, Return, handle
  <2>6. CASE Purge \/ Reopen
    BY <2>6 DEF Purge, Reopen, Closed
  <2>7. ASSUME NEW f \in Files, NEW s \in Sinks, Extract(f, s) PROVE dec' = dec
    <3>1. pc = "idle" /\ BeginDecode(f)
      BY <2>7 DEF Extract, BeginEmpty, BeginOutOfMemory
    <3>2. blockIndex = File[f].folder
      BY <3>1 DEF BeginDecode
    <3>3. /\ outBuffer # None /\ dec.outBuffer = outBuffer.addr /\ dec.folderIndex = File[f].folder
          /\ dec.total = Total(File[f].folder)
      BY <1>1, <3>2 DEF IInv, Follows
    <3>4. ~NeedsBuffer(f)
      BY <3>2, <3>3 DEF NeedsBuffer
    <3> QED
      BY <3>1, <3>3, <3>4 DEF BeginDecode
  <2>8. CASE UNCHANGED vars
    BY <2>2, <2>8 DEF vars
  <2> QED
    BY <1>1, <2>2, <2>3, <2>4, <2>5, <2>6, <2>7, <2>8 DEF Next, Work
<1> QED
  BY <1>1, HandleInvariant, PTL DEF Spec, NoRework

-----------------------------------------------------------------------------
(* The handle implements ArchiveReads: a call is asked for when it begins,   *)
(* answered when it comes to its reply, and every step between shows nothing.*)

\* An answer can be told from none, and a file's content from an error.
LEMMA AnswersDiffer ==
  /\ <<"failed">> # <<"none">>
  /\ \A r \in Requests : <<r[1], r[2]>> # <<0, "none">> /\ Content[r] # <<"none">>
<1>1. <<"failed">> # <<"none">>
  OBVIOUS
<1>2. ASSUME NEW r \in Requests PROVE r[1] # 0
  BY DEF Requests, Files
<1>3. ASSUME NEW r \in Requests PROVE Content[r] # <<"none">>
  <2>1. Content[r] = [i \in 1..File[r[1]].size |-> "right"]
    BY DEF Content
  <2>2. SUFFICES ASSUME Content[r] = <<"none">> PROVE FALSE
    OBVIOUS
  <2>3. DOMAIN <<"none">> = 1..1 /\ <<"none">>[1] = "none"
    OBVIOUS
  <2>4. 1 \in 1..File[r[1]].size
    <3>1. DOMAIN Content[r] = 1..File[r[1]].size
      BY ONLY <2>1
    <3>2. DOMAIN Content[r] = 1..1
      BY ONLY <2>2, <2>3
    <3>3. 1 \in 1..1
      OBVIOUS
    <3> QED
      BY ONLY <3>1, <3>2, <3>3, Zenon
  <2>5. Content[r][1] = "right"
    BY ONLY <2>1, <2>4
  <2> QED
    BY <2>2, <2>3, <2>5
<1> QED
  BY <1>1, <1>2, <1>3

\* Every step of the handle is a step of ArchiveReads, or shows nothing.
LEMMA StepServes ==
  ASSUME IInv, IInv', [Next]_vars
  PROVE  [Reads!Next]_(Reads!vars)
<1> DEFINE asked == IF pc = "idle" THEN <<0, "none">> ELSE <<req.file, req.sink>>
           reply == IF pc # "reply" THEN <<"none">> ELSE IF res = "ok" THEN out ELSE <<"failed">>
<1>1. pc # "idle" => /\ req.file \in Files /\ req.sink \in Sinks /\ <<req.file, req.sink>> \in Requests
                     /\ <<req.file, req.sink>> # <<0, "none">>
  <2> SUFFICES ASSUME pc # "idle"
               PROVE  /\ req.file \in Files /\ req.sink \in Sinks /\ <<req.file, req.sink>> \in Requests
                      /\ <<req.file, req.sink>> # <<0, "none">>
    OBVIOUS
  <2>1. req.file \in Files /\ req.sink \in Sinks
    BY DEF IInv, TypeOK
  <2>2. <<req.file, req.sink>> \in Requests
    BY <2>1 DEF Requests
  <2>3. <<req.file, req.sink>> # <<0, "none">>
    BY <2>1 DEF Files
  <2> QED
    BY <2>1, <2>2, <2>3
<1>2. fault \in BOOLEAN /\ fault' \in BOOLEAN
  BY DEF IInv, TypeOK
<1>3. pc' # "idle" => reply' \in Reads!Answers(Request', fault')
  <2>1. CASE pc' # "reply"
    BY <2>1 DEF Reads!Answers
  <2>2. CASE pc' = "reply"
    <3>1. Hopeless' = Hopeless /\ Content' = Content
      BY DEF Hopeless, Content, Requests
    <3>2. IF res' = "ok" THEN out' = Content[Request'] /\ Request' \notin Hopeless
          ELSE Request' \in Hopeless \/ fault'
      BY <2>2, <3>1 DEF IInv, InCall
    <3> QED
      BY <2>2, <3>2 DEF Reads!Answers
  <2> QED
    BY <2>1, <2>2
<1>4. CASE StepCopy \/ StepLzma \/ FolderDone \/ CheckFile \/ DeliverBytes \/ DeliverBuffer \/ DeliverFile
  <2>1. pc \in {"step", "check", "deliver"} /\ pc' # "idle" /\ req' = req
    <3>1. CASE StepCopy \/ StepLzma
      BY ZenonT(30), <3>1 DEF StepCopy, StepLzma, StepAdvances, StepFails, Reply, CallVars, handle
    <3>2. CASE FolderDone \/ CheckFile
      BY ZenonT(30), <3>2 DEF FolderDone, CheckFile, Reply, CallVars, handle
    <3>3. CASE DeliverBytes \/ DeliverBuffer \/ DeliverFile
      BY ZenonT(30), <3>3 DEF DeliverBytes, DeliverBuffer, DeliverFile, DeliverFails, Reply, CallVars, handle
    <3> QED
      BY <1>4, <3>1, <3>2, <3>3
  <2>2. fault = FALSE
    BY <1>2, <2>1 DEF IInv, InCall
  <2>3. asked # <<0, "none">> /\ asked' = asked /\ reply = <<"none">>
    BY <1>1, <2>1
  <2>4. reply' \in Reads!Answers(asked, fault')
    BY <1>3, <2>1 DEF Request
  <2> QED
    BY <1>2, <2>2, <2>3, <2>4 DEF Reads!Next, Reads!Answer
<1>5. CASE Return
  <2>1. pc = "reply" /\ pc' = "idle" /\ fault' = FALSE
    BY <1>5 DEF Return
  <2>2. reply # <<"none">>
    <3>1. res = "ok" => out = Content[Request]
      BY <2>1 DEF IInv, InCall
    <3> QED
      BY <1>1, <2>1, <3>1, AnswersDiffer DEF Request
  <2> QED
    BY <2>1, <2>2 DEF Reads!Next, Reads!Finish
<1>6. CASE Purge \/ Reopen \/ UNCHANGED vars
  <2>1. UNCHANGED <<pc, req, res, out, fault>>
    BY <1>6 DEF Purge, Reopen, vars
  <2> QED
    BY <2>1 DEF Reads!vars
<1>7. ASSUME NEW f \in Files, NEW s \in Sinks, Extract(f, s) PROVE Reads!Next
  <2>1. pc = "idle" /\ req' = [file |-> f, sink |-> s]
    BY <1>7 DEF Extract
  <2>2. pc' # "idle"
    BY <1>7 DEF Extract, BeginEmpty, BeginOutOfMemory, BeginDecode, OpenFolder, DecodeWhole, Fail, Reply
  <2>3. asked = <<0, "none">> /\ asked' = <<f, s>> /\ <<f, s>> \in Requests
    BY <2>1, <2>2 DEF Requests
  <2>4. reply' \in Reads!Answers(<<f, s>>, fault')
    <3>1. Request' = <<f, s>>
      BY <2>1 DEF Request
    <3> QED
      BY <1>3, <2>2, <3>1
  <2> QED
    BY <1>2, <2>3, <2>4 DEF Reads!Next, Reads!Ask
<1> QED
  BY <1>4, <1>5, <1>6, <1>7 DEF Next, Work

\* Whatever was asked, failed, was purged or reopened before: a request is answered with the
\* cells of its file as they were packed, and with an error only when the archive gives a
\* reason for one or something failed during this very call (native7z_jni.cpp, 7zArcIn.c).
THEOREM EveryFileIsServed == Spec => ServesEveryFile
<1>1. Init => Reads!Init
  BY DEF Init, Reads!Init
<1> QED
  BY <1>1, StepServes, HandleInvariant, PTL DEF Spec, ServesEveryFile, Reads!Spec
=============================================================================
