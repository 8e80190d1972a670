------------------------------ MODULE Archive7z ------------------------------
(* SzArEx_Open: the header a 7z file ends with, decoded first when it is     *)
(* packed itself, becomes the tables by which entries are listed and files   *)
(* extracted.  A file is what the reader can see of it: the start header and *)
(* the header's bytes; what a packed stream decodes to is an input.          *)
EXTENDS SzFolder

CONSTANT Files7z        \* the files that may be opened

\* A header and what packed streams decode to are bytes.
ASSUME FilesAssumption == \A f \in Files7z : f.header \in Seq(0..255) /\ f.unpacked \in Seq(Seq(0..255))

VARIABLES file, archive, stage, block

-----------------------------------------------------------------------------
(* The files section.                                                        *)

\* Data behind an `external` byte: here, or all of a decoded additional stream.
Elsewhere(index, temp) ==
  IF index.ok /\ index.sd = <<>> /\ index.v < Len(temp) THEN Cursor(temp[index.v + 1]) ELSE Err
DataAt(external, temp) == IF external.v = 0 THEN external ELSE Elsewhere(ReadNumber32(external), temp)
External(s, temp) == DataAt(ReadByte(s), temp)

\* k7zIdWinAttrib; ReadTime reads the same way, eight bytes at a time.
AllRead(r) == Check(r, r.sd = <<>>)
ValuesAfter(defs, temp, width) == IF defs.ok THEN AllRead(ReadValues(External(defs, temp), defs.v, width)) ELSE Err
ReadAttribs(s, n, temp) == ValuesAfter(ReadBitVector(s, n), temp, 4)
ReadTime(s, n, temp) == ValuesAfter(ReadBitVector(s, n), temp, 8)

\* SzReadFileNames: where each name ends; exactly n names, the last one ended.
Units(data) == [i \in 1..Len(data) \div 2 |-> <<data[2 * i - 1], data[2 * i]>>]
NameEnds(units) == {i \in DOMAIN units : units[i] = <<0, 0>>}
NameOffset(ends, k) == CHOOSE i \in {0} \cup ends : Cardinality({j \in ends : j <= i}) = k
NamesOf(data, u, ends, n) ==
  With(Check(data, /\ Len(data.sd) % 2 = 0 /\ Cardinality(ends) = n
                   /\ IF n = 0 THEN u = <<>> ELSE Len(u) \in ends),
       [units |-> u, offsets |-> [k \in 1..n + 1 |-> NameOffset(ends, k - 1)]])
NamesIn(data, u, n) == NamesOf(data, u, NameEnds(u), n)
NamesAt(data, n) == NamesIn(data, Units(data.sd), n)
ReadNames(s, n, temp) == NamesAt(External(s, temp), n)

\* SzArEx_GetFileNameUtf16, without the terminator.
FileName(a, i) == IF a.names = <<>> THEN <<>>
                  ELSE SubSeq(a.names[1].units, a.names[1].offsets[i] + 1, a.names[1].offsets[i + 1] - 1)

\* What the section leaves; an absent property is <<>>, a present one <<value>>.
NoFiles(n) == [n |-> n, emptyStreams |-> <<>>, emptyFiles |-> <<>>, names |-> <<>>,
               attribs |-> <<>>, mtime |-> <<>>, ctime |-> <<>>]
NumEmpty(files) == IF files.emptyStreams = <<>> THEN 0 ELSE CountDefinedBits(files.emptyStreams[1])
Once(files, field, x) == IF x.ok /\ files[field] = <<>> THEN With(Cursor(<<>>), [files EXCEPT ![field] = <<x.v>>]) ELSE Err

\* k7zIdEmptyStream and k7zIdEmptyFile: bits, which must come in that order and just fit.
FileBits(s, files, field, n) ==
  IF Len(s.sd) = (n + 7) \div 8 /\ files.emptyFiles = <<>> THEN Once(files, field, With(s, BitsOf(s.sd, n))) ELSE Err

FileProperty(id, s, files, temp) ==
  CASE id = Id.EmptyStream -> FileBits(s, files, "emptyStreams", files.n)
    [] id = Id.EmptyFile -> FileBits(s, files, "emptyFiles", NumEmpty(files))
    [] id = Id.Name -> Once(files, "names", ReadNames(s, files.n, temp))
    [] id = Id.WinAttrib -> Once(files, "attribs", ReadAttribs(s, files.n, temp))
    [] id = Id.MTime -> Once(files, "mtime", ReadTime(s, files.n, temp))
    [] id = Id.CTime -> Once(files, "ctime", ReadTime(s, files.n, temp))
    [] OTHER -> With(s, files)

PropertyKept(rest, p) == IF rest.ok THEN With(Check(rest, p.ok), p.v) ELSE Err
PropertyOf(id, files, size, rest, temp) == PropertyKept(rest, FileProperty(id, Cursor(Consumed(size, rest)), files, temp))
PropertySized(id, files, size, temp) == PropertyOf(id, files, size, Drop(size, size.v), temp)
FilesAfter(n, temp) ==
  Properties(With(n, NoFiles(n.v)), LAMBDA id, c : PropertySized(id, c.v, ReadNumber(c), temp))
ReadFilesInfo(r, temp) == FilesAfter(ReadNumber32(r), temp)

-----------------------------------------------------------------------------
(* The layout: files are laid into folders in order, by the counts, sizes    *)
(* and digests of the substreams, each read from its own bytes.              *)

NoLayout == [ok |-> TRUE, unpackPos |-> 0, fo |-> 1, rem |-> 0, num |-> 0, counts |-> Cursor(<<>>),
             sizes |-> Cursor(<<>>), digest |-> 0, value |-> 0, overrun |-> FALSE, emptyFile |-> 0,
             positions |-> <<>>, folderOf |-> <<>>, first |-> <<>>, dirs |-> <<>>, crcs |-> <<>>]
Refused(lay) == [lay EXCEPT !.ok = FALSE]

\* The next folder that has files; the size of a folder without files is passed over.
PassFolder(lay, size) == [lay EXCEPT !.fo = @ + 1, !.unpackPos = Plus(@, size), !.ok = Plus(lay.unpackPos, size) >= size]
EnterOne(lay, i, db, c) ==
  IF lay.fo > Len(db.folders) \/ ~c.ok THEN Refused(lay)
  ELSE IF c.v # 0 THEN [lay EXCEPT !.first = Append(@, i), !.num = c.v, !.rem = c.v, !.counts = c]
  ELSE PassFolder([lay EXCEPT !.first = Append(@, i), !.num = 0, !.rem = 0, !.counts = c], FolderUnpackSize(db, lay.fo))
EnterFolder(lay, i, db, ssi) ==
  Loop(Len(db.folders) + 1, lay, LAMBDA p : ~p.ok \/ p.rem # 0,
       LAMBDA p : EnterOne(p, i, db, IF ssi.counts = None THEN With(p.counts, 1) ELSE ReadNumber32(p.counts)))

\* A mutant: the bits of k7zIdEmptyFile are taken by the entry's number.
EmptyEntryByIndex(lay, i, files) ==
  [lay EXCEPT !.positions = Append(@, lay.unpackPos), !.crcs = Append(@, None),
              !.folderOf = Append(@, IF lay.rem = 0 THEN 0 ELSE lay.fo),
              !.dirs = Append(@, files.emptyFiles = <<>> \/ i \notin DOMAIN files.emptyFiles[1]
                                 \/ ~files.emptyFiles[1][i])]

\* An entry without a stream: a directory unless k7zIdEmptyFile says otherwise.
EmptyEntry(lay, i, files) ==
  [lay EXCEPT !.positions = Append(@, lay.unpackPos), !.crcs = Append(@, None),
              !.folderOf = Append(@, IF lay.rem = 0 THEN 0 ELSE lay.fo),
              !.dirs = Append(@, files.emptyFiles = <<>> \/ ~files.emptyFiles[1][lay.emptyFile + 1]),
              !.emptyFile = @ + 1]

\* A mutant: what is left for the last entry of a folder is not checked.
LastEntryUnchecked(lay, size, start) == [lay EXCEPT !.rem = 0, !.fo = @ + 1, !.unpackPos = Plus(start, size)]

\* Where an entry with a stream ends: at its folder's end if it is the last one, else after its size.
LastEntry(lay, size, start) ==
  [lay EXCEPT !.rem = 0, !.fo = @ + 1, !.unpackPos = Plus(start, size),
              !.ok = size >= (lay.unpackPos - start) % Word /\ Plus(start, size) >= size]
InnerEntry(lay, v) == [lay EXCEPT !.rem = @ - 1, !.sizes = v, !.unpackPos = Plus(@, v.v),
                                  !.ok = v.ok /\ Plus(lay.unpackPos, v.v) >= v.v]
EntryEnd(lay, db) ==
  IF lay.rem = 1 THEN LastEntry(lay, FolderUnpackSize(db, lay.fo), lay.positions[lay.first[lay.fo]])
  ELSE InnerEntry(lay, ReadNumber(lay.sizes))

\* An entry's checksum: its folder's if it is alone there, else the next digest that is defined.
NoDigest(lay) == [lay EXCEPT !.crcs = Append(@, None), !.digest = @ + 1]
NextDigest(lay, all, bits, vals) ==
  IF ~all /\ lay.digest < 8 * Len(bits) /\ ~BitsOf(bits, lay.digest + 1)[lay.digest + 1] THEN NoDigest(lay)
  ELSE IF (~all /\ lay.digest >= 8 * Len(bits)) \/ 4 * lay.value + 4 > Len(vals) THEN [NoDigest(lay) EXCEPT !.overrun = TRUE]
  ELSE [lay EXCEPT !.crcs = Append(@, SubSeq(vals, 4 * lay.value + 1, 4 * lay.value + 4)),
                   !.digest = @ + 1, !.value = @ + 1]
DigestIn(lay, crcs, size) ==
  IF crcs[1] # 0 THEN NextDigest(lay, TRUE, <<>>, Tail(crcs))
  ELSE NextDigest(lay, FALSE, SubSeq(crcs, 2, 1 + size), SubSeq(crcs, 2 + size, Len(crcs)))
Digest(lay, fo, db, ssi) ==
  IF lay.num = 1 /\ FolderCrc(db, fo) # None THEN [lay EXCEPT !.crcs = Append(@, FolderCrc(db, fo))]
  ELSE IF ssi.crcs = None THEN [lay EXCEPT !.crcs = Append(@, None)]
  ELSE DigestIn(lay, ssi.crcs, (ssi.digests + 7) \div 8)

InFolder(lay, db, ssi) ==
  IF lay.ok THEN Digest(EntryEnd([lay EXCEPT !.folderOf = Append(@, lay.fo)], db), lay.fo, db, ssi) ELSE lay
Placed(lay, i, db, ssi) == InFolder(IF lay.rem = 0 THEN EnterFolder(lay, i, db, ssi) ELSE lay, db, ssi)
StreamEntry(lay, i, db, ssi) ==
  Placed([lay EXCEPT !.positions = Append(@, lay.unpackPos), !.dirs = Append(@, FALSE)], i, db, ssi)

\* The folders left over must be without files, and every count read.
LeftAll(lay, n, db, ssi, rest) ==
  [lay EXCEPT !.ok = /\ lay.ok /\ lay.rem = 0
                     /\ lay.fo > Len(db.folders) \/ ssi.counts # None
                     /\ ssi.counts # None => rest.ok /\ rest.sd = <<>> /\ \A k \in DOMAIN rest.v : rest.v[k] = 0,
              !.positions = Append(@, lay.unpackPos),
              !.first = [fo \in 1..Len(db.folders) + 1 |-> IF fo < lay.fo THEN @[fo] ELSE n + 1]]
LeftOver(lay, n, db, ssi) == LeftAll(lay, n, db, ssi, Repeat(Len(db.folders) + 1 - lay.fo, lay.counts, ReadNumber32))

EntryAt(lay, i, files, db, ssi) ==
  IF files.emptyStreams # <<>> /\ files.emptyStreams[1][i] THEN EmptyEntry(lay, i, files)
  ELSE StreamEntry(lay, i, db, ssi)
Layout(files, db, ssi) ==
  LeftOver(Fold(files.n, [NoLayout EXCEPT !.counts = Cursor(ssi.counts), !.sizes = Cursor(ssi.sizes)],
                LAMBDA lay, i : IF lay.ok THEN EntryAt(lay, i, files, db, ssi) ELSE lay),
           files.n, db, ssi)

-----------------------------------------------------------------------------
(* Opening.                                                                  *)

\* SzArEx_Init: nothing is known; SzArEx_Free puts it back.
NoArchive == [opened |-> FALSE, db |-> NoStreams, dataPos |-> 0, n |-> 0, names |-> <<>>,
              lay |-> NoLayout, attribs |-> <<>>, mtime |-> <<>>, ctime |-> <<>>, headerEncrypted |-> FALSE]

HasAes(item) == item.ok /\ \E c \in DOMAIN item.v.coders : item.v.coders[c].id = Method.AES
IsAes(folder) == HasAes(SzGetNextFolderItem(Cursor(folder.data)))
AesFolders(db) == {fo \in DOMAIN db.folders : IsAes(db.folders[fo])}

\* SzReadAndDecodePackedStreams: every folder decodes to its declared size, or none does.
Decodes(db, fo, f) == fo <= Len(f.unpacked) /\ Len(f.unpacked[fo]) = FolderUnpackSize(db, fo)
PackedBufs(info, db, aes, f) ==
  With(Check(info, db.folders # <<>> /\ (aes => f.password) /\ \A fo \in DOMAIN db.folders : Decodes(db, fo, f)),
       [bufs |-> [fo \in DOMAIN db.folders |-> f.unpacked[fo]], aes |-> aes])
PackedOf(info, f) == IF info.ok THEN PackedBufs(info, info.v.db, AesFolders(info.v.db) # {}, f) ELSE Err
ReadPacked(r, foldersMax, f) == PackedOf(SzReadStreamsInfo(r, f.offset, foldersMax, <<>>), f)

SkipAll(r) == Properties(r, LAMBDA id, c : SkipData(c))

\* SzReadHeader2; up to 8 additional streams hold what an `external` byte refers to.
Opened(streams) == [NoArchive EXCEPT !.opened = TRUE, !.db = streams.db, !.dataPos = streams.dataPos]
WithFiles(end, streams, lay) ==
  With(Check(end, lay.ok), [Opened(streams) EXCEPT !.n = end.v.n, !.lay = lay, !.names = end.v.names,
                              !.attribs = end.v.attribs, !.mtime = end.v.mtime, !.ctime = end.v.ctime])
FilesEnd(end, streams) ==
  IF end.ok /\ end.v.n - NumEmpty(end.v) = streams.ssi.total
  THEN WithFiles(end, streams, Layout(end.v, streams.db, streams.ssi)) ELSE Err
FilesOf(main, temp) ==
  IF ~main.ok \/ main.v.next \notin {Id.End, Id.FilesInfo} THEN Err
  ELSE IF main.v.next = Id.End THEN With(main, Opened(main.v.value))
  ELSE FilesEnd(SkipAll(ReadFilesInfo(main, temp)), main.v.value)
MainStreams(more, temp, f) ==
  FilesOf(Section(more, Id.MainStreamsInfo, SzReadStreamsInfo(more, f.offset, Limit32, temp),
                  [db |-> NoStreams, ssi |-> NoSubStreams(NoStreams), dataPos |-> 0]), temp)
AfterMore(more, f) == IF more.ok THEN MainStreams(more, more.v.value.bufs, f) ELSE Err
MoreStreams(t, f) == AfterMore(Section(t, Id.AdditionalStreamsInfo, ReadPacked(t, 8, f), [bufs |-> <<>>]), f)
ArchiveProperties(t, f) == MoreStreams(Section(t, Id.ArchiveProperties, SkipAll(t), 0), f)
SzReadHeader2(r, f) == ArchiveProperties(Announced(ReadNumber(r), 0), f)

SzReadHeader(r, f) == AllRead(SzReadHeader2(r, f))

\* The header, or what the encoded header decodes to; and whether that took a key.
Decoded(p) == [cursor |-> ReadNumber(IF p.ok THEN Cursor(p.v.bufs[1]) ELSE Err), encrypted |-> p.ok /\ p.v.aes]
HeaderFrom(t, f) == IF t.ok /\ t.v = Id.EncodedHeader THEN Decoded(ReadPacked(t, 1, f)) ELSE [cursor |-> t, encrypted |-> FALSE]
Header(f) == HeaderFrom(ReadNumber(Cursor(f.header)), f)

\* SzArEx_Open2 up to the header: the start header, its checksum and what it points at.
StartIsGood(f) == f.signature /\ f.major = 0 /\ f.startCrc /\ f.offset < Word \div 4
HeaderIsThere(f) == f.size # 0 /\ f.offset + f.size <= f.available /\ f.headerCrc

Tables(r, encrypted) == IF r.ok THEN [r.v EXCEPT !.headerEncrypted = encrypted] ELSE NoArchive
TablesOf(h, f) == Tables(SzReadHeader(Check(h.cursor, h.cursor.v = Id.Header), f), h.encrypted)
SzArEx_Open(f) ==
  IF ~StartIsGood(f) THEN NoArchive
  ELSE IF f.size = 0 THEN IF f.offset = 0 /\ f.headerCrc THEN [NoArchive EXCEPT !.opened = TRUE] ELSE NoArchive
  ELSE IF HeaderIsThere(f) THEN TablesOf(Header(f), f) ELSE NoArchive

-----------------------------------------------------------------------------
(* What the tables say of entry i: nativeGetEntries, nativeIsEncrypted, and  *)
(* the range SzArEx_ExtractIncremental takes from the folder's block.        *)

FileSize(a, i) == (a.lay.positions[i + 1] - a.lay.positions[i]) % Word
Entry(a, i) == [path |-> FileName(a, i), size |-> FileSize(a, i), isDir |-> a.lay.dirs[i], crc |-> a.lay.crcs[i]]
Offset(a, i) == (a.lay.positions[i] - a.lay.positions[a.lay.first[a.lay.folderOf[i]]]) % Word
ContentEncrypted(a) == a.headerEncrypted \/ \E fo \in DOMAIN a.db.folders : IsAes(a.db.folders[fo])

\* The packed streams of folder fo; the file says how each of them codes what it should.
PackedStreams(fo) ==
  LET first == Before(archive.db.folders, fo, "packs")
  IN [k \in 1..archive.db.folders[fo].packs |->
        [term |-> <<"pack", k>>, size |-> archive.db.packs[first + k + 1] - archive.db.packs[first + k],
         left |-> file.left, whole |-> file.whole]]

NoBlock == [fo |-> 0, ok |-> FALSE, term |-> <<"none">>]

Init == file \in Files7z /\ archive = NoArchive /\ stage = "closed" /\ block = NoBlock
Open == /\ stage = "closed" /\ stage' = "opened" /\ archive' = SzArEx_Open(file)
        /\ UNCHANGED <<file, block>>
\* SzArEx_Extract: a folder is decoded as a whole when a file of it is wanted.
Extract(fo) ==
  /\ stage = "opened"
  /\ LET r == SzAr_DecodeFolder(archive.db, fo, PackedStreams(fo), FolderUnpackSize(archive.db, fo), file.password)
     IN block' = [fo |-> fo, ok |-> r.ok, term |-> r.term]
  /\ UNCHANGED <<file, archive, stage>>
Close == stage = "opened" /\ stage' = "closed" /\ archive' = NoArchive /\ block' = NoBlock /\ file' = file
Next == Open \/ Close \/ \E fo \in DOMAIN archive.db.folders : Extract(fo)
Spec == Init /\ [][Next]_<<file, archive, stage, block>>

-----------------------------------------------------------------------------
(* Properties.                                                               *)

\* Whatever bytes a header holds: in an archive that opens, the files of a folder are
\* disjoint ranges of it in order, none beyond the folder's end (7zArcIn.c SzReadHeader2).
FilesTileFolders ==
  archive.opened => \A i \in 1..archive.n :
    LET fo == archive.lay.folderOf[i] IN
    IF fo = 0 THEN FileSize(archive, i) = 0
    ELSE /\ archive.lay.first[fo] <= i /\ i < archive.lay.first[fo + 1]
         /\ Offset(archive, i) + FileSize(archive, i) <= FolderUnpackSize(archive.db, fo)
         /\ i > archive.lay.first[fo] =>
              Offset(archive, i) = Offset(archive, i - 1) + FileSize(archive, i - 1)

\* What one pass over the header has counted is what the next one finds.  Checksums are counted,
\* then handed out: none is read that the count did not cover (SkipBitUi32s of numSubDigests, then
\* digestsVals).  A folder is scanned when the archive opens and read again to be decoded: a reading
\* that succeeds takes the same bytes, the same main stream and as many packed streams.
PassesAgree ==
  /\ ~archive.lay.overrun
  /\ \A fo \in DOMAIN archive.db.folders :
       LET f == archive.db.folders[fo]
           item == SzGetNextFolderItem(Cursor(f.data))
       IN item.ok => /\ item.sd = <<>> /\ item.v.unpackStream = f.main
                     /\ Len(item.v.coders) = f.coders /\ Len(item.v.packStreams) = f.packs

\* A file as a writer of the format meant it is read back entry for entry.
OpensAsWritten ==
  (stage = "opened" /\ file.plan # <<>>) =>
    /\ archive.opened /\ archive.n = Len(file.plan)
    /\ \A i \in 1..archive.n :
         /\ Entry(archive, i) = file.plan[i].entry
         /\ archive.lay.folderOf[i] # 0 => Offset(archive, i) = file.plan[i].offset
    /\ ContentEncrypted(archive) = file.encrypted

\* A folder that decodes holds what its bonds say - every coder applied to the streams bonded
\* to it - if there is a recipe for it or a checksum of it (7zDec.c SzFolder_Decode2).
DecodesAsBonded ==
  block.ok => LET f == SzGetNextFolderItem(Cursor(archive.db.folders[block.fo].data)).v
              IN HasRecipe(f) \/ FolderCrc(archive.db, block.fo) # None => block.term = Meaning(f)
=============================================================================
