------------------------------ MODULE Header7z ------------------------------
(* The reader of the 7z header (7zArcIn.c): bytes in, the tables every later *)
(* step trusts out - where the packed streams are, how each folder is coded, *)
(* which range of which folder each file is.  Every reader takes a cursor    *)
(* [ok, sd, v]: sd holds the bytes still to be read (CSzData), v the value   *)
(* read so far; a cursor that is not ok stays so (RINOK).  A failed          *)
(* allocation is not modelled.                                               *)
EXTENDS Integers, Sequences, FiniteSets

CONSTANTS
  Word,         \* arithmetic of UInt64 is modulo Word (2^64 in the code)
  Limit32       \* SzReadNumber32 refuses a number from Limit32 on (2^31 - 1)

ASSUME HeaderAssumption == {Word, Limit32} \subseteq Nat \ {0} /\ Limit32 <= Word

Id == [End |-> 0, Header |-> 1, ArchiveProperties |-> 2, AdditionalStreamsInfo |-> 3,
       MainStreamsInfo |-> 4, FilesInfo |-> 5, PackInfo |-> 6, UnpackInfo |-> 7,
       SubStreamsInfo |-> 8, Size |-> 9, CRC |-> 10, Folder |-> 11, CodersUnpackSize |-> 12,
       NumUnpackStream |-> 13, EmptyStream |-> 14, EmptyFile |-> 15, Name |-> 17,
       CTime |-> 18, MTime |-> 20, WinAttrib |-> 21, EncodedHeader |-> 23]

LesserOf(a, b) == IF a < b THEN a ELSE b
Cursor(sd) == [ok |-> TRUE, sd |-> sd, v |-> 0]
Err == [ok |-> FALSE, sd |-> <<>>, v |-> 0]
With(r, v) == IF r.ok THEN [r EXCEPT !.v = v] ELSE Err
Check(r, P) == IF r.ok /\ P THEN r ELSE Err
Drop(r, n) == IF r.ok /\ n <= Len(r.sd) THEN [r EXCEPT !.sd = SubSeq(@, n + 1, Len(@))] ELSE Err
Consumed(r, s) == SubSeq(r.sd, 1, Len(r.sd) - Len(s.sd))

\* Op for k = 1, .., n in turn, from begin on.
Fold(n, begin, Op(_, _)) == LET f[k \in 0..n] == IF k = 0 THEN begin ELSE Op(f[k - 1], k) IN f[n]
\* Op until Done, n times at most.
Loop(n, begin, Done(_), Op(_)) ==
  LET f[k \in 0..n] == IF k = 0 THEN begin ELSE LET c == f[k - 1] IN IF Done(c) THEN c ELSE Op(c) IN f[n]

\* The loops over a cursor read `least` bytes in every turn, or fail: so many turns are enough.
Turns(r, least) == Len(r.sd) \div least + 1

\* n readings by Op, their values in a sequence.
Item(c, x) == With(x, Append(c.v, x.v))
Repeat(n, r, Op(_)) ==
  IF r.ok THEN Loop(LesserOf(n, Turns(r, 1)), With(r, <<>>), LAMBDA c : ~c.ok, LAMBDA c : Item(c, Op(c))) ELSE Err

-----------------------------------------------------------------------------
(* Numbers and bit vectors.                                                  *)

ReadByte(r) == IF r.ok /\ r.sd # <<>> THEN With(Drop(r, 1), Head(r.sd)) ELSE Err

\* The number of leading 1 bits of a first byte: how many bytes follow it.
Following(b) == Cardinality({k \in 1..8 : b >= 256 - 2^(8 - k)})

\* The first byte's remaining bits are the highest; the n bytes that follow, lowest first.
Highest(first, n) == IF n >= 7 THEN 0 ELSE first % 2^(7 - n)
NumberOf(bytes, n) ==
  Fold(n, Highest(bytes[1], n) % Word, LAMBDA high, k : (high * 256 + bytes[n + 2 - k]) % Word)
NumberAfter(r, n) == IF n >= Len(r.sd) THEN Err ELSE With(Drop(r, n + 1), NumberOf(SubSeq(r.sd, 1, n + 1), n))
ReadNumber(r) == IF ~r.ok \/ r.sd = <<>> THEN Err ELSE NumberAfter(r, Following(Head(r.sd)))

Small(n) == Check(n, n.v < Limit32)
ReadNumber32(r) == Small(ReadNumber(r))

SkipSize(size, v) == With(Drop(size, size.v), v)
SkipData(r) == SkipSize(ReadNumber(r), r.v)

\* The loop over properties: until k7zIdEnd, Handle each id; v passes through it.
Property(t, v, handled) ==
  IF ~t.ok THEN [ended |-> FALSE, c |-> Err]
  ELSE IF t.v = Id.End THEN [ended |-> TRUE, c |-> With(t, v)] ELSE [ended |-> FALSE, c |-> handled]
HandleNext(t, v, Handle(_, _)) == Property(t, v, Handle(t.v, With(t, v)))
Properties(r, Handle(_, _)) ==
  Loop(Turns(r, 2), [ended |-> FALSE, c |-> r], LAMBDA s : s.ended \/ ~s.c.ok,
       LAMBDA s : HandleNext(ReadNumber(s.c), s.c.v, Handle)).c

\* Reads ids and skips what they announce until one of ids comes; v becomes that id.
Found(t, ids) ==
  IF t.ok /\ t.v \in ids THEN [found |-> TRUE, c |-> t]
  ELSE [found |-> FALSE, c |-> IF t.v = Id.End THEN Err ELSE SkipData(t)]
WaitFor(r, ids) ==
  Loop(Turns(r, 2), [found |-> FALSE, c |-> r], LAMBDA s : s.found \/ ~s.c.ok, LAMBDA s : Found(ReadNumber(s.c), ids)).c
WaitId(r, id) == WaitFor(r, {id})

BitsOf(bytes, n) == [i \in 1..n |-> (bytes[(i + 7) \div 8] \div 2^(7 - ((i - 1) % 8))) % 2 = 1]
CountDefinedBits(bits) == Cardinality({i \in DOMAIN bits : bits[i]})

\* v becomes the vector of n bits; one byte says that all of them are set.
BitVector(all, d, n) ==
  IF all.v # 0 \/ n = 0 THEN With(all, [i \in 1..n |-> TRUE])
  ELSE IF d.ok THEN With(d, BitsOf(all.sd, n)) ELSE Err
BitsAfter(all, n) == BitVector(all, Drop(all, (n + 7) \div 8), n)
ReadBitVector(r, n) == BitsAfter(ReadByte(r), n)

\* A value of `width` bytes for every set bit; None where the bit is clear.
None == <<>>
ValueAt(bytes, width, k) == SubSeq(bytes, width * (k - 1) + 1, width * k)
ReadValues(r, defs, width) ==
  With(Drop(r, width * CountDefinedBits(defs)),
       [i \in DOMAIN defs |-> IF defs[i] THEN ValueAt(r.sd, width, Cardinality({j \in 1..i : defs[j]})) ELSE None])

Ui32s(d) == IF d.ok THEN ReadValues(d, d.v, 4) ELSE Err
ReadBitUi32s(r, n) == Ui32s(ReadBitVector(r, n))

\* All n are there, or those whose bits are set.
SkipDefined(all, bits, n, v) ==
  IF all.v # 0 THEN With(Drop(all, 4 * n), v)
  ELSE IF bits.ok THEN With(Drop(bits, 4 * CountDefinedBits(BitsOf(all.sd, n))), v) ELSE Err
SkipBits(all, n, v) == SkipDefined(all, Drop(all, (n + 7) \div 8), n, v)
SkipBitUi32s(r, n) == SkipBits(ReadByte(r), n, r.v)

-----------------------------------------------------------------------------
(* Packed streams.  What is read one after the other is passed on from one   *)
(* operator to the next, the last of them first.                             *)

Plus(a, b) == (a + b) % Word
\* The partial sums of s, from 0 on.
Sums(s) == Fold(Len(s), <<0>>, LAMBDA f, k : Append(f, Plus(f[k], s[k])))

\* v becomes PackPositions: where each packed stream begins, and where the last one ends.
PackCrcs(r, n) == LET Handle(id, c) == IF id = Id.CRC THEN SkipBitUi32s(c, n) ELSE SkipData(c) IN Properties(r, Handle)
Positions(n, sizes, f) == PackCrcs(With(Check(sizes, \A i \in DOMAIN sizes.v : f[i + 1] >= sizes.v[i]), f), n)
PackSizes(n, sizes) == IF sizes.ok THEN Positions(n, sizes, Sums(sizes.v)) ELSE Err
PackInfo(n) == PackSizes(n.v, Repeat(n.v, WaitId(n, Id.Size), ReadNumber))
ReadPackInfo(r) == PackInfo(ReadNumber32(r))

-----------------------------------------------------------------------------
(* A folder's description, read twice: SzGetNextFolderItem is what decodes   *)
(* it later, ScanFolder only has to know where it ends.                      *)

Flag(b, bit) == (b \div bit) % 2 = 1

\* A method's id without leading zeros; it has four bytes at most.
MethodId(b) == LET z == Cardinality({i \in DOMAIN b : \A j \in 1..i : b[j] = 0}) IN SubSeq(b, z + 1, Len(b))

\* A number x read after c, kept in c's record.
Field(c, name, x) == With(x, [c.v EXCEPT ![name] = x.v])

\* One coder: v = [id, numStreams, props].
ItemMethod(main) == With(Drop(Check(main, main.v < 64 /\ main.v % 16 <= 8), main.v % 16),
                         [main |-> main.v, id |-> MethodId(SubSeq(main.sd, 1, main.v % 16)),
                          ins |-> 1, outs |-> 1, size |-> 0])
ItemIns(c) == IF c.ok /\ Flag(c.v.main, 16) THEN Field(c, "ins", ReadNumber32(c)) ELSE c
ItemOuts(c) == IF c.ok /\ Flag(c.v.main, 16) THEN Field(c, "outs", ReadNumber32(Check(c, c.v.ins <= 7))) ELSE c
ItemSize(c) == IF c.ok /\ Flag(c.v.main, 32) THEN Field(c, "size", ReadNumber32(Check(c, c.v.outs = 1))) ELSE c
ItemProps(c) == With(Drop(Check(c, c.v.outs = 1 /\ c.v.size < 128 /\ Len(c.v.id) <= 4), c.v.size),
                     [id |-> c.v.id, numStreams |-> c.v.ins, props |-> SubSeq(c.sd, 1, c.v.size)])
CoderItem(r) == ItemProps(ItemSize(ItemOuts(ItemIns(ItemMethod(ReadByte(r))))))

\* The same bytes passed over: v = the number of its streams.
ScanMethod(main) == With(Drop(Check(main, main.v < 64 /\ main.v % 16 <= 8), main.v % 16),
                         [main |-> main.v, ins |-> 1, outs |-> 1, size |-> 0])
ScanIns(c) == IF c.ok /\ Flag(c.v.main, 16) THEN Field(c, "ins", ReadNumber32(c)) ELSE c
ScanOuts(c) == IF c.ok /\ Flag(c.v.main, 16) THEN Field(c, "outs", ReadNumber32(c)) ELSE c
ScanSize(c) == IF c.ok /\ Flag(c.v.main, 32) THEN Field(c, "size", ReadNumber32(Check(c, c.v.outs = 1))) ELSE c
ScanProps(c) == With(Drop(Check(c, c.v.ins <= 64 /\ c.v.outs = 1), c.v.size), c.v.ins)
CoderScan(r) == ScanProps(ScanSize(ScanOuts(ScanIns(ScanMethod(ReadByte(r))))))

\* Both ends of a bond: [in, out].
BondTo(i, o) == With(o, [in |-> i.v, out |-> o.v])
BondFrom(i) == BondTo(i, ReadNumber32(i))
Bond(r) == BondFrom(ReadNumber32(r))
Distinct(s, n) == \A i \in DOMAIN s : s[i] < n /\ \A j \in DOMAIN s : s[i] = s[j] => i = j
Bonds(bonds, side) == [i \in DOMAIN bonds |-> bonds[i][side]]
GoodBonds(bonds, ins, coders) ==
  Distinct(Bonds(bonds, "in"), ins) /\ Distinct(Bonds(bonds, "out"), coders)
\* The first of 0..n-1 that is not in s.
FirstFree(s, n) == CHOOSE i \in 0..n - 1 :
                     i \notin {s[j] : j \in DOMAIN s} /\ 0..i - 1 \subseteq {s[j] : j \in DOMAIN s}
\* How many inputs the first n coders of a folder have.
SumTo(s, n) == Fold(n, 0, LAMBDA sum, k : sum + s[k])
InputsOf(coders, n) == SumTo(coders, n)

\* The packed streams after the bonds: which inputs they feed.
Unbonded(p, bonds, ins) == IF p.ok THEN Check(p, Distinct(Bonds(bonds, "in") \o p.v, ins)) ELSE Err
PackStreams(r, n, ins, bonds) ==
  IF n = 1 THEN With(r, <<FirstFree(Bonds(bonds, "in"), ins)>>) ELSE Unbonded(Repeat(n, r, ReadNumber32), bonds, ins)
\* The same, after the bonds of n coders with ins inputs, if those are good.
PacksAfter(bonds, n, ins) == PackStreams(Check(bonds, GoodBonds(bonds.v, ins, n)), ins - (n - 1), ins, bonds.v)

FolderItem(coders, bonds, packs) ==
  With(packs, [coders |-> coders, bonds |-> bonds.v, packStreams |-> packs.v,
               unpackStream |-> FirstFree(Bonds(bonds.v, "out"), Len(coders))])
ItemBonds(coders, ins, bonds) == FolderItem(coders, bonds, PacksAfter(bonds, Len(coders), ins))
ItemInputs(coders, n, ins) ==
  ItemBonds(coders.v, ins, Repeat(n - 1, Check(coders, ins <= 7 /\ ins - (n - 1) \in 0..4), Bond))
ItemCoders(coders, n) ==
  IF coders.ok THEN ItemInputs(coders, n, InputsOf([i \in 1..n |-> coders.v[i].numStreams], n)) ELSE Err
ItemCount(n) == ItemCoders(Repeat(n.v, Check(n, n.v \in 1..4), CoderItem), n.v)
SzGetNextFolderItem(r) == ItemCount(ReadNumber32(r))

\* A mutant: the main stream is taken to be that of the first coder.
ScannedFirst(r, f) == With(f, [coders |-> Len(f.v.coders), packs |-> Len(f.v.packStreams), main |-> 0, data |-> Consumed(r, f)])
ScanFolderFirst(r) == ScannedFirst(r, SzGetNextFolderItem(r))

Scanned(r, n, ins, bonds, packs) ==
  With(packs, [coders |-> n, packs |-> ins - (n - 1), main |-> FirstFree(Bonds(bonds.v, "out"), n),
               data |-> Consumed(r, packs)])
ScanBonds(r, n, ins, bonds) == Scanned(r, n, ins, bonds, PacksAfter(bonds, n, ins))
ScanInputs(r, n, coders, ins) == ScanBonds(r, n, ins, Repeat(n - 1, Check(coders, ins >= n - 1 /\ ins <= 64), Bond))
ScanCoders(r, n, coders) == IF coders.ok THEN ScanInputs(r, n, coders, InputsOf(coders.v, n)) ELSE Err
ScanCount(r, n) == ScanCoders(r, n.v, Repeat(n.v, Check(n, n.v \in 1..64), CoderScan))
ScanFolder(r) == ScanCount(r, ReadNumber32(r))

-----------------------------------------------------------------------------
(* Folders and their substreams.  The tables count from 0 where the code's   *)
(* do; folders, files and packed streams are numbered from 1 here.           *)

\* k7zIdFolder: the descriptions, here or in the external buffer temp[index + 1].
AllFolders(index, scan) == With(Check(index, scan.ok /\ scan.sd = <<>>), scan.v)
FoldersElsewhere(n, index, temp) ==
  IF index.ok /\ index.v < Len(temp) THEN AllFolders(index, Repeat(n, Cursor(temp[index.v + 1]), ScanFolder)) ELSE Err
FoldersAt(n, external, temp) ==
  IF external.v = 0 THEN Repeat(n, external, ScanFolder) ELSE FoldersElsewhere(n, ReadNumber32(external), temp)
CountedFolders(n, foldersMax, temp) == FoldersAt(n.v, ReadByte(Check(n, n.v <= foldersMax)), temp)
ReadFolders(r, foldersMax, temp) == CountedFolders(ReadNumber32(WaitId(r, Id.Folder)), foldersMax, temp)

\* FoStartPackStreamIndex and FoToCoderUnpackSizes: what the folders before fo have used.
Before(folders, fo, what) == SumTo([k \in DOMAIN folders |-> folders[k][what]], fo - 1)
Used(folders, what) == Before(folders, Len(folders) + 1, what)

\* v = [folders, sizes, crcs]; folders must find their packed streams among numPacks.
FolderCrcs(v, crcs) == IF v.crcs = None THEN With(crcs, [v EXCEPT !.crcs = crcs.v]) ELSE Err
UnpackProperty(id, c) == IF id = Id.CRC THEN FolderCrcs(c.v, ReadBitUi32s(c, Len(c.v.folders))) ELSE SkipData(c)
UnpackSizes(folders, sizes) ==
  Properties(With(sizes, [folders |-> folders, sizes |-> sizes.v, crcs |-> None]), UnpackProperty)
UnpackFolders(scan, numPacks) ==
  IF scan.ok /\ Used(scan.v, "packs") <= numPacks
  THEN UnpackSizes(scan.v, Repeat(Used(scan.v, "coders"), WaitId(scan, Id.CodersUnpackSize), ReadNumber)) ELSE Err
ReadUnpackInfo(r, numPacks, foldersMax, temp) == UnpackFolders(ReadFolders(r, foldersMax, temp), numPacks)

\* The db of an archive without streams, and one with them: SzAr_GetFolderUnpackSize.
NoStreams == [packs |-> <<0>>, folders |-> <<>>, sizes |-> <<>>, crcs |-> None]
FolderUnpackSize(db, fo) == db.sizes[Before(db.folders, fo, "coders") + db.folders[fo].main + 1]
FolderCrc(db, fo) == IF db.crcs = None THEN None ELSE db.crcs[fo]

\* CSubStreamInfo: the bytes of the counts, of the sizes and of the digests; each is read again.
NoSubStreams(db) == [total |-> Len(db.folders), digests |-> 0, counts |-> None, sizes |-> None, crcs |-> None]

\* After k7zIdNumUnpackStream, or without it: how many streams, sizes and digests there are.
Total(counts) == SumTo(counts, Len(counts))
OwnDigests(counts, db) == [fo \in DOMAIN counts |-> IF counts[fo] = 1 /\ FolderCrc(db, fo) # None THEN 0 ELSE counts[fo]]
Counts(r, db, c, bytes) ==
  With(Check(c, Total(c.v) < 2 * (Limit32 + 1)),
       [total |-> Total(c.v), inData |-> Total(c.v) - Cardinality({fo \in DOMAIN c.v : c.v[fo] > 0}),
        digests |-> Total(OwnDigests(c.v, db)), counts |-> bytes])
CountsGiven(r, db, c) == Counts(r, db, c, Consumed(r, c))
SubStreamCounts(r, db, given) ==
  IF given THEN CountsGiven(r, db, Repeat(Len(db.folders), r, ReadNumber32))
  ELSE Counts(r, db, With(r, [fo \in DOMAIN db.folders |-> 1]), None)

\* SkipNumbers: n numbers, by their first bytes.
SkipNumber(c) == IF c.sd = <<>> THEN Err ELSE With(Drop(c, Following(Head(c.sd)) + 1), 0)
SkipNumbers(r, n) == Repeat(n, r, SkipNumber)

SubStreamCrcs(s, d) == IF s.v.crcs = None THEN With(d, [s.v EXCEPT !.crcs = Consumed(s, d)]) ELSE Err
SubStreamProperty(id, s) == IF id = Id.CRC THEN SubStreamCrcs(s, SkipBitUi32s(s, s.v.digests)) ELSE SkipData(s)
SubStreamInfo(r, c, sizes) == With(r, [total |-> c.v.total, digests |-> c.v.digests, counts |-> c.v.counts,
                                       sizes |-> sizes, crcs |-> None])
SubStreamSizes(c, next, sizes) == Properties(SubStreamInfo(sizes, c, Consumed(next, sizes)), SubStreamProperty)
SubStreamsAfter(c, next) ==
  CASE next.v = Id.End -> SubStreamInfo(next, c, None)
    [] next.v = Id.CRC -> Properties(SubStreamProperty(Id.CRC, SubStreamInfo(next, c, None)), SubStreamProperty)
    [] next.v = Id.Size -> SubStreamSizes(c, next, SkipNumbers(next, c.v.inData))
    [] OTHER -> Err
SubStreamsCounted(c) == SubStreamsAfter(c, WaitFor(c, {Id.NumUnpackStream, Id.CRC, Id.Size, Id.End}))
SubStreams(r, db, t) ==
  SubStreamsCounted(IF t.ok /\ t.v = Id.NumUnpackStream THEN SubStreamCounts(t, db, TRUE) ELSE SubStreamCounts(r, db, FALSE))
ReadSubStreamsInfo(r, db) == SubStreams(r, db, WaitFor(r, {Id.NumUnpackStream, Id.CRC, Id.Size}))

\* A section's value, and the id read after it, which announces the next section.
Announced(t, value) == With(t, [value |-> value, next |-> t.v])
Followed(s) == Announced(ReadNumber(s), s.v)
\* The section `id` if r announces it, as `read` reads it; otherwise its absence.
Section(r, id, read, absent) ==
  IF ~r.ok THEN Err ELSE IF r.v.next = id THEN Followed(read) ELSE With(r, [r.v EXCEPT !.value = absent])

\* SzReadStreamsInfo: v = [db, ssi, dataPos]; what is packed must lie before the header.
PacksWithin(pos, p, limit) == With(Check(p, p.v[Len(p.v)] <= limit - pos), [pos |-> pos, packs |-> p.v])
PackSection(pos, limit) == PacksWithin(pos.v, ReadPackInfo(Check(pos, pos.v <= limit)), limit)
StreamsInfo(db, pos, ssi) == With(Check(ssi, ssi.v.next = Id.End), [db |-> db, ssi |-> ssi.v.value, dataPos |-> pos])
SubStreamSection(db, pos, u) ==
  StreamsInfo(db, pos, Section(u, Id.SubStreamsInfo, ReadSubStreamsInfo(u, db), NoSubStreams(db)))
Unpacked(p, u) == SubStreamSection([packs |-> p.v.value.packs, folders |-> u.v.value.folders,
                                    sizes |-> u.v.value.sizes, crcs |-> u.v.value.crcs], p.v.value.pos, u)
UnpackSection(p, foldersMax, temp) ==
  Unpacked(p, Section(p, Id.UnpackInfo, ReadUnpackInfo(p, Len(p.v.value.packs) - 1, foldersMax, temp), NoStreams))
StreamSections(t, limit, foldersMax, temp) ==
  UnpackSection(Section(t, Id.PackInfo, PackSection(ReadNumber(t), limit), [pos |-> 0, packs |-> <<0>>]), foldersMax, temp)
SzReadStreamsInfo(r, rangeLimit, foldersMax, temp) ==
  StreamSections(Announced(ReadNumber(r), 0), rangeLimit, foldersMax, temp)

=============================================================================
