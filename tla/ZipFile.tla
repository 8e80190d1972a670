------------------------------- MODULE ZipFile -------------------------------
(* The container parser of the ZIP engine (nativezip_jni.cpp).  A file is    *)
(* [total, at]: at[pos] is the record whose signature stands at byte pos,    *)
(* with its fields; numbers are those of the file, whatever they claim.      *)
(* Each operator also answers which bytes it read, as a set of <<pos, len>>. *)
EXTENDS Integers, Sequences, FiniteSets, SequencesExt

CONSTANTS
  CommentMax,   \* 65535
  Escape16,     \* 0xFFFF: the number stands in the ZIP64 record
  Escape32,     \* 0xFFFFFFFF: likewise
  CountMax      \* 0x7FFFFFFE

ASSUME LimitAssumption == CommentMax \in Nat

EocdMinSize == 22
Zip64LocatorSize == 20
Zip64EocdMinSize == 56
CentralHeaderSize == 46
LocalHeaderSize == 30
Stored == 0
Deflate == 8

HasSig(f, pos, sig) == pos \in DOMAIN f.at /\ f.at[pos].sig = sig
InBounds(f, pos, need) == need <= f.total /\ pos >= 0 /\ pos <= f.total - need
Low(S) == CHOOSE x \in S : \A y \in S : x <= y
Lesser(a, b) == IF a < b THEN a ELSE b

\* A mutant: a signature inside the comment will do.
FindEocdAnywhere(f) ==
  LET start == f.total - EocdMinSize
      backs == {b \in 0..Lesser(start, CommentMax) : HasSig(f, start - b, "eocd")}
  IN IF start < 0 \/ backs = {} THEN -1 ELSE start - Low(backs)

\* The last end record whose comment fits into what is behind it; -1: there is none.
FindEocd(f) ==
  LET start == f.total - EocdMinSize
      backs == {b \in 0..Lesser(start, CommentMax) : HasSig(f, start - b, "eocd") /\ f.at[start - b].commentLen <= b}
  IN IF start < 0 \/ backs = {} THEN -1 ELSE start - Low(backs)

\* Where the directory is: by the ZIP64 record if its locator is there and it says anything.
ResolveCentralDirectory(f, eocd) ==
  LET e == f.at[eocd]
      locator == eocd - Zip64LocatorSize
      found == locator >= 0 /\ HasSig(f, locator, "locator")
      z == f.at[locator].zip64Eocd
      fits == found /\ z < f.total /\ InBounds(f, z, Zip64EocdMinSize)
      zip64 == fits /\ HasSig(f, z, "zip64Eocd") /\ (f.at[z].cdOffset # 0 \/ f.at[z].cdSize # 0)
      where == IF zip64 THEN f.at[z] ELSE e
      escaped == Escape16 \in {e.disk, e.cdDisk, e.entries} \/ Escape32 \in {e.cdSize, e.cdOffset}
  IN [ok |-> zip64 \/ ~escaped, cdOffset |-> where.cdOffset, cdSize |-> where.cdSize, entries |-> where.entries,
      reads |-> {<<eocd, EocdMinSize>>} \cup (IF locator >= 0 THEN {<<locator, 4>>} ELSE {})
                \cup (IF found THEN {<<locator, Zip64LocatorSize>>} ELSE {}) \cup (IF fits THEN {<<z, Zip64EocdMinSize>>} ELSE {})]

\* The 64-bit numbers of the extra field, each only for a number that was escaped, in this order.
ApplyZip64Extra(fields, len, n) ==
  LET \* where each field begins
      start[i \in 1..Len(fields) + 1] == IF i = 1 THEN 0 ELSE start[i - 1] + 4 + fields[i - 1].size
      whole == {i \in DOMAIN fields : start[i + 1] <= len}
      zip64 == {i \in whole : fields[i].zip64 /\ \A k \in 1..i : k \in whole}
      x == fields[Low(zip64)]
      Next(v, k) == IF v = Escape32 /\ 8 * (k + 1) <= x.size THEN [v |-> x.values[k + 1], k |-> k + 1] ELSE [v |-> v, k |-> k]
      uncompressed == Next(n.uncompressedSize, 0)
      compressed == Next(n.compressedSize, uncompressed.k)
      offset == Next(n.localHeaderOffset, compressed.k)
  IN IF zip64 = {} THEN n
     ELSE [n EXCEPT !.uncompressedSize = uncompressed.v, !.compressedSize = compressed.v, !.localHeaderOffset = offset.v]

\* A mutant: the comment of a record is taken to be empty.
RecordSizeNoComment(r) == CentralHeaderSize + r.nameLen + r.extraLen
RecordSize(r) == CentralHeaderSize + r.nameLen + r.extraLen + r.commentLen

\* The entry that a record of the directory tells of.
EntryOf(r) ==
  ApplyZip64Extra(r.extra, r.extraLen,
    [name |-> r.name, method |-> r.method, compressedSize |-> r.compressedSize, uncompressedSize |-> r.uncompressedSize,
     localHeaderOffset |-> r.localHeaderOffset, encrypted |-> r.encrypted,
     isDirectory |-> r.name # <<>> /\ r.name[Len(r.name)] \in {47, 92}])

\* A record more of a directory that ends at cdEnd; none is skipped, none may be cut.
NextRecord(f, cdEnd, s) ==
  LET header == s.pos + CentralHeaderSize <= cdEnd /\ InBounds(f, s.pos, CentralHeaderSize)
      r == f.at[s.pos]
      fits == header /\ HasSig(f, s.pos, "central") /\ RecordSize(r) <= cdEnd - s.pos
  IN IF ~s.ok THEN s
     ELSE [ok |-> fits, pos |-> IF fits THEN s.pos + RecordSize(r) ELSE s.pos,
           entries |-> IF fits THEN Append(s.entries, EntryOf(r)) ELSE s.entries,
           reads |-> s.reads \cup (IF fits THEN {<<s.pos, CentralHeaderSize + r.nameLen + r.extraLen>>}
                                   ELSE IF header THEN {<<s.pos, CentralHeaderSize>>} ELSE {})]

\* The entries of the directory, one record behind the other.
ParseCentralDirectory(f, cdOffset, cdSize, count) ==
  LET step[i \in 0..count] == IF i = 0 THEN [ok |-> TRUE, pos |-> cdOffset, entries |-> <<>>, reads |-> {}]
                              ELSE NextRecord(f, cdOffset + cdSize, step[i - 1])
  IN IF cdOffset > f.total \/ cdSize > f.total - cdOffset \/ count = 0 \/ count > CountMax
     THEN [ok |-> FALSE, entries |-> <<>>, reads |-> {}]
     ELSE LET last == step[Lesser(count, (cdSize \div CentralHeaderSize) + 1)] \* more do not fit
          IN [ok |-> last.ok, entries |-> last.entries, reads |-> last.reads]

\* All of an open: [ok, entries, reads].
Parse(f) ==
  LET eocd == FindEocd(f)
      cd == ResolveCentralDirectory(f, eocd)
      p == ParseCentralDirectory(f, cd.cdOffset, cd.cdSize, cd.entries)
  IN IF eocd = -1 THEN [ok |-> FALSE, entries |-> <<>>, reads |-> {}]
     ELSE IF ~cd.ok THEN [ok |-> FALSE, entries |-> <<>>, reads |-> cd.reads]
     ELSE [p EXCEPT !.reads = @ \cup cd.reads]

\* Where the bytes of an entry are, behind its local header; -1: not in the file.
ResolveDataOffset(f, e) ==
  LET pos == e.localHeaderOffset
      fits == pos < f.total /\ InBounds(f, pos, LocalHeaderSize)
      data == pos + LocalHeaderSize + f.at[pos].nameLen + f.at[pos].extraLen
  IN IF ~(fits /\ HasSig(f, pos, "local")) THEN -1
     ELSE IF data > f.total \/ e.compressedSize > f.total - data THEN -1 ELSE data

\* A mutant: a stored entry may be longer than its bytes.
IsExtractableStored(entries, i) ==
  /\ i \in DOMAIN entries
  /\ ~entries[i].isDirectory /\ ~entries[i].encrypted /\ entries[i].method \in {Stored, Deflate}

IsExtractable(entries, i) ==
  /\ i \in DOMAIN entries
  /\ ~entries[i].isDirectory /\ ~entries[i].encrypted /\ entries[i].method \in {Stored, Deflate}
  /\ entries[i].method = Stored => entries[i].uncompressedSize <= entries[i].compressedSize

-----------------------------------------------------------------------------
(* Names: UTF-8 to UTF-16, with 0xFFFD for what is not UTF-8.                *)

Utf16(c) == IF c < 65536 THEN <<c>>
            ELSE <<55296 + ((c - 65536) \div 1024), 56320 + ((c - 65536) % 1024)>>
\* How many bytes a character has by its first one; 0: none begins so.
SeqLength(b) == IF b < 128 THEN 1 ELSE IF b \div 32 = 6 THEN 2 ELSE IF b \div 16 = 14 THEN 3 ELSE IF b \div 8 = 30 THEN 4 ELSE 0
LeastOf(n) == <<0, 128, 2048, 65536>>[n]

EntryName(bytes) ==
  LET n(i) == SeqLength(bytes[i])
      whole(i) == n(i) > 0 /\ i + n(i) - 1 <= Len(bytes) /\ \A k \in 1..n(i) - 1 : bytes[i + k] \div 64 = 2
      first(i) == IF n(i) = 1 THEN bytes[i] ELSE bytes[i] % 2^(7 - n(i))
      code(i) == FoldLeft(LAMBDA c, b : (c * 64) + (b % 64), first(i), SubSeq(bytes, i + 1, i + n(i) - 1))
      valid(i) == whole(i) /\ code(i) >= LeastOf(n(i)) /\ code(i) <= 1114111 /\ ~(code(i) \in 55296..57343)
      from[i \in 1..Len(bytes) + 4] ==
        IF i > Len(bytes) THEN <<>>
        ELSE IF valid(i) THEN Utf16(code(i)) \o from[i + n(i)] ELSE <<65533>> \o from[i + 1]
  IN from[1]
=============================================================================
