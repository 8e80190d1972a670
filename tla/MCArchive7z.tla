----------------------------- MODULE MCArchive7z -----------------------------
(* A small writer of 7z headers: archives as a writer of the format means    *)
(* them, and the same headers with one byte changed or the end cut off.      *)
EXTENDS Archive7z

Num(x) == IF x < 128 THEN <<x>> ELSE <<128 + x \div 256, x % 256>>
Cat(s) == LET f[i \in 0..Len(s)] == IF i = 0 THEN <<>> ELSE f[i - 1] \o s[i] IN f[Len(s)]
Each(s, Op(_)) == Cat([i \in DOMAIN s |-> Op(s[i])])
Bits(b) == [k \in 1..(Len(b) + 7) \div 8 |->
  LET f[j \in 0..8] == IF j = 0 THEN 0
        ELSE 2 * f[j - 1] + IF 8 * k - 8 + j <= Len(b) /\ b[8 * k - 8 + j] THEN 1 ELSE 0 IN f[8]]
Defined(vals) == LET b == [i \in DOMAIN vals |-> vals[i] # None] IN
                 (IF \A i \in DOMAIN b : b[i] THEN <<1>> ELSE <<0>> \o Bits(b)) \o Cat(vals)
Sized(id, data) == <<id>> \o Num(Len(data)) \o data
Crc(x) == <<x, x, 1, 2>>

\* Folders: the description, how many packed streams, the sizes its coders give, the main one.
CopyFolder(size, crc, subs) ==
  [desc |-> <<1, 1, 0>>, packs |-> 1, sizes |-> <<size>>, main |-> 1, crc |-> crc, subs |-> subs]
AesFolder(size, crc, subs) ==
  [desc |-> <<2, 35, 3, 1, 1, 2, 9, 9, 36>> \o Method.AES \o <<1, 19, 0, 1>>, packs |-> 1,
   sizes |-> <<size, 16>>, main |-> 1, crc |-> crc, subs |-> subs]
Bcj2First(size, crc, subs) ==
  [desc |-> <<4, 20, 3, 3, 1, 27, 4, 1, 1, 0, 1, 0, 1, 0, 0, 1, 1, 2, 2, 3, 4, 5, 6, 3>>, packs |-> 4,
   sizes |-> <<size, 4, 4, 4>>, main |-> 1, crc |-> crc, subs |-> subs]
LastMain(size, crc, subs) ==
  [desc |-> <<2, 1, 0, 1, 0, 1, 0>>, packs |-> 1, sizes |-> <<5, size>>, main |-> 2, crc |-> crc, subs |-> subs]

Pack(fs, pos) ==
  LET n == [i \in DOMAIN fs |-> [k \in 1..fs[i].packs |-> 4]] IN
  <<Id.PackInfo>> \o Num(pos) \o Num(Len(Cat(n))) \o <<Id.Size>> \o Cat(n) \o <<Id.CRC>>
  \o Defined([i \in 1..Len(Cat(n)) |-> IF i = 1 THEN None ELSE Crc(9)]) \o <<Id.End>>
Unpack(fs, external) ==
  <<Id.UnpackInfo, Id.Folder>> \o Num(Len(fs))
  \o (IF external THEN <<1, 0>> ELSE <<0>> \o Each(fs, LAMBDA f : f.desc))
  \o <<Id.CodersUnpackSize>> \o Each(fs, LAMBDA f : Each(f.sizes, Num))
  \o (IF \E i \in DOMAIN fs : fs[i].crc # None THEN <<Id.CRC>> \o Defined([i \in DOMAIN fs |-> fs[i].crc]) ELSE <<>>)
  \o <<Id.End>>
OwnCrc(f) == Len(f.subs) = 1 /\ f.crc # None
Subs(fs) ==
  LET digests == Each(fs, LAMBDA f : IF OwnCrc(f) THEN <<>> ELSE [i \in DOMAIN f.subs |-> f.subs[i].crc]) IN
  <<Id.SubStreamsInfo, Id.NumUnpackStream>> \o Each(fs, LAMBDA f : Num(Len(f.subs))) \o <<Id.Size>>
  \o Each(fs, LAMBDA f : Cat([i \in DOMAIN Tail(<<0>> \o SubSeq(f.subs, 1, Len(f.subs) - 1)) |-> Num(f.subs[i].size)]))
  \o (IF \E i \in DOMAIN digests : digests[i] # None THEN <<Id.CRC>> \o Defined(digests) ELSE <<>>) \o <<Id.End>>
Main(p) == IF p.folders = <<>> THEN <<>>
           ELSE <<Id.MainStreamsInfo>> \o Pack(p.folders, 1) \o Unpack(p.folders, p.external)
                \o (IF p.subs THEN Subs(p.folders) ELSE <<>>) \o <<Id.End>>

\* Entries are files (taken in turn from the folders), "dir"s and "empty" ones.
Names(p) == Cat([i \in DOMAIN p.entries |-> <<64 + i, 0, 0, 0>>])
Vector(p, kinds) == [i \in DOMAIN p.entries |-> p.entries[i] \in kinds]
EmptyOnes(p) == SelectSeq(p.entries, LAMBDA e : e # "file")
FilesSection(p) ==
  LET e == [i \in DOMAIN EmptyOnes(p) |-> EmptyOnes(p)[i] = "empty"] IN
  <<Id.FilesInfo>> \o Num(Len(p.entries))
  \o (IF e = <<>> THEN <<>> ELSE Sized(Id.EmptyStream, Bits(Vector(p, {"dir", "empty"}))))
  \o (IF \E i \in DOMAIN e : e[i] THEN Sized(Id.EmptyFile, Bits(e)) ELSE <<>>)
  \o Sized(Id.Name, IF p.external THEN <<1, 1>> ELSE <<0>> \o Names(p))
  \o Sized(Id.WinAttrib, LET d == Defined([i \in DOMAIN p.entries |-> IF i = 1 THEN None ELSE Crc(i)])
                             n == 1 + (Len(p.entries) + 7) \div 8 IN SubSeq(d, 1, n) \o <<0>> \o SubSeq(d, n + 1, Len(d)))
  \o Sized(Id.MTime, <<0>> \o Bits([i \in DOMAIN p.entries |-> i = 1]) \o <<0, 1, 2, 3, 4, 5, 6, 7, 8>>) \o Sized(25, <<0, 0>>) \o <<Id.End>>
Extra(p) == IF ~p.external THEN <<>>
            ELSE <<Each(p.folders, LAMBDA f : f.desc), Names(p)>>
HeaderOf(p) ==
  <<Id.Header>>
  \o (IF p.external
      THEN LET fs == [i \in 1..2 |-> CopyFolder(Len(Extra(p)[i]), None, <<>>)] IN
           <<Id.AdditionalStreamsInfo>> \o Pack(fs, 0) \o Unpack(fs, FALSE) \o <<Id.End>>
      ELSE <<>>) \o Main(p) \o FilesSection(p) \o <<Id.End>>

\* What the entries are meant to be.
Meant(p) ==
  LET subs == Cat([i \in DOMAIN p.folders |-> [k \in DOMAIN p.folders[i].subs |->
        [size |-> p.folders[i].subs[k].size, crc |-> p.folders[i].subs[k].crc,
         offset |-> LET f[j \in 0..k] == IF j = 0 THEN 0 ELSE f[j - 1] + p.folders[i].subs[j].size IN f[k - 1]]]])
      nth(i) == subs[Cardinality({j \in 1..i : p.entries[j] = "file"})]
  IN [i \in DOMAIN p.entries |->
        IF p.entries[i] = "file"
        THEN [entry |-> [path |-> <<<<64 + i, 0>>>>, size |-> nth(i).size, isDir |-> FALSE, crc |-> nth(i).crc], offset |-> nth(i).offset]
        ELSE [entry |-> [path |-> <<<<64 + i, 0>>>>, size |-> 0, isDir |-> p.entries[i] = "dir", crc |-> None],
              offset |-> IF i > 1 /\ p.entries[i - 1] = "file" THEN nth(i - 1).offset + nth(i - 1).size ELSE 0]]

Sub(size, crc) == [size |-> size, crc |-> crc]
Plans == <<
  [folders |-> <<CopyFolder(5, None, <<Sub(3, Crc(1)), Sub(2, None)>>), LastMain(130, Crc(3), <<Sub(130, Crc(3))>>)>>,
   entries |-> <<"dir", "file", "empty", "file", "file">>, subs |-> TRUE, external |-> FALSE],
  [folders |-> <<AesFolder(4, None, <<Sub(4, None)>>), CopyFolder(6, Crc(2), <<Sub(6, Crc(2))>>)>>,
   entries |-> <<"file", "dir", "file">>, subs |-> FALSE, external |-> FALSE],
  [folders |-> <<Bcj2First(7, Crc(7), <<Sub(1, Crc(1)), Sub(0, Crc(2)), Sub(6, Crc(3))>>), CopyFolder(0, None, <<>>),
                 CopyFolder(2, Crc(4), <<Sub(2, Crc(4))>>)>>,
   entries |-> <<"file", "file", "file", "file">>, subs |-> TRUE, external |-> TRUE],
  [folders |-> <<>>, entries |-> <<"empty", "dir">>, subs |-> FALSE, external |-> FALSE] >>

File(bytes, unpacked, plan, encrypted) ==
  [signature |-> TRUE, major |-> 0, startCrc |-> TRUE, headerCrc |-> TRUE, offset |-> 300, size |-> Len(bytes),
   available |-> 300 + Len(bytes), header |-> bytes, unpacked |-> unpacked, password |-> TRUE,
   plan |-> plan, encrypted |-> encrypted, left |-> 0, whole |-> TRUE]
Plain == {File(HeaderOf(Plans[i]), Extra(Plans[i]), Meant(Plans[i]), i = 2) : i \in 1..4}
\* The first plan behind an encoded header, with a key and without.
Encoded(folder) == <<Id.EncodedHeader>> \o Pack(<<folder>>, 0) \o Unpack(<<folder>>, FALSE) \o <<Id.End>>
Hidden == {File(Encoded(AesFolder(Len(HeaderOf(Plans[1])), None, <<>>)), <<HeaderOf(Plans[1])>>, Meant(Plans[1]), TRUE),
           File(Encoded(CopyFolder(Len(HeaderOf(Plans[1])), None, <<>>)), <<HeaderOf(Plans[1])>>, Meant(Plans[1]), FALSE)}
Changed == UNION {{[f EXCEPT !.header[i] = b, !.plan = <<>>] : i \in 1..f.size, b \in {0, 1, 2, 3, 8, 10, 13, 64, 127, 129, 255}}
                    : f \in Plain \cup Hidden}
Cut == UNION {{[f EXCEPT !.header = SubSeq(@, 1, n), !.size = n, !.plan = <<>>] : n \in 0..f.size - 1} : f \in Plain \cup Hidden}
BadStart == {[f EXCEPT ![x] = FALSE, !.plan = <<>>] : f \in Plain \cup Hidden, x \in {"signature", "startCrc", "headerCrc", "password"}}
            \cup {[f EXCEPT !.available = @ - 1, !.plan = <<>>] : f \in Plain}

\* Archives of one file in one folder, coded by a graph of coders.
Props(m) == CASE m = "LZMA" -> <<93, 0, 0, 1, 0>> [] m = "LZMA2" -> <<20>> [] m = "PPMD" -> <<6, 0, 0, 1, 0>>
              [] m = "Delta" -> <<0>> [] m = "AES" -> <<0, 0>> [] OTHER -> <<>>
CoderBytes(m) ==
  LET id == IF m = "Copy" THEN <<0>> ELSE Method[m] IN
  <<Len(id) + (IF m = "BCJ2" THEN 16 ELSE 0) + IF Props(m) = <<>> THEN 0 ELSE 32>> \o id
  \o (IF m = "BCJ2" THEN <<4, 1>> ELSE <<>>) \o (IF Props(m) = <<>> THEN <<>> ELSE Num(Len(Props(m))) \o Props(m))
Graph(methods, bonds, packs, sizes, crc) ==
  LET main == FirstFree([i \in DOMAIN bonds |-> bonds[i][2]], Len(methods))
      f == [desc |-> Num(Len(methods)) \o Each(methods, CoderBytes) \o Cat(bonds) \o IF Len(packs) = 1 THEN <<>> ELSE packs,
            packs |-> Len(packs), sizes |-> sizes, main |-> main, crc |-> crc, subs |-> <<Sub(sizes[main + 1], crc)>>]
  IN File(HeaderOf([folders |-> <<f>>, entries |-> <<"file">>, subs |-> FALSE, external |-> FALSE]), <<>>, <<>>, FALSE)
Pairs(n) == {b \in (0..n - 1) \X (0..n - 1) : TRUE}
TwoBonds == {b \in Pairs(3) \X Pairs(3) : b[1][1] # b[2][1] /\ b[1][2] # b[2][2]}
Graphs1 == {Graph(<<m>>, <<>>, <<0>>, <<4>>, c) : m \in DOMAIN Method, c \in {None, Crc(1)}}
Graphs2 == {Graph(<<m, n>>, <<b>>, <<0>>, <<4, 4>>, c) : m, n \in DOMAIN Method \ {"BCJ2"}, b \in Pairs(2), c \in {None, Crc(1)}}
Graphs3 == {Graph(<<m, n, o>>, b, <<0>>, <<4, 4, 4>>, c) :
              m, n, o \in {"AES", "LZMA", "BCJ", "PPC"}, b \in TwoBonds, c \in {None, Crc(1)}}
Graphs4 == {Graph(<<m, n, "LZMA", "BCJ2">>, <<<<5, 0>>, <<b, 1>>, <<7 - b, 2>>>>, p, <<4, 4, s, 12>>, None) :
              m, n \in {"LZMA", "LZMA2", "Copy"}, b \in 3..4, s \in {4, 5}, p \in {<<2, 6, 1, 0>>, <<2, 6, 0, 1>>, <<6, 2, 1, 0>>}}
Damaged == UNION {{[Graph(<<"AES", m>>, <<<<1, 0>>>>, <<0>>, <<4, 4>>, None) EXCEPT !.left = x, !.whole = w, !.password = k],
                   [Graph(<<m>>, <<>>, <<0>>, <<4>>, None) EXCEPT !.left = x, !.whole = w]} :
                     m \in {"LZMA", "LZMA2", "PPMD"}, x \in {0, 1, 16}, w \in BOOLEAN, k \in BOOLEAN}
MCFiles7z == Plain \cup Hidden \cup Changed \cup Cut \cup BadStart \cup Graphs1 \cup Graphs2 \cup Graphs3 \cup Graphs4 \cup Damaged
=============================================================================
