----------------------------- MODULE MCNativeZip -----------------------------
(* The files: what a writer makes of a few entries, and each of its archives *)
(* with one number changed or the end cut off.                               *)
EXTENDS NativeZip, TLC

Utf8(c) == IF c < 128 THEN <<c>>
           ELSE IF c < 2048 THEN <<192 + (c \div 64), 128 + (c % 64)>>
           ELSE IF c < 65536 THEN <<224 + (c \div 4096), 128 + ((c \div 64) % 64), 128 + (c % 64)>>
           ELSE <<240 + (c \div 262144), 128 + ((c \div 4096) % 64), 128 + ((c \div 64) % 64), 128 + (c % 64)>>

Concat(seqs) == LET c[i \in 0..Len(seqs)] == IF i = 0 THEN <<>> ELSE c[i - 1] \o seqs[i] IN c[Len(seqs)]
Sum(f, n) == LET s[i \in 0..n] == IF i = 0 THEN 0 ELSE s[i - 1] + f[i] IN s[n]

\* An entry as its writer has it; chars are code points.
Item(chars, method, size, csize) ==
  [chars |-> chars, method |-> method, size |-> size, csize |-> csize, localExtra |-> 0, extra |-> <<>>,
   comment |-> 0, encrypted |-> FALSE, escaped |-> <<>>]
NameOf(it) == Concat([k \in DOMAIN it.chars |-> Utf8(it.chars[k])])

\* end: [prefix, zip64: "no", "record", "escaped" or "zero", comment, fake: -1 or a place in the comment,
\* tooLong: what the comment that the fake states is too long by].
Archive(items, end) ==
  LET n == Len(items)
      nameLen(i) == Len(NameOf(items[i]))
      local(i) == end.prefix + Sum([k \in 1..n |-> LocalHeaderSize + nameLen(k) + items[k].localExtra + items[k].csize], i - 1)
      number == [i \in 1..n |-> [uncompressedSize |-> items[i].size, compressedSize |-> items[i].csize, localHeaderOffset |-> local(i)]]
      Field(i, x) == IF x \in {items[i].escaped[k] : k \in DOMAIN items[i].escaped} THEN Escape32 ELSE number[i][x]
      extra(i) == items[i].extra \o
        (IF items[i].escaped = <<>> THEN <<>>
         ELSE <<[zip64 |-> TRUE, size |-> 8 * Len(items[i].escaped), values |-> [k \in DOMAIN items[i].escaped |-> number[i][items[i].escaped[k]]]]>>)
      extraLen(i) == Sum([k \in DOMAIN extra(i) |-> 4 + extra(i)[k].size], Len(extra(i)))
      cdOffset == local(n + 1)
      central(i) == cdOffset + Sum([k \in 1..n |-> CentralHeaderSize + nameLen(k) + extraLen(k) + items[k].comment], i - 1)
      cdSize == central(n + 1) - cdOffset
      z == end.zip64
      eocd == cdOffset + cdSize + (IF z = "no" THEN 0 ELSE Zip64EocdMinSize + Zip64LocatorSize)
      total == eocd + EocdMinSize + end.comment
      Numbers(zero) == [entries |-> IF zero THEN 0 ELSE n, cdSize |-> IF zero THEN 0 ELSE cdSize, cdOffset |-> IF zero THEN 0 ELSE cdOffset]
      End == [sig |-> "eocd", disk |-> 0, cdDisk |-> 0, commentLen |-> end.comment,
              entries |-> IF z = "escaped" THEN Escape16 ELSE n, cdSize |-> cdSize, cdOffset |-> IF z = "escaped" THEN Escape32 ELSE cdOffset]
      record(pos) ==
        IF \E i \in 1..n : pos = local(i)
        THEN LET i == CHOOSE k \in 1..n : pos = local(k)
             IN [sig |-> "local", nameLen |-> nameLen(i), extraLen |-> items[i].localExtra, inflated |-> items[i].size]
        ELSE IF \E i \in 1..n : pos = central(i)
        THEN LET i == CHOOSE k \in 1..n : pos = central(k)
             IN [sig |-> "central", name |-> NameOf(items[i]), nameLen |-> nameLen(i), extra |-> extra(i), extraLen |-> extraLen(i),
                 commentLen |-> items[i].comment, method |-> items[i].method, encrypted |-> items[i].encrypted,
                 uncompressedSize |-> Field(i, "uncompressedSize"), compressedSize |-> Field(i, "compressedSize"),
                 localHeaderOffset |-> Field(i, "localHeaderOffset")]
        ELSE IF pos = eocd THEN End
        ELSE IF z # "no" /\ pos = cdOffset + cdSize THEN [sig |-> "zip64Eocd"] @@ Numbers(z = "zero")
        ELSE IF z # "no" /\ pos = eocd - Zip64LocatorSize THEN [sig |-> "locator", zip64Eocd |-> cdOffset + cdSize]
        ELSE [End EXCEPT !.commentLen = total - pos - EocdMinSize + end.tooLong, !.cdOffset = 1]
      places == {local(i) : i \in 1..n} \cup {central(i) : i \in 1..n} \cup {eocd}
                \cup (IF z = "no" THEN {} ELSE {cdOffset + cdSize, eocd - Zip64LocatorSize})
                \cup (IF end.fake = -1 THEN {} ELSE {eocd + EocdMinSize + end.fake})
  IN [total |-> total, at |-> [pos \in places |-> record(pos)], eocd |-> eocd,
      written |-> [i \in 1..n |-> [name |-> Concat([k \in DOMAIN items[i].chars |-> Utf16(items[i].chars[k])]),
                                   isDirectory |-> items[i].chars[Len(items[i].chars)] = 47, size |-> items[i].size,
                                   data |-> local(i) + LocalHeaderSize + nameLen(i) + items[i].localExtra,
                                   extractable |-> ~items[i].encrypted /\ items[i].method \in {Stored, Deflate} /\ items[i].chars[Len(items[i].chars)] # 47]]]

Plain == [prefix |-> 0, zip64 |-> "no", comment |-> 0, fake |-> -1, tooLong |-> 1]
Pages == <<[Item(<<97, 233>>, Stored, 3, 3) EXCEPT !.comment = 2],
           [Item(<<26412, 128512>>, Deflate, 2, 5) EXCEPT !.extra = <<[zip64 |-> FALSE, size |-> 3, values |-> <<>>]>>, !.localExtra = 4]>>
Folder == <<Item(<<100, 47>>, Stored, 0, 0), [Item(<<98>>, Deflate, 2, 3) EXCEPT !.encrypted = TRUE], Item(<<99>>, 9, 1, 1), Item(<<101>>, Stored, 0, 0)>>
Large == <<[Item(<<97>>, Stored, 2, 2) EXCEPT !.escaped = <<"localHeaderOffset">>],
           [Item(<<98>>, Deflate, 2, 4) EXCEPT !.escaped = <<"uncompressedSize", "localHeaderOffset">>,
                                               !.extra = <<[zip64 |-> FALSE, size |-> 1, values |-> <<>>]>>]>>
Good == {Archive(Pages, Plain), Archive(Folder, [Plain EXCEPT !.prefix = 7, !.comment = 30]),
         Archive(Pages, [Plain EXCEPT !.comment = 30, !.fake = 2]), Archive(Pages, [Plain EXCEPT !.zip64 = "zero"]),
         Archive(Large, [Plain EXCEPT !.zip64 = "escaped", !.prefix = 3]), Archive(Large, [Plain EXCEPT !.zip64 = "record", !.comment = 24, !.fake = 0])}

\* One number of one record is another one; the end is cut off.
Numbers(r) == DOMAIN r \ {"sig", "name", "extra", "encrypted"}
Changed(f) == UNION {UNION {{[f EXCEPT !.at[pos][x] = v, !.written = <<>>] : v \in {0, f.at[pos][x] + 1, f.total - pos, f.total, Escape32} \ {f.at[pos][x]}}
                            : x \in Numbers(f.at[pos])} : pos \in DOMAIN f.at}
CutOff(f) == {[total |-> n, at |-> [pos \in {q \in DOMAIN f.at : q + 4 <= n} |-> f.at[pos]], written |-> <<>>, eocd |-> f.eocd] : n \in {0, 5, 30} \cup (f.total - 60)..(f.total - 1)}
Bad == UNION {Changed(f) \cup CutOff(f) : f \in {Archive(Pages, Plain), Archive(Large, [Plain EXCEPT !.zip64 = "escaped"])}}
MCFiles == Good \cup Bad
\* The comment of the fake ends with the file, or before it.
WithFakes == {Archive(Pages, [Plain EXCEPT !.comment = 30, !.fake = k, !.tooLong = n]) : k \in {0, 2}, n \in {0, -1, 1}}
Symmetry == Permutations(Threads)
=============================================================================
