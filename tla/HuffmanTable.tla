----------------------------- MODULE HuffmanTable -----------------------------
(* The decode tables of the DEFLATE decompressor (deflate_decompress.c):     *)
(* a main table of 2^tableBits entries, indexed by the next bits of the      *)
(* stream, the first one lowest, and subtables behind it for the longer      *)
(* codewords.                                                                *)
EXTENDS Integers, Sequences, FiniteSets
LOCAL INSTANCE SequencesExt

\* make_decode_table_entry; a pointer entry: where the subtable begins and how many bits index it.
Entry(sym, len) == [sym |-> sym, len |-> len]
Pointer(start, bits, tableBits) == [start |-> start, bits |-> bits, len |-> tableBits]
Failed == <<>>

RECURSIVE Log2(_)
Log2(n) == IF n < 2 THEN 0 ELSE 1 + Log2(n \div 2)
\* The next codeword in the order of the code: the last 0 becomes 1, the 1s behind it become 0.
NextCodeword(codeword, len) ==
  LET bit == 2^Log2(2^len - 1 - codeword)    \* bsr32(codeword ^ mask), all within the mask
  IN (codeword % bit) + bit

CountOf(lens, n) == Cardinality({s \in DOMAIN lens : lens[s] = n})
Longest(lens, maxLen) == CHOOSE n \in 1..maxLen : (n = 1 \/ CountOf(lens, n) > 0) /\ \A m \in n + 1..maxLen : CountOf(lens, m) = 0
\* Symbols by length, then by number; those that are not used are left out.
SortedSyms(lens) == SortSeq(SetToSeq({s \in DOMAIN lens : lens[s] > 0}),
                            LAMBDA a, b : lens[a] < lens[b] \/ (lens[a] = lens[b] /\ a < b))
CodespaceUsed(lens, max) == FoldLeft(LAMBDA c, n : 2 * c + CountOf(lens, n), 0, [n \in 1..max |-> n])

\* How many bits the subtable needs that begins with a codeword of this length: until it is full.
SubtableBits(lens, len, count, tableBits) ==
  LET used[b \in len - tableBits..16] == IF b = len - tableBits THEN count ELSE 2 * used[b - 1] + CountOf(lens, tableBits + b)
  IN CHOOSE b \in len - tableBits..16 : used[b] >= 2^b /\ \A a \in len - tableBits..b - 1 : used[a] < 2^a
\* A mutant: as many bits as the first codeword has left.
SubtableBitsFirst(lens, len, count, tableBits) == len - tableBits

\* The codewords that fit into the main table: the table doubles with the length.
Doubled(t, n) == [i \in 0..2 * n - 1 |-> t[i % n]]
FillMain(lens, syms, max, tableBits) ==
  LET Grown(s, len) == IF s.len >= len THEN s
                       ELSE [s EXCEPT !.len = len, !.t = LET grow[n \in s.len..len] == IF n = s.len THEN s.t ELSE Doubled(grow[n - 1], 2^(n - 1)) IN grow[len]]
      Put(s, i) ==
        LET len == lens[syms[i]]
            g == Grown(s, IF len <= tableBits THEN len ELSE tableBits)
        IN IF len > tableBits THEN g
           ELSE [g EXCEPT !.t[g.codeword] = Entry(syms[i], len), !.done = i,
                          !.codeword = IF @ = 2^len - 1 THEN @ ELSE NextCodeword(@, len)]
      start == [t |-> [i \in 0..1 |-> Failed], len |-> 1, codeword |-> 0, done |-> 0]
      filled == FoldLeft(Put, start, [i \in DOMAIN syms |-> i])
  IN Grown(filled, tableBits)

\* The codewords that do not, subtable by subtable.
FillSubtables(lens, syms, tableBits, main) ==
  LET Put(s, i) ==
        LET len == lens[syms[i]]
            prefix == s.codeword % 2^tableBits
            left == Cardinality({k \in i..Len(syms) : lens[syms[k]] = len})
            bits == SubtableBits(lens, len, left, tableBits)
            opened == IF prefix = s.prefix THEN s
                      ELSE [s EXCEPT !.prefix = prefix, !.start = s.end, !.end = s.end + 2^bits,
                                     !.t = [k \in 0..s.end + 2^bits - 1 |-> IF k = prefix THEN Pointer(s.end, bits, tableBits)
                                                                            ELSE IF k < s.end THEN s.t[k] ELSE Failed]]
            at == opened.start + (s.codeword \div 2^tableBits)
            stride == 2^(len - tableBits)
        IN [opened EXCEPT !.t = [k \in DOMAIN @ |-> IF k >= at /\ (k - at) % stride = 0 THEN Entry(syms[i], len - tableBits) ELSE @[k]],
                          !.codeword = IF @ = 2^len - 1 THEN @ ELSE NextCodeword(@, len)]
      start == [t |-> main.t, codeword |-> main.codeword, prefix |-> -1, start |-> 0, end |-> 2^tableBits]
  IN FoldLeft(Put, start, [k \in 1..Len(syms) - main.done |-> main.done + k]).t

\* A code that leaves room is good only without symbols or with one of one bit, which gets all.
Incomplete(lens, used, max, tableBits) ==
  IF used # 0 /\ (used # 2^(max - 1) \/ CountOf(lens, 1) # 1) THEN Failed
  ELSE [i \in 0..2^tableBits - 1 |-> Entry(IF used = 0 THEN 0 ELSE SortedSyms(lens)[1], 1)]

\* build_decode_table: the table and its bits; Failed: the lengths are no code.
BuildDecodeTable(lens, maxBits, maxLen, dynamic) ==
  LET max == Longest(lens, maxLen)
      tableBits == IF dynamic /\ max < maxBits THEN max ELSE maxBits
      used == CodespaceUsed(lens, max)
      syms == SortedSyms(lens)
      main == FillMain(lens, syms, max, tableBits)
  IN [bits |-> tableBits,
      t |-> IF used > 2^max THEN Failed
            ELSE IF used < 2^max THEN Incomplete(lens, used, max, tableBits)
            ELSE IF main.done = Len(syms) THEN main.t
            ELSE FillSubtables(lens, syms, tableBits, main)]

\* What the decoder takes from the table: the symbol and how many bits its codeword has.
Lookup(table, stream) ==
  LET e == table.t[stream % 2^table.bits]
      sub == table.t[e.start + ((stream \div 2^table.bits) % 2^e.bits)]
  IN IF "start" \notin DOMAIN e THEN e ELSE Entry(sub.sym, table.bits + sub.len)

-----------------------------------------------------------------------------
(* The canonical code, as RFC 1951 has it.                                   *)

Reversed(code, len) == FoldLeft(LAMBDA c, k : 2 * c + ((code \div 2^k) % 2), 0, [k \in 1..len |-> k - 1])
CodewordOf(lens, s) ==
  LET first[n \in 1..16] == IF n = 1 THEN 0 ELSE 2 * (first[n - 1] + CountOf(lens, n - 1))
  IN first[lens[s]] + Cardinality({r \in DOMAIN lens : r < s /\ lens[r] = lens[s]})
\* Kraft's sum, in units of 2^-max.
Kraft(lens, max) == FoldLeft(LAMBDA c, s : c + (IF lens[s] = 0 THEN 0 ELSE 2^(max - lens[s])), 0, SetToSeq(DOMAIN lens))

\* A table is built just for the codes that fill the codespace, and those that RFC 1951 allows not
\* to; whatever bits come, it gives the symbol whose codeword they begin with, and takes as many
\* bits as that codeword has; no entry of it is left unset (build_decode_table).
DecodesTheCode(lens, maxBits, maxLen, dynamic) ==
  LET table == BuildDecodeTable(lens, maxBits, maxLen, dynamic)
      single == \A s \in DOMAIN lens : lens[s] \in {0, 1}
      full == Kraft(lens, maxLen) = 2^maxLen
  IN /\ (table.t # Failed) <=> full \/ (single /\ Kraft(lens, maxLen) < 2^maxLen)
     /\ full => \A s \in DOMAIN lens : lens[s] > 0 =>
          \A rest \in 0..2^(maxLen - lens[s]) - 1 :
            Lookup(table, Reversed(CodewordOf(lens, s), lens[s]) + rest * 2^lens[s]) = Entry(s, lens[s])
     /\ table.t # Failed => \A i \in DOMAIN table.t : table.t[i] # Failed
=============================================================================
