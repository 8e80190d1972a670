----------------------------- MODULE DeflateBlock -----------------------------
(* How the DEFLATE compressor writes a block (deflate_compress.c,            *)
(* deflate_flush_block): what it would cost with codes of its own, with the  *)
(* static ones and stored, which of them it is to be, and the bits.          *)
EXTENDS HuffmanCode
LOCAL INSTANCE TLC
LOCAL INSTANCE SequencesExt
LOCAL INSTANCE FiniteSetsExt

CONSTANT
  StoredMax    \* UINT16_MAX, scaled down: bytes of a stored block

Smaller(a, b) == IF a < b THEN a ELSE b
Greater(a, b) == IF a > b THEN a ELSE b
DivRoundUp(n, d) == (n + d - 1) \div d

MinMatchLen == 3
NumLiterals == 256
EndOfBlock == 256
FirstLenSym == 257
NumLitlenSyms == 288
NumOffsetSyms == 32
MaxLitlenCodewordLen == 14
MaxOffsetCodewordLen == 15
MaxPreCodewordLen == 7
PrecodePermutation == <<16, 17, 18, 0, 8, 7, 9, 6, 10, 5, 11, 4, 12, 3, 13, 2, 14, 1, 15>>

\* Symbols for lengths and offsets come in slots: a base and a number of extra bits.
ExtraLengthBits(slot) == IF slot < 8 \/ slot = 28 THEN 0 ELSE (slot \div 4) - 1
LengthSlotBase[slot \in 0..28] ==
  IF slot = 0 THEN 3 ELSE IF slot = 28 THEN 258 ELSE LengthSlotBase[slot - 1] + 2^ExtraLengthBits(slot - 1)
LengthSlot(len) == CHOOSE s \in 0..28 : LengthSlotBase[s] <= len /\ \A t \in s + 1..28 : LengthSlotBase[t] > len
ExtraOffsetBits(slot) == IF slot < 2 THEN 0 ELSE (slot \div 2) - 1
OffsetSlotBase[slot \in 0..29] == IF slot = 0 THEN 1 ELSE OffsetSlotBase[slot - 1] + 2^ExtraOffsetBits(slot - 1)
\* The full map, offset by offset; and what is made of the small one, which ends at 256.
OffsetSlotFull(offset) == CHOOSE s \in 0..29 : offset \in OffsetSlotBase[s]..OffsetSlotBase[s] + 2^ExtraOffsetBits(s) - 1
deflate_get_offset_slot(offset) ==
  LET n == IF offset <= 256 THEN 0 ELSE 7 IN OffsetSlotFull(((offset - 1) \div 2^n) + 1) + 2 * n

-----------------------------------------------------------------------------
(* Codes of a block.  Frequencies: [litlen, offset], of the symbols in use.  *)

NoFreqs == [litlen |-> <<>>, offset |-> <<>>]
Counted(freqs, s) == IF s \in DOMAIN freqs THEN [freqs EXCEPT ![s] = @ + 1] ELSE (s :> 1) @@ freqs
LenOf(code, s) == IF s \in DOMAIN code.lens THEN code.lens[s] ELSE 0

deflate_make_huffman_codes(freqs) ==
  [litlen |-> deflate_make_huffman_code(NumLitlenSyms, MaxLitlenCodewordLen, freqs.litlen),
   offset |-> deflate_make_huffman_code(NumOffsetSyms, MaxOffsetCodewordLen, freqs.offset)]
\* deflate_init_static_codes: the static codes are those of such frequencies.
StaticFreqs == [litlen |-> [s \in 0..287 |-> IF s \in 144..255 THEN 1 ELSE IF s \in 256..279 THEN 4 ELSE 2],
                offset |-> [s \in 0..31 |-> 1]]
StaticCodes == deflate_make_huffman_codes(StaticFreqs)

\* Runs of one length: symbols 18 and 17 for zeroes, 16 for repeats of the last one.
Item(sym, extra) == [sym |-> sym, extra |-> extra]
RECURSIVE Repeats(_)
Repeats(n) == IF n < 3 THEN <<>> ELSE <<Item(16, Smaller(n - 3, 3))>> \o Repeats(n - 3 - Smaller(n - 3, 3))
RECURSIVE RunItems(_, _)
RunItems(len, n) ==
  IF len = 0 /\ n >= 11 THEN <<Item(18, Smaller(n - 11, 127))>> \o RunItems(0, n - 11 - Smaller(n - 11, 127))
  ELSE IF len = 0 /\ n >= 3 THEN <<Item(17, Smaller(n - 3, 7))>> \o RunItems(0, n - 3 - Smaller(n - 3, 7))
  ELSE IF len # 0 /\ n >= 4
  THEN LET r == Repeats(n - 1)
           rest == n - 1 - MapThenSumSet(LAMBDA i : r[i].extra + 3, DOMAIN r)
       IN <<Item(len, 0)>> \o r \o [i \in 1..rest |-> Item(len, 0)]
  ELSE [i \in 1..n |-> Item(len, 0)]
RECURSIVE ItemsFrom(_, _, _)
ItemsFrom(lens, start, ends) ==
  LET end == CHOOSE e \in ends : e > start /\ \A f \in ends : f > start => e <= f
  IN IF \A e \in ends : e <= start THEN <<>> ELSE RunItems(lens[start], end - start) \o ItemsFrom(lens, end, ends)
deflate_compute_precode_items(lens, n) ==
  ItemsFrom(lens, 0, {k \in 1..n - 1 : lens[k] # lens[k - 1]} \cup {n})

\* The lengths of both codes one behind the other, without those at the ends that are 0; the code
\* for them, and how many of its lengths are to be written.
NumSyms(code, max, min) == CHOOSE n \in min..max : (n = min \/ LenOf(code, n - 1) # 0) /\ \A s \in n..max - 1 : LenOf(code, s) = 0
LengthItems(codes, litlens, offsets) ==
  deflate_compute_precode_items([k \in 0..litlens + offsets - 1 |-> IF k < litlens THEN LenOf(codes.litlen, k) ELSE LenOf(codes.offset, k - litlens)],
                                litlens + offsets)
ItemFreqs(items) == [s \in {items[i].sym : i \in DOMAIN items} |-> Cardinality({i \in DOMAIN items : items[i].sym = s})]
HeaderOf(litlens, offsets, items, freqs, code) ==
  [litlens |-> litlens, offsets |-> offsets, items |-> items, freqs |-> freqs, code |-> code,
   explicit |-> CHOOSE n \in 4..19 : (n = 4 \/ LenOf(code, PrecodePermutation[n]) # 0)
                                     /\ \A m \in n + 1..19 : LenOf(code, PrecodePermutation[m]) = 0]
HeaderWith(litlens, offsets, items, freqs) == HeaderOf(litlens, offsets, items, freqs, deflate_make_huffman_code(19, MaxPreCodewordLen, freqs))
HeaderFor(litlens, offsets, items) == HeaderWith(litlens, offsets, items, ItemFreqs(items))
HeaderSized(codes, litlens, offsets) == HeaderFor(litlens, offsets, LengthItems(codes, litlens, offsets))
deflate_precompute_huffman_header(codes) ==
  HeaderSized(codes, NumSyms(codes.litlen, NumLitlenSyms, 257), NumSyms(codes.offset, NumOffsetSyms, 1))
ExtraPrecodeBits(sym) == CASE sym = 16 -> 2 [] sym = 17 -> 3 [] sym = 18 -> 7 [] OTHER -> 0

-----------------------------------------------------------------------------
(* Costs, in bits.                                                           *)

HeaderCost(header) ==
  5 + 5 + 4 + 3 * header.explicit
  + MapThenSumSet(LAMBDA s : header.freqs[s] * (ExtraPrecodeBits(s) + LenOf(header.code, s)), DOMAIN header.freqs)
SymbolsCost(freqs, codes) ==
  MapThenSumSet(LAMBDA s : freqs.litlen[s] * (LenOf(codes.litlen, s) + (IF s < FirstLenSym THEN 0 ELSE ExtraLengthBits(s - FirstLenSym))),
                DOMAIN freqs.litlen)
  + MapThenSumSet(LAMBDA s : freqs.offset[s] * (LenOf(codes.offset, s) + ExtraOffsetBits(s)), DOMAIN freqs.offset)
deflate_compute_true_cost(freqs, codes) == HeaderCost(deflate_precompute_huffman_header(codes)) + SymbolsCost(freqs, codes)

UncompressedCost(bitcount, length) ==
  3 + ((8 - ((bitcount + 3) % 8)) % 8) + 32 + 40 * (DivRoundUp(length, StoredMax) - 1) + 8 * length

-----------------------------------------------------------------------------
(* The output bitstream: bits in the buffer, and behind them in the output;  *)
(* touched: how far it was written to; ok: no assertion failed.              *)

Bits(v, n) == [k \in 1..n |-> (v \div 2^(k - 1)) % 2]
EmptyStream(word, avail) ==
  [word |-> word, end |-> avail, fastEnd |-> 0, buf |-> <<>>, out |-> <<>>, touched |-> 0, overflow |-> FALSE, ok |-> TRUE]
NextByte(os) == Len(os.out) \div 8
CanBuffer(os, n) == 7 + n <= 8 * os.word - 1

RECURSIVE AddBits(_, _)
AddBits(buf, adds) == IF adds = <<>> THEN buf ELSE AddBits(buf \o Bits(Head(adds)[1], Head(adds)[2]), Tail(adds))
\* ADD_BITS for each, and FLUSH_BITS: a whole word while there is room for one, or bytes.
WriteGroup(os, adds) ==
  LET buf == AddBits(os.buf, adds)
      n == Len(buf) \div 8
  IN [os EXCEPT !.buf = SubSeq(buf, 8 * n + 1, Len(buf)), !.out = @ \o SubSeq(buf, 1, 8 * n),
                !.touched = Greater(@, NextByte(os) + (IF NextByte(os) < os.fastEnd THEN os.word ELSE n)),
                !.ok = @ /\ Len(buf) <= 8 * os.word - 1]
RECURSIVE WriteGroups(_, _)
WriteGroups(os, groups) ==
  LET half == Len(groups) \div 2
  IN IF os.overflow \/ groups = <<>> THEN os
     ELSE IF Len(groups) = 1 THEN WriteGroup(os, groups[1])
     ELSE WriteGroups(WriteGroups(os, SubSeq(groups, 1, half)), SubSeq(groups, half + 1, Len(groups)))

Codeword(code, s) == <<code.codewords[s], code.lens[s]>>
\* The flushes in between are for buffers that cannot hold a match, or the next literal.
WRITE_MATCH(os, codes, len, offset, slot) ==
  LET lengthSlot == LengthSlot(len)
      sym == FirstLenSym + lengthSlot
      full == <<codes.litlen.codewords[sym] + (len - LengthSlotBase[lengthSlot]) * 2^codes.litlen.lens[sym],
                codes.litlen.lens[sym] + ExtraLengthBits(lengthSlot)>>
      extra == <<offset - OffsetSlotBase[slot], ExtraOffsetBits(slot)>>
  IN IF CanBuffer(os, 14 + 5 + 15 + 13) THEN <<<<full, Codeword(codes.offset, slot), extra>>>>
     ELSE IF CanBuffer(os, 15 + 13) THEN <<<<full>>, <<Codeword(codes.offset, slot), extra>>>>
     ELSE <<<<full>>, <<Codeword(codes.offset, slot)>>, <<extra>>>>
LiteralGroups(os, codes, lits) ==
  LET size == IF CanBuffer(os, 4 * MaxLitlenCodewordLen) THEN 4 ELSE 1
  IN [g \in 1..DivRoundUp(Len(lits), size) |->
        [k \in 1..Smaller(size, Len(lits) - size * (g - 1)) |-> Codeword(codes.litlen, lits[size * (g - 1) + k])]]

RECURSIVE SequenceGroups(_, _, _, _, _)
\* A run of literals, which are read from the input, and a match; the last run has none.
SequenceGroups(os, codes, in, next, seqs) ==
  LET seq == Head(seqs)
      after == next + seq.run
      lits == LiteralGroups(os, codes, SubSeq(in, next + 1, after))
  IN IF seq.length = 0 THEN lits
     ELSE lits \o WRITE_MATCH(os, codes, seq.length, seq.offset, deflate_get_offset_slot(seq.offset))
          \o SequenceGroups(os, codes, in, after + seq.length, Tail(seqs))
\* The items of the minimum-cost path, one by one: a literal has length 1.
PathGroups(os, codes, path) ==
  FlattenSeq([i \in DOMAIN path |->
    IF path[i].length = 1 THEN <<<<Codeword(codes.litlen, path[i].offset)>>>>
    ELSE WRITE_MATCH(os, codes, path[i].length, path[i].offset, OffsetSlotFull(path[i].offset))])

DynamicHeaderGroups(os, header, final) ==
  LET start == <<<<final, 1>>, <<2, 2>>, <<header.litlens - 257, 5>>, <<header.offsets - 1, 5>>, <<header.explicit - 4, 4>>>>
      lens == [i \in 1..header.explicit |-> <<LenOf(header.code, PrecodePermutation[i]), 3>>]
  IN (IF CanBuffer(os, 3 * 18) THEN <<Append(start, lens[1]), Tail(lens)>>
      ELSE <<start>> \o [i \in DOMAIN lens |-> <<lens[i]>>])
     \o [i \in DOMAIN header.items |->
           <<Codeword(header.code, header.items[i].sym), <<header.items[i].extra, ExtraPrecodeBits(header.items[i].sym)>>>>]

Complement16(n) == 2^16 - 1 - n
BytesBits(bytes) == FlattenSeq([i \in DOMAIN bytes |-> Bits(bytes[i], 8)])
RECURSIVE StoredBlocks(_, _, _)
\* The header ends the byte the buffer has begun, and takes a further one when it does not fit into it.
StoredBlocks(os, data, final) ==
  LET len == Smaller(Len(data), StoredMax)
      last == len = Len(data)
      head == os.buf \o <<IF last THEN final ELSE 0, 0, 0>>
      aligned == head \o Bits(0, (8 - (Len(head) % 8)) % 8)
      out == os.out \o aligned \o Bits(len, 16) \o Bits(Complement16(len), 16) \o BytesBits(SubSeq(data, 1, len))
      written == [os EXCEPT !.buf = <<>>, !.out = out, !.touched = Greater(@, Len(out) \div 8),
                            !.ok = @ /\ os.end - NextByte(os) >= DivRoundUp(Len(os.buf) + 3, 8) + 4 + len]
  IN IF last THEN written ELSE StoredBlocks(written, SubSeq(data, len + 1, Len(data)), final)

\* b: the block, [in, begin, length, freqs, codes, final, seqs or path].
\* A mutant: whole words are written up to the last byte.
ReadyToTheEnd(os) == [os EXCEPT !.fastEnd = os.end]
Ready(os) == [os EXCEPT !.fastEnd = os.end - Smaller(os.word - 1, os.end - NextByte(os))]
HuffmanBlock(os, b, codes, header) ==
  WriteGroups(os, header \o (IF "path" \in DOMAIN b THEN PathGroups(os, codes, b.path) ELSE SequenceGroups(os, codes, b.in, b.begin, b.seqs))
                  \o <<<<Codeword(codes.litlen, EndOfBlock)>>>>)
BitsIn(os) == Len(os.out) + Len(os.buf)
Exact(done, os, cost) == [done EXCEPT !.ok = @ /\ BitsIn(done) - BitsIn(os) = cost]
\* The cheapest of the three; at the same cost a stored block, then a static one.
Written(os, b, header, final, dynamic, static, uncompressed, best) ==
  IF DivRoundUp(Len(os.buf) + best, 8) > os.end - NextByte(os) THEN [os EXCEPT !.overflow = TRUE]
  ELSE Exact(IF best = uncompressed THEN StoredBlocks(Ready(os), SubSeq(b.in, b.begin + 1, b.begin + b.length), final)
             ELSE IF best = static THEN HuffmanBlock(Ready(os), b, StaticCodes, <<<<<<final, 1>>, <<1, 2>>>>>>)
             ELSE HuffmanBlock(Ready(os), b, b.codes, DynamicHeaderGroups(os, header, final)), os, best)
FlushedAt(os, b, header, dynamic, static, uncompressed) ==
  Written(os, b, header, IF b.final THEN 1 ELSE 0, dynamic, static, uncompressed, Smaller(dynamic, Smaller(static, uncompressed)))
FlushedWith(os, b, header) ==
  FlushedAt(os, b, header, 3 + HeaderCost(header) + SymbolsCost(b.freqs, b.codes), 3 + SymbolsCost(b.freqs, StaticCodes),
            UncompressedCost(Len(os.buf), b.length))
deflate_flush_block(os, b) == FlushedWith(os, b, deflate_precompute_huffman_header(b.codes))

-----------------------------------------------------------------------------
(* What RFC 1951 makes of the bits.                                          *)

Number(bits, at, n) == MapThenSumSet(LAMBDA k : bits[at + k] * 2^(k - 1), 1..n)
\* The symbols of a code by their codewords, highest bit first.
FirstCode(lens) == LET first[n \in 1..16] == IF n = 1 THEN 0 ELSE 2 * (first[n - 1] + Cardinality({s \in DOMAIN lens : lens[s] = n - 1})) IN first
CodeOf(lens, first) == [s \in DOMAIN lens |-> <<lens[s], first[lens[s]] + Cardinality({r \in DOMAIN lens : r < s /\ lens[r] = lens[s]})>>] @@ <<>>
Inverted(code) == [c \in {code[s] : s \in DOMAIN code} |-> CHOOSE s \in DOMAIN code : code[s] = c] @@ <<>>
Decoder(lens) == Inverted(CodeOf(lens, FirstCode(lens)))
StaticDecoder == [litlen |-> Decoder(StaticCodes.litlen.lens),
                  offset |-> Decoder(StaticCodes.offset.lens)]

RECURSIVE Symbol(_, _, _, _, _)
Symbol(decoder, bits, at, n, c) ==
  IF n > 0 /\ <<n, c>> \in DOMAIN decoder THEN [sym |-> decoder[<<n, c>>], at |-> at]
  ELSE Symbol(decoder, bits, at + 1, n + 1, 2 * c + bits[at + 1])
RECURSIVE Copied(_, _, _)
Copied(out, offset, n) == IF n = 0 THEN out ELSE Copied(Append(out, out[Len(out) + 1 - offset]), offset, n - 1)

RECURSIVE InflateSymbols(_, _, _, _)
InflateSymbols(decoder, bits, at, out) ==
  LET s == Symbol(decoder.litlen, bits, at, 0, 0)
      slot == s.sym - FirstLenSym
      len == LengthSlotBase[slot] + Number(bits, s.at, ExtraLengthBits(slot))
      o == Symbol(decoder.offset, bits, s.at + ExtraLengthBits(slot), 0, 0)
      offset == OffsetSlotBase[o.sym] + Number(bits, o.at, ExtraOffsetBits(o.sym))
  IN IF s.sym = EndOfBlock THEN [at |-> s.at, out |-> out]
     ELSE IF s.sym < EndOfBlock THEN InflateSymbols(decoder, bits, s.at, Append(out, s.sym))
     ELSE InflateSymbols(decoder, bits, o.at + ExtraOffsetBits(o.sym), Copied(out, offset, len))

RECURSIVE InflateLens(_, _, _, _, _)
InflateLens(decoder, bits, at, n, lens) ==
  LET s == Symbol(decoder, bits, at, 0, 0)
      extra == Number(bits, s.at, ExtraPrecodeBits(s.sym))
      more == CASE s.sym < 16 -> <<s.sym>>
                [] s.sym = 16 -> [i \in 1..extra + 3 |-> lens[Len(lens)]]
                [] s.sym = 17 -> [i \in 1..extra + 3 |-> 0]
                [] s.sym = 18 -> [i \in 1..extra + 11 |-> 0]
  IN IF Len(lens) >= n THEN [at |-> at, lens |-> lens]
     ELSE InflateLens(decoder, bits, s.at + ExtraPrecodeBits(s.sym), n, lens \o more)
Sparse(lens, from, n) == [s \in {k \in 0..n - 1 : lens[from + k + 1] # 0} |-> lens[from + s + 1]]
DynamicDecoder(litlen, offset) == [litlen |-> Decoder(litlen), offset |-> Decoder(offset)]
InflateDynamic(bits, at, out) ==
  LET litlens == Number(bits, at, 5) + 257
      offsets == Number(bits, at + 5, 5) + 1
      explicit == Number(bits, at + 10, 4) + 4
      pre == [s \in {PrecodePermutation[i] : i \in {k \in 1..explicit : Number(bits, at + 11 + 3 * k, 3) # 0}} |->
                Number(bits, at + 11 + 3 * (CHOOSE i \in 1..19 : PrecodePermutation[i] = s), 3)]
      read == InflateLens(Decoder(pre), bits, at + 14 + 3 * explicit, litlens + offsets, <<>>)
  IN InflateSymbols(DynamicDecoder(Sparse(read.lens, 0, litlens), Sparse(read.lens, litlens, offsets)), bits, read.at, out)
InflateStored(bits, at, out) ==
  LET start == 8 * DivRoundUp(at, 8)
      len == Number(bits, start, 16)
  IN IF Number(bits, start + 16, 16) # Complement16(len) THEN [at |-> start, out |-> <<"bad">>]
     ELSE [at |-> start + 32 + 8 * len, out |-> out \o [i \in 1..len |-> Number(bits, start + 24 + 8 * i, 8)]]
RECURSIVE Inflate(_, _, _)
Inflate(bits, at, out) ==
  LET type == Number(bits, at + 1, 2)
      block == CASE type = 0 -> InflateStored(bits, at + 3, out)
                 [] type = 1 -> InflateSymbols(StaticDecoder, bits, at + 3, out)
                 [] type = 2 -> InflateDynamic(bits, at + 3, out)
  IN IF bits[at + 1] = 1 THEN block.out ELSE Inflate(bits, block.at, block.out)
=============================================================================
