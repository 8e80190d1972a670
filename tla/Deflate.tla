------------------------------- MODULE Deflate -------------------------------
(* libdeflate_deflate_decompress (decompress_template.h): the blocks of a    *)
(* stream, its bit buffer, the fast loop that checks the ends of its buffers *)
(* once a turn and the generic loop that checks always.  Symbols are what    *)
(* they take: bits of a codeword, extra bits, bytes of output; any sequence  *)
(* of them may come.                                                         *)
EXTENDS Integers

CONSTANTS
  Streams,     \* [word, in, out, blocks, lens, extras, lengths]: bytes of a machine word (4 or 8), of the
               \* input and of the output, how many blocks there may be, and what may come in them:
               \* lengths of codewords, numbers of extra bits, lengths of matches
  TableBits,   \* bits of the litlen table that occur, 11 at most
  Runs,        \* lengths of runs of codeword lengths that occur, from 3
  NumLens      \* how many codeword lengths a dynamic block has

\* What the format and the build make of them.
StreamAssumption ==
  /\ \A s \in Streams : /\ s.word \in {4, 8} /\ s.in \in Nat /\ s.out \in Nat /\ s.blocks \in Nat
                        /\ s.lens \subseteq Nat /\ s.extras \subseteq Nat /\ s.lengths \subseteq 3..258
  /\ TableBits \subseteq 1..11 /\ NumLens \in Nat \ {0}

VARIABLE d     \* the decompressor and its stream, see Started

CodeLens == d.stream.lens
Extras == d.stream.extras
Lengths == d.stream.lengths

LitlenTableBits == 11
OffsetTableBits == 8
MaxCodeword == 15
LengthMaxBits == MaxCodeword + 5
OffsetMaxBits == MaxCodeword + 13
OffsetMaxFastBits == OffsetTableBits + 13
LensOverrun == 137

Greater(a, b) == IF a > b THEN a ELSE b
Smaller(a, b) == IF a < b THEN a ELSE b
Upto(n, S) == {k \in S : k <= n}
Times(n, k) == (n + k - 1) \div k

Consumable(w) == 8 * w - 8
Preloadable(w) == 8 * w
CanConsume(w, n) == Consumable(w) >= n
CanConsumeAndThenPreload(w, n, m) == Consumable(w) >= n /\ Preloadable(w) >= n + m
FastloopMaxBytesWritten(w) == 2 + 258 + 5 * w - 1
FastloopMaxBytesRead(w) == Times(8 * w - 1 + 2 * LitlenTableBits + LengthMaxBits + OffsetMaxBits, 8) + w

None == [at |-> "none"]
\* next, over: bytes taken from the input, and behind it; left: bits that may be consumed, loaded: bits
\* that are there; used: bits consumed; short: more bits were asked for than were there; readTo,
\* wroteTo, lensTo: how far the buffers were touched; tables: whose tables are built.
Started(s) ==
  [at |-> "block", stream |-> s, word |-> s.word, in |-> s.in, outSize |-> s.out, next |-> 0, over |-> 0, left |-> 0, loaded |-> 0, used |-> 0,
   out |-> 0, short |-> FALSE, beyond |-> FALSE, tables |-> "none", staticLoaded |-> FALSE,
   block |-> "none", blocks |-> s.blocks, i |-> 0, bits |-> 0]

Init == d \in {Started(s) : s \in Streams}

-----------------------------------------------------------------------------
(* The bit buffer.                                                           *)

Goes(b, at) == IF b.at = "bad" THEN b ELSE [b EXCEPT !.at = at]
\* REFILL_BITS_BRANCHLESS: a whole word is read, as many bytes of it count as fit.
Branchless(b) ==
  [b EXCEPT !.next = @ + b.word - 1 - ((b.left \div 8) % 8), !.left = Consumable(b.word) + (@ % 8),
            !.loaded = 8 * b.word, !.beyond = @ \/ b.next + b.word > b.in]
\* REFILL_BITS: byte by byte near the end, and zeros behind it, a word of them at most.
Bytewise(b) ==
  LET n == IF b.left < Consumable(b.word) THEN Times(Consumable(b.word) - b.left, 8) ELSE 0
      real == Smaller(n, b.in - b.next)
      over == b.over + n - real
  IN IF over > b.word THEN [b EXCEPT !.at = "bad"]
     ELSE [b EXCEPT !.next = @ + real, !.over = over, !.left = @ + 8 * n, !.loaded = Greater(@, b.left + 8 * n)]
Refill(b) == IF b.in - b.next >= b.word THEN Branchless(b) ELSE Bytewise(b)
\* Bits are looked at; bits are looked at and consumed.
Peek(b, n) == [b EXCEPT !.short = @ \/ n > b.loaded]
Take(b, n) == [b EXCEPT !.left = @ - n, !.loaded = @ - n, !.used = @ + n, !.short = @ \/ n > b.left]

-----------------------------------------------------------------------------
(* Blocks.                                                                   *)

\* The lengths of the precode: after the first fields, three bits each.
PrecodeLen(b) == Take(IF b.left < 3 THEN Refill(b) ELSE b, 3)
PrecodeLens(r, n) ==
  LET read[k \in 0..n] == IF k = 0 THEN Take(r, 17) ELSE PrecodeLen(read[k - 1])
  IN IF CanConsume(r.word, 3 * 18) THEN Take(Refill(Take(r, 20)), 3 * (n - 1)) ELSE read[n]

\* A mutant: the tables of an earlier static block are taken to be there still.
DynamicKeepsFlag(r) == \E n \in {4, 19} : d' \in {Goes([PrecodeLens(r, n) EXCEPT !.i = 0, !.block = "dynamic"], at) : at \in {"lens", "bad"}}
Dynamic(r) ==
  \E n \in {4, 19} :
    d' \in {Goes([PrecodeLens(r, n) EXCEPT !.i = 0, !.block = "dynamic", !.staticLoaded = FALSE], at) : at \in {"lens", "bad"}}

\* A mutant: bytes behind the input are given back as if they had been in it.
RewoundAll(b) == b.next - (b.left \div 8)
\* Bytes that were taken from the input and not used are given back.
Rewound(b) == b.next - ((b.left \div 8) - b.over)

Stored(r) ==
  LET b == Take(r, 3)
      start == Rewound(b)
      ok == b.over <= b.left \div 8 /\ b.in - start >= 4
  IN \E len \in {0, 1, b.in} :
       LET fits == ok /\ len <= b.in - (start + 4) /\ len <= b.outSize - b.out
       IN d' = IF ~fits THEN Goes(b, "bad")
               ELSE Goes([b EXCEPT !.next = start + 4 + len, !.over = 0, !.left = 0, !.loaded = 0, !.out = @ + len,
                                   !.used = 8 * (Times(@, 8) + 4 + len), !.block = "stored"], "done")

Static(r) == d' = Goes([Take(r, 3) EXCEPT !.block = "static", !.staticLoaded = TRUE],
                       IF d.staticLoaded THEN "loop" ELSE "tables")

Block ==
  /\ d.at = "block" /\ d.blocks > 0
  /\ LET r == Refill([d EXCEPT !.blocks = @ - 1])
     IN Dynamic(r) \/ Stored(r) \/ Static(r)

\* A length of a codeword, or a run of them; nothing is checked before all are there.
Lens ==
  /\ d.at = "lens"
  /\ LET r == Peek(IF d.left < 7 + 7 THEN Refill(d) ELSE d, 7)
         After(b, n, to) == Goes([b EXCEPT !.i = @ + n, !.beyond = @ \/ r.i + to > NumLens + LensOverrun],
                                 IF r.i + n < NumLens THEN "lens" ELSE IF r.i + n = NumLens THEN "tables" ELSE "bad")
     IN \E c \in Upto(7, CodeLens) :
          \/ d' = After(Take(r, c), 1, 1)
          \/ \E n \in Runs \cap 3..6 : d' = IF d.i = 0 THEN Goes(r, "bad") ELSE After(Take(Take(r, c), 2), n, 6)
          \/ \E n \in Runs \cap 3..10 : d' = After(Take(Take(r, c), 3), n, 10)
          \/ \E n \in Runs \cap 11..138 : d' = After(Take(Take(r, c), 7), n, n)

\* Both tables are built, or the lengths of a dynamic block are no codes; static ones have 9 bits at most.
Tables ==
  /\ d.at = "tables"
  /\ \/ d.block = "dynamic" /\ d' = Goes(d, "bad")
     \/ \E bits \in IF d.block = "static" THEN {9} ELSE TableBits : d' = Goes([d EXCEPT !.tables = d.block, !.bits = bits, !.i = 0], "loop")

-----------------------------------------------------------------------------
(* The fast loop.                                                            *)

InFastEnd == d.in - Smaller(d.in, FastloopMaxBytesRead(d.word))
OutFastEnd == d.outSize - Smaller(d.outSize, FastloopMaxBytesWritten(d.word))
\* A mutant: the end of the output is not looked at again.
AgainForInput(b) == Goes(b, IF b.next < InFastEnd THEN "fast" ELSE "generic")
Again(b) == Goes(b, IF b.next < InFastEnd /\ b.out < OutFastEnd THEN "fast" ELSE "generic")

Loop ==
  /\ d.at = "loop"
  /\ d' = IF d.next >= InFastEnd \/ d.out >= OutFastEnd THEN Goes(d, "generic") ELSE Goes(Peek(Branchless(d), d.bits), "fast")

Literal(b) == [b EXCEPT !.out = @ + 1, !.beyond = @ \/ b.out = b.outSize]
\* A literal ends the turn: the next entry is looked at before the refill.
EndsTurn(b) == Again(Literal(Branchless(Peek(b, d.bits))))
\* Two more literals may stand in front of the item of the turn.
RoomForThree == CanConsumeAndThenPreload(d.word, 2 * LitlenTableBits + LengthMaxBits, OffsetTableBits)
                /\ CanConsumeAndThenPreload(d.word, 2 * LitlenTableBits + MaxCodeword, LitlenTableBits)
\* An entry of the main table is consumed, or a pointer and an entry of its subtable.
MainEntries(b, extras) == {Take(b, c + e) : c \in Upto(b.bits, CodeLens), e \in extras}
SubEntries(b, extras) ==
  IF b.bits < LitlenTableBits THEN {}
  ELSE {Take(Peek(Take(b, b.bits), c), c + e) : c \in Upto(MaxCodeword - LitlenTableBits, CodeLens), e \in extras}
RefilledIfScarce(b) ==
  IF CanConsumeAndThenPreload(b.word, MaxCodeword, LitlenTableBits) /\ CanConsumeAndThenPreload(b.word, LengthMaxBits, OffsetTableBits)
  THEN b ELSE Branchless(b)

Fast ==
  /\ d.at \in {"fast", "fast2", "fast3"}
  /\ \/ \E b \in MainEntries(d, {0}) :                                                          \* a literal
          d' = IF RoomForThree /\ d.at # "fast3" THEN Goes(Literal(Peek(b, d.bits)), IF d.at = "fast" THEN "fast2" ELSE "fast3")
               ELSE EndsTurn(b)
     \/ \E b \in SubEntries(d, {0}) : d' = EndsTurn(RefilledIfScarce(b))
     \/ \E b \in MainEntries(d, {0}) \cup SubEntries(d, {0}) : d' = Goes(b, "done")             \* the end of the block
     \/ \E b \in MainEntries(d, Upto(5, Extras)) \cup {RefilledIfScarce(x) : x \in SubEntries(d, Upto(5, Extras))} :
          d' = Goes(b, "offset")                                                                \* a length

\* Refills so that an offset can be consumed, and a pointer to its subtable.
FastOffset(b, sub) ==
  IF CanConsumeAndThenPreload(b.word, OffsetMaxBits, LitlenTableBits)
  THEN LET need == (IF sub THEN OffsetMaxBits ELSE OffsetMaxFastBits) + LitlenTableBits - 1
           r == IF b.left < need THEN Branchless(b) ELSE b
       IN IF sub THEN Take(r, OffsetTableBits) ELSE r
  ELSE IF sub THEN Branchless(Take(Branchless(b), OffsetTableBits)) ELSE Branchless(b)
\* The lengths of codewords of offsets in the main table, or what is left of them in a subtable.
OffsetLens(sub) == Upto(IF sub THEN MaxCodeword - OffsetTableBits ELSE OffsetTableBits, CodeLens)

\* How many words are stored for a match, and how far apart.
Stride(offset, w) == IF offset = 1 \/ offset >= w THEN w ELSE offset
Stores(offset, length, w) ==
  IF offset >= w THEN 5 * Times(length, 5 * w)
  ELSE IF offset = 1 THEN 4 * Times(length, 4 * w)
  ELSE 2 + 2 * Greater(1, Times(length - 2 * offset, 2 * offset))
CopyEnd(offset, length, w) == (Stores(offset, length, w) - 1) * Stride(offset, w) + w
Match(b, offset, length) ==
  [b EXCEPT !.out = @ + length, !.beyond = @ \/ b.out + CopyEnd(offset, length, b.word) > b.outSize]

Offset ==
  /\ d.at = "offset"
  /\ \E sub \in BOOLEAN, c \in CodeLens, e \in Upto(13, Extras), length \in Lengths :
       /\ c \in OffsetLens(sub)
       /\ LET r == FastOffset(Peek(d, OffsetTableBits), sub)
              b == Take(IF sub THEN Peek(r, c) ELSE r, c + e)
          IN \/ d' = Goes(b, "bad")
             \/ \E offset \in {o \in {1, d.word - 1, d.word} : o <= d.out} :
                  LET s == IF ~CanConsumeAndThenPreload(b.word, Greater(OffsetMaxBits - OffsetTableBits, OffsetMaxFastBits), LitlenTableBits)
                                /\ b.left < LitlenTableBits - 1 THEN Branchless(b) ELSE b
                  IN d' = Again(Match(Branchless(Peek(s, d.bits)), offset, length))

-----------------------------------------------------------------------------
(* The generic loop, and the end.                                            *)

Generic ==
  LET r == Peek(Refill(d), d.bits) IN
  /\ d.at = "generic"
  /\ IF r.at = "bad" THEN d' = r
     ELSE \/ \E b \in MainEntries(r, {0}) \cup SubEntries(r, {0}) :
               \/ d' = IF b.out = b.outSize THEN Goes(b, "bad") ELSE Literal(b)
               \/ d' = Goes(b, "done")
          \/ \E b \in MainEntries(r, Upto(5, Extras)) \cup SubEntries(r, Upto(5, Extras)) : d' = Goes(b, "genericOffset")

GenericOffset ==
  /\ d.at = "genericOffset"
  /\ \E sub \in BOOLEAN, c \in CodeLens, e \in Upto(13, Extras), length \in Lengths :
       /\ c \in OffsetLens(sub)
       /\ LET q == Peek(IF CanConsume(d.word, LengthMaxBits + OffsetMaxBits) THEN d ELSE Refill(d), OffsetTableBits)
              p == Peek(Take(q, OffsetTableBits), c)
              r == IF ~sub THEN q ELSE IF CanConsume(d.word, OffsetMaxBits) THEN p ELSE Refill(p)
              b == Take(r, c + e)
          IN \/ d' = Goes(b, "bad")
             \/ d.out > 0 /\ length <= d.outSize - d.out
                /\ d' = Goes([b EXCEPT !.out = @ + length], "generic")

\* Another block, or the end, as its first bit has said: no byte behind the input may have been
\* needed, and the output must be full.
Done ==
  /\ d.at = "done"
  /\ \/ d.blocks > 0 /\ d' = [d EXCEPT !.at = "block"]
     \/ d' = IF d.over > d.left \div 8 \/ d.out # d.outSize THEN Goes(d, "bad")
             ELSE Goes([d EXCEPT !.next = Rewound(d), !.over = 0, !.left = @ % 8], "good")

Next == Block \/ Lens \/ Tables \/ Loop \/ Fast \/ Offset \/ Generic \/ GenericOffset \/ Done
Spec == Init /\ [][Next]_d

-----------------------------------------------------------------------------
(* Properties.                                                               *)

\* No lookup and no codeword takes bits that are not in the buffer, although the fast loop refills
\* it only when the arithmetic of CAN_CONSUME_AND_THEN_PRELOAD says so; and the bytes taken are
\* always the bits used and those left, so a stored block begins, and a stream ends, at its byte.
BitsAreThere ==
  d # None /\ d.at # "bad" => ~d.short /\ 8 * (d.next + d.over) = d.used + d.left /\ d.left <= d.loaded

\* No word is read behind the input and none is stored behind the output, by a fast loop that
\* looks at the ends once a turn; runs of lengths stay in their array; a good stream ends in it.
EndsHold ==
  d # None => ~d.beyond /\ d.out <= d.outSize /\ d.next <= d.in /\ (d.at = "good" => d.used <= 8 * d.in)

\* Symbols are decoded with the tables of their block (static_codes_loaded).
TablesOfTheBlock == d # None /\ d.at \in {"fast", "offset", "generic"} => d.tables = d.block

\* It stays inside its buffers with one check a turn, and decodes with the tables of the block.
BuffersHold == EndsHold /\ TablesOfTheBlock

\* The words that are stored for a match make of the output what copying byte by byte does.
CopyIsBytewise(offset, length, w) ==
  LET n == Stores(offset, length, w)
      stride == Stride(offset, w)
      \* bytes by place from the match on; those before it name themselves
      Byte(buf, k) == IF k < 0 THEN k ELSE buf[k]
      copied[i \in 0..n] ==
        IF i = 0 THEN [k \in 0..CopyEnd(offset, length, w) - 1 |-> 0]
        ELSE LET b == copied[i - 1]
                 at == (i - 1) * stride
             IN [k \in DOMAIN b |-> IF k \notin at..at + w - 1 THEN b[k]
                                    ELSE IF offset = 1 THEN -1 ELSE Byte(b, k - offset)]
  IN \A k \in 0..length - 1 : copied[n][k] = (k % offset) - offset
=============================================================================
