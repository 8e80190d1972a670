------------------------------- MODULE LzmaDec -------------------------------
(* The LZMA decoder (LzmaDec.c): a range coder with adaptive probabilities,  *)
(* symbols that are literals, matches or an end mark, and a dictionary.  A   *)
(* caller hands it the input in pieces and stops it at any output position;  *)
(* a symbol cut off by the end of a piece waits in tempBuf.                  *)
(* The widths are constants (bytes of ByteBits bits), the formulas those of  *)
(* the code.                                                                 *)
EXTENDS Integers, Sequences, TLC

CONSTANTS
  ByteBits,     \* 8
  CodeBytes,    \* 4: bytes of the range coder's code
  ModelBits,    \* 11: kNumBitModelTotalBits
  MoveBits,     \* 5: kNumMoveBits
  LowBits,      \* 3: kLenNumLowBits
  HighBits,     \* 8: kLenNumHighBits
  SlotBits,     \* 6: kNumPosSlotBits
  AlignBits,    \* 4: kNumAlignBits
  EndSlot,      \* 14: kEndPosModelIndex
  InputMax      \* 20: LZMA_REQUIRED_INPUT_MAX

Byte == 2^ByteBits
Word == Byte^CodeBytes
Top == Word \div Byte
ModelTotal == 2^ModelBits
InitSize == CodeBytes + 1
StartSlot == 4
MinLen == 2
SpecLenStart == MinLen + 2 * 2^LowBits + 2^HighBits
NeedRange == SpecLenStart + 1
NeedState == SpecLenStart + 2
ErrorFail == SpecLenStart + 3
ErrorData == SpecLenStart + 4
Lesser(a, b) == IF a < b THEN a ELSE b

-----------------------------------------------------------------------------
(* The range coder.  c = [range, code, pos, short, path, probs, adapts]: pos *)
(* bytes of src are read, short: there was none left; path: the symbol's     *)
(* bits so far.  A probability that never changed is not in DOMAIN probs.    *)

Normalize(c, src) ==
  IF c.range >= Top THEN c
  ELSE IF c.pos = Len(src) THEN [c EXCEPT !.short = TRUE]
  ELSE [c EXCEPT !.range = @ * Byte, !.code = (@ * Byte + src[c.pos + 1]) % Word, !.pos = @ + 1]

Prob(probs, key) == IF key \in DOMAIN probs THEN probs[key] ELSE ModelTotal \div 2
Adapted(p, bit) == IF bit = 0 THEN p + ((ModelTotal - p) \div 2^MoveBits) ELSE p - (p \div 2^MoveBits)

\* IF_BIT_0, UPDATE_0, UPDATE_1, and their CHECK forms, which adapt nothing.
ModelBit(n, key) ==
  LET p == Prob(n.probs, key)
      bound == (n.range \div ModelTotal) * p
      bit == IF n.code < bound THEN 0 ELSE 1
  IN [n EXCEPT !.range = IF bit = 0 THEN bound ELSE @ - bound, !.code = @ - bit * bound,
               !.path = Append(@, bit), !.probs = IF n.adapts THEN (key :> Adapted(p, bit)) @@ @ ELSE @]

\* A bit of even odds: the sign of code - range tells it.
DirectBit(n) ==
  LET half == n.range \div 2
      diff == (n.code - half) % Word
      bit == IF diff >= Word \div 2 THEN 0 ELSE 1
  IN [n EXCEPT !.range = half, !.code = IF bit = 0 THEN (diff + half) % Word ELSE diff, !.path = Append(@, bit)]

-----------------------------------------------------------------------------
(* The symbols: which probability the next bit of a symbol uses, given the   *)
(* bits before it.  x = [state, posState, lit, match].                       *)

Number(bits) == LET f[i \in 0..Len(bits)] == IF i = 0 THEN 0 ELSE 2 * f[i - 1] + bits[i] IN f[Len(bits)]
Reversed(bits) == [i \in DOMAIN bits |-> bits[Len(bits) + 1 - i]]
Node(bits) == 2^Len(bits) + Number(bits)
From(path, k) == SubSeq(path, k, Len(path))

Done == <<"done">>
Direct == <<"direct">>

\* A literal after a match is coded against the byte the match would have gone on with,
\* until it differs from it.
LiteralKey(bits, x) ==
  LET m == [i \in 1..ByteBits |-> (x.match \div 2^(ByteBits - i)) % 2]
      k == Len(bits)
  IN IF k = ByteBits THEN Done
     ELSE IF x.state >= 7 /\ bits = SubSeq(m, 1, k) THEN <<"matched", x.lit, m[k + 1], Node(bits)>>
     ELSE <<"literal", x.lit, Node(bits)>>

LenSize(l) == IF l[1] = 0 THEN 1 + LowBits ELSE IF l[2] = 0 THEN 2 + LowBits ELSE 2 + HighBits
LenComplete(l) == Len(l) >= 2 /\ Len(l) >= LenSize(l)
LenKey(l, coder, x) ==
  CASE l = <<>> -> <<coder, "choice">>
    [] l = <<1>> -> <<coder, "choice2">>
    [] l[1] = 0 -> <<coder, "low", x.posState, Node(From(l, 2))>>
    [] l[1] = 1 /\ l[2] = 0 -> <<coder, "mid", x.posState, Node(From(l, 3))>>
    [] OTHER -> <<coder, "high", Node(From(l, 3))>>
LenValue(l) ==
  LET low == Number(SubSeq(l, IF l[1] = 0 THEN 2 ELSE 3, LenSize(l)))
  IN IF l[1] = 0 THEN low ELSE IF l[2] = 0 THEN 2^LowBits + low ELSE 2 * 2^LowBits + low

\* The distance of a match: a slot, then the slot's low bits - modelled, or direct and aligned.
DirectBits(slot) == (slot \div 2) - 1
DistanceKey(d, len) ==
  LET slot == Number(SubSeq(d, 1, SlotBits))
      low == From(d, SlotBits + 1)
      n == DirectBits(slot)
      aligned == From(low, n - AlignBits + 1)
  IN IF Len(d) < SlotBits THEN <<"slot", Lesser(len, 3), Node(d)>>
     ELSE IF slot < StartSlot \/ Len(low) = n THEN Done
     ELSE IF slot < EndSlot THEN <<"special", slot, Node(Reversed(low)), Len(low)>>
     ELSE IF Len(low) < n - AlignBits THEN Direct ELSE <<"align", Node(Reversed(aligned)), Len(aligned)>>
Distance(d) ==
  LET slot == Number(SubSeq(d, 1, SlotBits))
      low == From(d, SlotBits + 1)
      n == DirectBits(slot)
      high == (2 + (slot % 2)) * 2^n
  IN IF slot < StartSlot THEN slot
     ELSE IF slot < EndSlot THEN high + Number(Reversed(low))
     ELSE high + Number(SubSeq(low, 1, n - AlignBits)) * 2^AlignBits + Number(Reversed(From(low, n - AlignBits + 1)))
EndMark == 2^(2^(SlotBits - 1)) - 1

IsRep(path) == path[2] = 1
\* Where the length begins: after the bits that choose the kind of symbol.
LenAt(path) == IF ~IsRep(path) THEN 3 ELSE IF path[3] = 1 /\ path[4] = 1 THEN 6 ELSE 5
KindKey(path, x) ==
  CASE path = <<1>> -> <<"isRep", x.state>>
    [] path = <<1, 1>> -> <<"isRepG0", x.state>>
    [] path = <<1, 1, 0>> -> <<"isRep0Long", x.state, x.posState>>
    [] path = <<1, 1, 1>> -> <<"isRepG1", x.state>>
    [] path = <<1, 1, 1, 1>> -> <<"isRepG2", x.state>>

NextKey(path, x) ==
  IF path = <<>> THEN <<"isMatch", x.state, x.posState>>
  ELSE IF path[1] = 0 THEN LiteralKey(Tail(path), x)
  ELSE IF path \in {<<1>>, <<1, 1>>, <<1, 1, 0>>, <<1, 1, 1>>, <<1, 1, 1, 1>>} THEN KindKey(path, x)
  ELSE IF path = <<1, 1, 0, 0>> THEN Done
  ELSE LET l == From(path, LenAt(path)) IN
       IF ~LenComplete(l) THEN LenKey(l, IF IsRep(path) THEN "repLen" ELSE "len", x)
       ELSE IF IsRep(path) THEN Done ELSE DistanceKey(From(l, LenSize(l) + 1), LenValue(l))

RECURSIVE ReadSymbol(_, _, _)
ReadBit(c, key, n, x, src) ==
  IF key = Done \/ c.short THEN c
  ELSE IF n.short THEN n
  ELSE ReadSymbol(IF key = Direct THEN DirectBit(n) ELSE ModelBit(n, key), x, src)
ReadSymbol(c, x, src) == ReadBit(c, NextKey(c.path, x), Normalize(c, src), x, src)

-----------------------------------------------------------------------------
(* The decoder p = CLzmaDec; props = [lc, lp, pb, dicSize].  A dictionary    *)
(* cell nothing was written to is -1, reps and probabilities that were never *)
(* set are Unset; stray: one of these, or a cell outside the dictionary, was *)
(* read.                                                                     *)

LzmaProps_Decode(d, dicSize, DicMin) ==
  [ok |-> d < 9 * 5 * 5, lc |-> d % 9, lp |-> (d \div 9) % 5, pb |-> d \div 45,
   dicSize |-> IF dicSize < DicMin THEN DicMin ELSE dicSize]

Unset == <<0, 0, 0, 0>>

\* LzmaDec_Init, with a dictionary of n cells.
LzmaDec_Init(props, n) ==
  [lc |-> props.lc, lp |-> props.lp, pb |-> props.pb, dicSize |-> props.dicSize, probs |-> <<>>,
   dic |-> [i \in 0..n - 1 |-> -1], dicBufSize |-> n, dicPos |-> 0, range |-> 0, code |-> 0, processedPos |-> 0,
   checkDicSize |-> 0, reps |-> Unset, state |-> 0, remainLen |-> NeedState, tempBuf |-> <<>>, stray |-> FALSE]

\* A chunk of LZMA2 begins: with a new dictionary, a new state, or only a new range coder.
LzmaDec_InitDicAndState(p, initDic, initState) ==
  [p EXCEPT !.tempBuf = <<>>, !.remainLen = IF initDic \/ initState THEN NeedState ELSE NeedRange,
            !.processedPos = IF initDic THEN 0 ELSE @, !.checkDicSize = IF initDic THEN 0 ELSE @]

At(p, i) == IF i \in DOMAIN p.dic THEN p.dic[i] ELSE -1
Back(p, distance) == p.dicPos - distance + IF p.dicPos < distance THEN p.dicBufSize ELSE 0
Put(p, b) == [p EXCEPT !.dic = [@ EXCEPT ![p.dicPos] = b], !.dicPos = @ + 1, !.processedPos = @ + 1]
\* n cells of the match at distance reps[1], one after the other.
Copy(p, n) ==
  LET f[k \in 0..n] == IF k = 0 THEN p
        ELSE LET q == f[k - 1]
                 b == At(q, Back(q, q.reps[1]))
             IN [Put(q, IF b = -1 THEN 0 ELSE b) EXCEPT !.stray = @ \/ b = -1]
  IN f[n]

Started(p) == p.processedPos # 0 \/ p.checkDicSize # 0
Context(p) ==
  LET last == At(p, (IF p.dicPos = 0 THEN p.dicBufSize ELSE p.dicPos) - 1)
      match == At(p, Back(p, p.reps[1]))
  IN [state |-> p.state, posState |-> p.processedPos % 2^p.pb,
      lit |-> IF Started(p) THEN <<p.processedPos % 2^p.lp, last \div 2^(ByteBits - p.lc)>> ELSE <<0, 0>>,
      match |-> IF p.state >= 7 THEN match ELSE 0,
      stray |-> (Started(p) /\ last = -1) \/ (p.state >= 7 /\ match = -1)]

Coder(p, pos, adapts) == [range |-> p.range, code |-> p.code, pos |-> pos, short |-> FALSE, path |-> <<>>,
                          probs |-> p.probs, adapts |-> adapts]

AfterLiteral(s) == IF s < 4 THEN 0 ELSE IF s < 10 THEN s - 3 ELSE s - 6
After(s, lit, match) == IF s < 7 THEN lit ELSE match

\* A mutant: the distances used before do not move back.
RepsAfterInPlace(path, r) ==
  CASE path[3] = 0 -> r
    [] path[3] = 1 /\ path[4] = 0 -> <<r[2], r[1], r[3], r[4]>>
    [] path[3] = 1 /\ path[4] = 1 /\ path[5] = 0 -> <<r[3], r[2], r[1], r[4]>>
    [] OTHER -> <<r[4], r[2], r[3], r[1]>>

\* reps after a repeated match: the one used comes to the front.
RepsAfter(path, r) ==
  CASE path[3] = 0 -> r
    [] path[3] = 1 /\ path[4] = 0 -> <<r[2], r[1], r[3], r[4]>>
    [] path[3] = 1 /\ path[4] = 1 /\ path[5] = 0 -> <<r[3], r[1], r[2], r[4]>>
    [] OTHER -> <<r[4], r[1], r[2], r[3]>>

\* A match of len cells, up to limit; what is left of it becomes remainLen.
WriteMatch(p, len, limit) ==
  LET n == Lesser(len, limit - p.dicPos) IN [Copy(p, n) EXCEPT !.remainLen = len - n]

\* What a symbol does.  A result [p, ok, stop]: stop ends the loop whatever the limits.
Step(p, ok, stop) == [p |-> p, ok |-> ok, stop |-> stop]
Literal(p, byte) == Step([Put(p, byte) EXCEPT !.state = AfterLiteral(@)], TRUE, FALSE)
ShortRep(p) == Step([Copy(p, 1) EXCEPT !.state = After(@, 9, 11)], TRUE, FALSE)
Match(p, len, limit) == Step(WriteMatch(p, len, limit), TRUE, p.dicPos = limit)
RepMatch(p, reps, len, limit) == Match([p EXCEPT !.reps = reps, !.state = After(@, 8, 11)], len, limit)
Used(p, distance) == [p EXCEPT !.state = After(@, 7, 10), !.reps = <<distance + 1, @[1], @[2], @[3]>>]
NewMatch(p, distance, len, limit) ==
  IF distance = EndMark THEN Step([p EXCEPT !.remainLen = SpecLenStart], TRUE, TRUE)
  ELSE IF distance >= (IF p.checkDicSize = 0 THEN p.processedPos ELSE p.checkDicSize)
  THEN Step(Used(p, distance), FALSE, TRUE) ELSE Match(Used(p, distance), len, limit)
\* l: the bits of the length, and those of the distance after them.
ApplyMatch(p, path, l, limit) ==
  IF IsRep(path) THEN RepMatch(p, RepsAfter(path, p.reps), LenValue(l) + MinLen, limit)
  ELSE NewMatch(p, Distance(From(l, LenSize(l) + 1)), LenValue(l) + MinLen, limit)
Apply(p, path, limit) ==
  IF path[1] = 0 THEN Literal(p, Number(Tail(path)))
  ELSE IF path = <<1, 1, 0, 0>> THEN ShortRep(p) ELSE ApplyMatch(p, path, From(path, LenAt(path)), limit)

\* LZMA_DECODE_REAL: a symbol, and more while input and output are below their limits.
\* p is the decoder before it, c the symbol, r what it did, n its last normalisation.
RECURSIVE DecodeReal(_, _, _, _, _)
Decoded(p, c, r, n, limit, src, bufLimit) ==
  IF c.short THEN [p |-> p, pos |-> Len(src) + 1, ok |-> FALSE]
  ELSE IF r.stop \/ r.p.dicPos >= limit \/ c.pos >= bufLimit
  THEN [p |-> [r.p EXCEPT !.range = n.range, !.code = n.code], ok |-> r.ok, pos |-> n.pos + IF n.short THEN 1 ELSE 0]
  ELSE DecodeReal(r.p, c.pos, limit, src, bufLimit)
DecodeApplied(p, x, c, limit, src, bufLimit) ==
  Decoded(p, c, Apply([p EXCEPT !.probs = c.probs, !.range = c.range, !.code = c.code, !.stray = @ \/ x.stray], c.path, limit),
          Normalize([c EXCEPT !.path = <<>>], src), limit, src, bufLimit)
DecodeIn(p, x, pos, limit, src, bufLimit) ==
  DecodeApplied(p, x, ReadSymbol(Coder(p, pos, TRUE), x, src), limit, src, bufLimit)
DecodeReal(p, pos, limit, src, bufLimit) == DecodeIn(p, Context(p), pos, limit, src, bufLimit)

\* Until dicSize cells are decoded a match may reach only as far as there are cells.
DicChecked(r) == [r EXCEPT !.p.checkDicSize = IF @ = 0 /\ r.p.processedPos >= r.p.dicSize THEN r.p.dicSize ELSE @]
DecodeReal2(p, limit, src, bufLimit) ==
  DicChecked(DecodeReal(p, 0, IF p.checkDicSize = 0 THEN Lesser(limit, p.dicPos + p.dicSize - p.processedPos) ELSE limit,
                        src, bufLimit))

\* LzmaDec_WriteRem: the rest of a match that met the limit before.
WriteRem(p, limit) ==
  LET n == Lesser(p.remainLen, limit - p.dicPos)
      full == p.checkDicSize = 0 /\ p.dicSize - p.processedPos <= n
  IN IF n = 0 THEN p
     ELSE [Copy(p, n) EXCEPT !.remainLen = @ - n, !.checkDicSize = IF full THEN p.dicSize ELSE @]

\* LzmaDec_TryDummy: is the next symbol all there, how many bytes is it, what kind?
Measured(x, c, n) ==
  IF c.short \/ n.short THEN [kind |-> "eof", size |-> 0, stray |-> x.stray]
  ELSE [kind |-> IF c.path[1] = 0 THEN "literal" ELSE IF IsRep(c.path) THEN "rep" ELSE "match",
        size |-> n.pos, stray |-> x.stray]
DummySymbol(x, c, src) == Measured(x, c, Normalize(c, src))
DummyIn(p, x, src) == DummySymbol(x, ReadSymbol(Coder(p, 0, FALSE), x, src), src)
Dummy(p, src) == DummyIn(p, Context(p), src)

-----------------------------------------------------------------------------
(* LzmaDec_DecodeToDic.  A call returns [p, used, res, status]; within it    *)
(* the same record is passed on with res = "go".                             *)

Go(p, used) == [p |-> p, used |-> used, res |-> "go", status |-> "none"]
Ret(r, res, status) == [r EXCEPT !.res = res, !.status = status]
Failed(r, mark) == Ret([r EXCEPT !.p.remainLen = mark], IF mark = ErrorFail THEN "fail" ELSE "data", "none")

Range0 == Word - 1
Bound0 == (Range0 \div ModelTotal) * (ModelTotal \div 2)
\* A mutant: the first symbol may repeat a match.
BadRepCodeNone == Word
BadRepCode == Bound0 + ((Range0 - Bound0) \div ModelTotal) * (ModelTotal \div 2)

\* The first bytes start the range coder; the first symbol of all must not repeat a match.
Code(temp) == LET f[i \in 1..InitSize] == IF i = 1 THEN 0 ELSE f[i - 1] * Byte + temp[i] IN f[InitSize]
Begun(p, code) ==
  IF p.remainLen = NeedState
  THEN [p EXCEPT !.tempBuf = <<>>, !.code = code, !.range = Range0, !.remainLen = 0,
                 !.probs = <<>>, !.reps = <<1, 1, 1, 1>>, !.state = 0]
  ELSE [p EXCEPT !.tempBuf = <<>>, !.code = code, !.range = Range0, !.remainLen = 0, !.stray = @ \/ p.reps = Unset]
FirstCode(p, n, code) ==
  IF ~Started(p) /\ code >= BadRepCode THEN Ret(Go([p EXCEPT !.code = code], n), "data", "none") ELSE Go(Begun(p, code), n)
FirstBytes(p, n, temp) ==
  IF temp # <<>> /\ temp[1] # 0 THEN Ret(Go([p EXCEPT !.tempBuf = temp], n), "data", "none")
  ELSE IF Len(temp) < InitSize THEN Ret(Go([p EXCEPT !.tempBuf = temp], n), "ok", "needsInput")
  ELSE FirstCode([p EXCEPT !.tempBuf = temp], n, Code(temp))
FirstOf(p, src, n) == FirstBytes(p, n, p.tempBuf \o SubSeq(src, 1, n))
\* A mutant: the bytes kept from before are not counted.
StartRangeAfresh(p, src) == FirstOf(p, src, Lesser(Len(src), InitSize))
StartRange(p, src) == FirstOf(p, src, Lesser(Len(src), InitSize - Len(p.tempBuf)))

\* What TryDummy found is kept until there is more of it, or until a call may decode it.
KeptInput(r, rest, src) ==
  IF Len(rest) >= InputMax THEN Failed(r, ErrorFail)
  ELSE Ret([r EXCEPT !.p.tempBuf = rest, !.used = Len(src)], "ok", "needsInput")
NoMark(r, bytes, n) == Ret([r EXCEPT !.p.tempBuf = bytes, !.used = @ + n], "data", "notFinished")
Checked(q, ok) == IF ok THEN q ELSE Failed(q, ErrorData)

\* Symbols from the caller's input: many while it lasts, the last few one by one.
InputDecoded(r, rest, single, dummy, d) ==
  IF (IF single THEN dummy.size # d.pos ELSE d.pos > Len(rest)) THEN Failed(r, ErrorFail)
  ELSE Checked(Go([d.p EXCEPT !.stray = @ \/ (single /\ dummy.stray)], r.used + d.pos), d.ok)
InputMeasured(r, rest, src, dicLimit, single, checkMark, dummy) ==
  IF single /\ dummy.kind = "eof" THEN KeptInput(r, rest, src)
  ELSE IF single /\ dummy.size > InputMax THEN Failed(r, ErrorFail)
  ELSE IF checkMark /\ dummy.kind # "match" THEN NoMark(r, SubSeq(rest, 1, dummy.size), dummy.size)
  ELSE InputDecoded(r, rest, single, dummy, DecodeReal2(r.p, dicLimit, rest, IF single THEN 0 ELSE Len(rest) - InputMax))
InputFrom(r, rest, src, dicLimit, checkMark) ==
  InputMeasured(r, rest, src, dicLimit, Len(rest) < InputMax \/ checkMark, checkMark, Dummy(r.p, rest))
FromInput(r, src, dicLimit, checkMark) == InputFrom(r, From(src, r.used + 1), src, dicLimit, checkMark)

\* The symbol whose first bytes were kept: tempBuf, filled up from the input.
KeptTemp(r, temp, ahead) ==
  IF Len(temp) >= InputMax THEN Failed(r, ErrorFail)
  ELSE Ret([r EXCEPT !.p.tempBuf = temp, !.used = @ + ahead], "ok", "needsInput")
TempDecoded(r, kept, single, dummy, d) ==
  IF (IF single THEN dummy.size # d.pos ELSE d.pos < kept \/ d.pos > InputMax) THEN Failed(r, ErrorFail)
  ELSE Checked(Go([d.p EXCEPT !.tempBuf = <<>>], r.used + d.pos - kept), d.ok)
TempMeasured(r, kept, ahead, temp, dicLimit, single, checkMark, dummy) ==
  IF single /\ dummy.kind = "eof" THEN KeptTemp(r, temp, ahead)
  ELSE IF single /\ dummy.size < kept THEN Failed(r, ErrorFail)
  ELSE IF checkMark /\ dummy.kind # "match" THEN NoMark(r, SubSeq(temp, 1, dummy.size), dummy.size - kept)
  ELSE TempDecoded(r, kept, single, dummy, DecodeReal2(r.p, dicLimit, temp, 0))
TempFilled(r, ahead, temp, dicLimit, checkMark) ==
  TempMeasured(r, Len(r.p.tempBuf), ahead, temp, dicLimit, Len(temp) < InputMax \/ checkMark, checkMark, Dummy(r.p, temp))
TempWith(r, src, ahead, dicLimit, checkMark) ==
  TempFilled(r, ahead, r.p.tempBuf \o SubSeq(src, r.used + 1, r.used + ahead), dicLimit, checkMark)
FromTemp(r, src, dicLimit, checkMark) ==
  TempWith(r, src, Lesser(InputMax - Len(r.p.tempBuf), Len(src) - r.used), dicLimit, checkMark)

RECURSIVE DecodeTurns(_, _, _, _)
DecodeTurn(q, atLimit, src, dicLimit, finish) ==
  IF atLimit /\ q.p.remainLen = 0 /\ q.p.code = 0 THEN Ret(q, "ok", "maybeFinished")
  ELSE IF atLimit /\ finish = "any" THEN Ret(q, "ok", "notFinished")
  ELSE IF atLimit /\ q.p.remainLen # 0 THEN Ret(q, "data", "notFinished")
  ELSE DecodeTurns(IF q.p.tempBuf = <<>> THEN FromInput(q, src, dicLimit, atLimit) ELSE FromTemp(q, src, dicLimit, atLimit),
                   src, dicLimit, finish)
RemWritten(q, src, dicLimit, finish) == DecodeTurn(q, q.p.dicPos >= dicLimit, src, dicLimit, finish)
DecodeTurns(r, src, dicLimit, finish) ==
  IF r.res # "go" THEN r
  ELSE IF r.p.remainLen = SpecLenStart THEN IF r.p.code # 0 THEN Ret(r, "data", "none") ELSE Ret(r, "ok", "mark")
  ELSE RemWritten([r EXCEPT !.p = WriteRem(r.p, dicLimit)], src, dicLimit, finish)

LzmaDec_DecodeToDic(p, dicLimit, src, finish) ==
  IF p.remainLen > NeedState THEN Ret(Go(p, 0), IF p.remainLen = ErrorFail THEN "fail" ELSE "data", "none")
  ELSE DecodeTurns(IF p.remainLen > SpecLenStart THEN StartRange(p, src) ELSE Go(p, 0), src, dicLimit, finish)

\* LzmaDec_DecodeToBuf: through a dictionary that wraps around; out is what it hands over.
RECURSIVE LzmaDec_DecodeToBuf(_, _, _, _)
HandedOver(r, out) == [p |-> r.p, used |-> r.used, res |-> r.res, status |-> r.status, out |-> out]
HandedAfter(r, out, more) == [more EXCEPT !.used = @ + r.used, !.out = out \o @]
BufTurn(r, start, n, outSize, src, finish) ==
  IF r.res # "ok" \/ n = 0 \/ n = outSize THEN HandedOver(r, [i \in 1..n |-> r.p.dic[start + i - 1]])
  ELSE HandedAfter(r, [i \in 1..n |-> r.p.dic[start + i - 1]],
                   LzmaDec_DecodeToBuf(r.p, outSize - n, From(src, r.used + 1), finish))
BufDecoded(r, start, outSize, src, finish) == BufTurn(r, start, r.p.dicPos - start, outSize, src, finish)
BufFrom(p, start, wraps, outSize, src, finish) ==
  BufDecoded(LzmaDec_DecodeToDic([p EXCEPT !.dicPos = start], IF wraps THEN p.dicBufSize ELSE start + outSize, src,
                                 IF wraps THEN "any" ELSE finish), start, outSize, src, finish)
BufStart(p, start, outSize, src, finish) == BufFrom(p, start, outSize > p.dicBufSize - start, outSize, src, finish)
LzmaDec_DecodeToBuf(p, outSize, src, finish) ==
  BufStart(p, IF p.dicPos = p.dicBufSize THEN 0 ELSE p.dicPos, outSize, src, finish)
=============================================================================
