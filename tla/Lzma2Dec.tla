------------------------------- MODULE Lzma2Dec -------------------------------
(* LZMA2 (Lzma2Dec.c): chunks of LZMA, or of plain bytes, behind control     *)
(* bytes that say what of the decoder starts anew.  A decoder is             *)
(* [state, needInitLevel, control, unpackSize, packSize, decoder].           *)
EXTENDS LzmaDec

CONSTANT LclpMax        \* 4: LZMA2_LCLP_MAX

\* Eighths of a byte: 0x80, 0xA0, 0xC0 and 0xE0 are 4, 5, 6 and 7 of them.
Eighths(n) == n * (Byte \div 8)

Lzma2Dec_Init(props, n) ==
  [state |-> "control", needInitLevel |-> Eighths(7), control |-> 0, unpackSize |-> 0, packSize |-> 0,
   decoder |-> LzmaDec_Init(props, n)]

\* The size of a dictionary by its property; none but 0 to 40 is known.
DicSizeFromProp(prop) == (2 + (prop % 2)) * 2^((prop \div 2) + 11)

Uncompressed(p) == p.control < Eighths(4)

\* Lzma2Dec_UpdateState of a control byte: what was not yet begun must begin with this chunk.
Control(p, b) ==
  LET q == [p EXCEPT !.control = b] IN
  IF b = 0 THEN [q EXCEPT !.state = "finished"]
  ELSE IF b = 1 THEN [q EXCEPT !.needInitLevel = Eighths(6), !.state = "unpack0"]
  ELSE IF b < Eighths(4)
  THEN [q EXCEPT !.state = IF b > 2 \/ p.needInitLevel = Eighths(7) THEN "error" ELSE "unpack0"]
  ELSE IF b < p.needInitLevel THEN [q EXCEPT !.state = "error"]
  ELSE [q EXCEPT !.needInitLevel = 0, !.unpackSize = (b % Eighths(1)) * Byte * Byte, !.state = "unpack0"]

NewProps(p, b) ==
  LET lc == b % 9
      lp == (b \div 9) % 5
  IN IF b >= 9 * 5 * 5 \/ lc + lp > LclpMax THEN [p EXCEPT !.state = "error"]
     ELSE [p EXCEPT !.state = "data", !.decoder.lc = lc, !.decoder.lp = lp, !.decoder.pb = b \div 45]

\* The size of a plain chunk is 0 before its bytes come: only a control byte of LZMA sets the high bits.
Lzma2Dec_UpdateState(p, b) ==
  CASE p.state = "control" -> Control(p, b)
    [] p.state = "unpack0" -> [p EXCEPT !.unpackSize = @ + b * Byte, !.state = "unpack1"]
    [] p.state = "unpack1" -> [p EXCEPT !.unpackSize = @ + b + 1, !.state = IF Uncompressed(p) THEN "data" ELSE "pack0"]
    [] p.state = "pack0" -> [p EXCEPT !.packSize = b * Byte, !.state = "pack1"]
    [] p.state = "pack1" -> [p EXCEPT !.packSize = @ + b + 1, !.state = IF p.control >= Eighths(6) THEN "prop" ELSE "data"]
    [] p.state = "prop" -> NewProps(p, b)

\* LzmaDec_UpdateWithUncompressed
UpdateWithUncompressed(p, bytes) ==
  LET n == Len(bytes)
      full == p.checkDicSize = 0 /\ p.dicSize - p.processedPos <= n
  IN [p EXCEPT !.dic = [i \in DOMAIN @ |-> IF i - p.dicPos \in 0..n - 1 THEN bytes[i - p.dicPos + 1] ELSE @[i]],
               !.dicPos = @ + n, !.processedPos = @ + n, !.checkDicSize = IF full THEN p.dicSize ELSE @]

Broken(r) == [r EXCEPT !.p.state = "error", !.res = "data", !.status = "none"]

PlainTurn(r, rest, outCur) ==
  LET q == IF r.p.state = "data" THEN LzmaDec_InitDicAndState(r.p.decoder, r.p.control = 1, FALSE) ELSE r.p.decoder
      n == Lesser(Len(rest), outCur)
      left == r.p.unpackSize - n
  IN IF rest = <<>> THEN Ret(r, "ok", "needsInput")
     ELSE IF n = 0 THEN Broken(r)
     ELSE Go([r.p EXCEPT !.decoder = UpdateWithUncompressed(q, SubSeq(rest, 1, n)), !.unpackSize = left,
                         !.state = IF left = 0 THEN "control" ELSE "dataCont"], r.used + n)

\* The end of a chunk comes only when the decoder neither reads nor writes any more.
ChunkEnd(d, n, next, s) ==
  IF d.res # "ok" THEN Broken(s)
  ELSE IF d.status = "needsInput" THEN IF next.packSize = 0 THEN Broken(s) ELSE Ret(s, "ok", "needsInput")
  ELSE IF d.used # 0 \/ n # 0 THEN s
  ELSE IF d.status = "maybeFinished" /\ next.unpackSize = 0 /\ next.packSize = 0
  THEN [s EXCEPT !.p.state = "control"] ELSE Broken(s)
ChunkNext(r, d, n, next) == ChunkEnd(d, n, next, Go(next, r.used + d.used))
ChunkDecoded(r, d, n) ==
  ChunkNext(r, d, n, [r.p EXCEPT !.decoder = d.p, !.packSize = @ - d.used, !.unpackSize = @ - n, !.state = "dataCont"])
ChunkTurn(r, q, d) == ChunkDecoded(r, d, d.p.dicPos - q.dicPos)
ChunkFrom(r, q, rest, outCur, finish) ==
  ChunkTurn(r, q, LzmaDec_DecodeToDic(q, q.dicPos + outCur, SubSeq(rest, 1, Lesser(Len(rest), r.p.packSize)), finish))
LzmaTurn(r, rest, outCur, finish) ==
  ChunkFrom(r, IF r.p.state # "data" THEN r.p.decoder
               ELSE LzmaDec_InitDicAndState(r.p.decoder, r.p.control >= Eighths(7), r.p.control >= Eighths(5)),
            rest, outCur, finish)

RECURSIVE Lzma2Turns(_, _, _, _)
AfterByte(step, atLimit, src, dicLimit, finish) ==
  IF atLimit /\ step.p.state # "finished" THEN Broken(step) ELSE Lzma2Turns(step, src, dicLimit, finish)
DataTurn(r, rest, room) ==
  IF Uncompressed(r.p) THEN PlainTurn(r, rest, Lesser(room, r.p.unpackSize))
  ELSE LzmaTurn(r, rest, Lesser(room, r.p.unpackSize), IF room >= r.p.unpackSize THEN "end" ELSE "any")
Lzma2Turn(r, rest, room, src, dicLimit, finish) ==
  IF r.p.state \in {"data", "dataCont"} THEN Lzma2Turns(DataTurn(r, rest, room), src, dicLimit, finish)
  ELSE IF rest = <<>> THEN Ret(r, "ok", "needsInput")
  ELSE AfterByte(Go(Lzma2Dec_UpdateState(r.p, rest[1]), r.used + 1), room = 0, src, dicLimit, finish)
Lzma2Turns(r, src, dicLimit, finish) ==
  IF r.res # "go" THEN r
  ELSE IF r.p.state = "error" THEN Broken(r)
  ELSE IF r.p.state = "finished" THEN Ret(r, "ok", "mark")
  ELSE IF r.p.decoder.dicPos = dicLimit /\ finish = "any" THEN Ret(r, "ok", "notFinished")
  ELSE Lzma2Turn(r, From(src, r.used + 1), dicLimit - r.p.decoder.dicPos, src, dicLimit, finish)

Lzma2Dec_DecodeToDic(p, dicLimit, src, finish) == Lzma2Turns(Go(p, 0), src, dicLimit, finish)

\* Lzma2Dec_DecodeToBuf: through a dictionary that wraps around.
RECURSIVE Lzma2Dec_DecodeToBuf(_, _, _, _)
Buf2Turn(r, start, n, outSize, src, finish) ==
  IF r.res # "ok" \/ n = 0 \/ n = outSize THEN HandedOver(r, [i \in 1..n |-> r.p.decoder.dic[start + i - 1]])
  ELSE HandedAfter(r, [i \in 1..n |-> r.p.decoder.dic[start + i - 1]],
                   Lzma2Dec_DecodeToBuf(r.p, outSize - n, From(src, r.used + 1), finish))
Buf2Decoded(r, start, outSize, src, finish) == Buf2Turn(r, start, r.p.decoder.dicPos - start, outSize, src, finish)
Buf2Start(p, start, room, outSize, src, finish) ==
  Buf2Decoded(Lzma2Dec_DecodeToDic([p EXCEPT !.decoder.dicPos = start], start + Lesser(room, outSize), src,
                                   IF room >= outSize THEN finish ELSE "any"), start, outSize, src, finish)
Buf2From(p, start, outSize, src, finish) == Buf2Start(p, start, p.decoder.dicBufSize - start, outSize, src, finish)
Lzma2Dec_DecodeToBuf(p, outSize, src, finish) ==
  Buf2From(p, IF p.decoder.dicPos = p.decoder.dicBufSize THEN 0 ELSE p.decoder.dicPos, outSize, src, finish)
=============================================================================
