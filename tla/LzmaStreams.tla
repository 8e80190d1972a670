----------------------------- MODULE LzmaStreams -----------------------------
(* The three ways a stream of LZMA or LZMA2 is read: SzDecodeLzma and        *)
(* SzDecodeLzma2 decode a folder at once, straight into its output;          *)
(* SzFolderDecoder_StepTo stops at any target; ..._DecodeToBuf hands the     *)
(* output over through a dictionary that wraps around.  How much of the      *)
(* input a look into the stream finds is up to the stream.                   *)
EXTENDS Lzma2Dec

CONSTANTS
  Streams,      \* [codec, by, props, bytes, outSize, padded, text, extra]: the bytes code text, and
                \* extra bytes follow; text = <<>>: the bytes are not known to code anything
  LookSizes,    \* a look into the stream finds that many bytes, or all of them
  CipherBlock   \* 16: less than that may be left over behind a cipher

VARIABLES s, d, read, out, result

vars == <<s, d, read, out, result>>

Decoder(x) == IF s.codec = "LZMA" THEN x ELSE x.decoder
Start(x, n) == IF x.codec = "LZMA" THEN LzmaDec_Init(x.props, n) ELSE Lzma2Dec_Init(x.props, n)
Decode(x, limit, bytes, finish) ==
  IF s.codec = "LZMA" THEN LzmaDec_DecodeToDic(x, limit, bytes, finish) ELSE Lzma2Dec_DecodeToDic(x, limit, bytes, finish)
DecodeToBuf(x, n, bytes) ==
  IF s.codec = "LZMA" THEN LzmaDec_DecodeToBuf(x, n, bytes, "any") ELSE Lzma2Dec_DecodeToBuf(x, n, bytes, "any")

Left(pos) == Len(s.bytes) - pos
LeftIsFine(n) == IF s.padded THEN n < CipherBlock ELSE n = 0
Looks(pos) == {Left(pos)} \cup {n \in LookSizes : n < Left(pos)}
Piece(pos, n) == SubSeq(s.bytes, pos + 1, pos + n)

\* A turn of the loop of SzDecodeLzma: to the end of the output, and no byte left over.
Verdict(r, left, filled, stuck) ==
  CASE r.res # "ok" -> r.res
    [] r.res = "ok" /\ r.status = "mark" -> IF filled /\ LeftIsFine(left) THEN "ok" ELSE "data"
    [] r.res = "ok" /\ r.status = "maybeFinished" /\ filled /\ LeftIsFine(left) -> "ok"
    [] OTHER -> IF stuck THEN "data" ELSE "none"
TurnDone(x, pos, r) ==
  [d |-> r.p, read |-> pos + r.used,
   result |-> Verdict(r, Left(pos) - r.used, Decoder(r.p).dicPos = s.outSize,
                      r.used = 0 /\ Decoder(r.p).dicPos = Decoder(x).dicPos)]
Turn(x, pos, n) == TurnDone(x, pos, Decode(x, s.outSize, Piece(pos, n), "end"))

\* SzDecodeLzma when every look finds all there is.
RECURSIVE AtOnce(_)
AtOnce(t) == IF t.result # "none" THEN t ELSE AtOnce(Turn(t.d, t.read, Left(t.read)))

Init == /\ s \in Streams /\ read = 0 /\ out = <<>> /\ result = "none"
        /\ d = Start(s, IF s.by = "buffer" THEN s.props.dicSize ELSE s.outSize)

SzDecode(n) ==
  /\ s.by = "folder" /\ result = "none"
  /\ \E t \in {Turn(d, read, n)} : d' = t.d /\ read' = t.read /\ result' = t.result
  /\ UNCHANGED <<s, out>>

\* A turn of SzFolderDecoder_StepTo: up to a target, the end of the folder at last.
StepTo(n, target) ==
  /\ s.by = "steps" /\ result = "none"
  /\ Decoder(d).dicPos < target
  /\ \E r \in {Decode(d, target, Piece(read, n), IF target = s.outSize THEN "end" ELSE "any")} :
       /\ d' = r.p /\ read' = read + r.used
       /\ result' = IF r.res # "ok" THEN r.res
                    ELSE IF r.status = "mark" /\ Decoder(r.p).dicPos < target THEN "data"
                    ELSE IF Decoder(r.p).dicPos = s.outSize THEN "ok"
                    ELSE IF r.used = 0 /\ Decoder(r.p).dicPos = Decoder(d).dicPos THEN "data" ELSE "none"
  /\ UNCHANGED <<s, out>>

ToBuffer(n, size) ==
  /\ s.by = "buffer" /\ result = "none" /\ size <= s.outSize - Len(out)
  /\ \E r \in {DecodeToBuf(d, size, Piece(read, n))} :
       /\ d' = r.p /\ read' = read + r.used /\ out' = out \o r.out
       /\ result' = IF r.res # "ok" THEN r.res
                    ELSE IF Len(out') = s.outSize THEN "ok"
                    ELSE IF r.used = 0 /\ r.out = <<>> THEN "data" ELSE "none"
  /\ UNCHANGED s

Next == \/ \E n \in Looks(read) : SzDecode(n)
        \/ \E n \in Looks(read), target \in 1..s.outSize : StepTo(n, target)
        \/ \E n \in Looks(read), size \in 1..s.outSize : ToBuffer(n, size)
Spec == Init /\ [][Next]_vars

-----------------------------------------------------------------------------
(* Properties.                                                               *)

Output == IF s.by = "buffer" THEN out ELSE [i \in 1..Decoder(d).dicPos |-> Decoder(d).dic[i - 1]]
IsPrefixOf(a, b) == Len(a) <= Len(b) /\ a = SubSeq(b, 1, Len(a))

\* A stream that was encoded comes out as the text it stands for, in whatever pieces its bytes
\* come and wherever the output is stopped; the folder as a whole is refused unless it has the
\* size of the text and ends with the stream (LzmaDec_DecodeToDic, Lzma2Dec_DecodeToDic, SzDecodeLzma).
DecodesAsWritten ==
  s.text # <<>> =>
    /\ IsPrefixOf(Output, s.text)
    /\ s.by = "steps" /\ s.extra = 0 /\ s.outSize = Len(s.text) => result # "data"
    /\ s.by = "buffer" /\ s.extra = 0 /\ s.outSize <= Len(s.text) => result # "data"
    /\ s.by = "folder" /\ result # "none" =>
         (result = "ok" <=> s.outSize = Len(s.text) /\ LeftIsFine(s.extra))

SameAs(t) ==
  /\ result = t.result /\ (result = "ok" => Decoder(t.d).dicPos = Decoder(d).dicPos)
  /\ \A i \in 0..Lesser(Decoder(t.d).dicPos, Decoder(d).dicPos) - 1 : Decoder(d).dic[i] = Decoder(t.d).dic[i]

\* Any bytes at all decode to the same result, and as far as it goes the same output, as if
\* they had come in one piece (tempBuf and remainLen of CLzmaDec).
PiecesMakeNoDifference ==
  (s.by = "folder" /\ result # "none") =>
    \A t \in {AtOnce([d |-> Start(s, s.outSize), read |-> 0, result |-> "none"])} : SameAs(t)

\* Whatever the bytes, no cell of the dictionary, no distance and no probability is used before it
\* was set, and none beyond the dictionary (kBadRepCode, checkDicSize, needInitLevel); and the symbol
\* that TryDummy measured is the symbol that is then decoded, SZ_ERROR_FAIL never happens.
ReadsOnlyWhatIsSet == ~Decoder(d).stray /\ result # "fail"
=============================================================================
