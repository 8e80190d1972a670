---------------------------- MODULE MCLzmaStreams ----------------------------
(* An encoder for the streams of LzmaStreams: texts as lists of tokens,      *)
(* coded by the symbols' own rules, whole or damaged.                        *)
EXTENDS LzmaStreams

Bin(v, n) == [i \in 1..n |-> (v \div 2^(n - i)) % 2]
\* <<"lit", b>>, <<"short">>, <<"rep", k, len>>, <<"match", len, distance>>, <<"mark">>
LenBits(v) == IF v < 2^LowBits THEN <<0>> \o Bin(v, LowBits)
              ELSE IF v < 2 * 2^LowBits THEN <<1, 0>> \o Bin(v - 2^LowBits, LowBits)
              ELSE <<1, 1>> \o Bin(v - 2 * 2^LowBits, HighBits)
DistBits(v) ==
  LET top == CHOOSE h \in 0..12 : 2^h <= v /\ v < 2^(h + 1)
      slot == IF v < StartSlot THEN v ELSE 2 * top + ((v \div 2^(top - 1)) % 2)
      n == DirectBits(slot)
      low == Bin(v % 2^n, n)
  IN Bin(slot, SlotBits) \o (IF v < StartSlot THEN <<>>
                             ELSE IF slot < EndSlot THEN Reversed(low)
                             ELSE SubSeq(low, 1, n - AlignBits) \o Reversed(From(low, n - AlignBits + 1)))
Bits(t) == CASE t[1] = "lit" -> <<0>> \o Bin(t[2], ByteBits)
             [] t[1] = "short" -> <<1, 1, 0, 0>>
             [] t[1] = "rep" -> <<<<1, 1, 0, 1>>, <<1, 1, 1, 0>>, <<1, 1, 1, 1, 0>>, <<1, 1, 1, 1, 1>>>>[t[2] + 1] \o LenBits(t[3] - 2)
             [] t[1] = "match" -> <<1, 0>> \o LenBits(t[2] - 2) \o DistBits(t[3] - 1)
             [] t[1] = "mark" -> <<1, 0>> \o LenBits(0) \o DistBits(EndMark)

\* The text of the tokens, after a text already there.
Text(tokens, before, reps) ==
  LET Again(t, len, dist) == LET f[k \in 0..len] == IF k = 0 THEN t ELSE Append(f[k - 1], f[k - 1][Len(t) + k - dist]) IN f[len]
      f[i \in 0..Len(tokens)] ==
        IF i = 0 THEN [text |-> before, reps |-> reps]
        ELSE LET p == f[i - 1]
                 t == tokens[i]
                 k == IF t[1] = "rep" THEN t[2] + 1 ELSE 1
                 r == <<p.reps[k]>> \o SelectSeq([j \in 1..4 |-> IF j = k THEN 0 ELSE p.reps[j]], LAMBDA x : x # 0)
             IN CASE t[1] = "lit" -> [p EXCEPT !.text = Append(@, t[2])]
                  [] t[1] = "short" -> [p EXCEPT !.text = Again(@, 1, p.reps[1])]
                  [] t[1] = "rep" -> [text |-> Again(p.text, t[3], r[1]), reps |-> r]
                  [] t[1] = "match" -> [text |-> Again(p.text, t[2], t[3]), reps |-> <<t[3], p.reps[1], p.reps[2], p.reps[3]>>]
                  [] OTHER -> p
  IN f[Len(tokens)].text

Plain(tokens) == Text(tokens, <<>>, <<1, 1, 1, 1>>)

\* The encoder: bytes that will not change any more, then a window of the code's width.
Carried(e) == IF e.low < Word THEN e
              ELSE LET k == CHOOSE i \in DOMAIN e.bytes : e.bytes[i] < Byte - 1 /\ \A j \in i + 1..Len(e.bytes) : e.bytes[j] = Byte - 1
                   IN [e EXCEPT !.low = @ - Word, !.bytes = [i \in DOMAIN @ |-> IF i < k THEN @[i] ELSE IF i = k THEN @[i] + 1 ELSE 0]]
Shift(e) == IF e.range >= Top THEN e
            ELSE [e EXCEPT !.bytes = Append(@, e.low \div Top), !.low = (@ % Top) * Byte, !.range = @ * Byte]
Encode(e0, key, bit) ==
  LET e == Shift(e0)
      p == Prob(e.probs, key)
      bound == IF key = Direct THEN e.range \div 2 ELSE (e.range \div ModelTotal) * p
  IN Carried([e EXCEPT !.low = @ + bit * bound,
                       !.range = IF bit = 0 \/ key = Direct THEN bound ELSE @ - bound,
                       !.probs = IF key = Direct THEN @ ELSE (key :> Adapted(p, bit)) @@ @])
\* e.p is a decoder kept in step: it knows the context of the next symbol.
EncodeToken(e, t) ==
  LET b == Bits(t)
      x == Context(e.p)
      f[i \in 0..Len(b)] == IF i = 0 THEN e ELSE Encode(f[i - 1], NextKey(SubSeq(b, 1, i - 1), x), b[i])
  IN [f[Len(b)] EXCEPT !.p = Apply([e.p EXCEPT !.remainLen = 0], b, e.p.dicBufSize).p]
Begin(p, probs) == [bytes |-> <<0>>, low |-> 0, range |-> Range0, probs |-> probs, p |-> p]
EncodeAll(e, tokens) ==
  LET f[i \in 0..Len(tokens)] == IF i = 0 THEN e
        ELSE LET p == f[i - 1] IN IF p.range > 0 THEN EncodeToken(p, tokens[i]) ELSE p
  IN f[Len(tokens)]
Flush(e0) == LET e == Shift(e0) IN e.bytes \o [i \in 1..CodeBytes |-> (e.low \div Byte^(CodeBytes - i)) % Byte]

\* Not more than dicSize back.
Props(lc, lp, pb) == LzmaProps_Decode(9 * (5 * pb + lp) + lc, 2, 4)
EncoderState(props) == [LzmaDec_Init(props, 40) EXCEPT !.reps = <<1, 1, 1, 1>>]
Lzma(tokens, props) == Flush(EncodeAll(Begin(EncoderState(props), <<>>), tokens))

Lit(b) == <<"lit", b>>
Tokens == {
  <<Lit(5)>>,
  <<Lit(5), Lit(10), Lit(5), Lit(15), <<"mark">>>>,
  <<Lit(1), <<"short">>, Lit(1), <<"match", 3, 2>>, Lit(9), <<"short">>>>,
  <<Lit(3), Lit(12), <<"match", 2, 2>>, Lit(7), <<"match", 2, 1>>, <<"rep", 1, 2>>, Lit(4)>>,
  <<Lit(8), <<"match", 9, 1>>, <<"mark">>>>,
  <<Lit(2), Lit(6), Lit(11), <<"match", 2, 3>>, <<"match", 2, 1>>, <<"match", 2, 4>>, Lit(9), <<"rep", 2, 3>>, <<"rep", 1, 2>>, <<"rep", 3, 2>>, <<"rep", 0, 2>>>>,
  <<Lit(13), Lit(13), Lit(13), Lit(13), Lit(13), Lit(13), Lit(13), Lit(13), Lit(13)>> }

\* LZMA2: chunks <<control, tokens>> or <<control, bytes>>; state and text go on from chunk to chunk.
\* Bytes are stored; tokens are coded, after what the control byte resets, and get their header then.
Stored(e, c) == [e EXCEPT !.out = @ \o <<c[1], 0, Len(c[2]) - 1>> \o c[2], !.text = @ \o c[2],
                          !.p = UpdateWithUncompressed(LzmaDec_InitDicAndState(e.p, c[1] = 1, FALSE), c[2])]
Coded(e, c) ==
  LET p == IF c[1] >= Eighths(5) THEN [LzmaDec_InitDicAndState(e.p, c[1] >= Eighths(7), TRUE) EXCEPT !.reps = <<1, 1, 1, 1>>, !.state = 0]
           ELSE e.p
      q == IF c[1] >= Eighths(6) THEN NewProps([state |-> "prop", decoder |-> p], c[3]).decoder ELSE p
  IN [e EXCEPT !.p = q, !.coder = EncodeAll(Begin(q, IF c[1] >= Eighths(5) THEN <<>> ELSE e.p.probs), c[2])]
Framed(e, c) ==
  LET text == Text(c[2], e.text, e.p.reps)
      bytes == Flush(e.coder)
      TwoBytes(n) == <<n \div Byte, n % Byte>>
      head == <<c[1]>> \o TwoBytes(Len(text) - Len(e.text) - 1) \o TwoBytes(Len(bytes) - 1) \o IF c[1] >= Eighths(6) THEN <<c[3]>> ELSE <<>>
  IN [e EXCEPT !.out = @ \o head \o bytes, !.text = text, !.p = [e.coder.p EXCEPT !.probs = e.coder.probs]]
Lzma2(chunks) ==
  LET f[i \in 0..2 * Len(chunks)] ==
        IF i = 0 THEN [out |-> <<>>, text |-> <<>>, p |-> EncoderState(Props(0, 0, 0)), coder |-> <<>>]
        ELSE LET e == f[i - 1]
                 c == chunks[(i + 1) \div 2]
                 raw == c[1] < Eighths(4)
             IN IF i % 2 = 1 THEN IF raw THEN e ELSE Coded(e, c) ELSE IF raw THEN Stored(e, c) ELSE Framed(e, c)
  IN [out |-> Append(f[2 * Len(chunks)].out, 0), text |-> f[2 * Len(chunks)].text]
Chunks == {
  <<<<1, <<4, 4>>>>, <<12, <<Lit(5), <<"match", 2, 2>>>>, 10>>>>,
  <<<<14, <<Lit(7), <<"short">>, Lit(9)>>, 9>>, <<2, <<3>>>>, <<10, <<<<"match", 2, 1>>>>>>>>,
  <<<<14, <<Lit(7), Lit(6), <<"match", 2, 2>>>>, 1>>, <<8, <<<<"rep", 0, 2>>, Lit(1)>>>>, <<1, <<2, 2>>>>, <<14, <<Lit(4)>>, 0>>>> }

Stream(codec, by, props, bytes, outSize, padded, text, extra) ==
  [codec |-> codec, by |-> by, props |-> props, bytes |-> bytes, outSize |-> outSize, padded |-> padded, text |-> text, extra |-> extra]
More(bytes, n) == bytes \o [i \in 1..n |-> 3]
\* Every stream, in every way, with an output as long as the text, one less and one more.
Whole(codec, props, bytes, text) ==
  {Stream(codec, by, props, bytes, Len(text) + k, FALSE, text, 0) : by \in {"folder", "steps", "buffer"}, k \in {-1, 0, 1} \cap 1 - Len(text)..1}
  \cup {Stream(codec, "folder", props, More(bytes, n), Len(text), p, text, n) : n \in {1, 3}, p \in BOOLEAN}
LzmaTexts == {[out |-> Lzma(t, Props(2, 1, 1)), text |-> Plain(t)] : t \in Tokens}
Lzma2Texts == {Lzma2(c) : c \in Chunks}
Damaged(codec, props, bytes, n) ==
  {Stream(codec, "folder", props, [bytes EXCEPT ![i] = b], n, FALSE, <<>>, 0) : i \in DOMAIN bytes, b \in {0, 8, 15}}
  \cup {Stream(codec, "folder", props, SubSeq(bytes, 1, k), n, FALSE, <<>>, 0) : k \in 0..Len(bytes) - 1}
MCStreams == UNION ({Whole("LZMA", Props(2, 1, 1), x.out, x.text) \cup Damaged("LZMA", Props(2, 1, 1), x.out, Len(x.text) + 1) : x \in LzmaTexts}
                    \cup {Whole("LZMA2", Props(0, 0, 0), x.out, x.text) \cup Damaged("LZMA2", Props(0, 0, 0), x.out, Len(x.text)) : x \in Lzma2Texts})
=============================================================================
