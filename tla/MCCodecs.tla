------------------------------- MODULE MCCodecs -------------------------------
(* Texts, streams, inputs and jobs for Codecs.                               *)
EXTENDS Codecs

CONSTANTS WordLen, TextLen

\* Words drawn from a list, by a generator of numbers: the k-th of them is times * seed + plus.  Both this
\* and the joining of words go by halves, so that no recursion is deep.
RECURSIVE Generated(_), JoinedWords(_, _, _)
Generated(k) ==
  LET half == Generated(k \div 2)
      twice == [times |-> (half.times * half.times) % 7875, plus |-> ((half.times * half.plus) + half.plus) % 7875]
  IN IF k = 0 THEN [times |-> 1, plus |-> 0]
     ELSE IF k % 2 = 0 THEN twice ELSE [times |-> (421 * twice.times) % 7875, plus |-> ((421 * twice.plus) + 1663) % 7875]
JoinedWords(word, from, to) ==
  LET mid == (from + to) \div 2
  IN IF from = to THEN word[from] ELSE JoinedWords(word, from, mid) \o JoinedWords(word, mid + 1, to)
Drawn(seed, n, words) ==
  LET g == [k \in 0..n - 1 |-> Generated(k)]
      word == [k \in 0..n - 1 |-> words[(((((g[k].times * seed) + g[k].plus) % 7875) \div 32) % Len(words)) + 1]]
  IN SubSeq(JoinedWords(word, 0, n - 1), 1, n)

-----------------------------------------------------------------------------
(* Texts for PPMd: words of three symbols, over and over; two of them, one   *)
(* after the other; with a rare symbol in between, or the end mark behind.   *)

Words == UNION {[1..n -> {0, 1, 5}] : n \in 1..WordLen}
Repeated(w, n) == [i \in 1..n |-> w[((i - 1) % Len(w)) + 1]]
Half == TextLen \div 2
Rare(t) == [i \in DOMAIN t |-> IF i % 7 = 0 THEN (i \div 7) % NumSymbols ELSE t[i]]
\* Texts in no order, of some of the symbols, in which vectors grow at any time.
Unordered(seed, k) == Drawn(seed, TextLen + Half, [i \in 1..k |-> <<i - 1>>])
MCTexts == {Repeated(w, TextLen) \o <<NumSymbols>> : w \in Words}
           \cup {Rare(Repeated(w, TextLen)) : w \in Words}
           \cup {Repeated(w, Half) \o Repeated(v, Half) : w \in Words, v \in {<<1>>, <<0, 1>>, <<2, 3, 2, 4>>}}
           \cup {Unordered(1554, 5), Unordered(740, 8), Unordered(1628, 8), Unordered(3848, 8), Unordered(4736, 5), Unordered(7585, 3)}
MCIndx2Units == <<1, 2, 4>>
MCNewBinEsc == <<15581, 7999, 22975, 18675, 25761, 23228, 26162, 24657>>
MCExpEscape == <<25, 14, 9, 7, 5, 5, 4, 4, 4, 3, 3, 3, 2, 2, 2, 2>>

\* The streams of LZMA and LZMA2.
LZ == INSTANCE MCLzmaStreams WITH Streams <- {}, s <- stream, d <- decoder, read <- consumed, out <- output, result <- verdict
MCLzmaInputs == LZ!MCStreams

\* Streams for DEFLATE, on 64 and on 32 bits: symbols of the most bits, in an input that has room for
\* the fast loop; symbols of few bits, so that it takes several turns; and three blocks in a short one.
Stream(word, in, out, blocks, lens, extras) ==
  [word |-> word, in |-> in, out |-> out, blocks |-> blocks, lens |-> lens, extras |-> extras, lengths |-> {258}]
MCStreams == {Stream(8, 33, 301, 1, {4, 11}, {5, 13}), Stream(4, 21, 281, 1, {4, 11}, {5, 13}),
              Stream(8, 33, 302, 1, {3, 11}, {0}), Stream(4, 24, 281, 1, {3, 11}, {0}),
              [Stream(8, 9, 3, 3, {4, 7, 8, 11}, {5, 13}) EXCEPT !.lengths = {3}]}

-----------------------------------------------------------------------------
(* Inputs for the compressor: repetitions, no repetition, and words of small *)
(* dictionaries in any order; one letter, then other ones.                   *)

Letters(k) == [i \in 1..k |-> <<96 + i>>]
Distinct(n, from) == [i \in 1..n |-> (from + i * 37) % 256]
LongWords == <<<<1, 2, 3, 4, 5, 6, 7>>, <<3, 4, 5, 6, 7, 8, 9, 10>>, <<11>>, <<2, 3, 4>>, <<12, 13, 14, 15, 16>>, <<15, 16, 17, 18, 19, 20>>>>
ShortWords == <<<<1, 2, 3>>, <<2, 3, 4, 5>>, <<9>>, <<3, 4, 5, 6>>>>
Data == {Repeated(<<97>>, 70), Repeated(<<97, 98, 97, 99>>, 75), Drawn(77, 34, Letters(2)), Drawn(77, 34, ShortWords), Distinct(70, 1),
         Drawn(3, 40, Letters(2)) \o Distinct(45, 200), Distinct(30, 9) \o Distinct(30, 9) \o Drawn(11, 30, ShortWords)}
        \cup {Drawn(s, 90, LongWords) : s \in {148, 222}} \cup {Drawn(s, 90, ShortWords) : s \in {31, 465}}
        \cup {Drawn(s, 70, Letters(3)) : s \in {558}}
Input(level, in, avail, word) == [level |-> level, in |-> in, avail |-> avail, word |-> word]
\* Every level, with room for all of it; and with less, down to the last byte, for words of 64 and of 32 bits.
MCInputs == {Input(l, in, 150, 4) : l \in 0..12, in \in Data}
            \cup {Input(l, in, n, w) : l \in {0, 1, 6, 12}, in \in {Distinct(70, 1), Drawn(444, 90, LongWords)}, n \in {20, 75, 110}, w \in {4, 8}}
            \cup {Input(6, in, n, w) : in \in {Drawn(77, 34, Letters(2)), Drawn(77, 34, ShortWords)}, n \in 6..24, w \in {4, 8}}

-----------------------------------------------------------------------------
(* Jobs.                                                                     *)

SeqsUpTo(S, n) == UNION {[1..k -> S] : k \in 0..n}

DeltaJobs == {[kind |-> "delta", delta |-> n, data |-> s] : n \in 1..3, s \in SeqsUpTo({0, 1, 255}, 4)}

\* Immediates at the ends of every field, and addresses that make them wrap around.
Imms == {0, 1, 31, 32, 2^16, 2^21 - 1, 2^21, 2^21 - 32, 2^22 - 1, 2^22, 2^23 - 3, 2^23, 2^24 - 32, 2^24 - 3, 2^24 - 1}
Places == {0, 4, 4096, 2^20, 2^24 - 4, 2^26, 2^30, 15 * 2^27 + 2^23 - 4}
WordJobs(kind, tops) == {[kind |-> kind, word |-> [top |-> t, imm |-> i], pc |-> pc] : t \in tops, i \in Imms, pc \in Places}
BranchJobs == {WordJobs("arm64", {0, 148, 151, 144, 176, 208, 240}), WordJobs("arm", {235, 234}),
               WordJobs("ppc", {72, 75, 76}), WordJobs("sparc", {64, 65, 127, 126, 95, 0})}
Halves == {0, 30 * 2048, 30 * 2048 + 1024, 31 * 2048 - 1, 31 * 2048, 32 * 2048 - 1}
ThumbJobs == {[kind |-> "armt", halves |-> h] : h \in SeqsUpTo(Halves, 4)}
Slots == [op : {5, 4}, kind : {0, 1}, sign : {0, 1}, imm : {0, 1, 2^19, 2^20 - 1}]
BundleJobs == {[kind |-> "ia64", bundle |-> [template |-> t, slots |-> <<s, [s EXCEPT !.imm = 3], s>>], pc |-> pc] :
                 t \in {0, 16, 18, 22}, s \in Slots, pc \in {0, 1, 2^20 - 1, 2^21 - 1}}
X86Jobs == {{[kind |-> "x86", bytes |-> b] : b \in S} : S \in {[1..9 -> {0, 255, 232}], [1..8 -> {0, 232, 247}]}}
Bcj2Jobs == {F!Bcj2Init(main, call, jump, rc, size) :
               main \in SeqsUpTo({"call", "0f", "8x", "other"}, 3), call \in {0, 4, 8}, jump \in {0, 4}, rc \in {3, 5, 7}, size \in {2, 6, 9}}

Request(pwd, salt, power) == [pwd |-> pwd, salt |-> salt, power |-> power]
MCRequests == {Request(<<11>>, <<>>, 0), Request(<<11>>, <<>>, 2), Request(<<11>>, <<>>, 3), Request(<<11>>, <<7>>, 2), Request(<<11, 12, 13>>, <<>>, 2),
               Request(<<11, 12, 13, 14>>, <<>>, 1), Request(<<>>, <<7, 8, 9>>, 1), Request(<<11, 12>>, <<7, 8>>, 63)}

\* Ciphered blocks in one memory, where they are deciphered or behind them.
CbcJobs == {[kind |-> "cbc", mem |-> [i \in 0..5 |-> IF i < 3 THEN {<<"C", i>>} ELSE {}], src |-> 0, dst |-> to, iv |-> {<<"iv", 0>>},
             done |-> 0, blocks |-> 3, cipher |-> [b \in 1..3 |-> {<<"C", b - 1>>}], first |-> {<<"iv", 0>>}] : to \in {0, 3}}

CrcJobs == {[kind |-> "crc", v |-> v, bytes |-> [i \in 1..n |-> {j \in 0..1 : ((i * i) + (seed * i * (j + 1))) % 3 # 0}],
             misaligned |-> m, bits |-> 2, poly |-> poly] :
              v \in {0..7, {1, 6}}, n \in {0, 1, 11, 12, 15, 27}, m \in 0..3, seed \in 0..1, poly \in {{0, 5, 7}, {2, 3, 7}}}

CodeJobs == {[kind |-> "code", lens |-> lens, tableBits |-> c[1], maxLen |-> 4, dynamic |-> c[2]] :
               lens \in [0..4 -> 0..4], c \in {<<2, TRUE>>, <<3, FALSE>>}}

\* Frequencies of up to four symbols, and such that a limit binds.
Used(f) == [s \in {t \in DOMAIN f : f[t] > 0} |-> f[s]]
HuffmanJob(n, max, f) == [kind |-> "huffman", numSyms |-> n, maxLen |-> max, freqs |-> Used(f), weights |-> SelectSeq([i \in 1..n |-> f[i - 1]], LAMBDA w : w > 0)]
HuffmanJobs == {HuffmanJob(4, max, f) : max \in {2, 3}, f \in [0..3 -> {0, 1, 2, 3, 5, 8, 13}]}
               \cup {HuffmanJob(8, max, [s \in 0..7 |-> <<1, 1, 2, 3, 5, 8, 13, 21>>[s + 1]]) : max \in 3..8}

CopyJobs == {[kind |-> "copy", offset |-> o, length |-> n, word |-> w] : o \in 1..16, n \in 3..48, w \in {4, 8}}

MCJobs == {DeltaJobs, ThumbJobs, BundleJobs, Bcj2Jobs, {K!NoKeys}, CbcJobs, CrcJobs, CodeJobs, HuffmanJobs, CopyJobs} \cup BranchJobs \cup X86Jobs
=============================================================================
