------------------------------ MODULE Matchfinder ------------------------------
(* The three matchfinders of the DEFLATE compressor (matchfinder_common.h,   *)
(* ht_, hc_ and bt_matchfinder.h): hash tables, chains and binary trees of   *)
(* the positions of the last window.  Positions are kept relative to a base  *)
(* that moves by whole windows.                                              *)
EXTENDS Integers, Sequences

CONSTANTS
  Window,      \* MATCHFINDER_WINDOW_SIZE, scaled down: a power of two
  HashSize     \* buckets of a hash table; few of them make sequences collide

WindowAssumption == Window \in {2^k : k \in 1..15} /\ HashSize > 0

\* MATCHFINDER_INITVAL is outside of every window; a link that was never set may be anything.
Outside == -Window
Unset == 4 * Window
RequiredBytes == 5

\* Bytes are counted from 0.
At(in, i) == in[i + 1]
\* lz_hash: a function of the bytes that gives 0 for zeroes, as the multiplication does.
RECURSIVE lz_hash(_)
lz_hash(bytes) == IF bytes = <<>> THEN 0 ELSE ((5 * Head(bytes)) + (7 * lz_hash(Tail(bytes)))) % HashSize
HashesAt(in, i) == [h3 |-> lz_hash(SubSeq(in, i + 1, i + 3)), h4 |-> lz_hash(SubSeq(in, i + 1, i + 4))]

Same(in, i, j, n) == \A k \in 0..n - 1 : At(in, i + k) = At(in, j + k)
\* lz_extend: how far the bytes at two places are the same, a word at a time while one fits.
lz_extend(in, str, match, start, max) ==
  IF Same(in, str, match, max) THEN max
  ELSE CHOOSE n \in start..max - 1 : Same(in, str, match, n) /\ At(in, str + n) # At(in, match + n)

\* A finder: [base, h3, h4, links, hashes]: two tables of buckets, the links of chains or trees, which
\* are not cleared at the start, and the hashes of the next position to be entered.
Buckets(ways) == [b \in 0..HashSize - 1 |-> [w \in 1..ways |-> Outside]]
NewFinder(ways3, ways4, links) ==
  [base |-> 0, h3 |-> Buckets(ways3), h4 |-> Buckets(ways4), links |-> [k \in 0..links * Window - 1 |-> Unset], hashes |-> [h3 |-> 0, h4 |-> 0]]
ht_matchfinder_init == NewFinder(0, 2, 0)
hc_matchfinder_init == NewFinder(1, 1, 1)
bt_matchfinder_init == NewFinder(2, 1, 2)

\* matchfinder_rebase: a position before the old base is outside for good.
Rebased(pos) == IF pos = Unset THEN Unset ELSE IF pos < 0 THEN Outside ELSE pos - Window
slide_window(f) ==
  [f EXCEPT !.base = @ + Window,
            !.h3 = [b \in DOMAIN @ |-> [w \in DOMAIN @[b] |-> Rebased(@[b][w])]],
            !.h4 = [b \in DOMAIN @ |-> [w \in DOMAIN @[b] |-> Rebased(@[b][w])]],
            !.links = [k \in DOMAIN @ |-> Rebased(@[k])]]
Slid(f, next) == IF next - f.base = Window THEN slide_window(f) ELSE f
\* A mutant: the last place of the window is not looked at.
CutoffEarly(f, next) == (next - f.base) - Window + 1
Cutoff(f, next) == (next - f.base) - Window
Found(f, len, offset) == [f |-> f, len |-> len, offset |-> offset]

-----------------------------------------------------------------------------
(* Hash tables of two positions: for matches of four bytes and more.         *)

\* The first position is looked at, then the second; it is looked at as well behind a match of the
\* first when its bytes there are the same.
ht_best(f, in, next, first, second, max, nice) ==
  LET Len4(node) == lz_extend(in, next, f.base + node, 4, max)
      Fits(node) == Same(in, next, f.base + node, 4)
      at == Cutoff(f, next)
      one == IF Fits(first) THEN Len4(first) ELSE 0
      more == second > at /\ Fits(second)
              /\ (one = 0 \/ (one < nice /\ Same(in, next + one - 3, f.base + second + one - 3, 4)))
  IN IF more /\ Len4(second) > one THEN <<Len4(second), next - (f.base + second)>>
     ELSE IF one > 0 THEN <<one, next - (f.base + first)>> ELSE <<0, 0>>
ht_search(f, in, next, max, nice) ==
  LET pos == next - f.base
      bucket == f.h4[f.hashes.h4]
      entered == [f EXCEPT !.h4[f.hashes.h4] = IF bucket[1] <= Cutoff(f, next) THEN <<pos, bucket[2]>> ELSE <<pos, bucket[1]>>,
                           !.hashes = HashesAt(in, next + 1)]
      best == ht_best(f, in, next, bucket[1], bucket[2], max, nice)
  IN IF bucket[1] <= Cutoff(f, next) THEN Found(entered, 0, 0) ELSE Found(entered, best[1], best[2])
ht_matchfinder_longest_match(f, in, next, max, nice) == ht_search(Slid(f, next), in, next, max, nice)

RECURSIVE ht_skip(_, _, _, _)
ht_skip(f, in, next, count) ==
  IF count = 0 THEN f
  ELSE ht_skip([f EXCEPT !.h4[f.hashes.h4] = <<next - f.base, @[1]>>, !.hashes = HashesAt(in, next + 1)], in, next + 1, count - 1)
\* The window slides first when it has to under way; near the end nothing is entered any more.
ht_matchfinder_skip_bytes(f, in, next, count) ==
  IF count + RequiredBytes > Len(in) - next THEN f
  ELSE ht_skip(IF (next - f.base) + count - 1 >= Window THEN slide_window(f) ELSE f, in, next, count)

-----------------------------------------------------------------------------
(* Hash chains: for the longest match that is longer than best.              *)

hc_enter(f, in, next) ==
  [f EXCEPT !.h3[f.hashes.h3] = <<next - f.base>>, !.h4[f.hashes.h4] = <<next - f.base>>,
            !.links[next - f.base] = f.h4[f.hashes.h4][1], !.hashes = HashesAt(in, next + 1)]

RECURSIVE hc_walk(_, _, _, _, _, _)
\* s: [node, depth, best, offset]; where a match is longer than best, the four bytes that end one byte
\* behind it are the same, and the first four.
hc_walk(f, in, next, s, max, nice) ==
  LET match == f.base + s.node
      fits == Same(in, next, match, 4) /\ (s.best < 4 \/ Same(in, next + s.best - 3, match + s.best - 3, 4))
      len == IF fits THEN lz_extend(in, next, match, 4, max) ELSE 0
      best == IF len > s.best THEN len ELSE s.best
      offset == IF len > s.best THEN next - match ELSE s.offset
      after == f.links[s.node % Window]
  IN IF (len > s.best /\ len >= nice) \/ after <= Cutoff(f, next) \/ s.depth = 1 THEN Found(f, best, offset)
     ELSE hc_walk(f, in, next, [node |-> after, depth |-> s.depth - 1, best |-> best, offset |-> offset], max, nice)

\* A match of three bytes comes from a table of its own; without one there, nor will there be one of four.
hc_search(f, entered, in, next, best, max, nice, depth) ==
  LET node3 == f.h3[f.hashes.h3][1]
      node4 == f.h4[f.hashes.h4][1]
      three == best < 3 /\ Same(in, next, f.base + node3, 3)
      s == [node |-> node4, depth |-> depth, best |-> IF three THEN 3 ELSE best, offset |-> IF three THEN next - (f.base + node3) ELSE 0]
  IN IF best < 4 /\ node3 <= Cutoff(f, next) THEN Found(entered, best, 0)
     ELSE IF best < 4 /\ node4 <= Cutoff(f, next) THEN Found(entered, s.best, s.offset)
     ELSE IF best >= 4 /\ (node4 <= Cutoff(f, next) \/ best >= nice) THEN Found(entered, best, 0)
     ELSE hc_walk(entered, in, next, IF best < 4 THEN s ELSE [s EXCEPT !.best = best, !.offset = 0], max, nice)
hc_matchfinder_longest_match(f, in, next, best, max, nice, depth) ==
  LET slid == Slid(f, next)
  IN IF max < RequiredBytes THEN Found(slid, best, 0)
     ELSE hc_search(slid, hc_enter(slid, in, next), in, next, best, max, nice, depth)

RECURSIVE hc_skip(_, _, _, _)
hc_skip(f, in, next, count) == IF count = 0 THEN f ELSE hc_skip(hc_enter(Slid(f, next), in, next), in, next + 1, count - 1)
hc_matchfinder_skip_bytes(f, in, next, count) ==
  IF count + RequiredBytes > Len(in) - next THEN f ELSE hc_skip(f, in, next, count)

-----------------------------------------------------------------------------
(* Binary trees: for a match of every length that is worth one.              *)

Left(node) == 2 * (node % Window)
Right(node) == 2 * (node % Window) + 1
RECURSIVE bt_walk(_, _, _, _)
\* The tree is cut in two on the way down, at the bytes of the new root.  t: [links, node, lt, gt, ltLen,
\* gtLen, len, best, matches, depth]: the links that wait for what is less, and greater, and how long
\* what is there agrees; s: [base, next, max, nice, record, cutoff].
bt_walk(t, in, next, s) ==
  LET match == s.base + t.node
      same == At(in, match + t.len) = At(in, next + t.len)
      len == IF same THEN lz_extend(in, next, match, t.len + 1, s.max) ELSE t.len
      new == same /\ (~s.record \/ len > t.best)
      matches == IF new /\ s.record THEN Append(t.matches, [length |-> len, offset |-> next - match]) ELSE t.matches
      less == At(in, match + len) < At(in, next + len)
      child == IF less THEN Right(t.node) ELSE Left(t.node)
      links == [t.links EXCEPT ![IF less THEN t.lt ELSE t.gt] = t.node]
      lt == IF less THEN child ELSE t.lt
      gt == IF less THEN t.gt ELSE child
      other == IF less THEN t.gtLen ELSE t.ltLen
  IN IF new /\ len >= s.nice
     THEN [links |-> [t.links EXCEPT ![t.lt] = t.links[Left(t.node)], ![t.gt] = t.links[Right(t.node)]], matches |-> matches]
     ELSE IF links[child] <= s.cutoff \/ t.depth = 1 THEN [links |-> [links EXCEPT ![lt] = Outside, ![gt] = Outside], matches |-> matches]
     ELSE bt_walk([links |-> links, node |-> links[child], lt |-> lt, gt |-> gt,
                   ltLen |-> IF less THEN len ELSE t.ltLen, gtLen |-> IF less THEN t.gtLen ELSE len,
                   len |-> IF other < len THEN other ELSE len,
                   best |-> IF new /\ s.record THEN len ELSE t.best, matches |-> matches, depth |-> t.depth - 1], in, next, s)

\* A match of three bytes is at the one or the other of the last two places with its hash.
bt_match3(f, in, next) ==
  LET bucket == f.h3[f.hashes.h3]
      Fits(node) == node > Cutoff(f, next) /\ Same(in, next, f.base + node, 3)
  IN IF bucket[1] <= Cutoff(f, next) THEN <<>>
     ELSE IF Fits(bucket[1]) THEN <<[length |-> 3, offset |-> next - (f.base + bucket[1])]>>
     ELSE IF Fits(bucket[2]) THEN <<[length |-> 3, offset |-> next - (f.base + bucket[2])]>>
     ELSE <<>>
bt_walked(f, in, next, max, nice, depth, record, root, pos, matches) ==
  IF root <= Cutoff(f, next) THEN [links |-> [f.links EXCEPT ![Left(pos)] = Outside, ![Right(pos)] = Outside], matches |-> matches]
  ELSE bt_walk([links |-> f.links, node |-> root, lt |-> Left(pos), gt |-> Right(pos), ltLen |-> 0, gtLen |-> 0, len |-> 0, best |-> 3,
                matches |-> matches, depth |-> depth], in, next,
               [base |-> f.base, max |-> max, nice |-> nice, record |-> record, cutoff |-> Cutoff(f, next)])
bt_matchfinder_advance_one_byte(f, in, next, max, nice, depth, record) ==
  LET pos == next - f.base
      walked == bt_walked(f, in, next, max, nice, depth, record, f.h4[f.hashes.h4][1], pos, IF record THEN bt_match3(f, in, next) ELSE <<>>)
  IN [f |-> [f EXCEPT !.h3[f.hashes.h3] = <<pos, @[1]>>, !.h4[f.hashes.h4] = <<pos>>, !.links = walked.links, !.hashes = HashesAt(in, next + 1)],
      matches |-> walked.matches]
bt_matchfinder_get_matches(f, in, next, max, nice, depth) == bt_matchfinder_advance_one_byte(f, in, next, max, nice, depth, TRUE)
bt_matchfinder_skip_byte(f, in, next, nice, depth) == bt_matchfinder_advance_one_byte(f, in, next, nice, nice, depth, FALSE).f

-----------------------------------------------------------------------------
(* What there is to be found.                                                *)

IsMatch(in, next, len, offset) ==
  offset \in 1..Window - 1 /\ offset <= next /\ next + len <= Len(in) /\ Same(in, next, next - offset, len)
\* The longest match in the window.  The first position of all is entered under the hash 0.
LongestMatch(in, next, max) ==
  LET places == {q \in 1..next - 1 : q > next - Window}
  IN CHOOSE n \in 0..max : (\E q \in places \cup {next} : Same(in, next, q, n) /\ (n = 0 \/ q # next))
                           /\ \A q \in places : n = max \/ ~Same(in, next, q, n + 1)
=============================================================================
