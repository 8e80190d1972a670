---------------------------- MODULE DeflateCompress ----------------------------
(* The DEFLATE compressor (deflate_compress.c): bytes are divided into       *)
(* literals and matches, one turn of a loop after the other, in one of five  *)
(* ways, until a block is long enough, full, or what comes differs from it.  *)
EXTENDS DeflateBlock, Matchfinder
LOCAL INSTANCE TLC
LOCAL INSTANCE FiniteSetsExt
LOCAL INSTANCE SequencesExt

CONSTANTS                      \* all of them scaled down
  MinBlock,                    \* MIN_BLOCK_LENGTH
  SoftMax, FastSoftMax,        \* SOFT_MAX_BLOCK_LENGTH, FAST_SOFT_MAX_BLOCK_LENGTH
  SeqStore, FastSeqStore,      \* SEQ_STORE_LENGTH, FAST_SEQ_STORE_LENGTH
  MaxMatch,                    \* DEFLATE_MAX_MATCH_LEN
  MatchCacheLength,            \* MATCH_CACHE_LENGTH
  ObservationsPerCheck,        \* NUM_OBSERVATIONS_PER_BLOCK_CHECK
  ShortBlock, RecalcAfter,     \* 512 bytes, and 10000, in the choice of the minimum match length
  Inputs                       \* what is compressed: [level, in, avail, word]

MaxMatchesPerPos == MaxMatch - MinMatchLen + 1
MaxBlockLength == Greater(SoftMax + MinBlock - 1, SoftMax + 1 + MaxMatch)

\* check_buildtime_parameters, and what libdeflate_deflate_compress_bound asserts.
BuildtimeParameters ==
  /\ SoftMax >= FastSoftMax /\ FastSoftMax >= MinBlock
  /\ SeqStore * MinMatchLen \in MinBlock..SoftMax + MinBlock
  /\ FastSeqStore * 4 \in MinBlock..FastSoftMax + MinBlock
  /\ MinBlock * MaxMatchesPerPos <= MatchCacheLength
  /\ 2 * MinBlock <= StoredMax

\* Matches of three bytes from farther away are not taken: 4096 and 8192 of a window of 32768.
FarForGreedy == Window \div 8
FarForLazy == Window \div 4

VARIABLE z
\* z: [c, in, avail, word, at, next, begin, maxEnd, f, seqs, freqs, stats, minLen, max, nice, recalc,
\*     cur, os, result, last], and for the near-optimal way [cache, observeAt, checkedAt, changed, newLens, lens,
\*     prev, costs, onlyLits]; last: the last search, [next, best, max, nice, depth, len, offset] or its matches.

-----------------------------------------------------------------------------
(* libdeflate_alloc_compressor_ex: what a level stands for.                  *)

Way(impl, depth, nice) == [impl |-> impl, depth |-> depth, nice |-> nice]
Optimizing(depth, nice, passes, improvement, nonfinal, static) ==
  [impl |-> "near_optimal", depth |-> depth, nice |-> nice, passes |-> passes, improvement |-> improvement, nonfinal |-> nonfinal, static |-> static, staticCodes |-> StaticCodes]
Compressor(level) ==
  CASE level = 0 -> Way("none", 0, 0)
    [] level = 1 -> Way("fastest", 0, 32)
    [] level = 2 -> Way("greedy", 6, 10)
    [] level = 3 -> Way("greedy", 12, 14)
    [] level = 4 -> Way("greedy", 16, 30)
    [] level = 5 -> Way("lazy", 16, 30)
    [] level = 6 -> Way("lazy", 35, 65)
    [] level = 7 -> Way("lazy", 100, 130)
    [] level = 8 -> Way("lazy2", 300, 258)
    [] level = 9 -> Way("lazy2", 600, 258)
    [] level = 10 -> Optimizing(35, 75, 2, 32, 32, 0)
    [] level = 11 -> Optimizing(100, 150, 4, 16, 16, 1000)
    [] level = 12 -> Optimizing(300, 258, 10, 1, 1, 10000)
Passthrough(level, n) == level = 0 \/ n <= 55 - level * 4

libdeflate_deflate_compress_bound(n) == 5 * Greater(DivRoundUp(n, MinBlock), 1) + n

-----------------------------------------------------------------------------
(* When a block is to end: what was seen lately is not what was seen before. *)

Types == 0..9
NoObservations == [t \in Types |-> 0]
init_block_split_stats == [new |-> NoObservations, old |-> NoObservations, numNew |-> 0, numOld |-> 0]
Observed(stats, type) == [stats EXCEPT !.new[type] = @ + 1, !.numNew = @ + 1]
observe_literal(stats, lit) == Observed(stats, 2 * (lit \div 64) + (lit % 2))
observe_match(stats, length) == Observed(stats, IF length >= 9 THEN 9 ELSE 8)
merge_new_observations(stats) ==
  [new |-> NoObservations, old |-> [t \in Types |-> stats.old[t] + stats.new[t]], numNew |-> 0, numOld |-> stats.numOld + stats.numNew]

Apart(a, b) == IF a > b THEN a - b ELSE b - a
TotalDelta(stats) == MapThenSumSet(LAMBDA t : Apart(stats.old[t] * stats.numNew, stats.new[t] * stats.numOld), Types)
do_end_block_check(stats, length) ==
  LET items == stats.numOld + stats.numNew
      cutoff == ((stats.numNew * 200) \div 512) * stats.numOld
      short == IF length < 10000 /\ items < 8192 THEN (cutoff * (8192 - items)) \div 8192 ELSE 0
  IN stats.numOld > 0 /\ TotalDelta(stats) + (length \div 4096) * stats.numOld >= cutoff + short
\* A mutant: the rest may be short.
ready_to_check_block_anywhere(stats, begin, next, end) == stats.numNew >= ObservationsPerCheck
ready_to_check_block(stats, begin, next, end) ==
  stats.numNew >= ObservationsPerCheck /\ next - begin >= MinBlock /\ end - next >= MinBlock

choose_max_block_end(begin, end, soft) == IF end - begin < soft + MinBlock THEN end ELSE begin + soft

-----------------------------------------------------------------------------
(* The shortest match worth taking, by how many different literals there are.*)

MinLens(used) ==
  CASE used <= 5 -> 9 [] used \in 6..7 -> 8 [] used \in 8..9 -> 7 [] used \in 10..15 -> 6 [] used \in 16..44 -> 5 [] used \in 45..79 -> 4 [] OTHER -> 3
choose_min_match_len(used, depth) ==
  Smaller(MinLens(used), CASE depth < 5 -> 4 [] depth \in 5..9 -> 5 [] depth \in 10..15 -> 7 [] OTHER -> 9)
calculate_min_match_len(data, depth) ==
  IF Len(data) < ShortBlock THEN MinMatchLen ELSE choose_min_match_len(Cardinality({data[i] : i \in DOMAIN data}), depth)
\* Literals used very rarely are left out: by less than one in 1024.
recalculate_min_match_len(freqs, depth) ==
  LET lits == {s \in DOMAIN freqs.litlen : s < NumLiterals}
      cutoff == MapThenSumSet(LAMBDA s : freqs.litlen[s], lits) \div 1024
  IN choose_min_match_len(Cardinality({s \in lits : freqs.litlen[s] > cutoff}), depth)

-----------------------------------------------------------------------------
(* Literals and matches of a block.                                          *)

Remaining(s) == Len(s.in) - s.next
Fast(s) == s.c.impl = "fastest"
NearOptimal(s) == s.c.impl = "near_optimal"
deflate_begin_sequences == <<[run |-> 0, length |-> 0, offset |-> 0]>>
deflate_choose_literal(s, i) ==
  [s EXCEPT !.freqs.litlen = Counted(@, At(s.in, i)),
            !.seqs[Len(s.seqs)].run = @ + 1,
            !.stats = IF Fast(s) THEN @ ELSE observe_literal(@, At(s.in, i))]
deflate_choose_match(s, length, offset) ==
  [s EXCEPT !.freqs.litlen = Counted(@, FirstLenSym + LengthSlot(length)),
            !.freqs.offset = Counted(@, deflate_get_offset_slot(offset)),
            !.seqs = Append([@ EXCEPT ![Len(@)].length = length, ![Len(@)].offset = offset], deflate_begin_sequences[1]),
            !.stats = IF Fast(s) THEN @ ELSE observe_match(@, length)]
RECURSIVE deflate_choose_literals(_, _)
deflate_choose_literals(s, n) ==
  IF n = 0 \/ Remaining(s) = 0 THEN s ELSE deflate_choose_literals([deflate_choose_literal(s, s.next) EXCEPT !.next = @ + 1], n - 1)

adjust_max_and_nice_len(s) ==
  IF Remaining(s) < MaxMatch THEN [s EXCEPT !.max = Remaining(s), !.nice = Smaller(@, Remaining(s))] ELSE s

\* The end of a turn: with a full store, at the end of the block, or where what comes differs.
Ended(s) == [s EXCEPT !.at = "flush"]
TurnEnded(s) ==
  LET full == Len(s.seqs) - 1 >= (IF Fast(s) THEN FastSeqStore ELSE SeqStore)
      again == [s EXCEPT !.at = "turn"]
  IN IF s.next >= s.maxEnd \/ full THEN Ended(s)
     ELSE IF Fast(s) \/ ~ready_to_check_block(s.stats, s.begin, s.next, Len(s.in)) THEN again
     ELSE IF do_end_block_check(s.stats, s.next - s.begin) THEN Ended(s)
     ELSE [again EXCEPT !.stats = merge_new_observations(@)]

\* A search of the chains; the hashes are entered on the way.
Searched(s, best, depth) ==
  LET r == hc_matchfinder_longest_match(s.f, s.in, s.next, best, s.max, s.nice, depth)
  IN [s EXCEPT !.f = r.f, !.last = [next |-> s.next, best |-> best, max |-> s.max, nice |-> s.nice, depth |-> depth, len |-> r.len, offset |-> r.offset]]
Skipped(s, n) == [s EXCEPT !.f = hc_matchfinder_skip_bytes(@, s.in, s.next, n), !.next = @ + n]

-----------------------------------------------------------------------------
(* Blocks.                                                                   *)

Begun(s) ==
  LET soft == IF Fast(s) THEN FastSoftMax ELSE SoftMax
      begin == IF NearOptimal(s) THEN s.begin ELSE s.next
      maxEnd == choose_max_block_end(begin, Len(s.in), soft)
      data == SubSeq(s.in, begin + 1, maxEnd)
  IN [s EXCEPT !.at = "turn", !.begin = begin, !.maxEnd = maxEnd, !.seqs = deflate_begin_sequences,
               !.freqs = IF NearOptimal(s) THEN @ ELSE NoFreqs,
               !.stats = IF NearOptimal(s) THEN @ ELSE init_block_split_stats,
               !.recalc = s.next + Smaller(Remaining(s), RecalcAfter),
               !.minLen = IF Fast(s) THEN @ ELSE IF NearOptimal(s) /\ s.onlyLits THEN MaxMatch + 1 ELSE calculate_min_match_len(data, s.c.depth),
               !.observeAt = s.next, !.checkedAt = -1, !.changed = FALSE]

\* A block to be written, [length, final, freqs, codes, and seqs or path]; the codes are made of its
\* symbols and of the end of the block.
Finished(s, freqs) ==
  [s EXCEPT !.at = "write", !.block = [length |-> s.next - s.begin, final |-> s.next = Len(s.in), freqs |-> freqs,
                                       codes |-> deflate_make_huffman_codes(freqs), seqs |-> s.seqs]]
WithEnd(freqs) == [freqs EXCEPT !.litlen = Counted(@, EndOfBlock)]

-----------------------------------------------------------------------------
(* The fastest way, and the greedy one: every match is taken.                *)

Fastest(s) ==
  LET t == adjust_max_and_nice_len(s)
      r == ht_matchfinder_longest_match(t.f, t.in, t.next, t.max, t.nice)
      found == [t EXCEPT !.f = r.f, !.last = [next |-> t.next, best |-> 0, max |-> t.max, nice |-> t.nice, depth |-> 0, len |-> r.len, offset |-> r.offset]]
      matched == deflate_choose_match(found, r.len, r.offset)
  IN IF Remaining(s) < RequiredBytes THEN Ended(deflate_choose_literals(s, Remaining(s)))
     ELSE IF r.len = 0 THEN TurnEnded(deflate_choose_literals(found, 1))
     ELSE TurnEnded([matched EXCEPT !.f = ht_matchfinder_skip_bytes(@, s.in, s.next + 1, r.len - 1), !.next = @ + r.len])

GreedyFound(s) ==
  IF s.last.len >= s.minLen /\ (s.last.len > MinMatchLen \/ s.last.offset <= FarForGreedy)
  THEN TurnEnded(Skipped([deflate_choose_match(s, s.last.len, s.last.offset) EXCEPT !.next = @ + 1], s.last.len - 1))
  ELSE TurnEnded(deflate_choose_literals(s, 1))
Greedy(s) == GreedyFound(Searched(adjust_max_and_nice_len(s), s.minLen - 1, s.c.depth))

-----------------------------------------------------------------------------
(* The lazy ways: before a match is taken, the next place is searched, and   *)
(* in lazy2 the one behind it, for a better one.                             *)

LazyFound(s) ==
  IF s.last.len < s.minLen \/ (s.last.len = MinMatchLen /\ s.last.offset > FarForLazy)
  THEN TurnEnded(deflate_choose_literals(s, 1))
  ELSE [s EXCEPT !.next = @ + 1, !.at = "match", !.cur = [len |-> s.last.len, offset |-> s.last.offset]]
Recalculated(s) ==
  IF s.next < s.recalc THEN s
  ELSE [s EXCEPT !.minLen = recalculate_min_match_len(s.freqs, s.c.depth),
                 !.recalc = @ + Smaller(Len(s.in) - @, s.next - s.begin)]
Lazy(s) == LET t == adjust_max_and_nice_len(Recalculated(s)) IN LazyFound(Searched(t, t.minLen - 1, t.c.depth))

bsr32(v) == CHOOSE k \in 0..15 : v \in 2^k..2^(k + 1) - 1
Better(s, by) ==
  s.last.len >= s.cur.len /\ 4 * (s.last.len - s.cur.len) + (bsr32(s.cur.offset) - bsr32(s.last.offset)) > by
Taken(s, behind) == Skipped(deflate_choose_match(s, s.cur.len, s.cur.offset), s.cur.len - behind)
Instead(s) == [s EXCEPT !.at = "match", !.cur = [len |-> s.last.len, offset |-> s.last.offset]]
\* behind the match's first byte: it is long enough, or the next place is searched.
LookedAhead(s) ==
  IF Better(s, 2) THEN Instead(deflate_choose_literal(s, s.next - 2))
  ELSE IF s.c.impl = "lazy2" THEN [s EXCEPT !.at = "match2"]
  ELSE TurnEnded(Taken(s, 2))
Match(s) ==
  LET t == adjust_max_and_nice_len(s)
  IN IF s.cur.len >= s.nice THEN TurnEnded(Taken(s, 1))
     ELSE LookedAhead([Searched(t, s.cur.len - 1, s.c.depth \div 2) EXCEPT !.next = @ + 1])
LookedTwice(s) ==
  IF Better(s, 6) THEN Instead(deflate_choose_literal(deflate_choose_literal(s, s.next - 3), s.next - 2))
  ELSE TurnEnded(IF s.cur.len > 3 THEN Taken(s, 3) ELSE deflate_choose_match(s, s.cur.len, s.cur.offset))
Match2(s) == LookedTwice([Searched(adjust_max_and_nice_len(s), s.cur.len - 1, s.c.depth \div 4) EXCEPT !.next = @ + 1])

-----------------------------------------------------------------------------
(* The near-optimal way.  Costs of symbols, in sixteenths of a bit: [lit,    *)
(* len, slot], of the bytes there are, and of lengths and offsets in reach.  *)

BitCost == 16
Bytes(s) == {s.in[i] : i \in DOMAIN s.in}
deflate_default_length_cost(len, symCost) == symCost + BitCost * ExtraLengthBits(LengthSlot(len))
OffsetSlotCost(slot, symCost) == symCost + BitCost * ExtraOffsetBits(slot)
\* A symbol that was not used has a cost all the same: 13 bits, or 10.
SymCost(code, sym, nostat) == BitCost * (IF LenOf(code, sym) = 0 THEN nostat ELSE LenOf(code, sym))
deflate_set_costs_from_codes(s, codes) ==
  [lit |-> [b \in Bytes(s) |-> SymCost(codes.litlen, b, 13)],
   len |-> [n \in MinMatchLen..MaxMatch |-> deflate_default_length_cost(n, SymCost(codes.litlen, FirstLenSym + LengthSlot(n), 13))],
   slot |-> [o \in 0..OffsetSlotFull(Window) |-> OffsetSlotCost(o, SymCost(codes.offset, o, 10))]]

\* The table of default costs: 16 times the logarithm of num/den to base 2, rounded down.
RECURSIVE Fraction16(_, _)
Fraction16(m, bits) ==
  LET square == (m * m) \div 2^14
  IN IF bits = 0 THEN 0
     ELSE IF square >= 2^15 THEN 2^(bits - 1) + Fraction16(square \div 2, bits - 1) ELSE Fraction16(square, bits - 1)
Log16(num, den) ==
  LET k == CHOOSE k \in 0..11 : num >= 2^k * den /\ num < 2^(k + 1) * den
  IN 16 * k + Fraction16((num * 2^14) \div (2^k * den), 4)
DefaultLitlenCosts(matches, used) ==
  CASE matches = "few" -> [lit |-> Log16(4 * used, 3), sym |-> 109]
    [] matches = "neutral" -> [lit |-> Log16(2 * used, 1), sym |-> 93]
    [] matches = "many" -> [lit |-> Log16(4 * used, 1), sym |-> 84]
\* Literals of the block, and the matches that a greedy choice of those worth taking would take.
deflate_choose_default_litlen_costs(s, data, lens) ==
  LET Freq(b) == Cardinality({i \in DOMAIN data : data[i] = b})
      used == Cardinality({b \in {data[i] : i \in DOMAIN data} : Freq(b) > Len(data) \div 2048})
      worth == choose_min_match_len(Greater(used, 1), s.c.depth)..MaxMatch
      matchFreq == MapThenSumSet(LAMBDA n : lens[n], worth)
      literalFreq == Greater(0, Len(data) - MapThenSumSet(LAMBDA n : n * lens[n], worth))
  IN DefaultLitlenCosts(IF matchFreq > literalFreq THEN "many" ELSE IF 4 * matchFreq > literalFreq THEN "neutral" ELSE "few", Greater(used, 1))
deflate_set_default_costs(s, default) ==
  [lit |-> [b \in Bytes(s) |-> default.lit],
   len |-> [n \in MinMatchLen..MaxMatch |-> deflate_default_length_cost(n, default.sym)],
   slot |-> [o \in 0..OffsetSlotFull(Window) |-> OffsetSlotCost(o, 4 * BitCost + ((907 * BitCost) \div 1000))]]

\* The more a block differs from the one before, the less its costs count.
Mixed(default, cost, change) ==
  CASE change = 0 -> (default + 3 * cost) \div 4
    [] change = 1 -> (default + cost) \div 2
    [] change = 2 -> (5 * default + 3 * cost) \div 8
    [] change = 3 -> (3 * default + cost) \div 4
    [] change = 4 -> default
Adjusted(default, costs, change) ==
  [part \in {"lit", "len", "slot"} |-> [k \in DOMAIN costs[part] |-> Mixed(default[part][k], costs[part][k], change)]]
Change(stats, prev) ==
  LET delta == MapThenSumSet(LAMBDA t : Apart(prev.old[t] * stats.numOld, stats.old[t] * prev.num), Types)
      cutoff == (prev.num * stats.numOld * 200) \div 512
  IN IF delta > 3 * cutoff THEN 4 ELSE IF 4 * delta > 9 * cutoff THEN 3 ELSE IF 2 * delta > 3 * cutoff THEN 2 ELSE IF 2 * delta > cutoff THEN 1 ELSE 0
deflate_set_initial_costs(s, data) ==
  LET default == deflate_set_default_costs(s, deflate_choose_default_litlen_costs(s, data, s.lens))
  IN IF s.begin = 0 THEN default ELSE Adjusted(default, s.costs, Change(s.stats, s.prev))

-----------------------------------------------------------------------------
(* The cheapest way through a block, from its end; cache: what was found at  *)
(* each of its places, [lit, matches].  A match does not lead past the end.  *)

OffsetFor(matches, n) == matches[CHOOSE i \in DOMAIN matches : matches[i].length >= n /\ \A j \in 1..i - 1 : matches[j].length < n].offset
\* For each length the offset that comes first; of choices that cost the same the shortest.
Node(costs, here, i, nodes) ==
  LET longest == IF here.matches = <<>> THEN 0 ELSE here.matches[Len(here.matches)].length
      lens == {1} \cup {n \in MinMatchLen..longest : i + n \in DOMAIN nodes}
      cost == [n \in lens |-> nodes[i + n].cost + (IF n = 1 THEN costs.lit[here.lit] ELSE costs.len[n] + costs.slot[OffsetSlotFull(OffsetFor(here.matches, n))])]
      best == CHOOSE n \in lens : \A m \in lens : cost[n] < cost[m] \/ (cost[n] = cost[m] /\ n <= m)
  IN [cost |-> cost[best], length |-> best, offset |-> IF best = 1 THEN here.lit ELSE OffsetFor(here.matches, best)]
RECURSIVE NodesFrom(_, _, _, _)
NodesFrom(costs, cache, i, nodes) ==
  IF i = 0 \/ nodes = <<>> THEN nodes ELSE NodesFrom(costs, cache, i - 1, (i - 1 :> Node(costs, cache[i], i - 1, nodes)) @@ nodes)
RECURSIVE PathFrom(_, _)
PathFrom(nodes, i) == IF nodes[i].length = 0 THEN <<>> ELSE <<nodes[i]>> \o PathFrom(nodes, i + nodes[i].length)
LitlenSym(item) == IF item.length = 1 THEN item.offset ELSE FirstLenSym + LengthSlot(item.length)
deflate_tally_item_list(path) ==
  LET matches == {i \in DOMAIN path : path[i].length > 1}
      slots == [i \in matches |-> OffsetSlotFull(path[i].offset)]
  IN [litlen |-> (EndOfBlock :> 1) @@ [s \in {LitlenSym(path[i]) : i \in DOMAIN path} |-> Cardinality({i \in DOMAIN path : LitlenSym(path[i]) = s})],
      offset |-> [o \in {slots[i] : i \in matches} |-> Cardinality({i \in matches : slots[i] = o})]]
Coded(path, cost, freqs) == [path |-> path, cost |-> cost, freqs |-> freqs, codes |-> deflate_make_huffman_codes(freqs)]
PathOf(nodes) == Coded(PathFrom(nodes, 0), nodes[0].cost, deflate_tally_item_list(PathFrom(nodes, 0)))
deflate_find_min_cost_path(costs, cache) ==
  PathOf(NodesFrom(costs, cache, Len(cache), Len(cache) :> [cost |-> 0, length |-> 0, offset |-> 0]))
deflate_choose_all_literals(data) == Coded(<<>>, 0, deflate_tally_item_list([i \in DOMAIN data |-> [length |-> 1, offset |-> data[i]]]))

-----------------------------------------------------------------------------
(* deflate_optimize_and_flush_block, step by step.  s.opt: [cache, data,     *)
(* final, lits, litsCost, static, staticCost, path, cost, best, saved, left].*)

Unbounded == 2^30
\* It is tried what literals alone would cost; and, of a short block, the cheapest static one.
OnlyLiterals(s, opt, lits) ==
  [s EXCEPT !.at = "static", !.opt = [opt EXCEPT !.lits = lits, !.litsCost = deflate_compute_true_cost(lits.freqs, lits.codes)]]
StaticFound(s, static) ==
  [s EXCEPT !.at = "pass", !.costs = deflate_set_initial_costs(s, s.opt.data),
            !.opt.static = static, !.opt.staticCost = IF static = <<>> THEN Unbounded ELSE (static.cost \div BitCost) + 7]
\* Path after path, each with the costs of the codes of the one before, until they get no better.
PassDone(s, path, cost) ==
  LET improved == [s EXCEPT !.costs = deflate_set_costs_from_codes(s, path.codes), !.opt.path = path, !.opt.cost = cost,
                            !.opt.best = cost, !.opt.saved = s.costs, !.opt.left = @ - 1]
  IN IF cost + s.c.improvement > s.opt.best THEN [s EXCEPT !.at = "choose", !.opt.path = path, !.opt.cost = cost]
     ELSE IF s.opt.left = 1 THEN [improved EXCEPT !.at = "choose"]
     ELSE improved
Passed(s, path) == PassDone(s, path, deflate_compute_true_cost(path.freqs, path.codes))

\* Literals only, the static path, the path that was best, or the last one.
WithPath(s, path, codes) ==
  [s EXCEPT !.at = "write", !.costs = IF codes = <<>> THEN @ ELSE deflate_set_costs_from_codes(s, codes), !.onlyLits = FALSE,
            !.block = [length |-> Len(s.opt.data), final |-> s.opt.final, freqs |-> path.freqs, codes |-> path.codes, path |-> path.path]]
WithLiterals(s) ==
  [s EXCEPT !.at = "write", !.costs = deflate_set_costs_from_codes(s, s.opt.lits.codes), !.onlyLits = TRUE,
            !.block = [length |-> Len(s.opt.data), final |-> s.opt.final, freqs |-> s.opt.lits.freqs, codes |-> s.opt.lits.codes,
                       seqs |-> <<[run |-> Len(s.opt.data), length |-> 0, offset |-> 0]>>]]
ChosenPath(s, saved) ==
  IF Smaller(s.opt.litsCost, s.opt.staticCost) < s.opt.best
  THEN IF s.opt.litsCost < s.opt.staticCost THEN WithLiterals(s) ELSE WithPath(s, s.opt.static, s.c.staticCodes)
  ELSE IF s.opt.cost >= s.opt.best + s.c.nonfinal THEN WithPath(s, saved, saved.codes)
  ELSE WithPath(s, s.opt.path, <<>>)

-----------------------------------------------------------------------------
(* Matches of a block are found first.                                       *)

Slots(cache) == MapThenSumSet(LAMBDA i : Len(cache[i].matches) + 1, DOMAIN cache)
Cached(s, matches) == [s EXCEPT !.cache = Append(@, [lit |-> At(s.in, s.next), matches |-> matches]), !.next = @ + 1]
\* What is seen is what a greedy choice would take.
NearObserved(s, best) ==
  IF s.next < s.observeAt THEN s
  ELSE IF best >= s.minLen THEN [s EXCEPT !.stats = observe_match(@, best), !.observeAt = s.next + best, !.newLens[best] = @ + 1]
  ELSE [s EXCEPT !.stats = observe_literal(@, At(s.in, s.next)), !.observeAt = s.next + 1]
RECURSIVE NearSkipped(_, _)
\* Nothing is cached for the places in a long match.
NearSkipped(s, n) ==
  LET t == adjust_max_and_nice_len([s EXCEPT !.f = Slid(@, s.next)])
      u == IF t.max >= RequiredBytes THEN [t EXCEPT !.f = bt_matchfinder_skip_byte(@, t.in, t.next, t.nice, t.c.depth)] ELSE t
  IN IF n = 0 \/ Remaining(s) = 0 THEN s ELSE NearSkipped(Cached(u, <<>>), n - 1)
deflate_near_optimal_merge_stats(s) ==
  [s EXCEPT !.stats = merge_new_observations(@), !.lens = [n \in DOMAIN @ |-> @[n] + s.newLens[n]], !.newLens = [n \in DOMAIN @ |-> 0]]
NearTurnEnded(s) ==
  IF s.next >= s.maxEnd \/ Slots(s.cache) >= MatchCacheLength THEN Ended(s)
  ELSE IF ~ready_to_check_block(s.stats, s.begin, s.next, Len(s.in)) THEN s
  ELSE IF do_end_block_check(s.stats, s.next - s.begin) THEN [Ended(s) EXCEPT !.changed = TRUE]
  ELSE [deflate_near_optimal_merge_stats(s) EXCEPT !.checkedAt = s.next]
NearFound(s, r) ==
  LET best == IF r.matches = <<>> THEN 0 ELSE r.matches[Len(r.matches)].length
      t == Cached(NearObserved([s EXCEPT !.f = r.f, !.last = [next |-> s.next, max |-> s.max, nice |-> s.nice, depth |-> s.c.depth, matches |-> r.matches]], best),
                  r.matches)
  IN NearTurnEnded(IF best >= MinMatchLen /\ best >= s.nice THEN NearSkipped(t, best - 1) ELSE t)
NearAt(s) ==
  NearFound(s, IF s.max >= RequiredBytes THEN bt_matchfinder_get_matches(s.f, s.in, s.next, s.max, s.nice, s.c.depth) ELSE [f |-> s.f, matches |-> <<>>])
NearOptimalTurn(s) == NearAt(adjust_max_and_nice_len([s EXCEPT !.f = Slid(@, s.next)]))

\* The block ends where nothing was different yet, and what was found behind is kept for the next one;
\* or it ends here.
Rewinds(s) == s.changed /\ s.checkedAt # -1
BlockEnd(s) == IF Rewinds(s) THEN s.checkedAt ELSE s.next
Optimization(s, n) ==
  [cache |-> SubSeq(s.cache, 1, n), data |-> SubSeq(s.in, s.begin + 1, s.begin + n), final |-> ~Rewinds(s) /\ s.next = Len(s.in),
   lits |-> <<>>, litsCost |-> 0, static |-> <<>>, staticCost |-> 0, path |-> <<>>, cost |-> 0, best |-> Unbounded, saved |-> <<>>, left |-> s.c.passes]
NextBlock(s) ==
  LET n == Len(s.opt.data)
      t == [s EXCEPT !.prev = [old |-> s.stats.old, num |-> s.stats.numOld], !.lens = [k \in DOMAIN @ |-> 0],
                     !.cache = SubSeq(@, n + 1, Len(@)), !.begin = @ + n, !.opt = <<>>]
  IN IF Rewinds(s) THEN [t EXCEPT !.stats.old = NoObservations, !.stats.numOld = 0]
     ELSE [t EXCEPT !.stats = init_block_split_stats, !.newLens = [k \in DOMAIN @ |-> 0]]

-----------------------------------------------------------------------------
(* libdeflate_deflate_compress.                                              *)

NoLens == [n \in 0..MaxMatch |-> 0]
Compressing(c, input) ==
  [c |-> c, in |-> input.in, level |-> input.level, avail |-> input.avail, at |-> "start", next |-> 0, begin |-> 0, maxEnd |-> 0,
   f |-> <<>>, seqs |-> <<>>, freqs |-> NoFreqs, stats |-> init_block_split_stats, minLen |-> 0, max |-> MaxMatch, nice |-> Smaller(c.nice, MaxMatch),
   recalc |-> 0, cur |-> <<>>, os |-> EmptyStream(input.word, input.avail), result |-> 0, last |-> <<>>,
   cache |-> <<>>, observeAt |-> 0, checkedAt |-> -1, changed |-> FALSE, newLens |-> NoLens, lens |-> NoLens, prev |-> <<>>, costs |-> <<>>, onlyLits |-> FALSE, block |-> <<>>, opt |-> <<>>]
Idle == [at |-> "idle"]
Init == z \in {Compressing(Compressor(input.level), input) : input \in Inputs}

\* A short input is stored, and everything at level 0.
Start ==
  /\ z.at = "start"
  /\ z' = IF Passthrough(z.level, Len(z.in)) THEN [z EXCEPT !.at = "store"]
          ELSE [z EXCEPT !.at = "begin", !.f = IF Fast(z) THEN ht_matchfinder_init ELSE IF NearOptimal(z) THEN bt_matchfinder_init ELSE hc_matchfinder_init]
deflate_compress_none ==
  LET len == Smaller(Remaining(z), StoredMax)
      final == IF Remaining(z) <= StoredMax THEN 1 ELSE 0
      written == [z EXCEPT !.next = @ + len, !.os.touched = @ + 5 + len,
                           !.os.out = @ \o Bits(final, 8) \o Bits(len, 16) \o Bits(Complement16(len), 16) \o BytesBits(SubSeq(z.in, z.next + 1, z.next + len))]
  IN /\ z.at = "store"
     /\ z' = IF z.avail - NextByte(z.os) < 5 + len THEN [z EXCEPT !.at = "done"]
             ELSE IF final = 1 THEN [written EXCEPT !.at = "done", !.result = NextByte(written.os)]
             ELSE written
BeginBlock == z.at = "begin" /\ z' = Begun(z)
deflate_compress_fastest == z.at = "turn" /\ Fast(z) /\ z' = Fastest(z)
deflate_compress_greedy == z.at = "turn" /\ z.c.impl = "greedy" /\ z' = Greedy(z)
deflate_compress_lazy_generic ==
  \/ z.at = "turn" /\ z.c.impl \in {"lazy", "lazy2"} /\ z' = Lazy(z)
  \/ z.at = "match" /\ z' = Match(z)
  \/ z.at = "match2" /\ z' = Match2(z)
deflate_compress_near_optimal == z.at = "turn" /\ NearOptimal(z) /\ z' = NearOptimalTurn(z)
deflate_finish_block == z.at = "flush" /\ ~NearOptimal(z) /\ z' = Finished(z, WithEnd(z.freqs))
ChooseAllLiterals ==
  /\ z.at = "flush" /\ NearOptimal(z)
  /\ \E s \in {IF Rewinds(z) THEN z ELSE deflate_near_optimal_merge_stats(z)} :
       \E opt \in {Optimization(s, BlockEnd(s) - s.begin)} : z' = OnlyLiterals(s, opt, deflate_choose_all_literals(opt.data))
OptimizeStatic ==
  /\ z.at = "static"
  /\ z' = StaticFound(z, IF Len(z.opt.data) > z.c.static THEN <<>>
                         ELSE deflate_find_min_cost_path(deflate_set_costs_from_codes(z, z.c.staticCodes), z.opt.cache))
OptimizePass == z.at = "pass" /\ z' = Passed(z, deflate_find_min_cost_path(z.costs, z.opt.cache))
ChoosePath == z.at = "choose" /\ z' = ChosenPath(z, deflate_find_min_cost_path(z.opt.saved, z.opt.cache))
FlushBlock ==
  /\ z.at = "write"
  /\ \E os \in {deflate_flush_block(z.os, [in |-> z.in, begin |-> z.begin] @@ z.block)}, s \in {IF NearOptimal(z) THEN NextBlock(z) ELSE z} :
       z' = [s EXCEPT !.os = os, !.block = <<>>, !.at = IF z.next = Len(z.in) \/ os.overflow THEN "finish" ELSE "begin"]
\* The bits that are left; where a block had no room there is no result.
FinalByte(os) ==
  IF os.buf = <<>> THEN os
  ELSE [os EXCEPT !.ok = @ /\ Len(os.buf) <= 7 /\ NextByte(os) < os.end, !.buf = <<>>,
                  !.out = @ \o os.buf \o Bits(0, 8 - Len(os.buf)), !.touched = Greater(@, NextByte(os) + 1)]
Finish ==
  /\ z.at = "finish"
  /\ z' = IF z.os.overflow THEN [z EXCEPT !.at = "done"]
          ELSE [z EXCEPT !.at = "done", !.os = FinalByte(@), !.result = NextByte(FinalByte(z.os))]
Next ==
  \/ Start \/ deflate_compress_none \/ BeginBlock \/ deflate_finish_block \/ FlushBlock \/ Finish
  \/ ChooseAllLiterals \/ OptimizeStatic \/ OptimizePass \/ ChoosePath
  \/ deflate_compress_fastest \/ deflate_compress_greedy \/ deflate_compress_lazy_generic \/ deflate_compress_near_optimal
Spec == Init /\ [][Next]_z

-----------------------------------------------------------------------------
(* Properties.                                                               *)

\* What comes out is the input again, and fits: into the bytes given, and always into the bound that
\* the compressor states for every division into blocks (libdeflate_deflate_compress_bound).  No byte behind
\* the end is written to, by whole words or at the end, and no assertion on the way fails; one of them is
\* that a block has exactly the bits it was said to cost (deflate_flush_block).
CompressedIsRead ==
  z.at # "idle" =>
    /\ z.os.ok /\ z.os.touched <= z.avail
    /\ z.at = "done" =>
         IF z.result = 0 THEN z.avail < libdeflate_deflate_compress_bound(Len(z.in))
         ELSE z.result <= libdeflate_deflate_compress_bound(Len(z.in)) /\ Inflate(z.os.out, 0, <<>>) = z.in

\* A match is one: in the window and in the input, and where the search is not cut short, no longer one
\* was overlooked (up to the length that is nice), whatever slid out of tables, chains and trees.
Exhaustive(last) == last.depth >= Window /\ last.max >= RequiredBytes
Reaches(len, last) == LET longest == LongestMatch(z.in, last.next, last.max) IN len = longest \/ (len >= last.nice /\ len <= longest)
MatchesHold ==
  /\ z.at # "idle" /\ z.last # <<>> =>
       IF "matches" \in DOMAIN z.last
       THEN LET m == z.last.matches
                longest == IF m = <<>> THEN 0 ELSE m[Len(m)].length
            IN /\ \A i \in DOMAIN m : m[i].length >= MinMatchLen /\ IsMatch(z.in, z.last.next, m[i].length, m[i].offset) /\ (i > 1 => m[i - 1].length < m[i].length)
               /\ Exhaustive(z.last) /\ LongestMatch(z.in, z.last.next, z.last.max) > MinMatchLen => Reaches(longest, z.last)
       ELSE /\ z.last.len > z.last.best => IsMatch(z.in, z.last.next, z.last.len, z.last.offset)
            /\ Exhaustive(z.last) /\ LongestMatch(z.in, z.last.next, z.last.max) > Greater(z.last.best, MinMatchLen) => Reaches(z.last.len, z.last)
  \* Its stores hold: of sequences, of matches, of the nodes of a block; and blocks are long enough
  \* for the bound, but for the last.
  /\ z.at # "idle" =>
       /\ Len(z.seqs) <= (IF Fast(z) THEN FastSeqStore ELSE SeqStore) + 1
       /\ Slots(z.cache) <= MatchCacheLength + MaxMatchesPerPos + MaxMatch - 1
       /\ z.at \in {"turn", "flush"} => z.next - z.begin <= MaxBlockLength
       /\ z.at = "flush" /\ z.next # Len(z.in) => BlockEnd(z) - z.begin >= MinBlock
=============================================================================
