-------------------------------- MODULE Ppmd7 --------------------------------
(* The model of PPMd (Ppmd7.c, Ppmd7Dec.c): contexts of symbols with their   *)
(* frequencies, in a block of memory of a fixed size that the decoder        *)
(* divides itself: raw text, then units of UnitSize bytes for contexts and   *)
(* for vectors of symbols.  The range coder is left out: it picks, in the    *)
(* context reached, any symbol not yet masked, or the escape to a shorter    *)
(* context; the symbol to come is the next one of text.                      *)
(*                                                                           *)
(* A context is [states, summ, stats, suffix]: states its symbols            *)
(* [sym, freq, succ]; stats the address of their vector, or 0 when the only  *)
(* state is in the record itself.  found is <<context, index>>.              *)
EXTENDS Integers, Sequences, FiniteSets, TLC

CONSTANTS
  NumSymbols,   \* 256
  UnitSize,     \* 12
  Indx2Units,   \* <<1, 2, 3, 4, 6, 8, 10, 12, 15, ..., 128>>
  MaxFreq,      \* 124
  MaxOrder,     \* 2 to 64
  Size,         \* 2^11 and up
  GlueCount,    \* 255: requests that fail before free blocks are joined again
  LimitNU,      \* 0x10000: more units than NU of a free block can hold
  SingleMax,    \* 32
  HiSymbol,     \* 0x40
  NewBinEsc,    \* PPMD7_kInitBinEsc, 8 values
  ExpEscape,    \* PPMD7_kExpEscape, 16 values
  Texts         \* what is decoded

Geometry == /\ MaxOrder >= 2 /\ UnitSize >= 8
            /\ Indx2Units[Len(Indx2Units)] * 2 = NumSymbols
            /\ ((Size \div 8) \div UnitSize) * 7 > NumSymbols \div 2

VARIABLES p, text, at

Symbols == 0..NumSymbols - 1
Flag(b) == IF b THEN 1 ELSE 0
AlignOffset == (4 - Size) % 4
End == AlignOffset + Size

\* Ppmd7_Construct: sizes and the indices of their free lists, and the classes of BinSumm and See.
I2U(i) == Indx2Units[i + 1]
NumIndexes == Len(Indx2Units)
U2I(nu) == CHOOSE i \in 0..NumIndexes - 1 : I2U(i) >= nu /\ \A k \in 0..i - 1 : I2U(k) < nu
U2B(nu) == nu * UnitSize
NS2BSIndx(n) == IF n <= 2 THEN n - 1 ELSE IF n <= 11 THEN 2 ELSE 3
NS2Indx(n) == IF n <= 3 THEN n - 1
              ELSE CHOOSE m \in 3..n : (m - 3) * (m - 2) < 2 * (n - 3) /\ 2 * (n - 3) <= (m - 2) * (m - 1)

-----------------------------------------------------------------------------
(* The allocator.  free[i]: the blocks of I2U(i) units, the next to be taken *)
(* first.  An allocation returns [p, at], at = 0: no memory.                 *)

InsertNode(q, a, indx) == [q EXCEPT !.free[indx] = <<a>> \o @]
Removed(q, indx) == [p |-> [q EXCEPT !.free[indx] = Tail(@)], at |-> Head(q.free[indx])]

NumStats(q, c) == Len(q.ctx[c].states)
EmptyNode == 0
Guard == 1

\* The tail of nu units at a, in one block or two.
Release(q, a, nu) ==
  LET i == U2I(nu) IN
  IF I2U(i) = nu THEN InsertNode(q, a, i)
  ELSE InsertNode(InsertNode(q, a + U2B(I2U(i - 1)), nu - I2U(i - 1) - 1), a, i - 1)
SplitBlock(q, a, oldIndx, newIndx) == Release(q, a + U2B(I2U(newIndx)), I2U(oldIndx) - I2U(newIndx))

\* The first 16 bits of a unit in use: NumStats of a context, Symbol and Freq of a vector's first
\* state. What a unit holds that is in no block nobody knows; EmptyNode is the worst.
StampInUse(q, a) ==
  LET owners == {c \in DOMAIN q.ctx : NumStats(q, c) > 1 /\ q.ctx[c].stats = a}
      first == q.ctx[CHOOSE c \in owners : TRUE].states[1]
  IN IF a \in DOMAIN q.ctx THEN NumStats(q, a)
     ELSE IF owners # {} THEN first.sym + (NumSymbols * first.freq) ELSE EmptyNode
\* A mutant: there is no guard at LoUnit.
StampUnguarded(q, sizes, a) == IF a \in DOMAIN sizes THEN EmptyNode ELSE StampInUse(q, a)
\* Those of any unit: the listed blocks, whose sizes are given, are marked as free, LoUnit as in use.
Stamp(q, sizes, a) ==
  IF a \in DOMAIN sizes THEN EmptyNode ELSE IF a = q.lo /\ q.lo # q.hi THEN Guard ELSE StampInUse(q, a)

\* What looks free behind the block at a, unit behind unit, becomes part of it, while NU can hold the sum.
Joined(q, sizes, a) ==
  LET Turn(g) ==
        LET next == a + U2B(g.nu)
            nu == g.nu + IF next \in DOMAIN g.sizes THEN g.sizes[next] ELSE 1
        IN IF g.ended \/ Stamp(q, g.sizes, next) # EmptyNode \/ nu >= LimitNU THEN [g EXCEPT !.ended = TRUE]
           ELSE [g EXCEPT !.nu = nu, !.sizes = (a :> nu % LimitNU) @@ (next :> 0) @@ @]
      turns[n \in 0..Size \div UnitSize] == IF n = 0 THEN [nu |-> sizes[a], sizes |-> sizes, ended |-> FALSE] ELSE Turn(turns[n - 1])
  IN turns[Size \div UnitSize].sizes

\* The list of all free blocks: the largest size first, in each size the last one first.
FreeNodes(q) ==
  LET f[i \in 0..NumIndexes] ==
        IF i = 0 THEN <<>>
        ELSE [k \in 1..Len(q.free[i - 1]) |-> [at |-> q.free[i - 1][Len(q.free[i - 1]) + 1 - k], nu |-> I2U(i - 1)]] \o f[i - 1]
  IN f[NumIndexes]

\* Blocks of more units than the largest size are cut into blocks of that size.
RECURSIVE Fill(_, _, _)
Fill(q, a, nu) ==
  IF nu > I2U(NumIndexes - 1)
  THEN Fill(InsertNode(q, a, NumIndexes - 1), a + U2B(I2U(NumIndexes - 1)), nu - I2U(NumIndexes - 1))
  ELSE Release(q, a, nu)

SizesOf(nodes) == [a \in {nodes[i].at : i \in DOMAIN nodes} |-> nodes[CHOOSE i \in DOMAIN nodes : nodes[i].at = a].nu]
\* Joined at each of the nodes from n on that is not part of another one yet.
RECURSIVE GluedFrom(_, _, _, _)
GluedFrom(q, nodes, n, sizes) ==
  IF n > Len(nodes) THEN sizes
  ELSE GluedFrom(q, nodes, n + 1, IF sizes[nodes[n].at] = 0 THEN sizes ELSE Joined(q, sizes, nodes[n].at))
RECURSIVE FilledFrom(_, _, _, _)
FilledFrom(q, nodes, n, sizes) ==
  IF n > Len(nodes) THEN q
  ELSE FilledFrom(IF sizes[nodes[n].at] = 0 THEN q ELSE Fill(q, nodes[n].at, sizes[nodes[n].at]), nodes, n + 1, sizes)
GlueNodes(q, nodes) ==
  FilledFrom([q EXCEPT !.glue = GlueCount, !.free = [k \in DOMAIN @ |-> <<>>]], nodes, 1, GluedFrom(q, nodes, 1, SizesOf(nodes)))
GlueFreeBlocks(q) == GlueNodes(q, FreeNodes(q))

\* From the block r of a larger size i, the rest of which is free.
Cut(r, i, indx) == [r EXCEPT !.p = SplitBlock(@, r.at, i, indx)]
\* From a larger block, else from the end of the raw text's area.
FromLarger(q, indx) ==
  LET larger == {i \in indx + 1..NumIndexes - 1 : q.free[i] # <<>>}
      bytes == U2B(I2U(indx))
  IN IF larger # {} THEN \* the smallest of them
       LET i == CHOOSE k \in larger : \A j \in larger : k <= j IN Cut(Removed(q, i), i, indx)
     ELSE IF q.unitsStart - q.text > bytes
     THEN [p |-> [q EXCEPT !.glue = @ - 1, !.unitsStart = @ - bytes], at |-> q.unitsStart - bytes]
     ELSE [p |-> [q EXCEPT !.glue = @ - 1], at |-> 0]

\* g is q, its free blocks joined when it is time to.
AllocFrom(q, g, indx) == IF q.glue = 0 /\ g.free[indx] # <<>> THEN Removed(g, indx) ELSE FromLarger(g, indx)
AllocUnitsRare(q, indx) == AllocFrom(q, IF q.glue = 0 THEN GlueFreeBlocks(q) ELSE q, indx)

AllocUnits(q, indx) ==
  LET bytes == U2B(I2U(indx)) IN
  IF q.free[indx] # <<>> THEN Removed(q, indx)
  ELSE IF q.hi - q.lo >= bytes THEN [p |-> [q EXCEPT !.lo = @ + bytes], at |-> q.lo]
  ELSE AllocUnitsRare(q, indx)

AllocContext(q) ==
  IF q.hi # q.lo THEN [p |-> [q EXCEPT !.hi = @ - UnitSize], at |-> q.hi - UnitSize]
  ELSE IF q.free[0] # <<>> THEN Removed(q, 0) ELSE AllocUnitsRare(q, 0)

-----------------------------------------------------------------------------
(* The model.                                                                *)

State(sym, freq, succ) == [sym |-> sym, freq |-> freq, succ |-> succ]
IndexOf(q, c, sym) == CHOOSE i \in DOMAIN q.ctx[c].states : q.ctx[c].states[i].sym = sym
FoundState(q) == q.ctx[q.found[1]].states[q.found[2]]
SetSuccessor(q, f, v) == [q EXCEPT !.ctx[f[1]].states[f[2]].succ = v]

InitRL == -(IF MaxOrder < 12 THEN MaxOrder ELSE 12) - 1

\* One context, of all symbols; no memory is in use but for it.
RestartModel(initEsc, hiBits) ==
  LET root == End - UnitSize
      start == End - ((Size \div 8) \div UnitSize) * 7 * UnitSize
  IN [free |-> [i \in 0..NumIndexes - 1 |-> <<>>], text |-> AlignOffset, hi |-> root, unitsStart |-> start,
      lo |-> start + U2B(NumSymbols \div 2), glue |-> 0, orderFall |-> MaxOrder,
      runLength |-> InitRL, prevSuccess |-> 0, initEsc |-> initEsc, hiBits |-> hiBits,
      min |-> root, max |-> root, found |-> <<root, 1>>, bytes |-> <<>>, bin |-> <<>>, see |-> <<>>, ended |-> FALSE,
      ctx |-> root :> [states |-> [i \in 1..NumSymbols |-> State(i - 1, 1, 0)], summ |-> NumSymbols + 1,
                       stats |-> start, suffix |-> 0]]

Restarted(q) == RestartModel(q.initEsc, q.hiBits)

\* The contexts, from the found one along the suffixes, whose symbol still leads into the raw text
\* at up; ends at the context from which the new ones grow.  A single state is not compared.
RECURSIVE RawBranches(_, _, _, _)
RawBranches(q, c, ps, up) ==
  LET s == q.ctx[c].suffix
      i == IF NumStats(q, s) = 1 THEN 1 ELSE IndexOf(q, s, FoundState(q).sym)
      succ == q.ctx[s].states[i].succ
  IN IF s = 0 THEN [c |-> c, ps |-> ps] ELSE IF succ # up THEN [c |-> succ, ps |-> ps]
     ELSE RawBranches(q, s, Append(ps, <<s, i>>), up)

\* The frequency of a symbol in a new context of its own, after that in the shorter context c.
NewFreq(q, c, sym) ==
  LET s == q.ctx[c].states[IndexOf(q, c, sym)]
      cf == s.freq - 1
      s0 == q.ctx[c].summ - NumStats(q, c) - cf
  IN IF NumStats(q, c) = 1 THEN q.ctx[c].states[1].freq
     ELSE 1 + IF 2 * cf <= s0 THEN Flag(5 * cf > s0) ELSE ((2 * cf + s0 - 1) \div (2 * s0)) + 1

\* last with a context made at r for the state <<context, index>>, new its only symbol.
Linked(last, r, slot, new) ==
  LET made == [r.p EXCEPT !.ctx = (r.at :> [states |-> <<new>>, summ |-> 0, stats |-> 0, suffix |-> last.at]) @@ @]
  IN IF r.at = 0 THEN r ELSE [p |-> SetSuccessor(made, slot, r.at), at |-> r.at]
\* A context for each of ps, the shortest first.
RECURSIVE Grown(_, _, _)
Grown(last, ps, new) ==
  IF ps = <<>> \/ last.at = 0 THEN last
  ELSE Grown(Linked(last, AllocContext(last.p), ps[Len(ps)], new), SubSeq(ps, 1, Len(ps) - 1), new)

\* b is where the branches end, up the place of the next symbol in the raw text.
GrownAt(q, b, up) == Grown([p |-> q, at |-> b.c], b.ps, State(q.bytes[up], NewFreq(q, b.c, q.bytes[up]), up + 1))
\* CreateSuccessors returns [p, at]; at = 0: no memory.
CreateSuccessors(q) ==
  LET up == FoundState(q).succ IN
  GrownAt(q, RawBranches(q, q.min, IF q.orderFall # 0 THEN <<q.found>> ELSE <<>>, up), up)

Swapped(s, i) == [s EXCEPT ![i] = s[i - 1], ![i - 1] = s[i]]

\* The symbol, of index i in the context c, becomes more frequent there, and moves up.
MoreFrequent(q, c, s, i) ==
  LET swaps == i > 1 /\ s[i].freq >= s[i - 1].freq
      t == [q EXCEPT !.ctx[c].states = IF swaps THEN Swapped(s, i) ELSE s]
  IN IF s[i].freq < MaxFreq - 9
     THEN [t EXCEPT !.ctx[c].states[IF swaps THEN i - 1 ELSE i].freq = @ + 2, !.ctx[c].summ = @ + 2] ELSE t
\* The symbol becomes more frequent in the next shorter context, too.
UpdateSuffix(q) ==
  LET c == q.ctx[q.min].suffix IN
  IF ~(FoundState(q).freq < MaxFreq \div 4 /\ c # 0) THEN q
  ELSE IF NumStats(q, c) = 1 THEN [q EXCEPT !.ctx[c].states[1].freq = IF @ < SingleMax THEN @ + 1 ELSE @]
  ELSE MoreFrequent(q, c, q.ctx[c].states, IndexOf(q, c, FoundState(q).sym))

\* Room for one symbol more in context c, of ns1 symbols: its vector, or a larger one.
Grows(ns1) == ns1 % 2 = 0 /\ U2I(ns1 \div 2) # U2I(ns1 \div 2 + 1)
Room(q, c, ns1) ==
  IF ns1 = 1 \/ Grows(ns1) THEN AllocUnits(q, IF ns1 = 1 THEN 0 ELSE U2I(ns1 \div 2) + 1)
  ELSE [p |-> q, at |-> q.ctx[c].stats]
DoubledFreq(freq) == IF freq < MaxFreq \div 4 - 1 THEN 2 * freq ELSE MaxFreq - 4
\* [p, at, sum], sum the new total; ns is the number of symbols of the context the symbol was found in.
Expanded(q, c, x, ns1, ns, r) ==
  LET freq == DoubledFreq(x.states[1].freq) IN
  IF r.at = 0 THEN [p |-> r.p, at |-> 0, sum |-> 0]
  ELSE IF ns1 = 1
  THEN [p |-> [r.p EXCEPT !.ctx[c].stats = r.at, !.ctx[c].states[1].freq = freq], at |-> r.at, sum |-> freq + q.initEsc + Flag(ns > 3)]
  ELSE [p |-> IF Grows(ns1) THEN InsertNode([r.p EXCEPT !.ctx[c].stats = r.at], x.stats, U2I(ns1 \div 2)) ELSE r.p, at |-> r.at,
        sum |-> x.summ + Flag(2 * ns1 < ns) + IF 4 * ns1 <= ns /\ x.summ <= 8 * ns1 THEN 2 ELSE 0]
Expand(q, c, ns) == Expanded(q, c, q.ctx[c], NumStats(q, c), ns, Room(q, c, NumStats(q, c)))

\* The frequency of the new symbol, and what the total gains.
Share(cf, sf) ==
  LET freq == 4 + Flag(cf >= 9 * sf) + Flag(cf >= 12 * sf) + Flag(cf >= 15 * sf) IN
  IF cf < 6 * sf THEN [freq |-> 1 + Flag(cf > sf) + Flag(cf >= 4 * sf), more |-> 3] ELSE [freq |-> freq, more |-> freq]
Enter(r, c, sym, share, succ) ==
  [r.p EXCEPT !.ctx[c].states = Append(@, State(sym, share.freq, succ)), !.ctx[c].summ = r.sum + share.more]

\* The symbol found in context mc is new to c, ..., the contexts longer than mc.
RECURSIVE AddToLonger(_, _, _, _, _)
AddWithRoom(q, c, mc, s0, succ, r) ==
  IF r.at = 0 THEN Restarted(q)
  ELSE AddToLonger(Enter(r, c, FoundState(q).sym, Share(2 * (r.sum + 6) * FoundState(q).freq, s0 + r.sum), succ),
                   q.ctx[c].suffix, mc, s0, succ)
AddToLonger(q, c, mc, s0, succ) ==
  IF c = mc THEN q ELSE AddWithRoom(q, c, mc, s0, succ, Expand(q, c, NumStats(q, mc)))

\* In a context of the highest order the symbol leads to another one of that order.
LeadTo(q, r) == IF r.at = 0 THEN Restarted(q) ELSE SetSuccessor([r.p EXCEPT !.min = r.at, !.max = r.at], q.found, r.at)
UpdateHighest(q) == LeadTo(q, CreateSuccessors(q))

\* A mutant: the raw text loses its last symbol though a link to it was just made.
TextAfterAlways(q, last) == IF last THEN q.text ELSE q.text + 1
\* The symbol need not stay in the raw text when the contexts longer than min get no link to it.
TextAfter(q, last) == IF last /\ q.max # q.min THEN q.text ELSE q.text + 1

Written(q) == [q EXCEPT !.bytes = (q.text :> FoundState(q).sym) @@ @, !.text = @ + 1]
\* What the symbol leads to, a new context if that is in the raw text.
Successor(q, succ) == IF succ \in 1..q.text THEN CreateSuccessors(q) ELSE [p |-> q, at |-> succ]
\* The order is one less, or has been 0.
IsLast(q) == FoundState(q).succ # 0 /\ q.orderFall = 1
Lowered(q, r) ==
  IF FoundState(q).succ = 0 THEN SetSuccessor([r.p EXCEPT !.max = q.min], q.found, q.text + 1)
  ELSE [r.p EXCEPT !.orderFall = @ - 1, !.text = TextAfter(q, IsLast(q)), !.min = r.at, !.max = r.at]
FreqOfOthers(next, c) == next.ctx[c].summ - NumStats(next, c) - (FoundState(next).freq - 1)
AddFound(q, next, succ) ==
  IF q.max = q.min THEN next ELSE AddToLonger(next, q.max, q.min, FreqOfOthers(next, q.min), succ)
UpdateWith(q, r) ==
  IF FoundState(q).succ # 0 /\ r.at = 0 THEN Restarted(q)
  ELSE AddFound(q, Lowered(q, r), IF IsLast(q) THEN r.at ELSE q.text + 1)
\* In any other one the symbol is added to the raw text, and leads there when it is new.
UpdateLower(q) ==
  IF q.text + 1 >= q.unitsStart THEN Restarted(q) ELSE UpdateWith(q, Successor(Written(q), FoundState(q).succ))

UpdateContexts(q) == IF q.orderFall = 0 THEN UpdateHighest(q) ELSE UpdateLower(q)
UpdateModel(q) == UpdateContexts(UpdateSuffix(q))

-----------------------------------------------------------------------------
(* The frequencies.                                                          *)

Sum(s) == LET f[i \in 0..Len(s)] == IF i = 0 THEN 0 ELSE f[i - 1] + s[i].freq IN f[Len(s)]

\* Sorted as the frequencies, halved, say: s behind the states sorted so far.
RECURSIVE Sorted(_, _)
Sorted(sorted, s) ==
  IF s = <<>> THEN sorted
  ELSE LET k == Cardinality({i \in DOMAIN sorted : sorted[i].freq >= s[1].freq})
       IN Sorted(SubSeq(sorted, 1, k) \o <<s[1]>> \o SubSeq(sorted, k + 1, Len(sorted)), Tail(s))

\* A mutant: any context but that of order 0 may lose symbols.
AdderNone(q) == Flag(q.orderFall = MaxOrder)
Adder(q) == Flag(q.orderFall # 0)

\* A mutant: the half is rounded down.
HalfEscapeDown(esc) == esc \div 2
HalfEscape(esc) == esc - (esc \div 2)

\* A single symbol is left, and the escape: halved until that is 1.
RECURSIVE HalvedFreq(_, _)
HalvedFreq(esc, freq) == IF esc <= 1 THEN freq ELSE HalvedFreq(esc \div 2, (freq + 1) \div 2)

\* The vector, of n0 units, is cut to n1 units, or moves to a free block of these.
Shrunk(q, c, stats, n0, n1) ==
  LET taken == Removed(q, U2I(n1)) IN
  IF U2I(n0) = U2I(n1) THEN q
  ELSE IF q.free[U2I(n1)] # <<>> THEN InsertNode([taken.p EXCEPT !.ctx[c].stats = taken.at], stats, U2I(n0))
  ELSE SplitBlock(q, stats, U2I(n0), U2I(n1))

RescaledTo(q, c, stats, n, kept, esc) ==
  IF Len(kept) = 1
  THEN InsertNode([q EXCEPT !.found = <<c, 1>>, !.ctx[c].summ = 0, !.ctx[c].stats = 0,
                            !.ctx[c].states = <<[kept[1] EXCEPT !.freq = HalvedFreq(esc \div 2, (@ + 1) \div 2)]>>],
                  stats, U2I((n + 1) \div 2))
  ELSE Shrunk([q EXCEPT !.found = <<c, 1>>, !.ctx[c].states = kept, !.ctx[c].summ = Sum(kept) + HalfEscape(esc)],
              c, stats, (n + 1) \div 2, (Len(kept) + 1) \div 2)

Halved(s, adder) == [i \in DOMAIN s |-> [s[i] EXCEPT !.freq = (@ + adder) \div 2]]
\* The symbol found comes first; symbols whose frequency falls to 0 are left out.
HalvedKept(q, others, adder) ==
  SelectSeq(Sorted(<<[FoundState(q) EXCEPT !.freq = (@ + 4 + adder) \div 2]>>, Halved(others, adder)), LAMBDA t : t.freq # 0)
RescaledWith(q, x, others, kept) ==
  RescaledTo(q, q.min, x.stats, Len(x.states), kept,
             x.summ - FoundState(q).freq - Sum(others) + Len(x.states) - Len(kept))
RescaledAmong(q, x, others) == RescaledWith(q, x, others, HalvedKept(q, others, Adder(q)))

\* The frequencies of MinContext are halved.  Only a context of the highest order loses symbols.
Rescale(q) ==
  LET s == q.ctx[q.min].states IN
  RescaledAmong(q, q.ctx[q.min], SubSeq(s, 1, q.found[2] - 1) \o SubSeq(s, q.found[2] + 1, Len(s)))

\* The model r.p is updated for the symbol it found, unless the next context is known.
NextContext(r) ==
  LET succ == FoundState(r.p).succ IN
  IF r.then = "end" THEN r.p
  ELSE IF r.then = "next" /\ r.p.orderFall = 0 /\ succ > r.p.text THEN [r.p EXCEPT !.min = succ, !.max = succ]
  ELSE UpdateModel(r.p)

\* The symbol found becomes more frequent.
Counted(q, i) == [q EXCEPT !.found = <<q.min, i>>, !.ctx[q.min].states[i].freq = @ + 4, !.ctx[q.min].summ = @ + 4]
RescaledIfFull(q) == IF FoundState(q).freq > MaxFreq THEN Rescale(q) ELSE q

\* Then comes NextContext, or UpdateModel at once.
Update1_0(q) ==
  LET success == Flag(2 * q.ctx[q.min].states[1].freq > q.ctx[q.min].summ)
  IN [p |-> RescaledIfFull([Counted(q, 1) EXCEPT !.prevSuccess = success, !.runLength = @ + success]), then |-> "next"]
Update1Counted(u, s, i) ==
  [p |-> IF s[i].freq > s[i - 1].freq
         THEN RescaledIfFull([u EXCEPT !.ctx[u.min].states = Swapped(s, i), !.found[2] = i - 1]) ELSE u,
   then |-> "next"]
Update1(q, i) == LET u == Counted(q, i) IN Update1Counted(u, u.ctx[u.min].states, i)
Update2(q, i) == [p |-> RescaledIfFull([Counted(q, i) EXCEPT !.runLength = InitRL]), then |-> "model"]

-----------------------------------------------------------------------------
(* A symbol.  bin and see hold the adaptive probabilities of a single state  *)
(* and of an escape that were ever changed.                                  *)

Hi(sym) == Flag(sym >= HiSymbol)
PeriodBits == 7
BinScale == 2^14

BinKey(q) ==
  LET s == q.ctx[q.min].states[1]
  IN <<s.freq, q.prevSuccess, Flag(q.runLength < 0), NS2BSIndx(NumStats(q, q.ctx[q.min].suffix)), Hi(s.sym), Hi(FoundState(q).sym)>>
BinSumm(q, k) == IF k \in DOMAIN q.bin THEN q.bin[k] ELSE BinScale - (NewBinEsc[k[2] + 2 * k[4] + 1] \div (k[1] + 1))
UpdateProb1(pr) == pr - ((pr + 2^(PeriodBits - 2)) \div 2^PeriodBits)

SeeKey(q, numMasked) ==
  LET n == NumStats(q, q.min)
      free == n - numMasked
  IN <<NS2Indx(free), Flag(free < NumStats(q, q.ctx[q.min].suffix) - n), Flag(q.ctx[q.min].summ < 11 * n),
       Flag(numMasked > free), q.hiBits>>
See(q, k) == IF k \in DOMAIN q.see THEN q.see[k]
             ELSE [summ |-> (5 * k[1] + 10) * 2^(PeriodBits - 4), shift |-> PeriodBits - 4, count |-> 4]
SeeUpdated(s) ==
  IF s.shift = PeriodBits THEN s
  ELSE IF s.count # 1 THEN [s EXCEPT !.count = @ - 1]
  ELSE [summ |-> (2 * s.summ) % 2^16, shift |-> s.shift + 1, count |-> (3 * 2^s.shift) % 256]
\* MakeEscFreq: the weight of another escape, and what is left for the next one.
EscFreq(s) == LET r == s.summ \div 2^s.shift IN IF r = 0 THEN 1 ELSE r
SeeUsed(s) == [s EXCEPT !.summ = @ - (@ \div 2^s.shift)]

\* The next shorter context that has more symbols than the one left; 0 if there is none.
RECURSIVE Shorter(_, _, _)
Shorter(q, c, falls) ==
  LET s == q.ctx[c].suffix
  IN IF s = 0 THEN [c |-> 0, falls |-> falls]
     ELSE IF NumStats(q, s) # NumStats(q, q.min) THEN [c |-> s, falls |-> falls] ELSE Shorter(q, s, falls + 1)

\* The next context u.min has the states s; see is what its escape has, at k; the one of all symbols has none.
WithSee(u, k, s, x) == IF Len(s) = NumSymbols THEN u ELSE [u EXCEPT !.see = (k :> x) @@ @]
EscapeSum(old, weight) == (SeeUsed(old).summ + EscFreq(old) + weight) % 2^16

\* After an escape: the symbols of masked are out of the question.
RECURSIVE Escaped(_, _, _)
EscapeIn(u, s, masked, sym, k, old) ==
  LET syms == {s[i].sym : i \in DOMAIN s} IN
  IF sym \in syms \ masked THEN Update2(WithSee(u, k, s, SeeUpdated(SeeUsed(old))), IndexOf(u, u.min, sym))
  ELSE Escaped(WithSee(u, k, s, [SeeUsed(old) EXCEPT !.summ = EscapeSum(old, Sum(SelectSeq(s, LAMBDA t : t.sym \notin masked)))]), syms, sym)
EscapeWith(u, masked, sym, k) == EscapeIn(u, u.ctx[u.min].states, masked, sym, k, See(u, k))
EscapeTo(q, down, masked, sym) ==
  LET u == [q EXCEPT !.min = down.c, !.orderFall = @ + down.falls] IN
  IF down.c = 0 THEN [p |-> [q EXCEPT !.ended = TRUE], then |-> "end"]
  ELSE EscapeWith(u, masked, sym, SeeKey(u, NumStats(q, q.min)))
Escaped(q, masked, sym) == EscapeTo(q, Shorter(q, q.min, 1), masked, sym)

\* Ppmd7z_DecodeSymbol
DecodeMany(q, s, sym) ==
  LET i == IndexOf(q, q.min, sym)
      miss == [q EXCEPT !.prevSuccess = 0]
  IN IF \A k \in DOMAIN s : s[k].sym # sym
     THEN Escaped([miss EXCEPT !.hiBits = Hi(FoundState(q).sym)], {s[k].sym : k \in DOMAIN s}, sym)
     ELSE IF i = 1 THEN Update1_0(q) ELSE Update1(miss, i)

DecodeOne(q, s, sym, key, pr) ==
  LET u == [q EXCEPT !.hiBits = Hi(FoundState(q).sym), !.bin = (key :> pr) @@ @] IN
  IF s.sym = sym
  THEN [p |-> [u EXCEPT !.bin[key] = pr + 2^PeriodBits, !.found = <<q.min, 1>>, !.prevSuccess = 1, !.runLength = @ + 1,
                        !.ctx[q.min].states[1].freq = IF @ < MaxFreq + 4 THEN @ + 1 ELSE @],
        then |-> "next"]
  ELSE Escaped([u EXCEPT !.initEsc = ExpEscape[(pr \div 2^10) + 1], !.prevSuccess = 0], {s.sym}, sym)
DecodeBin(q, s, sym, key) == DecodeOne(q, s, sym, key, UpdateProb1(BinSumm(q, key)))

FindSymbol(q, s, sym) == IF Len(s) = 1 THEN DecodeBin(q, s[1], sym, BinKey(q)) ELSE DecodeMany(q, s, sym)
DecodeSymbol(q, sym) == NextContext(FindSymbol(q, q.ctx[q.min].states, sym))

-----------------------------------------------------------------------------
(* Decoding a text; a symbol that is none of Symbols stands for the end.     *)

vars == <<p, text, at>>

\* The escape a context starts with, and the class of the last symbol, are not set by Ppmd7_Init.
Unset == -1000

Init == p = RestartModel(Unset, Unset) /\ text \in Texts /\ at = 0

Decode == /\ at < Len(text) /\ ~p.ended
          /\ (\E q \in {DecodeSymbol(p, text[at + 1])} : p' = q) /\ at' = at + 1
          /\ UNCHANGED text

Next == Decode
Spec == Init /\ [][Next]_vars

-----------------------------------------------------------------------------
(* Properties.                                                               *)

\* The blocks of the memory: contexts, their vectors, and those in the lists of free ones.
Blocks ==
  {<<c, UnitSize>> : c \in DOMAIN p.ctx}
  \cup {<<p.ctx[c].stats, U2B(I2U(U2I((NumStats(p, c) + 1) \div 2)))>> : c \in {k \in DOMAIN p.ctx : NumStats(p, k) > 1}}
  \cup UNION {{<<p.free[i][k], U2B(I2U(i))>> : k \in DOMAIN p.free[i]} : i \in DOMAIN p.free}
NumBlocks ==
  LET lists[i \in 0..NumIndexes] == IF i = 0 THEN 0 ELSE lists[i - 1] + Len(p.free[i - 1])
  IN Cardinality(DOMAIN p.ctx) + Cardinality({c \in DOMAIN p.ctx : NumStats(p, c) > 1}) + lists[NumIndexes]
Owned == {b[1] : b \in Blocks}

\* The areas of the memory never cross, and the units in use and the free ones tile theirs:
\* every block begins where another one, or the area, ends - none is lost, none is used twice
\* ("These addresses don't cross at any time", Ppmd7_GlueFreeBlocks, Ppmd7_SplitBlock, Ppmd7_Rescale).
MemoryIsTiled ==
  /\ AlignOffset <= p.text /\ p.text < p.unitsStart /\ p.unitsStart <= p.lo /\ p.lo <= p.hi /\ p.hi < End
  /\ Cardinality(Owned) = NumBlocks
  /\ Owned \cup {p.lo, End} = {b[1] + b[2] : b \in Blocks} \cup {p.unitsStart, p.hi}

\* What a state leads to is nothing, a place in the raw text written before, or a context one
\* order longer; nothing only in the context of order 0 ("For any successors at any time").
SuccessorsHold ==
  \A c \in DOMAIN p.ctx : \A i \in DOMAIN p.ctx[c].states :
    LET s == p.ctx[c].states[i] IN
      \/ s.succ = 0 /\ p.ctx[c].suffix = 0
      \/ s.succ \in AlignOffset + 1..p.text
      \/ s.succ \in DOMAIN p.ctx

\* Every symbol of a context is one of its suffix, too: the searches that stop at nothing but the
\* symbol find it (Ppmd7_CreateSuccessors, Ppmd7_UpdateModel).
SuffixHasTheSymbols ==
  \A c \in DOMAIN p.ctx : LET x == p.ctx[c] IN
    /\ x.suffix # 0 => /\ x.suffix \in DOMAIN p.ctx
                       /\ {x.states[i].sym : i \in DOMAIN x.states} \subseteq
                            {p.ctx[x.suffix].states[i].sym : i \in DOMAIN p.ctx[x.suffix].states}
    /\ Cardinality({x.states[i].sym : i \in DOMAIN x.states}) = Len(x.states)

\* Every symbol, and the escape from it to a shorter context, keeps a share of the range
\* ("SummFreq = Sum(Stats[].Freq) + Escape_Freq"); a single one has a row in BinSumm.
EveryShareIsPositive ==
  \A c \in DOMAIN p.ctx : LET x == p.ctx[c] IN
    /\ \A i \in DOMAIN x.states : x.states[i].freq >= 1
    /\ IF Len(x.states) = 1 THEN x.states[1].freq <= MaxFreq + 4 ELSE Sum(x.states) < x.summ
=============================================================================
