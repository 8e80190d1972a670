------------------------------ MODULE HuffmanCode ------------------------------
(* How the DEFLATE compressor makes a Huffman code of the frequencies of its *)
(* symbols (deflate_compress.c, deflate_make_huffman_code): it sorts them,   *)
(* builds the inner nodes of the tree in the array they are sorted in,       *)
(* counts codewords by length, and numbers them.  Frequencies, lengths and   *)
(* codewords are functions on the symbols that have one; the rest are 0.     *)
EXTENDS Integers, Sequences, FiniteSets
LOCAL INSTANCE TLC
LOCAL INSTANCE SequencesExt
LOCAL INSTANCE FiniteSetsExt

\* An entry of the array: a symbol in the low NUM_SYMBOL_BITS bits; above it the symbol's frequency,
\* and later a node's frequency, its parent and its depth.
SymbolBits == 2^10
Packed(high, sym) == high * SymbolBits + sym
SymbolOf(a) == a % SymbolBits
HighOf(a) == a \div SymbolBits
SetHigh(A, k, high) == [A EXCEPT ![k + 1] = Packed(high, SymbolOf(@))]

-----------------------------------------------------------------------------
(* Sorting.                                                                  *)

DownTo(high, low) == [k \in 1..(IF high < low THEN 0 ELSE high - low + 1) |-> high + 1 - k]

RECURSIVE heapify_subtree(_, _, _, _)
\* v sinks from its parent's place until no child is greater; children of i are 2i and 2i + 1.
heapify_subtree(A, length, parent, v) ==
  LET left == 2 * parent
      child == IF left < length /\ A[left + 1] > A[left] THEN left + 1 ELSE left
  IN IF left > length \/ v >= A[child] THEN [A EXCEPT ![parent] = v]
     ELSE heapify_subtree([A EXCEPT ![parent] = A[child]], length, child, v)

heapify_array(A) ==
  FoldLeft(LAMBDA B, k : heapify_subtree(B, Len(A), k, B[k]), A, DownTo(Len(A) \div 2, 1))

\* A mutant: the rest is not made a heap again behind its root.
heap_sort_once(A) ==
  FoldLeft(LAMBDA B, n : [B EXCEPT ![n] = B[1], ![1] = B[n]],
           heapify_array(A), DownTo(Len(A), 2))
\* The greatest goes behind the rest, again and again.
heap_sort(A) ==
  FoldLeft(LAMBDA B, n : heapify_subtree([B EXCEPT ![n] = B[1], ![1] = B[n]], n - 1, 1, B[n]),
           heapify_array(A), DownTo(Len(A), 2))
\* Symbols with a frequency, by frequency, then by number: counted by frequency, one counter for each
\* up to the last, which takes all higher ones and is sorted afterwards.
Counter(freqs, numSyms, s) == IF freqs[s] < numSyms - 1 THEN freqs[s] ELSE numSyms - 1
counted_symbols(numSyms, freqs) ==
  SortSeq(SelectSeq([i \in 1..numSyms |-> i - 1], LAMBDA s : s \in DOMAIN freqs),
          LAMBDA a, b : Counter(freqs, numSyms, a) < Counter(freqs, numSyms, b) \/ (Counter(freqs, numSyms, a) = Counter(freqs, numSyms, b) /\ a < b))
PackedSymbols(freqs, syms) == <<>> \o [i \in DOMAIN syms |-> Packed(freqs[syms[i]], syms[i])]
SortedBehind(A, low) == SubSeq(A, 1, low) \o heap_sort(SubSeq(A, low + 1, Len(A)))
sort_symbols(numSyms, freqs) ==
  SortedBehind(PackedSymbols(freqs, counted_symbols(numSyms, freqs)),
               Cardinality({s \in DOMAIN freqs : Counter(freqs, numSyms, s) < numSyms - 1}))

-----------------------------------------------------------------------------
(* The tree and the code.                                                    *)

\* The next leaf without a parent is i, the next inner node b; the two nodes that come first by
\* frequency get the parent e, which takes the place of a leaf that has one.
JoinTwo(t, last) ==
  LET F(k) == HighOf(t.A[k + 1])
      e == t.e
  IN IF t.i + 1 <= last /\ (t.b = e \/ F(t.i + 1) <= F(t.b))
     THEN [A |-> SetHigh(t.A, e, F(t.i) + F(t.i + 1)), i |-> t.i + 2, b |-> t.b, e |-> e + 1]
     ELSE IF t.b + 2 <= e /\ (t.i > last \/ F(t.b + 1) < F(t.i))
     THEN [A |-> SetHigh(SetHigh(SetHigh(t.A, t.b, e), t.b + 1, e), e, F(t.b) + F(t.b + 1)), i |-> t.i, b |-> t.b + 2, e |-> e + 1]
     ELSE [A |-> SetHigh(SetHigh(t.A, t.b, e), e, F(t.i) + F(t.b)), i |-> t.i + 1, b |-> t.b + 1, e |-> e + 1]
RECURSIVE Joined(_, _, _)
Joined(t, n, last) ==
  IF t.e = last \/ n = 0 THEN t ELSE IF n = 1 THEN JoinTwo(t, last) ELSE Joined(Joined(t, n \div 2, last), n - (n \div 2), last)
build_tree(A) == Joined([A |-> A, i |-> 0, b |-> 0, e |-> 0], Len(A) - 1, Len(A) - 1).A

\* A mutant: below the limit, the codeword is taken from the last length, which may have none.
CountNodeLast(t, maxLen) ==
  LET depth == HighOf(t.A[HighOf(t.A[t.node + 1]) + 1]) + 1
      taken == IF depth < maxLen THEN depth ELSE maxLen - 1
  IN [A |-> SetHigh(t.A, t.node, depth), node |-> t.node - 1, counts |-> [t.counts EXCEPT ![taken] = @ - 1, ![taken + 1] = @ + 2]]
\* From the root's children down: an inner node at a depth takes a codeword of that length away and
\* adds two that are longer by one; below the limit, it takes the longest there is.
CountNode(t, maxLen) ==
  LET depth == HighOf(t.A[HighOf(t.A[t.node + 1]) + 1]) + 1
      taken == IF depth < maxLen THEN depth
               ELSE CHOOSE n \in 1..maxLen - 1 : t.counts[n] # 0 /\ \A m \in n + 1..maxLen - 1 : t.counts[m] = 0
  IN [A |-> SetHigh(t.A, t.node, depth), node |-> t.node - 1, counts |-> [t.counts EXCEPT ![taken] = @ - 1, ![taken + 1] = @ + 2]]
RECURSIVE NodesCounted(_, _, _)
NodesCounted(t, n, maxLen) ==
  IF t.node < 0 \/ n = 0 THEN t ELSE IF n = 1 THEN CountNode(t, maxLen) ELSE NodesCounted(NodesCounted(t, n \div 2, maxLen), n - (n \div 2), maxLen)
compute_length_counts(A, root, maxLen) ==
  NodesCounted([A |-> SetHigh(A, root, 0), node |-> root - 1, counts |-> [n \in 0..maxLen |-> IF n = 1 THEN 2 ELSE 0]], root, maxLen).counts

reverse_codeword(codeword, len) ==
  FoldLeft(LAMBDA r, k : r + (((codeword \div 2^k) % 2) * 2^(len - 1 - k)), 0, [k \in 1..len |-> k - 1])

\* The longest codewords go to the rarest symbols; those of a length are numbered by symbol.
gen_codewords(A, counts, maxLen) ==
  LET lengths == FoldLeft(LAMBDA s, n : [k \in 1..counts[n] |-> n] \o s, <<>>, [n \in 1..maxLen |-> n])
      syms == {SymbolOf(A[i]) : i \in DOMAIN A}
      lens == [s \in syms |-> lengths[CHOOSE i \in DOMAIN A : SymbolOf(A[i]) = s]] @@ <<>>
      next[n \in 1..maxLen] == IF n = 1 THEN 0 ELSE 2 * (next[n - 1] + counts[n - 1])
  IN [lens |-> lens,
      codewords |-> [s \in syms |-> reverse_codeword(next[lens[s]] + Cardinality({r \in syms : r < s /\ lens[r] = lens[s]}), lens[s])]]

\* With fewer than two symbols, a code of two all the same.
CodeOfTwo(sym) == [lens |-> 0 :> 1 @@ sym :> 1, codewords |-> 0 :> 0 @@ sym :> 1]
CodeOfSorted(A, maxLen) ==
  IF A = <<>> \/ (Len(A) = 1 /\ SymbolOf(A[1]) = 0) THEN CodeOfTwo(1)
  ELSE IF Len(A) = 1 THEN CodeOfTwo(SymbolOf(A[1]))
  ELSE gen_codewords(A, compute_length_counts(build_tree(A), Len(A) - 2, maxLen), maxLen)
deflate_make_huffman_code(numSyms, maxLen, freqs) == CodeOfSorted(sort_symbols(numSyms, freqs), maxLen)

-----------------------------------------------------------------------------
(* What a code should be.                                                    *)

RECURSIVE Merged(_)
\* The cost of the best code: the two lightest trees are joined, again and again (Huffman).
Merged(weights) ==
  LET s == SortSeq(weights, LAMBDA a, b : a < b)
  IN IF Len(s) < 2 THEN 0 ELSE s[1] + s[2] + Merged(<<s[1] + s[2]>> \o SubSeq(s, 3, Len(s)))

CostOf(freqs, lens) == MapThenSumSet(LAMBDA s : freqs[s] * lens[s], DOMAIN freqs)
\* Kraft's sum, in units of 2^-max.
KraftOf(lens, max) == MapThenSumSet(LAMBDA s : 2^(max - lens[s]), DOMAIN lens)
=============================================================================
