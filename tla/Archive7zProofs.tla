------------------------- MODULE Archive7zProofs -------------------------
(* Proofs about Archive7z and the modules it is built on, for any file.      *)
EXTENDS Archive7z, FiniteSetTheorems, SequenceTheorems, WellFoundedInduction, TLAPS

-----------------------------------------------------------------------------
(* Loops.                                                                    *)

\* Every set of numbers that is not empty has a least member.
LEMMA LeastNat ==
  ASSUME NEW T \in SUBSET Nat, T # {}
  PROVE  \E m \in T : \A n \in T : m <= n
<1> DEFINE R == OpToRel(<, Nat)
<1>1. \E m \in T : \A n \in T : <<n, m>> \notin R
  <2>1. IsWellFoundedOn(R, Nat)
    BY NatLessThanWellFounded
  <2> HIDE DEF R
  <2> QED BY <2>1, WFMin
<1>2. \A m, n \in Nat : <<n, m>> \in R <=> n < m
  BY DEF OpToRel
<1> HIDE DEF R
<1>3. PICK m \in T : \A n \in T : <<n, m>> \notin R
  BY <1>1
<1>4. \A n \in T : n \in Nat /\ m \in Nat /\ ~(n < m)
  BY <1>2, <1>3
<1> QED BY <1>4

\* What holds at 0 and at k + 1 whenever it holds at k.
LEMMA Upwards ==
  ASSUME NEW n \in Nat, NEW T, 0 \in T, \A k \in 0..n : k \in T /\ k < n => k + 1 \in T
  PROVE  \A k \in 0..n : k \in T
<1> DEFINE Bad == {k \in 0..n : k \notin T}
<1>1. Bad \in SUBSET Nat
  OBVIOUS
<1>2. ASSUME Bad # {} PROVE FALSE
  <2>1. PICK m \in Bad : \A k \in Bad : m <= k
    BY <1>1, <1>2, LeastNat
  <2>2. m \in 0..n /\ m # 0 /\ m \notin T
    BY <2>1
  <2>3. m - 1 \in 0..n /\ m - 1 \notin Bad /\ m - 1 < n
    BY <2>1, <2>2
  <2>4. m - 1 \in T
    BY <2>3
  <2> QED BY <2>2, <2>3, <2>4
<1> QED BY <1>2

\* A loop of n turns over a set of states it does not leave.
Turning(f, n, b, step) == \A k \in 0..n : f[k] = IF k = 0 THEN b ELSE step[<<f[k - 1], k>>]
Inside(step, S, n) == step \in [S \X (1..n) -> S]

\* A step that stays inside a set can be taken any number of times from a member of it.
LEMMA Iterates ==
  ASSUME NEW S, NEW n \in Nat, NEW b \in S, NEW step, Inside(step, S, n)
  PROVE  \E f \in [0..n -> S] : Turning(f, n, b, step)
<1> DEFINE Good(m, f) == f[0] = b /\ \A k \in 1..m : f[k] = step[<<f[k - 1], k>>]
           T == {m \in 0..n : \E f \in [0..m -> S] : Good(m, f)}
<1>1. 0 \in T
  <2> DEFINE h == [k \in 0..0 |-> b]
  <2>1. h \in [0..0 -> S] /\ Good(0, h)
    OBVIOUS
  <2> HIDE DEF h, Good
  <2> QED BY <2>1
<1>2. ASSUME NEW m \in 0..n, m \in T, m < n PROVE m + 1 \in T
  <2>1. PICK f \in [0..m -> S] : Good(m, f)
    BY <1>2
  <2>2. m + 1 \in 1..n /\ f[m] \in S
    BY <1>2, <2>1
  <2>3. step[<<f[m], m + 1>>] \in S
    BY <2>2 DEF Inside
  <2> DEFINE h == [k \in 0..(m + 1) |-> IF k = m + 1 THEN step[<<f[m], m + 1>>] ELSE f[k]]
  <2>4. h \in [0..(m + 1) -> S]
    BY <2>1, <2>3
  <2>5. h[0] = b
    BY <2>1
  <2>6. ASSUME NEW k \in 1..(m + 1) PROVE h[k] = step[<<h[k - 1], k>>]
    <3>1. CASE k = m + 1
      <4>1. h[m + 1] = step[<<f[m], m + 1>>] /\ h[m] = f[m]
        BY <2>2
      <4> HIDE DEF h
      <4> QED BY <3>1, <4>1
    <3>2. CASE k \in 1..m
      BY <2>1, <3>2
    <3> QED BY <3>1, <3>2
  <2> HIDE DEF h
  <2>7. Good(m + 1, h)
    BY <2>5, <2>6
  <2> QED BY <2>2, <2>4, <2>7
<1> HIDE DEF T
<1>3. n \in T
  BY <1>1, <1>2, Upwards
<1>4. PICK f \in [0..n -> S] : Good(n, f)
  BY <1>3 DEF T
<1>5. Turning(f, n, b, step)
  BY <1>4 DEF Turning
<1> QED BY <1>5

\* A loop that starts in the set stays there.
LEMMA Iterated ==
  ASSUME NEW S, NEW n \in Nat, NEW f, f[0] \in S, \A k \in 1..n : f[k - 1] \in S => f[k] \in S
  PROVE  \A k \in 0..n : f[k] \in S
<1> DEFINE T == {k \in 0..n : f[k] \in S}
<1>1. 0 \in T
  OBVIOUS
<1>2. ASSUME NEW k \in 0..n, k \in T, k < n PROVE k + 1 \in T
  <2>1. k + 1 \in 1..n /\ (k + 1) - 1 = k
    BY <1>2
  <2> QED BY <1>2, <2>1
<1> HIDE DEF T
<1>3. \A k \in 0..n : k \in T
  BY <1>1, <1>2, Upwards
<1> QED BY <1>3 DEF T

-----------------------------------------------------------------------------
(* Cursors.                                                                  *)

Byte == 0..255
IsCursor(r) == r = [ok |-> r.ok, sd |-> r.sd, v |-> r.v] /\ r.ok \in BOOLEAN /\ r.sd \in Seq(Byte)

\* t is an end of s.
IsRest(s, t) == t \in Seq(Byte) /\ \E p \in Seq(Byte) : s = p \o t

\* x is a cursor somewhere behind r; truly behind it.
Passed(r, x) == IsCursor(x) /\ (x.ok => r.ok /\ IsRest(r.sd, x.sd))
Read(r, x) == Passed(r, x) /\ (x.ok => Len(x.sd) < Len(r.sd))

\* What is left of bytes once some are dropped is the rest of them.
LEMMA RestIs ==
  ASSUME NEW s \in Seq(Byte), NEW n \in 0..Len(s)
  PROVE  LET t == SubSeq(s, n + 1, Len(s)) IN IsRest(s, t) /\ t \in Seq(Byte) /\ Len(t) = Len(s) - n
<1> DEFINE t == SubSeq(s, n + 1, Len(s))
           p == SubSeq(s, 1, n)
<1>1. t \in Seq(Byte) /\ Len(t) = Len(s) - n /\ p \in Seq(Byte)
  OBVIOUS
<1>2. p \o t = SubSeq(s, 1, Len(s))
  <2>1. 1 \in 1..Len(s) + 1 /\ n \in (1 - 1)..Len(s) /\ Len(s) \in n..Len(s)
    OBVIOUS
  <2> QED BY <2>1, ConcatAdjacentSubSeq
<1>3. s = p \o t
  BY <1>2, SubSeqFull
<1> QED BY <1>1, <1>3 DEF IsRest

\* Joining three sequences does not depend on which two are joined first.
LEMMA Grouped ==
  ASSUME NEW S, NEW p \in Seq(S), NEW q \in Seq(S), NEW u \in Seq(S)
  PROVE  (p \o q) \o u = p \o (q \o u)
OBVIOUS

\* The rest of a rest is a rest: reading only moves on.
LEMMA RestOfRest ==
  ASSUME NEW s \in Seq(Byte), NEW t, IsRest(s, t), NEW u, IsRest(t, u)
  PROVE  IsRest(s, u) /\ Len(u) <= Len(t) /\ Len(t) <= Len(s) /\ Len(u) \in Nat /\ Len(t) \in Nat /\ Len(s) \in Nat
<1>1. PICK p \in Seq(Byte) : s = p \o t
  BY DEF IsRest
<1>2. PICK q \in Seq(Byte) : t = q \o u
  BY DEF IsRest
<1>3. t \in Seq(Byte) /\ u \in Seq(Byte)
  BY DEF IsRest
<1>4. s = (p \o q) \o u
  <2>1. (p \o q) \o u = p \o (q \o u)
    BY <1>3
  <2> QED BY <1>1, <1>2, <2>1
<1>5. p \o q \in Seq(Byte)
  BY ConcatProperties
<1>6. Len(s) = Len(p) + Len(t) /\ Len(t) = Len(q) + Len(u)
  BY <1>1, <1>2, <1>3, ConcatProperties
<1>7. Len(p) \in Nat /\ Len(q) \in Nat /\ Len(u) \in Nat /\ Len(t) \in Nat
  BY <1>3, LenProperties
<1>8. Len(u) <= Len(t) /\ Len(t) <= Len(s) /\ Len(s) \in Nat
  BY <1>6, <1>7
<1> QED BY <1>3, <1>4, <1>5, <1>7, <1>8 DEF IsRest

\* Two readings in a row are a reading, and read something when one of them does.
LEMMA Onward ==
  ASSUME NEW r, IsCursor(r), NEW x, Passed(r, x), NEW y, Passed(x, y)
  PROVE  Passed(r, y) /\ (Read(r, x) \/ Read(x, y) => Read(r, y))
<1>1. CASE ~y.ok
  BY <1>1 DEF Passed, Read
<1>2. CASE y.ok
  <2>1. IsCursor(y) /\ y.ok /\ x.ok /\ r.ok /\ IsRest(r.sd, x.sd) /\ IsRest(x.sd, y.sd)
    BY <1>2 DEF Passed
  <2>2. r.sd \in Seq(Byte)
    BY DEF IsCursor
  <2>3. /\ IsRest(r.sd, y.sd) /\ Len(y.sd) <= Len(x.sd) /\ Len(x.sd) <= Len(r.sd)
        /\ Len(y.sd) \in Nat /\ Len(x.sd) \in Nat /\ Len(r.sd) \in Nat
    BY <2>1, <2>2, RestOfRest
  <2> QED BY <2>1, <2>3 DEF Passed, Read
<1> QED BY <1>1, <1>2 DEF Passed, IsCursor

\* Standing still is a reading of nothing.
LEMMA HereIsPassed ==
  ASSUME NEW r, IsCursor(r)
  PROVE  Passed(r, r)
<1>1. r.sd \in Seq(Byte)
  BY DEF IsCursor
<1>2. <<>> \in Seq(Byte) /\ r.sd = <<>> \o r.sd
  BY <1>1, ConcatEmptySeq, EmptySeq
<1> QED BY <1>1, <1>2 DEF Passed, IsRest

\* A cursor that failed lies past every cursor: no read continues it.
LEMMA ErrIs == IsCursor(Err) /\ ~Err.ok /\ \A r : Passed(r, Err) /\ Read(r, Err)
BY DEF Err, IsCursor, Passed, Read

\* Giving a cursor a value moves it nowhere.
LEMMA WithIs ==
  ASSUME NEW r, IsCursor(r), NEW v
  PROVE  /\ Passed(r, With(r, v)) /\ IsCursor(With(r, v)) /\ With(r, v).ok = r.ok
         /\ r.ok => With(r, v).v = v /\ With(r, v).sd = r.sd
<1>1. CASE r.ok
  <2> DEFINE w == [ok |-> r.ok, sd |-> r.sd, v |-> v]
  <2>1. With(r, v) = w
    BY <1>1 DEF With, IsCursor
  <2>2. IsCursor(w) /\ w.ok = r.ok /\ w.sd = r.sd /\ w.v = v
    BY DEF IsCursor
  <2> HIDE DEF w
  <2>3. Passed(r, r)
    BY HereIsPassed
  <2> QED BY <1>1, <2>1, <2>2, <2>3 DEF Passed
<1>2. CASE ~r.ok
  BY <1>2, ErrIs DEF With, IsCursor, Err
<1> QED BY <1>1, <1>2

\* A check of the code leaves the cursor as it was or fails it.
LEMMA CheckIs ==
  ASSUME NEW r, IsCursor(r), NEW P
  PROVE  /\ Passed(r, Check(r, P)) /\ IsCursor(Check(r, P))
         /\ Check(r, P).ok => r.ok /\ P /\ Check(r, P) = r
<1>1. CASE r.ok /\ P
  BY <1>1, HereIsPassed DEF Check
<1>2. CASE ~(r.ok /\ P)
  BY <1>2, ErrIs DEF Check
<1> QED BY <1>1, <1>2

\* Skipping n bytes leaves the bytes behind them, and fails when fewer are left.
LEMMA DropIs ==
  ASSUME NEW r, IsCursor(r), NEW n \in Nat
  PROVE  /\ Passed(r, Drop(r, n)) /\ IsCursor(Drop(r, n)) /\ (n > 0 => Read(r, Drop(r, n)))
         /\ Drop(r, n).ok => /\ r.ok /\ n <= Len(r.sd) /\ Drop(r, n).v = r.v
                             /\ Drop(r, n).sd = SubSeq(r.sd, n + 1, Len(r.sd))
                             /\ Len(Drop(r, n).sd) = Len(r.sd) - n
<1>1. r.sd \in Seq(Byte) /\ Len(r.sd) \in Nat
  BY DEF IsCursor
<1>2. CASE r.ok /\ n <= Len(r.sd)
  <2> DEFINE t == SubSeq(r.sd, n + 1, Len(r.sd))
             w == [ok |-> r.ok, sd |-> t, v |-> r.v]
  <2>1. Drop(r, n) = w
    BY <1>2 DEF Drop, IsCursor
  <2>2. n \in 0..Len(r.sd)
    BY <1>1, <1>2
  <2>3. IsRest(r.sd, t) /\ t \in Seq(Byte) /\ Len(t) = Len(r.sd) - n
    BY <1>1, <2>2, RestIs
  <2> HIDE DEF t
  <2>5. IsCursor(w) /\ w.ok = r.ok /\ w.sd = t /\ w.v = r.v
    BY <2>3 DEF IsCursor
  <2> HIDE DEF w
  <2>6. Drop(r, n).sd = SubSeq(r.sd, n + 1, Len(r.sd))
    BY <2>1, <2>5 DEF t
  <2>7. n > 0 => Len(w.sd) < Len(r.sd)
    BY <1>1, <2>3, <2>5
  <2> QED BY <1>2, <2>1, <2>3, <2>5, <2>6, <2>7 DEF Passed, Read
<1>3. CASE ~(r.ok /\ n <= Len(r.sd))
  BY <1>3, ErrIs DEF Drop
<1> QED BY <1>2, <1>3

\* SzReadByte2 takes one byte, the first of those left.
LEMMA ByteIs ==
  ASSUME NEW r, IsCursor(r)
  PROVE  /\ Read(r, ReadByte(r)) /\ IsCursor(ReadByte(r))
         /\ ReadByte(r).ok => ReadByte(r).v \in Byte /\ r.sd # <<>> /\ ReadByte(r).v = Head(r.sd)
<1>1. CASE r.ok /\ r.sd # <<>>
  <2> DEFINE d == Drop(r, 1)
  <2>1. IsCursor(d) /\ Read(r, d)
    BY DropIs
  <2> HIDE DEF d
  <2>2. r.sd \in Seq(Byte) /\ Head(r.sd) \in Byte
    BY <1>1 DEF IsCursor
  <2> DEFINE h == Head(r.sd)
             w == With(d, h)
  <2>3. ReadByte(r) = w
    BY <1>1 DEF ReadByte, d
  <2>4. h \in Byte
    BY <2>2
  <2> HIDE DEF h
  <2>5. Passed(d, w) /\ IsCursor(w) /\ w.ok = d.ok /\ (d.ok => w.v = h)
    BY <2>1, WithIs
  <2>6. Read(r, w)
    BY <2>1, <2>5, Onward DEF Read
  <2> HIDE DEF w
  <2> QED BY <1>1, <2>3, <2>4, <2>5, <2>6 DEF h
<1>2. CASE ~(r.ok /\ r.sd # <<>>)
  BY <1>2, ErrIs DEF ReadByte
<1> QED BY <1>1, <1>2

-----------------------------------------------------------------------------
(* Numbers.                                                                  *)

\* The powers of two a byte's bits weigh are positive numbers.
LEMMA PowerIs == \A k \in 0..7 : 2^k \in Nat \ {0}
<1> TAKE k \in 0..7
<1> DEFINE P(m) == 2^m \in Nat \ {0}
<1>1. P(0) /\ P(1) /\ P(2) /\ P(3)
  OBVIOUS
<1>2. P(4) /\ P(5) /\ P(6) /\ P(7)
  OBVIOUS
<1>3. k = 0 \/ k = 1 \/ k = 2 \/ k = 3 \/ k = 4 \/ k = 5 \/ k = 6 \/ k = 7
  OBVIOUS
<1> HIDE DEF P
<1>4. P(k)
  BY <1>1, <1>2, <1>3, Zenon
<1> QED BY <1>4 DEF P

\* The first byte of a number announces at most eight more.
LEMMA FollowingIs == \A b : Following(b) \in 0..8
<1> TAKE b
<1> DEFINE s == {k \in 1..8 : b >= 256 - 2^(8 - k)}
<1>1. s \subseteq 1..8
  OBVIOUS
<1> HIDE DEF s
<1>2. IsFiniteSet(1..8) /\ Cardinality(1..8) = 8
  <2>1. 1 \in Int /\ 8 \in Int
    OBVIOUS
  <2>2. IsFiniteSet(1..8) /\ Cardinality(1..8) = IF 1 > 8 THEN 0 ELSE 8 - 1 + 1
    BY <2>1, FS_Interval, Zenon
  <2> QED BY <2>2
<1>3. IsFiniteSet(s) /\ Cardinality(s) <= 8 /\ Cardinality(s) \in Nat
  <2> DEFINE T == 1..8
  <2>1. IsFiniteSet(T) /\ Cardinality(T) = 8 /\ s \in SUBSET T
    BY <1>1, <1>2
  <2> HIDE DEF T
  <2>2. IsFiniteSet(s) /\ Cardinality(s) <= Cardinality(T)
    BY <2>1, FS_Subset
  <2>3. Cardinality(s) \in Nat
    BY <2>2, FS_CardinalityType
  <2> QED BY <2>1, <2>2, <2>3
<1> QED BY <1>3 DEF Following, s

\* The bits a number's first byte adds are a number.
LEMMA HighestIs ==
  ASSUME NEW b \in Byte, NEW n \in 0..8
  PROVE  Highest(b, n) \in Nat
<1>1. CASE n >= 7
  BY <1>1 DEF Highest
<1>2. CASE n \in 0..6
  <2> DEFINE p == 2^(7 - n)
  <2>1. p \in Nat \ {0}
    <3>1. 7 - n \in 0..7
      BY <1>2
    <3> QED BY <3>1, PowerIs
  <2>2. Highest(b, n) = b % p
    BY <1>2 DEF Highest
  <2> HIDE DEF p
  <2> QED BY <2>1, <2>2 DEF Byte
<1> QED BY <1>1, <1>2

\* The bounds of the 64-bit and 32-bit numbers are positive, and the second is within the first.
LEMMA WordIs == Word \in Nat /\ Word > 0 /\ Limit32 \in Nat /\ Limit32 > 0 /\ Limit32 <= Word
BY HeaderAssumption

\* A number wrapped to 64 bits fits in them.
LEMMA RemainderIs ==
  ASSUME NEW x \in Nat
  PROVE  x % Word \in 0..Word - 1
BY WordIs

\* What ReadNumber computes from its bytes fits in 64 bits.
LEMMA NumberOfIs ==
  ASSUME NEW bytes \in Seq(Byte), NEW n \in 0..8, Len(bytes) = n + 1
  PROVE  NumberOf(bytes, n) \in 0..Word - 1
<1> DEFINE S == 0..Word - 1
           Next1(high, k) == (high * 256 + bytes[n + 2 - k]) % Word
           step == [x \in S \X (1..n) |-> Next1(x[1], x[2])]
           b == Highest(bytes[1], n) % Word
           g == CHOOSE f : f = [k \in 0..n |-> IF k = 0 THEN b ELSE Next1(f[k - 1], k)]
<1>1. b \in S
  <2>1. bytes[1] \in Byte
    OBVIOUS
  <2> QED BY <2>1, HighestIs, RemainderIs
<1>2. ASSUME NEW high \in S, NEW k \in 1..n PROVE Next1(high, k) \in S
  <2>1. bytes[n + 2 - k] \in Byte /\ high \in Nat
    BY WordIs
  <2> DEFINE y == bytes[n + 2 - k]
  <2> HIDE DEF y
  <2>2. y \in Nat
    <3>1. y \in Byte
      BY <2>1 DEF y
    <3> QED BY ONLY <3>1 DEF Byte
  <2>3. high * 256 + y \in Nat
    BY ONLY <2>1, <2>2
  <2> QED BY <2>3, RemainderIs DEF y
<1> HIDE DEF Next1, S, b
<1>3. Inside(step, S, n)
  BY <1>2 DEF Inside
<1>4. \A high \in S, k \in 1..n : step[<<high, k>>] = Next1(high, k)
  OBVIOUS
<1> HIDE DEF step
<1> n \in Nat
  OBVIOUS
<1>5. PICK h \in [0..n -> S] : Turning(h, n, b, step)
  <2>1. n \in Nat
    OBVIOUS
  <2> QED BY ONLY <1>1, <1>3, <2>1, Iterates, ZenonT(60)
<1>6. \A k \in 0..n : h[k] = IF k = 0 THEN b ELSE Next1(h[k - 1], k)
  BY <1>4, <1>5 DEF Turning
<1>7. h = [k \in 0..n |-> IF k = 0 THEN b ELSE Next1(h[k - 1], k)]
  BY <1>6
<1>8. g = [k \in 0..n |-> IF k = 0 THEN b ELSE Next1(g[k - 1], k)]
  BY <1>7
<1> HIDE DEF g
<1>9. g[0] \in S /\ \A k \in 1..n : g[k - 1] \in S => g[k] \in S
  BY <1>1, <1>2, <1>8
<1>10. g[n] \in S
  BY <1>9, Iterated
<1>11. NumberOf(bytes, n) = g[n]
  BY DEF NumberOf, Fold, g, Next1, b
<1> QED BY <1>10, <1>11 DEF S

Number == 0..Word - 1
Number32 == 0..Limit32 - 1

\* ReadNumber reads at least a byte and returns a 64-bit number.
LEMMA NumberIs ==
  ASSUME NEW r, IsCursor(r)
  PROVE  Read(r, ReadNumber(r)) /\ IsCursor(ReadNumber(r)) /\ (ReadNumber(r).ok => ReadNumber(r).v \in Number)
<1>1. CASE ~r.ok \/ r.sd = <<>>
  BY <1>1, ErrIs DEF ReadNumber
<1>2. CASE r.ok /\ r.sd # <<>>
  <2> DEFINE n == Following(Head(r.sd))
             x == NumberAfter(r, n)
  <2>1. ReadNumber(r) = x
    BY <1>2 DEF ReadNumber
  <2>2. n \in 0..8
    BY FollowingIs
  <2>3. r.sd \in Seq(Byte) /\ Len(r.sd) \in Nat
    BY DEF IsCursor
  <2> HIDE DEF n
  <2>4. CASE n >= Len(r.sd)
    <3>1. x = Err
      BY <2>4 DEF NumberAfter
    <3> QED BY <2>1, <3>1, ErrIs
  <2>5. CASE n < Len(r.sd)
    <3> DEFINE bytes == SubSeq(r.sd, 1, n + 1)
               d == Drop(r, n + 1)
               w == NumberOf(bytes, n)
    <3>1. bytes \in Seq(Byte) /\ Len(bytes) = n + 1
      BY <2>2, <2>3, <2>5
    <3> HIDE DEF bytes
    <3>2. w \in Number
      BY <2>2, <3>1, NumberOfIs DEF Number
    <3>3. x = With(d, w)
      BY <2>2, <2>3, <2>5 DEF NumberAfter, bytes
    <3>4. n + 1 \in Nat /\ n + 1 > 0
      BY <2>2
    <3>5. Read(r, d) /\ IsCursor(d)
      BY <3>4, DropIs
    <3> HIDE DEF d, w, x
    <3>6. Passed(d, x) /\ IsCursor(x) /\ (x.ok => x.v = w)
      BY <3>3, <3>5, WithIs
    <3>7. Read(r, x)
      BY <3>5, <3>6, Onward DEF Read
    <3> QED BY <2>1, <3>2, <3>6, <3>7
  <2> QED BY <2>2, <2>3, <2>4, <2>5
<1>3. r.ok \in BOOLEAN
  BY DEF IsCursor
<1> QED BY <1>1, <1>2, <1>3

\* SzReadNumber32 reads at least a byte and returns a number below its limit.
LEMMA Number32Is ==
  ASSUME NEW r, IsCursor(r)
  PROVE  Read(r, ReadNumber32(r)) /\ IsCursor(ReadNumber32(r)) /\ (ReadNumber32(r).ok => ReadNumber32(r).v \in Number32)
<1> DEFINE t == ReadNumber(r)
           x == Check(t, t.v < Limit32)
<1>1. Read(r, t) /\ IsCursor(t) /\ (t.ok => t.v \in Number)
  BY NumberIs
<1>2. ReadNumber32(r) = x
  BY DEF ReadNumber32, Small
<1> HIDE DEF t
<1>3. Passed(t, x) /\ IsCursor(x) /\ (x.ok => t.ok /\ t.v < Limit32 /\ x = t)
  BY <1>1, CheckIs
<1> HIDE DEF x
<1>4. Read(r, x)
  BY <1>1, <1>3, Onward DEF Read
<1>5. x.ok => x.v \in Number32
  BY <1>1, <1>3, WordIs DEF Number, Number32
<1> QED BY <1>2, <1>3, <1>4, <1>5

-----------------------------------------------------------------------------
(* Readings one after the other.                                             *)

Cursors(V) == [ok : BOOLEAN, sd : Seq(Byte), v : Seq(V) \cup {0}]
\* op reads a member of V, or fails.
Reader(op, V) == \A c \in Cursors(V) : c.ok => Read(c, op[c]) /\ (op[c].ok => op[c].v \in V)
Turn(c, x) == IF ~c.ok THEN c ELSE Item(c, x)
Readings(f, m, r, op) == f[0] = With(r, <<>>) /\ \A k \in 1..m : f[k] = Turn(f[k - 1], op[f[k - 1]])
\* x is what n readings after r leave.
ReadAll(r, x, V, n) ==
  Passed(r, x) /\ (x.ok => x.v \in Seq(V) /\ Len(x.v) = n /\ Len(x.sd) + n <= Len(r.sd))

\* A turn of a reading loop appends one value and moves on.
LEMMA TurnIs ==
  ASSUME NEW V, NEW c \in Cursors(V), NEW x, c.ok => Read(c, x) /\ (x.ok => x.v \in V), c.ok => c.v \in Seq(V)
  PROVE  LET t == Turn(c, x) IN
         /\ t \in Cursors(V) /\ Passed(c, t) /\ (c.ok => Read(c, t))
         /\ t.ok => t.v \in Seq(V) /\ Len(t.v) = Len(c.v) + 1
<1>1. IsCursor(c)
  BY DEF Cursors, IsCursor
<1>2. CASE ~c.ok
  BY <1>1, <1>2, HereIsPassed DEF Turn, Passed
<1>3. CASE c.ok
  <2> DEFINE v == Append(c.v, x.v)
             t == With(x, v)
  <2>1. Turn(c, x) = t
    BY <1>3 DEF Turn, Item
  <2>2. Read(c, x) /\ IsCursor(x) /\ (x.ok => x.v \in V)
    BY <1>3 DEF Read, Passed
  <2>3. x.ok => v \in Seq(V) /\ Len(v) = Len(c.v) + 1
    BY <1>3, <2>2
  <2> HIDE DEF v
  <2>4. Passed(x, t) /\ IsCursor(t) /\ t.ok = x.ok /\ (x.ok => t.v = v)
    BY <2>2, WithIs
  <2> HIDE DEF t
  <2>5. Read(c, t)
    BY <1>1, <2>2, <2>4, Onward DEF Read
  <2>6. t.ok => t \in Cursors(V)
    BY <2>3, <2>4 DEF IsCursor, Cursors
  <2>7. ~t.ok => t \in Cursors(V)
    <3>1. ~x.ok => With(x, v) = Err
      BY DEF With
    <3>2. Err \in Cursors(V)
      BY DEF Err, Cursors
    <3> QED BY <2>4, <3>1, <3>2 DEF t
  <2> QED BY <1>3, <2>1, <2>3, <2>4, <2>5, <2>6, <2>7 DEF Read
<1> QED BY <1>2, <1>3

Bound(n, r) == LesserOf(n, Turns(r, 1))

\* The bound of a loop of readings is a number, and no cut when the bytes suffice.
LEMMA BoundIs ==
  ASSUME NEW n \in Nat, NEW r, IsCursor(r)
  PROVE  Bound(n, r) \in Nat /\ Len(r.sd) \in Nat /\ (Bound(n, r) <= Len(r.sd) => Bound(n, r) = n)
<1>1. r.sd \in Seq(Byte) /\ Len(r.sd) \in Nat
  BY DEF IsCursor
<1> DEFINE l == Len(r.sd)
<1> HIDE DEF l
<1>2. l \in Nat
  BY <1>1 DEF l
<1>3. l \div 1 + 1 = l + 1
  BY <1>2
<1>4. Bound(n, r) = IF n < l + 1 THEN n ELSE l + 1
  BY <1>3 DEF Bound, Turns, LesserOf, l
<1> QED BY <1>2, <1>4 DEF l

\* A reading loop begins with no value, where the cursor stands.
LEMMA BeginIs ==
  ASSUME NEW V, NEW r, IsCursor(r), r.ok
  PROVE  LET b == With(r, <<>>) IN b \in Cursors(V) /\ Passed(r, b) /\ b.ok /\ b.v = <<>> /\ b.v \in Seq(V) /\ b.sd = r.sd
<1> DEFINE e == <<>>
           b == With(r, e)
<1>1. e \in Seq(V)
  OBVIOUS
<1> HIDE DEF e
<1>2. Passed(r, b) /\ IsCursor(b) /\ b.ok = r.ok /\ b.v = e /\ b.sd = r.sd
  BY WithIs
<1> HIDE DEF b
<1>3. b \in Cursors(V)
  BY <1>1, <1>2 DEF IsCursor, Cursors
<1> QED BY <1>1, <1>2, <1>3 DEF b, e

\* The first k readings.
ReadSoFar(r, c, V, k) ==
  /\ c \in Cursors(V) /\ Passed(r, c)
  /\ c.ok => c.v \in Seq(V) /\ Len(c.v) = k /\ Len(c.sd) + k <= Len(r.sd)

\* A turn more of a reading loop has read one value more, and a byte at least.
LEMMA ReadingGoesOn ==
  ASSUME NEW V, NEW r, IsCursor(r), NEW c, NEW k \in Nat, ReadSoFar(r, c, V, k),
         NEW op, Reader(op, V)
  PROVE  ReadSoFar(r, Turn(c, op[c]), V, k + 1)
<1> DEFINE x == op[c]
           t == Turn(c, x)
<1>1. c \in Cursors(V) /\ (c.ok => Read(c, x) /\ (x.ok => x.v \in V)) /\ (c.ok => c.v \in Seq(V))
  BY DEF ReadSoFar, Reader
<1> HIDE DEF x
<1>2. /\ t \in Cursors(V) /\ Passed(c, t) /\ (c.ok => Read(c, t))
      /\ t.ok => t.v \in Seq(V) /\ Len(t.v) = Len(c.v) + 1
  BY <1>1, TurnIs
<1> HIDE DEF t
<1>4. Passed(r, t)
  BY <1>2, Onward DEF ReadSoFar
<1>5. t.ok => c.ok /\ Len(t.sd) < Len(c.sd) /\ Len(c.v) = k /\ Len(c.sd) + k <= Len(r.sd)
  BY <1>2 DEF ReadSoFar, Read, Passed
<1>6. Len(t.sd) \in Nat /\ Len(c.sd) \in Nat /\ Len(r.sd) \in Nat
  <2>1. t.sd \in Seq(Byte) /\ c.sd \in Seq(Byte) /\ r.sd \in Seq(Byte)
    BY <1>1, <1>2 DEF Cursors, IsCursor
  <2> QED BY ONLY <2>1
<1>7. t.ok => Len(t.sd) + (k + 1) <= Len(r.sd)
  <2>1. \A a, b, d \in Nat : a < b /\ b + k <= d => a + (k + 1) <= d
    OBVIOUS
  <2> QED BY <1>5, <1>6, <2>1
<1> QED BY <1>2, <1>4, <1>5, <1>7 DEF ReadSoFar, t, x

\* The function of the cursors after each reading exists.
LEMMA ReadingsExist ==
  ASSUME NEW V, NEW r, IsCursor(r), r.ok, NEW n \in Nat, NEW op, Reader(op, V)
  PROVE  \E f \in [0..Bound(n, r) -> Cursors(V)] : Readings(f, Bound(n, r), r, op)
<1> DEFINE S == {c \in Cursors(V) : c.ok => c.v \in Seq(V)}
           m == Bound(n, r)
           b == With(r, <<>>)
           step == [x \in S \X (1..m) |-> Turn(x[1], op[x[1]])]
<1>1. m \in Nat
  BY BoundIs
<1>2. b \in S
  <2>1. b \in Cursors(V) /\ b.v \in Seq(V)
    BY BeginIs
  <2> QED BY <2>1
<1>3. ASSUME NEW c \in S PROVE Turn(c, op[c]) \in S
  <2> DEFINE x == op[c]
  <2>1. c \in Cursors(V) /\ (c.ok => Read(c, x) /\ (x.ok => x.v \in V)) /\ (c.ok => c.v \in Seq(V))
    BY DEF Reader
  <2> HIDE DEF x
  <2>2. Turn(c, x) \in Cursors(V) /\ (Turn(c, x).ok => Turn(c, x).v \in Seq(V))
    BY <2>1, TurnIs
  <2> QED BY <2>2 DEF x
<1>4. S \subseteq Cursors(V)
  OBVIOUS
<1> HIDE DEF S, m, b
<1>5. Inside(step, S, m)
  BY <1>3 DEF Inside
<1>6. \A c \in S, k \in 1..m : step[<<c, k>>] = Turn(c, op[c])
  OBVIOUS
<1> HIDE DEF step
<1>7. PICK h \in [0..m -> S] : Turning(h, m, b, step)
  BY <1>1, <1>2, <1>5, Iterates, Zenon
<1>8. h[0] = b /\ \A k \in 1..m : h[k] = step[<<h[k - 1], k>>] /\ h[k - 1] \in S
  <2>1. h[0] = b
    <3>1. 0 \in 0..m
      BY <1>1
    <3> QED BY <1>7, <3>1 DEF Turning
  <2>2. ASSUME NEW k \in 1..m PROVE h[k] = step[<<h[k - 1], k>>] /\ h[k - 1] \in S
    <3>1. k \in 0..m /\ k # 0 /\ k - 1 \in 0..m
      BY <1>1
    <3> QED BY <1>7, <3>1 DEF Turning
  <2> QED BY <2>1, <2>2
<1>9. \A k \in 1..m : h[k] = Turn(h[k - 1], op[h[k - 1]])
  BY <1>6, <1>8
<1>10. Readings(h, m, r, op)
  BY <1>8, <1>9 DEF Readings, b
<1>11. h \in [0..m -> Cursors(V)]
  BY <1>4, <1>7
<1> QED BY <1>10, <1>11 DEF m

\* What such a function has at each step, and at its end.
Running(g, r, n, op, V) ==
  g[0] = With(r, <<>>) /\ \A k \in 1..Bound(n, r) : g[k - 1] \in Cursors(V) => g[k] = Turn(g[k - 1], op[g[k - 1]])

\* After k turns, a reading loop has failed or holds k values of its kind.
LEMMA RunningIs ==
  ASSUME NEW V, NEW r, IsCursor(r), r.ok, NEW n \in Nat, NEW op, Reader(op, V), NEW g, Running(g, r, n, op, V)
  PROVE  \A k \in 0..Bound(n, r) : ReadSoFar(r, g[k], V, k)
<1> DEFINE m == Bound(n, r)
           T == {k \in 0..m : ReadSoFar(r, g[k], V, k)}
<1>1. m \in Nat /\ Len(r.sd) \in Nat
  BY BoundIs
<1>2. 0 \in T
  <2>1. With(r, <<>>) \in Cursors(V) /\ Passed(r, With(r, <<>>)) /\ With(r, <<>>).v = <<>> /\ With(r, <<>>).v \in Seq(V) /\ With(r, <<>>).sd = r.sd
    BY BeginIs
  <2>2. ReadSoFar(r, g[0], V, 0)
    BY <1>1, <2>1 DEF ReadSoFar, Running
  <2> QED BY <1>1, <2>2
<1>3. ASSUME NEW k \in 0..m, k \in T, k < m PROVE k + 1 \in T
  <2>1. ReadSoFar(r, g[k], V, k) /\ k \in Nat /\ k + 1 \in 1..m /\ (k + 1) - 1 = k
    BY <1>1, <1>3
  <2>2. g[k] \in Cursors(V)
    BY <2>1 DEF ReadSoFar
  <2>3. g[k + 1] = Turn(g[k], op[g[k]])
    BY <2>1, <2>2 DEF Running
  <2> DEFINE c == g[k]
  <2> HIDE DEF c
  <2>4. ReadSoFar(r, Turn(c, op[c]), V, k + 1)
    BY <2>1, ReadingGoesOn DEF c
  <2> QED BY <2>1, <2>3, <2>4 DEF c
<1> HIDE DEF T
<1>4. \A k \in 0..m : k \in T
  BY <1>1, <1>2, <1>3, Upwards
<1> QED BY <1>4 DEF T

\* A loop over n readings ends with n values, or fails; the bound never cuts a loop that succeeds.
LEMMA ReadingsAre ==
  ASSUME NEW V, NEW r, IsCursor(r), r.ok, NEW n \in Nat, NEW op, Reader(op, V), NEW g, Running(g, r, n, op, V)
  PROVE  ReadAll(r, g[Bound(n, r)], V, n) /\ (g[Bound(n, r)].ok => Bound(n, r) = n)
<1> DEFINE m == Bound(n, r)
<1>1. m \in Nat /\ Len(r.sd) \in Nat /\ (m <= Len(r.sd) => m = n)
  BY BoundIs
<1>5. ReadSoFar(r, g[m], V, m)
  <2>1. m \in 0..m
    BY <1>1
  <2> QED BY <2>1, RunningIs
<1> DEFINE c == g[m]
<1>6. c \in Cursors(V) /\ Passed(r, c) /\ (c.ok => c.v \in Seq(V) /\ Len(c.v) = m /\ Len(c.sd) + m <= Len(r.sd))
  BY <1>5 DEF ReadSoFar
<1> HIDE DEF c, m
<1>7. Len(c.sd) \in Nat
  BY <1>6 DEF Cursors
<1>8. c.ok => m = n
  BY <1>1, <1>6, <1>7
<1>9. ReadAll(r, c, V, n)
  BY <1>6, <1>8 DEF ReadAll
<1> QED BY <1>8, <1>9 DEF c, m

\* x is what n readings by op leave.
Ran(r, n, op, V, x) == Reader(op, V) /\ \E g : Running(g, r, n, op, V) /\ x = g[Bound(n, r)]

\* The same for the loop a run of readings stands for.
LEMMA RanIs ==
  ASSUME NEW V, NEW r, IsCursor(r), r.ok, NEW n \in Nat, NEW op, NEW x, Ran(r, n, op, V, x)
  PROVE  ReadAll(r, x, V, n)
BY ReadingsAre DEF Ran

-----------------------------------------------------------------------------
(* What is read again and again: numbers.                                    *)

\* Reading n numbers gives n numbers or fails.
LEMMA NumbersAre ==
  ASSUME NEW r, IsCursor(r), NEW n \in Nat
  PROVE  ReadAll(r, Repeat(n, r, ReadNumber), Number, n)
<1>1. CASE ~r.ok
  BY <1>1, ErrIs DEF Repeat, ReadAll
<1>2. CASE r.ok
  <2> DEFINE m == Bound(n, r)
             op == [c \in Cursors(Number) |-> ReadNumber(c)]
             g == CHOOSE f : f = [k \in 0..m |-> IF k = 0 THEN With(r, <<>>) ELSE Turn(f[k - 1], ReadNumber(f[k - 1]))]
  <2>1. Repeat(n, r, ReadNumber) = g[m]
    BY <1>2 DEF Repeat, Loop, Turn, Bound
  <2>2. Reader(op, Number)
    <3> SUFFICES ASSUME NEW c \in Cursors(Number) PROVE Read(c, op[c]) /\ (op[c].ok => op[c].v \in Number)
      BY DEF Reader
    <3>1. IsCursor(c) /\ op[c] = ReadNumber(c)
      BY DEF Cursors, IsCursor
    <3> QED BY <3>1, NumberIs
  <2>3. \A c \in Cursors(Number) : op[c] = ReadNumber(c)
    OBVIOUS
  <2> HIDE DEF op
  <2>4. PICK h \in [0..m -> Cursors(Number)] : Readings(h, m, r, op)
    BY <1>2, <2>2, ReadingsExist, Zenon
  <2>5. m \in Nat
    BY BoundIs
  <2> HIDE DEF m
  <2>6. h = [k \in 0..m |-> IF k = 0 THEN With(r, <<>>) ELSE Turn(h[k - 1], ReadNumber(h[k - 1]))]
    BY <2>3, <2>4, <2>5 DEF Readings
  <2>7. g = [k \in 0..m |-> IF k = 0 THEN With(r, <<>>) ELSE Turn(g[k - 1], ReadNumber(g[k - 1]))]
    BY <2>6
  <2> HIDE DEF g
  <2>8. g[0] = With(r, <<>>) /\ \A k \in 1..m : g[k - 1] \in Cursors(Number) => g[k] = Turn(g[k - 1], op[g[k - 1]])
    BY <2>3, <2>5, <2>7
  <2> QED BY <1>2, <2>1, <2>2, <2>8, ReadingsAre DEF m, Running
<1> QED BY <1>1, <1>2 DEF IsCursor

\* Reading n 32-bit numbers is a run of SzReadNumber32.
LEMMA Numbers32AreRun ==
  ASSUME NEW r, IsCursor(r), r.ok, NEW n \in Nat
  PROVE  \E op : (\A c \in Cursors(Number32) : op[c] = ReadNumber32(c)) /\ Ran(r, n, op, Number32, Repeat(n, r, ReadNumber32))
<1> DEFINE m == Bound(n, r)
           op == [c \in Cursors(Number32) |-> ReadNumber32(c)]
           g == CHOOSE f : f = [k \in 0..m |-> IF k = 0 THEN With(r, <<>>) ELSE Turn(f[k - 1], ReadNumber32(f[k - 1]))]
<1>1. Repeat(n, r, ReadNumber32) = g[m]
  BY DEF Repeat, Loop, Turn, Bound
<1>2. \A c \in Cursors(Number32) : op[c] = ReadNumber32(c)
  OBVIOUS
<1> HIDE DEF op
<1>3. Reader(op, Number32)
  <2> SUFFICES ASSUME NEW c \in Cursors(Number32) PROVE Read(c, op[c]) /\ (op[c].ok => op[c].v \in Number32)
    BY DEF Reader
  <2>1. IsCursor(c) /\ op[c] = ReadNumber32(c)
    BY <1>2 DEF Cursors, IsCursor
  <2> QED BY <2>1, Number32Is
<1>4. PICK h \in [0..m -> Cursors(Number32)] : Readings(h, m, r, op)
  BY <1>3, ReadingsExist, Zenon
<1>5. m \in Nat
  BY BoundIs
<1>6. h = [k \in 0..m |-> IF k = 0 THEN With(r, <<>>) ELSE Turn(h[k - 1], ReadNumber32(h[k - 1]))]
  <2> HIDE DEF m
  <2> QED BY <1>2, <1>4, <1>5 DEF Readings
<1>7. g = [k \in 0..m |-> IF k = 0 THEN With(r, <<>>) ELSE Turn(g[k - 1], ReadNumber32(g[k - 1]))]
  <2> HIDE DEF m
  <2> QED BY <1>6
<1> HIDE DEF g
<1>8. g[0] = With(r, <<>>) /\ \A k \in 1..m : g[k - 1] \in Cursors(Number32) => g[k] = Turn(g[k - 1], op[g[k - 1]])
  <2> HIDE DEF m
  <2> QED BY <1>2, <1>5, <1>7
<1>9. Ran(r, n, op, Number32, g[m])
  BY <1>3, <1>8 DEF Ran, Running
<1> HIDE DEF m
<1> QED BY <1>1, <1>2, <1>9

\* Reading n 32-bit numbers gives n of them or fails.
LEMMA Numbers32Are ==
  ASSUME NEW r, IsCursor(r), NEW n \in Nat
  PROVE  ReadAll(r, Repeat(n, r, ReadNumber32), Number32, n)
<1>1. CASE ~r.ok
  BY <1>1, ErrIs DEF Repeat, ReadAll
<1>2. CASE r.ok
  <2> DEFINE x == Repeat(n, r, ReadNumber32)
  <2>1. PICK op : Ran(r, n, op, Number32, x)
    BY <1>2, Numbers32AreRun
  <2> HIDE DEF x
  <2>2. ReadAll(r, x, Number32, n)
    BY <1>2, <2>1, RanIs
  <2> QED BY <2>2 DEF x
<1> QED BY <1>1, <1>2 DEF IsCursor


-----------------------------------------------------------------------------
(* Bonds and coders.                                                         *)

BondSet == [in : Number32, out : Number32]

\* A bond of a folder is two 32-bit numbers.
LEMMA BondIs ==
  ASSUME NEW r, IsCursor(r)
  PROVE  Read(r, Bond(r)) /\ (Bond(r).ok => Bond(r).v \in BondSet)
<1> DEFINE i == ReadNumber32(r)
           o == ReadNumber32(i)
           v == [in |-> i.v, out |-> o.v]
           x == With(o, v)
<1>1. Bond(r) = x
  BY DEF Bond, BondFrom, BondTo
<1>2. Read(r, i) /\ IsCursor(i) /\ (i.ok => i.v \in Number32)
  BY Number32Is
<1> HIDE DEF i
<1>3. Read(i, o) /\ IsCursor(o) /\ (o.ok => o.v \in Number32)
  BY <1>2, Number32Is
<1>4. o.ok => i.ok
  BY <1>3 DEF Read, Passed
<1> HIDE DEF o
<1>5. o.ok => v \in BondSet
  BY <1>2, <1>3, <1>4 DEF BondSet
<1> HIDE DEF v
<1>6. Passed(o, x) /\ (x.ok => o.ok /\ x.v = v)
  BY <1>3, WithIs
<1> HIDE DEF x
<1>7. Read(r, o)
  BY <1>2, <1>3, Onward DEF Read
<1>8. Read(r, x)
  BY <1>6, <1>7, Onward DEF Read
<1> QED BY <1>1, <1>5, <1>6, <1>8

\* Reading the bonds of a folder is a run of readings of a bond.
LEMMA BondsAreRun ==
  ASSUME NEW r, IsCursor(r), r.ok, NEW n \in Nat
  PROVE  \E op : (\A c \in Cursors(BondSet) : op[c] = Bond(c)) /\ Ran(r, n, op, BondSet, Repeat(n, r, Bond))
<1> DEFINE m == Bound(n, r)
           op == [c \in Cursors(BondSet) |-> Bond(c)]
           g == CHOOSE f : f = [k \in 0..m |-> IF k = 0 THEN With(r, <<>>) ELSE Turn(f[k - 1], Bond(f[k - 1]))]
<1>1. Repeat(n, r, Bond) = g[m]
  BY DEF Repeat, Loop, Turn, Bound
<1>2. \A c \in Cursors(BondSet) : op[c] = Bond(c)
  OBVIOUS
<1> HIDE DEF op
<1>3. Reader(op, BondSet)
  <2> SUFFICES ASSUME NEW c \in Cursors(BondSet) PROVE Read(c, op[c]) /\ (op[c].ok => op[c].v \in BondSet)
    BY DEF Reader
  <2>1. IsCursor(c) /\ op[c] = Bond(c)
    BY <1>2 DEF Cursors, IsCursor
  <2> QED BY <2>1, BondIs
<1>4. PICK h \in [0..m -> Cursors(BondSet)] : Readings(h, m, r, op)
  BY <1>3, ReadingsExist, Zenon
<1>5. m \in Nat
  BY BoundIs
<1>6. h = [k \in 0..m |-> IF k = 0 THEN With(r, <<>>) ELSE Turn(h[k - 1], Bond(h[k - 1]))]
  <2> HIDE DEF m
  <2> QED BY <1>2, <1>4, <1>5 DEF Readings
<1>7. g = [k \in 0..m |-> IF k = 0 THEN With(r, <<>>) ELSE Turn(g[k - 1], Bond(g[k - 1]))]
  <2> HIDE DEF m
  <2> QED BY <1>6
<1> HIDE DEF g
<1>8. g[0] = With(r, <<>>) /\ \A k \in 1..m : g[k - 1] \in Cursors(BondSet) => g[k] = Turn(g[k - 1], op[g[k - 1]])
  <2> HIDE DEF m
  <2> QED BY <1>2, <1>5, <1>7
<1>9. Ran(r, n, op, BondSet, g[m])
  BY <1>3, <1>8 DEF Ran, Running
<1> HIDE DEF m
<1> QED BY <1>1, <1>2, <1>9

\* Reading n bonds gives n bonds or fails.
LEMMA BondsAre ==
  ASSUME NEW r, IsCursor(r), NEW n \in Nat
  PROVE  ReadAll(r, Repeat(n, r, Bond), BondSet, n)
<1>1. CASE ~r.ok
  BY <1>1, ErrIs DEF Repeat, ReadAll
<1>2. CASE r.ok
  <2> DEFINE x == Repeat(n, r, Bond)
  <2>1. PICK op : Ran(r, n, op, BondSet, x)
    BY <1>2, BondsAreRun
  <2> HIDE DEF x
  <2>2. ReadAll(r, x, BondSet, n)
    BY <1>2, <2>1, RanIs
  <2> QED BY <2>2 DEF x
<1> QED BY <1>1, <1>2 DEF IsCursor


\* Distinct ends leave one over: one of n numbers is not among fewer than n.
LEMMA FirstFreeIs ==
  ASSUME NEW n \in Nat, NEW s, NEW len \in Nat, DOMAIN s = 1..len, len < n
  PROVE  FirstFree(s, n) \in 0..n - 1
<1> DEFINE R == {s[j] : j \in DOMAIN s}
           Free == {i \in 0..n - 1 : i \notin R}
<1>1. Free # {}
  <2> SUFFICES ASSUME 0..n - 1 \subseteq R PROVE FALSE
    OBVIOUS
  <2> DEFINE f == [i \in 0..n - 1 |-> CHOOSE j \in 1..len : s[j] = i]
  <2>1. ASSUME NEW i \in 0..n - 1 PROVE f[i] \in 1..len /\ s[f[i]] = i
    <3>1. \E j \in 1..len : s[j] = i
      OBVIOUS
    <3> QED BY <3>1
  <2>2. f \in [0..n - 1 -> 1..len]
    BY <2>1
  <2> HIDE DEF f
  <2>3. IsFiniteSet(0..n - 1) /\ Cardinality(0..n - 1) = n
    <3>1. IsFiniteSet(0..n - 1) /\ Cardinality(0..n - 1) = IF 0 > n - 1 THEN 0 ELSE n - 1 - 0 + 1
      <4>1. 0 \in Int /\ n - 1 \in Int
        OBVIOUS
      <4> QED BY <4>1, FS_Interval, Zenon
    <3> QED BY <3>1
  <2>4. IsFiniteSet(1..len) /\ Cardinality(1..len) = len
    <3>1. IsFiniteSet(1..len) /\ Cardinality(1..len) = IF 1 > len THEN 0 ELSE len - 1 + 1
      <4>1. 1 \in Int /\ len \in Int
        OBVIOUS
      <4> QED BY <4>1, FS_Interval, Zenon
    <3> QED BY <3>1
  <2>5. Cardinality(1..len) < Cardinality(0..n - 1)
    BY <2>3, <2>4
  <2>6. PICK x, y \in 0..n - 1 : x # y /\ f[x] = f[y]
    BY <2>2, <2>3, <2>4, <2>5, FS_PigeonHole, Zenon
  <2> QED BY <2>1, <2>6
<1>2. PICK i \in Free : \A j \in Free : i <= j
  <2>1. Free \in SUBSET Nat
    OBVIOUS
  <2> HIDE DEF Free
  <2> QED BY <1>1, <2>1, LeastNat
<1>3. i \in 0..n - 1 /\ i \notin R /\ 0..i - 1 \subseteq R
  <2>1. i \in 0..n - 1 /\ i \notin R
    OBVIOUS
  <2>2. ASSUME NEW j \in 0..i - 1 PROVE j \in R
    <3>1. j \in 0..n - 1 /\ ~(i <= j)
      BY <2>1
    <3> QED BY <1>2, <3>1
  <2> QED BY <2>1, <2>2
<1> HIDE DEF Free
<1>4. \E k \in 0..n - 1 : k \notin {s[j] : j \in DOMAIN s} /\ 0..k - 1 \subseteq {s[j] : j \in DOMAIN s}
  BY <1>3
<1> QED BY <1>4 DEF FirstFree

-----------------------------------------------------------------------------
(* Sums.                                                                     *)

SumsOf(s, n) == CHOOSE f : f = [k \in 0..n |-> IF k = 0 THEN 0 ELSE f[k - 1] + s[k]]

\* The partial sums of the model's loops exist, and each adds one member.
LEMMA SumsExist ==
  ASSUME NEW n \in Nat, NEW s, \A k \in 1..n : s[k] \in Nat
  PROVE  /\ SumTo(s, n) = SumsOf(s, n)[n] /\ SumsOf(s, n)[0] = 0
         /\ \A k \in 0..n : SumsOf(s, n)[k] \in Nat
         /\ \A k \in 1..n : SumsOf(s, n)[k] = SumsOf(s, n)[k - 1] + s[k]
<1> DEFINE Add(x, k) == x + s[k]
           step == [x \in Nat \X (1..n) |-> Add(x[1], x[2])]
           g == CHOOSE f : f = [k \in 0..n |-> IF k = 0 THEN 0 ELSE Add(f[k - 1], k)]
<1>1. \A x \in Nat, k \in 1..n : Add(x, k) \in Nat
  OBVIOUS
<1>2. SumTo(s, n) = g[n]
  BY DEF SumTo, Fold
<1> HIDE DEF Add
<1>3. Inside(step, Nat, n)
  BY <1>1 DEF Inside
<1>4. \A x \in Nat, k \in 1..n : step[<<x, k>>] = Add(x, k)
  OBVIOUS
<1> HIDE DEF step
<1>5. PICK h \in [0..n -> Nat] : Turning(h, n, 0, step)
  <2>1. 0 \in Nat
    OBVIOUS
  <2> QED BY <1>3, <2>1, Iterates, Zenon
<1>6. h = [k \in 0..n |-> IF k = 0 THEN 0 ELSE Add(h[k - 1], k)]
  <2>1. \A k \in 1..n : h[k - 1] \in Nat
    BY <1>5
  <2>2. \A k \in 1..n : step[<<h[k - 1], k>>] = Add(h[k - 1], k)
    BY <1>4, <2>1
  <2>3. \A k \in 0..n : h[k] = IF k = 0 THEN 0 ELSE Add(h[k - 1], k)
    <3> TAKE k \in 0..n
    <3>1. h[k] = IF k = 0 THEN 0 ELSE step[<<h[k - 1], k>>]
      BY <1>5 DEF Turning
    <3>2. k # 0 => k \in 1..n
      OBVIOUS
    <3> QED BY <2>2, <3>1, <3>2
  <2> QED BY <2>3
<1>7. g = [k \in 0..n |-> IF k = 0 THEN 0 ELSE Add(g[k - 1], k)]
  BY <1>6
<1> HIDE DEF g
<1>8. g[0] = 0 /\ \A k \in 1..n : g[k] = Add(g[k - 1], k)
  BY <1>7
<1>9. \A k \in 0..n : g[k] \in Nat
  <2>1. ASSUME NEW k \in 1..n, g[k - 1] \in Nat PROVE g[k] \in Nat
    <3>1. Add(g[k - 1], k) \in Nat
      BY <1>1, <2>1
    <3> QED BY <1>8, <3>1
  <2>2. g[0] \in Nat
    BY <1>8
  <2> QED BY <2>1, <2>2, Iterated
<1>10. g = SumsOf(s, n)
  BY DEF Add, g, SumsOf
<1> QED BY <1>2, <1>8, <1>9, <1>10 DEF Add

\* A sum over one index more adds that member.
LEMMA SumGrows ==
  ASSUME NEW n \in Nat, NEW s, \A k \in 1..n + 1 : s[k] \in Nat
  PROVE  SumTo(s, 0) = 0 /\ SumTo(s, n) \in Nat /\ SumTo(s, n + 1) = SumTo(s, n) + s[n + 1]
<1> DEFINE g(m) == SumsOf(s, m)
           IsSum(h, m) == h[0] = 0 /\ (\A k \in 0..m : h[k] \in Nat) /\ \A k \in 1..m : h[k] = h[k - 1] + s[k]
<1>1. ASSUME NEW m \in 0..n + 1 PROVE SumTo(s, m) = g(m)[m] /\ IsSum(g(m), m)
  <2>1. m \in Nat /\ \A k \in 1..m : s[k] \in Nat
    OBVIOUS
  <2> QED BY <2>1, SumsExist
<1> HIDE DEF g
<1> DEFINE a == g(n)
           b == g(n + 1)
           T == {k \in 0..n : a[k] = b[k]}
<1>2. IsSum(a, n) /\ IsSum(b, n + 1) /\ SumTo(s, n) = a[n] /\ SumTo(s, n + 1) = b[n + 1]
  BY <1>1
<1> HIDE DEF a, b
<1>3. 0 \in T
  BY <1>2
<1>4. ASSUME NEW k \in 0..n, k \in T, k < n PROVE k + 1 \in T
  <2>1. k + 1 \in 1..n /\ k + 1 \in 1..n + 1 /\ (k + 1) - 1 = k /\ a[k] = b[k]
    BY <1>4
  <2>2. a[k + 1] = a[k] + s[k + 1] /\ b[k + 1] = b[k] + s[k + 1]
    BY <1>2, <2>1
  <2> QED BY <2>1, <2>2
<1>5. n \in T
  <2> HIDE DEF T
  <2>1. \A k \in 0..n : k \in T
    BY <1>3, <1>4, Upwards
  <2> QED BY <2>1
<1>6. b[n + 1] = b[n] + s[n + 1] /\ b[n] \in Nat
  <2>1. n + 1 \in 1..n + 1 /\ n \in 0..n + 1 /\ (n + 1) - 1 = n
    OBVIOUS
  <2> QED BY <1>2, <2>1
<1>7. SumTo(s, 0) = 0
  <2>1. 0 \in 0..n + 1
    OBVIOUS
  <2> QED BY <1>1, <2>1
<1> QED BY <1>2, <1>5, <1>6, <1>7

\* Sums of more are no less.
LEMMA SumsRise ==
  ASSUME NEW n \in Nat, NEW s, \A k \in 1..n : s[k] \in Nat
  PROVE  /\ SumTo(s, 0) = 0 /\ \A k \in 0..n : SumTo(s, k) \in Nat /\ SumTo(s, k) <= SumTo(s, n)
         /\ \A k \in 0..n - 1 : SumTo(s, k + 1) = SumTo(s, k) + s[k + 1]
<1> DEFINE S(k) == SumTo(s, k)
<1>1. ASSUME NEW k \in 0..n - 1 PROVE S(k) \in Nat /\ S(k + 1) = S(k) + s[k + 1] /\ S(k + 1) \in Nat /\ s[k + 1] \in Nat
  <2>1. k \in Nat /\ k + 1 \in 1..n /\ \A i \in 1..k + 1 : s[i] \in Nat
    OBVIOUS
  <2> QED BY <2>1, SumGrows
<1>2. S(0) = 0
  <2>1. 0 \in Nat /\ \A k \in 1..0 : s[k] \in Nat
    OBVIOUS
  <2>2. CASE n = 0
    BY <2>1, <2>2, SumsExist
  <2>3. CASE n > 0
    <3>1. \A k \in 1..0 + 1 : s[k] \in Nat
      BY <2>3
    <3> QED BY <2>1, <3>1, SumGrows
  <2> QED BY <2>2, <2>3
<1> HIDE DEF S
<1>3. ASSUME NEW k \in 0..n PROVE S(k) \in Nat
  <2>1. CASE k = 0
    BY <1>2, <2>1
  <2>2. CASE k > 0
    <3>1. k - 1 \in 0..n - 1 /\ k = (k - 1) + 1
      BY <2>2
    <3>2. PICK j \in 0..n - 1 : k = j + 1
      BY <3>1
    <3>3. S(j + 1) \in Nat
      BY <1>1
    <3> QED BY <3>2, <3>3
  <2> QED BY <2>1, <2>2
<1>4. ASSUME NEW k \in 0..n PROVE S(k) <= S(n)
  <2> DEFINE T == {i \in 0..n : k <= i => S(k) <= S(i)}
  <2>1. 0 \in T
    BY <1>2, <1>3
  <2>2. ASSUME NEW i \in 0..n, i \in T, i < n PROVE i + 1 \in T
    <3>1. i \in 0..n - 1 /\ i + 1 \in 0..n
      BY <2>2
    <3>2. S(i + 1) >= S(i) /\ S(i) \in Nat /\ S(i + 1) \in Nat /\ S(k) \in Nat
      BY <1>1, <1>3, <3>1
    <3>3. k <= i + 1 => k <= i \/ k = i + 1
      OBVIOUS
    <3> QED BY <2>2, <3>1, <3>2, <3>3
  <2> HIDE DEF T
  <2>3. n \in T
    <3>1. \A i \in 0..n : i \in T
      BY <2>1, <2>2, Upwards
    <3> QED BY <3>1
  <2> QED BY <2>3 DEF T
<1> QED BY <1>1, <1>2, <1>3, <1>4 DEF S

-----------------------------------------------------------------------------
(* One coder, as it is read to be used and as it is passed over.             *)

ItemSet == [main : Byte, id : Seq(Byte), ins : Nat, outs : Nat, size : Nat]
PassedSet == [main : Byte, ins : Nat, outs : Nat, size : Nat]
CoderSet == [id : Seq(Byte), numStreams : Nat, props : Seq(Byte)]

\* A beginning of bytes is bytes.
LEMMA EmptyIsBytes == \A s \in Seq(Byte), n \in Nat : SubSeq(s, 1, n) \in Seq(Byte) \/ n > Len(s)
OBVIOUS

\* A coder being read stays one when a field of it is set.
LEMMA FieldsStay ==
  /\ \A v \in ItemSet, n \in Nat, name \in {"ins", "outs", "size"} : [v EXCEPT ![name] = n] \in ItemSet
  /\ \A v \in PassedSet, n \in Nat, name \in {"ins", "outs", "size"} : [v EXCEPT ![name] = n] \in PassedSet
BY DEF ItemSet, PassedSet

\* A number that is read, or not, into a field.
LEMMA FieldIs ==
  ASSUME NEW c, IsCursor(c), NEW M \in {ItemSet, PassedSet}, c.ok => c.v \in M, NEW d, Passed(c, d),
         NEW name \in {"ins", "outs", "size"}, NEW flag, NEW y,
         y = IF c.ok /\ flag THEN Field(c, name, ReadNumber32(d)) ELSE c
  PROVE  Passed(c, y) /\ IsCursor(y) /\ (y.ok => y.v \in M)
<1>1. CASE c.ok /\ flag
  <2> DEFINE x == ReadNumber32(d)
             v == [c.v EXCEPT ![name] = x.v]
             w == With(x, v)
  <2>1. y = w
    BY <1>1 DEF Field
  <2>2. IsCursor(d)
    BY DEF Passed
  <2>3. Read(d, x) /\ IsCursor(x) /\ (x.ok => x.v \in Number32)
    BY <2>2, Number32Is
  <2> HIDE DEF x
  <2>4. x.ok => x.v \in Nat
    BY <2>3 DEF Number32
  <2>5. x.ok => v \in M
    BY <1>1, <2>4, FieldsStay
  <2> HIDE DEF v
  <2>6. Passed(x, w) /\ IsCursor(w) /\ w.ok = x.ok /\ (x.ok => w.v = v)
    BY <2>3, WithIs
  <2> HIDE DEF w
  <2>7. Passed(c, x)
    BY <2>3, Onward DEF Read
  <2>8. Passed(c, w)
    BY <2>6, <2>7, Onward
  <2> QED BY <2>1, <2>5, <2>6, <2>8
<1>2. CASE ~(c.ok /\ flag)
  BY <1>2, HereIsPassed
<1> QED BY <1>1, <1>2

\* What both readings of a coder begin with: how many bytes its method has.
LEMMA MethodIs ==
  ASSUME NEW r, IsCursor(r)
  PROVE  LET b == ReadByte(r)
             d == Drop(Check(b, b.v < 64 /\ b.v % 16 <= 8), b.v % 16)
         IN /\ Read(r, d) /\ IsCursor(d)
            /\ d.ok => /\ b.ok /\ b.v \in Byte /\ b.v % 16 \in 0..8 /\ b.v % 16 <= Len(b.sd) /\ b.sd \in Seq(Byte)
<1> DEFINE b == ReadByte(r)
           k == b.v % 16
           e == Check(b, b.v < 64 /\ k <= 8)
           d == Drop(e, k)
<1>1. Read(r, b) /\ IsCursor(b) /\ (b.ok => b.v \in Byte)
  BY ByteIs
<1> HIDE DEF b
<1>2. Passed(b, e) /\ IsCursor(e) /\ (e.ok => b.ok /\ k <= 8 /\ e = b)
  BY <1>1, CheckIs
<1>3. e.ok => k \in 0..8
  <2>1. b.ok => k \in Nat
    BY <1>1 DEF Byte
  <2> HIDE DEF k, e
  <2> QED BY <1>2, <2>1
<1> HIDE DEF k, e
<1>4. CASE e.ok
  <2>1. k \in Nat
    BY <1>3, <1>4
  <2>2. Passed(e, d) /\ IsCursor(d) /\ (d.ok => e.ok /\ k <= Len(e.sd))
    BY <1>2, <2>1, DropIs
  <2> HIDE DEF d
  <2>3. Read(r, e)
    BY <1>1, <1>2, Onward DEF Read
  <2>4. Read(r, d)
    BY <2>2, <2>3, Onward DEF Read
  <2>5. b.sd \in Seq(Byte)
    BY <1>1 DEF IsCursor
  <2>6. /\ Read(r, d) /\ IsCursor(d)
        /\ d.ok => /\ b.ok /\ b.v \in Byte /\ k \in 0..8 /\ k <= Len(b.sd) /\ b.sd \in Seq(Byte)
    BY <1>1, <1>2, <1>3, <1>4, <2>2, <2>4, <2>5
  <2> QED BY <2>6 DEF d, e, k, b
<1>5. CASE ~e.ok
  <2>1. d = Err
    BY <1>5 DEF Drop
  <2> HIDE DEF d
  <2>2. Read(r, d) /\ IsCursor(d) /\ ~d.ok
    BY <2>1, ErrIs
  <2> QED BY <2>2 DEF d, e, k, b
<1> QED BY <1>4, <1>5

\* The bytes of a method id without their leading zeros are bytes.
LEMMA MethodIdIs ==
  ASSUME NEW s \in Seq(Byte)
  PROVE  MethodId(s) \in Seq(Byte)
<1> DEFINE Z == {j \in DOMAIN s : \A l \in 1..j : s[l] = 0}
           q == Cardinality(Z)
<1>1. DOMAIN s = 1..Len(s) /\ Len(s) \in Nat
  OBVIOUS
<1>2. q \in Nat
  <2>1. Z \subseteq 1..Len(s)
    BY <1>1
  <2> HIDE DEF Z
  <2>2. 1 \in Int /\ Len(s) \in Int
    BY <1>1
  <2>3. IsFiniteSet(1..Len(s))
    BY <2>2, FS_Interval, Zenon
  <2>4. IsFiniteSet(Z)
    BY <2>1, <2>3, FS_Subset
  <2> QED BY <2>4, FS_CardinalityType
<1>3. MethodId(s) = SubSeq(s, q + 1, Len(s))
  BY DEF MethodId
<1> HIDE DEF q
<1> QED BY <1>1, <1>2, <1>3

\* A coder SzGetNextFolderItem reads has an id, a number of streams and properties.
LEMMA CoderItemIs ==
  ASSUME NEW r, IsCursor(r)
  PROVE  Read(r, CoderItem(r)) /\ (CoderItem(r).ok => CoderItem(r).v \in CoderSet)
<1> DEFINE b == ReadByte(r)
           k == b.v % 16
           d == Drop(Check(b, b.v < 64 /\ k <= 8), k)
           v == [main |-> b.v, id |-> MethodId(SubSeq(b.sd, 1, k)), ins |-> 1, outs |-> 1, size |-> 0]
           m == With(d, v)
           i == ItemIns(m)
           o == ItemOuts(i)
           z == ItemSize(o)
           P == z.v.outs = 1 /\ z.v.size < 128 /\ Len(z.v.id) <= 4
           e == Check(z, P)
           w == [id |-> z.v.id, numStreams |-> z.v.ins, props |-> SubSeq(z.sd, 1, z.v.size)]
           p == Drop(e, z.v.size)
           x == With(p, w)
<1>1. CoderItem(r) = x
  BY DEF CoderItem, ItemProps, ItemMethod
<1>2. /\ Read(r, d) /\ IsCursor(d)
      /\ d.ok => /\ b.ok /\ b.v \in Byte /\ k \in 0..8 /\ k <= Len(b.sd) /\ b.sd \in Seq(Byte)
  BY MethodIs
<1> HIDE DEF b, d, k
<1>3. d.ok => v \in ItemSet
  <2> SUFFICES ASSUME d.ok PROVE v \in ItemSet
    OBVIOUS
  <2> DEFINE s == SubSeq(b.sd, 1, k)
  <2>1. s \in Seq(Byte)
    BY <1>2
  <2> HIDE DEF s
  <2>4. MethodId(s) \in Seq(Byte)
    BY <2>1, MethodIdIs
  <2> QED BY <1>2, <2>4 DEF ItemSet, s
<1> HIDE DEF v
<1>4. Read(r, m) /\ IsCursor(m) /\ (m.ok => m.v \in ItemSet)
  <2>1. Passed(d, m) /\ IsCursor(m) /\ m.ok = d.ok /\ (d.ok => m.v = v)
    BY <1>2, WithIs
  <2> HIDE DEF m
  <2> QED BY <1>2, <1>3, <2>1, Onward DEF Read
<1> HIDE DEF m
<1>5. Passed(m, i) /\ IsCursor(i) /\ (i.ok => i.v \in ItemSet)
  <2>1. i = IF m.ok /\ Flag(m.v.main, 16) THEN Field(m, "ins", ReadNumber32(m)) ELSE m
    BY DEF ItemIns
  <2>2. Passed(m, m)
    BY <1>4, HereIsPassed
  <2> HIDE DEF i
  <2> QED BY <1>4, <2>1, <2>2, FieldIs
<1> HIDE DEF i
<1>6. Passed(i, o) /\ IsCursor(o) /\ (o.ok => o.v \in ItemSet)
  <2> DEFINE c == Check(i, i.v.ins <= 7)
  <2>1. o = IF i.ok /\ Flag(i.v.main, 16) THEN Field(i, "outs", ReadNumber32(c)) ELSE i
    BY DEF ItemOuts
  <2>2. Passed(i, c)
    BY <1>5, CheckIs
  <2> HIDE DEF o, c
  <2> QED BY <1>5, <2>1, <2>2, FieldIs
<1> HIDE DEF o
<1>7. Passed(o, z) /\ IsCursor(z) /\ (z.ok => z.v \in ItemSet)
  <2> DEFINE c == Check(o, o.v.outs = 1)
  <2>1. z = IF o.ok /\ Flag(o.v.main, 32) THEN Field(o, "size", ReadNumber32(c)) ELSE o
    BY DEF ItemSize
  <2>2. Passed(o, c)
    BY <1>6, CheckIs
  <2> HIDE DEF z, c
  <2> QED BY <1>6, <2>1, <2>2, FieldIs
<1> HIDE DEF z, P
<1>8. Passed(z, e) /\ IsCursor(e) /\ (e.ok => z.ok /\ e = z)
  BY <1>7, CheckIs
<1>9. Read(r, z)
  BY <1>4, <1>5, <1>6, <1>7, Onward DEF Read
<1>10. CASE e.ok
  <2> DEFINE n == z.v.size
             pr == SubSeq(z.sd, 1, n)
  <2>1. z.v \in ItemSet /\ n \in Nat /\ z.sd \in Seq(Byte)
    BY <1>7, <1>8, <1>10 DEF ItemSet, IsCursor
  <2> HIDE DEF e
  <2>2. Passed(e, p) /\ IsCursor(p) /\ (p.ok => n <= Len(e.sd))
    BY <1>8, <2>1, DropIs
  <2> HIDE DEF p
  <2>3. p.ok => pr \in Seq(Byte)
    BY <1>8, <1>10, <2>1, <2>2
  <2> HIDE DEF n, pr
  <2>4. p.ok => w \in CoderSet
    BY <2>1, <2>3 DEF ItemSet, CoderSet, n, pr
  <2> HIDE DEF w
  <2>5. Passed(p, x) /\ x.ok = p.ok /\ (p.ok => x.v = w)
    BY <2>2, WithIs
  <2> HIDE DEF x
  <2>6. Read(r, x)
    BY <1>8, <1>9, <2>2, <2>5, Onward DEF Read
  <2> QED BY <1>1, <2>4, <2>5, <2>6
<1>11. CASE ~e.ok
  <2>1. p = Err
    BY <1>11 DEF Drop
  <2>2. x = Err
    BY <2>1, ErrIs DEF With
  <2> QED BY <1>1, <2>2, ErrIs
<1> QED BY <1>10, <1>11

\* Reading the coders of a folder is a run of readings of a coder.
LEMMA CoderItemsAreRun ==
  ASSUME NEW r, IsCursor(r), r.ok, NEW n \in Nat
  PROVE  \E op : (\A c \in Cursors(CoderSet) : op[c] = CoderItem(c)) /\ Ran(r, n, op, CoderSet, Repeat(n, r, CoderItem))
<1> DEFINE m == Bound(n, r)
           op == [c \in Cursors(CoderSet) |-> CoderItem(c)]
           g == CHOOSE f : f = [k \in 0..m |-> IF k = 0 THEN With(r, <<>>) ELSE Turn(f[k - 1], CoderItem(f[k - 1]))]
<1>1. Repeat(n, r, CoderItem) = g[m]
  BY DEF Repeat, Loop, Turn, Bound
<1>2. \A c \in Cursors(CoderSet) : op[c] = CoderItem(c)
  OBVIOUS
<1> HIDE DEF op
<1>3. Reader(op, CoderSet)
  <2> SUFFICES ASSUME NEW c \in Cursors(CoderSet) PROVE Read(c, op[c]) /\ (op[c].ok => op[c].v \in CoderSet)
    BY DEF Reader
  <2>1. IsCursor(c) /\ op[c] = CoderItem(c)
    BY <1>2 DEF Cursors, IsCursor
  <2> QED BY <2>1, CoderItemIs
<1>4. PICK h \in [0..m -> Cursors(CoderSet)] : Readings(h, m, r, op)
  BY <1>3, ReadingsExist, Zenon
<1>5. m \in Nat
  BY BoundIs
<1>6. h = [k \in 0..m |-> IF k = 0 THEN With(r, <<>>) ELSE Turn(h[k - 1], CoderItem(h[k - 1]))]
  <2> HIDE DEF m
  <2> QED BY <1>2, <1>4, <1>5 DEF Readings
<1>7. g = [k \in 0..m |-> IF k = 0 THEN With(r, <<>>) ELSE Turn(g[k - 1], CoderItem(g[k - 1]))]
  <2> HIDE DEF m
  <2> QED BY <1>6
<1> HIDE DEF g
<1>8. g[0] = With(r, <<>>) /\ \A k \in 1..m : g[k - 1] \in Cursors(CoderSet) => g[k] = Turn(g[k - 1], op[g[k - 1]])
  <2> HIDE DEF m
  <2> QED BY <1>2, <1>5, <1>7
<1>9. Ran(r, n, op, CoderSet, g[m])
  BY <1>3, <1>8 DEF Ran, Running
<1> HIDE DEF m
<1> QED BY <1>1, <1>2, <1>9

\* Reading n coders gives n coders or fails.
LEMMA CoderItemsAre ==
  ASSUME NEW r, IsCursor(r), NEW n \in Nat
  PROVE  ReadAll(r, Repeat(n, r, CoderItem), CoderSet, n)
<1>1. CASE ~r.ok
  BY <1>1, ErrIs DEF Repeat, ReadAll
<1>2. CASE r.ok
  <2> DEFINE x == Repeat(n, r, CoderItem)
  <2>1. PICK op : Ran(r, n, op, CoderSet, x)
    BY <1>2, CoderItemsAreRun
  <2> HIDE DEF x
  <2>2. ReadAll(r, x, CoderSet, n)
    BY <1>2, <2>1, RanIs
  <2> QED BY <2>2 DEF x
<1> QED BY <1>1, <1>2 DEF IsCursor


\* The scan of a coder in ReadUnpackInfo counts at most 64 streams.
LEMMA CoderScanIs ==
  ASSUME NEW r, IsCursor(r)
  PROVE  Read(r, CoderScan(r)) /\ (CoderScan(r).ok => CoderScan(r).v \in 0..64)
<1> DEFINE b == ReadByte(r)
           k == b.v % 16
           d == Drop(Check(b, b.v < 64 /\ k <= 8), k)
           v == [main |-> b.v, ins |-> 1, outs |-> 1, size |-> 0]
           m == With(d, v)
           i == ScanIns(m)
           o == ScanOuts(i)
           z == ScanSize(o)
           P == z.v.ins <= 64 /\ z.v.outs = 1
           e == Check(z, P)
           n == z.v.size
           w == z.v.ins
           p == Drop(e, n)
           x == With(p, w)
<1>1. CoderScan(r) = x
  BY DEF CoderScan, ScanProps, ScanMethod
<1>2. /\ Read(r, d) /\ IsCursor(d)
      /\ d.ok => /\ b.ok /\ b.v \in Byte /\ k \in 0..8 /\ k <= Len(b.sd) /\ b.sd \in Seq(Byte)
  BY MethodIs
<1> HIDE DEF b, d, k
<1>3. d.ok => v \in PassedSet
  BY <1>2 DEF PassedSet
<1> HIDE DEF v
<1>4. Read(r, m) /\ IsCursor(m) /\ (m.ok => m.v \in PassedSet)
  <2>1. Passed(d, m) /\ IsCursor(m) /\ m.ok = d.ok /\ (d.ok => m.v = v)
    BY <1>2, WithIs
  <2> HIDE DEF m
  <2> QED BY <1>2, <1>3, <2>1, Onward DEF Read
<1> HIDE DEF m
<1>5. Passed(m, i) /\ IsCursor(i) /\ (i.ok => i.v \in PassedSet)
  <2>1. i = IF m.ok /\ Flag(m.v.main, 16) THEN Field(m, "ins", ReadNumber32(m)) ELSE m
    BY DEF ScanIns
  <2>2. Passed(m, m)
    BY <1>4, HereIsPassed
  <2> HIDE DEF i
  <2> QED BY <1>4, <2>1, <2>2, FieldIs
<1> HIDE DEF i
<1>6. Passed(i, o) /\ IsCursor(o) /\ (o.ok => o.v \in PassedSet)
  <2>1. o = IF i.ok /\ Flag(i.v.main, 16) THEN Field(i, "outs", ReadNumber32(i)) ELSE i
    BY DEF ScanOuts
  <2>2. Passed(i, i)
    BY <1>5, HereIsPassed
  <2> HIDE DEF o
  <2> QED BY <1>5, <2>1, <2>2, FieldIs
<1> HIDE DEF o
<1>7. Passed(o, z) /\ IsCursor(z) /\ (z.ok => z.v \in PassedSet)
  <2> DEFINE c == Check(o, o.v.outs = 1)
  <2>1. z = IF o.ok /\ Flag(o.v.main, 32) THEN Field(o, "size", ReadNumber32(c)) ELSE o
    BY DEF ScanSize
  <2>2. Passed(o, c)
    BY <1>6, CheckIs
  <2> HIDE DEF z, c
  <2> QED BY <1>6, <2>1, <2>2, FieldIs
<1> HIDE DEF z
<1>8. Passed(z, e) /\ IsCursor(e) /\ (e.ok => z.ok /\ P)
  BY <1>7, CheckIs
<1>9. Read(r, z)
  BY <1>4, <1>5, <1>6, <1>7, Onward DEF Read
<1>10. CASE e.ok
  <2>1. n \in Nat /\ w \in 0..64
    BY <1>7, <1>8, <1>10 DEF PassedSet
  <2> HIDE DEF e, n, w
  <2>2. Passed(e, p) /\ IsCursor(p)
    BY <1>8, <2>1, DropIs
  <2> HIDE DEF p
  <2>3. Passed(p, x) /\ x.ok = p.ok /\ (p.ok => x.v = w)
    BY <2>2, WithIs
  <2> HIDE DEF x
  <2>4. Read(r, x)
    BY <1>8, <1>9, <2>2, <2>3, Onward DEF Read
  <2> QED BY <1>1, <2>1, <2>3, <2>4
<1>11. CASE ~e.ok
  <2>1. p = Err
    BY <1>11 DEF Drop
  <2>2. x = Err
    BY <2>1, ErrIs DEF With
  <2> QED BY <1>1, <2>2, ErrIs
<1> QED BY <1>10, <1>11

Ins == 0..64
\* Scanning the coders of a folder is a run of scans of a coder.
LEMMA CoderScansAreRun ==
  ASSUME NEW r, IsCursor(r), r.ok, NEW n \in Nat
  PROVE  \E op : (\A c \in Cursors(Ins) : op[c] = CoderScan(c)) /\ Ran(r, n, op, Ins, Repeat(n, r, CoderScan))
<1> DEFINE m == Bound(n, r)
           op == [c \in Cursors(Ins) |-> CoderScan(c)]
           g == CHOOSE f : f = [k \in 0..m |-> IF k = 0 THEN With(r, <<>>) ELSE Turn(f[k - 1], CoderScan(f[k - 1]))]
<1>1. Repeat(n, r, CoderScan) = g[m]
  BY DEF Repeat, Loop, Turn, Bound
<1>2. \A c \in Cursors(Ins) : op[c] = CoderScan(c)
  OBVIOUS
<1> HIDE DEF op
<1>3. Reader(op, Ins)
  <2> SUFFICES ASSUME NEW c \in Cursors(Ins) PROVE Read(c, op[c]) /\ (op[c].ok => op[c].v \in Ins)
    BY DEF Reader
  <2>1. IsCursor(c) /\ op[c] = CoderScan(c)
    BY <1>2 DEF Cursors, IsCursor
  <2> QED BY <2>1, CoderScanIs DEF Ins
<1>4. PICK h \in [0..m -> Cursors(Ins)] : Readings(h, m, r, op)
  BY <1>3, ReadingsExist, Zenon
<1>5. m \in Nat
  BY BoundIs
<1>6. h = [k \in 0..m |-> IF k = 0 THEN With(r, <<>>) ELSE Turn(h[k - 1], CoderScan(h[k - 1]))]
  <2> HIDE DEF m
  <2> QED BY <1>2, <1>4, <1>5 DEF Readings
<1>7. g = [k \in 0..m |-> IF k = 0 THEN With(r, <<>>) ELSE Turn(g[k - 1], CoderScan(g[k - 1]))]
  <2> HIDE DEF m
  <2> QED BY <1>6
<1> HIDE DEF g
<1>8. g[0] = With(r, <<>>) /\ \A k \in 1..m : g[k - 1] \in Cursors(Ins) => g[k] = Turn(g[k - 1], op[g[k - 1]])
  <2> HIDE DEF m
  <2> QED BY <1>2, <1>5, <1>7
<1>9. Ran(r, n, op, Ins, g[m])
  BY <1>3, <1>8 DEF Ran, Running
<1> HIDE DEF m
<1> QED BY <1>1, <1>2, <1>9

\* Scanning n coders gives n counts or fails.
LEMMA CoderScansAre ==
  ASSUME NEW r, IsCursor(r), NEW n \in Nat
  PROVE  ReadAll(r, Repeat(n, r, CoderScan), Ins, n)
<1>1. CASE ~r.ok
  BY <1>1, ErrIs DEF Repeat, ReadAll
<1>2. CASE r.ok
  <2> DEFINE x == Repeat(n, r, CoderScan)
  <2>1. PICK op : Ran(r, n, op, Ins, x)
    BY <1>2, CoderScansAreRun
  <2> HIDE DEF x
  <2>2. ReadAll(r, x, Ins, n)
    BY <1>2, <2>1, RanIs
  <2> QED BY <2>2 DEF x
<1> QED BY <1>1, <1>2 DEF IsCursor

-----------------------------------------------------------------------------
(* Folders.                                                                  *)

\* What the readings of a folder's coders and bonds leave.
AreBonds(bonds, n) == IsCursor(bonds) /\ (bonds.ok => bonds.v \in Seq(BondSet) /\ Len(bonds.v) = n - 1)

\* Reading the pack streams of a folder moves on, for as many as its streams leave.
LEMMA PacksAreRead ==
  ASSUME NEW n \in Nat \ {0}, NEW ins \in Nat, ins >= n - 1, NEW bonds, AreBonds(bonds, n)
  PROVE  LET p == PacksAfter(bonds, n, ins) IN Passed(bonds, p) /\ IsCursor(p)
<1> DEFINE c == Check(bonds, GoodBonds(bonds.v, ins, n))
           k == ins - (n - 1)
           p == PackStreams(c, k, ins, bonds.v)
<1>1. PacksAfter(bonds, n, ins) = p
  BY DEF PacksAfter
<1>2. Passed(bonds, c) /\ IsCursor(c)
  BY CheckIs DEF AreBonds
<1>3. k \in Nat
  OBVIOUS
<1> HIDE DEF c, k
<1>4. CASE k = 1
  <2> DEFINE v == <<FirstFree(Bonds(bonds.v, "in"), ins)>>
  <2>1. p = With(c, v)
    BY <1>4 DEF PackStreams
  <2> HIDE DEF v, p
  <2>2. Passed(c, p) /\ IsCursor(p)
    BY <1>2, <2>1, WithIs
  <2> QED BY <1>1, <1>2, <2>2, Onward DEF AreBonds
<1>5. CASE k # 1
  <2> DEFINE q == Repeat(k, c, ReadNumber32)
  <2>1. p = Unbonded(q, bonds.v, ins)
    BY <1>5 DEF PackStreams
  <2>2. Passed(c, q) /\ IsCursor(q)
    BY <1>2, <1>3, Numbers32Are DEF ReadAll, Passed
  <2> HIDE DEF q, p
  <2>3. Passed(q, p) /\ IsCursor(p)
    <3>1. CASE q.ok
      <4> DEFINE D == Distinct(Bonds(bonds.v, "in") \o q.v, ins)
      <4>1. p = Check(q, D)
        BY <2>1, <3>1 DEF Unbonded
      <4> QED BY <2>2, <4>1, CheckIs
    <3>2. CASE ~q.ok
      BY <2>1, <3>2, ErrIs DEF Unbonded
    <3> QED BY <3>1, <3>2
  <2>4. Passed(c, p)
    BY <1>2, <2>2, <2>3, Onward
  <2> QED BY <1>1, <1>2, <2>3, <2>4, Onward DEF AreBonds
<1> QED BY <1>4, <1>5

\* A folder as it is read to be decoded.
IsItem(f) ==
  /\ f.coders \in Seq(CoderSet) /\ Len(f.coders) \in 1..4
  /\ f.bonds \in Seq(BondSet) /\ Len(f.bonds) = Len(f.coders) - 1
  /\ f.unpackStream = FirstFree(Bonds(f.bonds, "out"), Len(f.coders))

\* A folder SzGetNextFolderItem accepts is an item: up to four coders, one bond less, streams within bounds.
LEMMA FolderItemIs ==
  ASSUME NEW r, IsCursor(r)
  PROVE  LET x == SzGetNextFolderItem(r) IN Read(r, x) /\ (x.ok => IsItem(x.v))
<1> DEFINE a == ReadNumber32(r)
           n == a.v
           b == Check(a, n \in 1..4)
           coders == Repeat(n, b, CoderItem)
           c == ItemCoders(coders, n)
<1>1. SzGetNextFolderItem(r) = c
  BY DEF SzGetNextFolderItem, ItemCount
<1>2. Read(r, a) /\ IsCursor(a)
  BY Number32Is
<1> HIDE DEF a, n
<1>3. Passed(a, b) /\ IsCursor(b) /\ (b.ok => n \in 1..4)
  BY <1>2, CheckIs
<1> HIDE DEF b
<1>4. Read(r, b)
  BY <1>2, <1>3, Onward DEF Read
<1>5. CASE ~coders.ok
  <2>1. c = Err
    BY <1>5 DEF ItemCoders
  <2> QED BY <1>1, <2>1, ErrIs
<1>6. CASE coders.ok
  <2>1. b.ok
    BY <1>6, ErrIs DEF Repeat
  <2>2. n \in 1..4 /\ n \in Nat
    BY <1>3, <2>1
  <2>3. ReadAll(b, coders, CoderSet, n)
    BY <1>3, <2>2, CoderItemsAre
  <2> HIDE DEF coders
  <2>4. Passed(b, coders) /\ IsCursor(coders) /\ coders.v \in Seq(CoderSet) /\ Len(coders.v) = n
    BY <1>6, <2>3 DEF ReadAll, Passed
  <2> DEFINE ins == InputsOf([i \in 1..n |-> coders.v[i].numStreams], n)
             d == Check(coders, ins <= 7 /\ ins - (n - 1) \in 0..4)
             bonds == Repeat(n - 1, d, Bond)
             packs == PacksAfter(bonds, Len(coders.v), ins)
             v == [coders |-> coders.v, bonds |-> bonds.v, packStreams |-> packs.v,
                   unpackStream |-> FirstFree(Bonds(bonds.v, "out"), Len(coders.v))]
             x == With(packs, v)
  <2>5. c = x
    BY <1>6 DEF ItemCoders, ItemInputs, ItemBonds, FolderItem
  <2>6. ins \in Nat
    <3> DEFINE s == [i \in 1..n |-> coders.v[i].numStreams]
    <3>1. ASSUME NEW k \in 1..n PROVE s[k] \in Nat
      <4>1. coders.v[k] \in CoderSet
        BY <2>4, ElementOfSeq
      <4>2. coders.v[k].numStreams \in Nat
        BY ONLY <4>1 DEF CoderSet
      <4> QED BY <4>2
    <3> HIDE DEF s
    <3>2. n \in 0..n
      BY <2>2
    <3>3. SumTo(s, n) \in Nat
      BY <2>2, <3>1, <3>2, SumsRise
    <3> QED BY <3>3 DEF InputsOf, s
  <2> HIDE DEF ins
  <2>7. Passed(coders, d) /\ IsCursor(d) /\ (d.ok => ins - (n - 1) \in 0..4)
    BY <2>4, CheckIs
  <2> HIDE DEF d
  <2>8. n - 1 \in Nat
    BY <2>2
  <2>9. ReadAll(d, bonds, BondSet, n - 1)
    BY <2>7, <2>8, BondsAre
  <2>10. ~d.ok => bonds = Err
    BY DEF Repeat
  <2> HIDE DEF bonds
  <2>11. Passed(d, bonds) /\ AreBonds(bonds, n)
    BY <2>9 DEF ReadAll, Passed, AreBonds
  <2>12. CASE ~bonds.ok
    <3>1. packs = Err
      <4> DEFINE e == Check(bonds, GoodBonds(bonds.v, ins, Len(coders.v)))
      <4>1. e = Err
        BY <2>12 DEF Check
      <4>2. packs = PackStreams(e, ins - (Len(coders.v) - 1), ins, bonds.v)
        BY DEF PacksAfter
      <4> HIDE DEF e
      <4> QED BY <4>1, <4>2, ErrIs DEF PackStreams, With, Repeat, Unbonded
    <3> HIDE DEF packs
    <3>2. x = Err
      BY <3>1, ErrIs DEF With
    <3> QED BY <1>1, <2>5, <3>2, ErrIs
  <2>13. CASE bonds.ok
    <3>1. d.ok
      BY <2>13, <2>10, ErrIs
    <3>2. ins >= n - 1
      BY <2>2, <2>6, <2>7, <3>1
    <3>3. Passed(bonds, packs) /\ IsCursor(packs)
      BY <2>2, <2>4, <2>6, <2>11, <3>2, PacksAreRead
    <3> HIDE DEF packs
    <3>4. IsItem(v)
      <4>1. bonds.v \in Seq(BondSet) /\ Len(bonds.v) = n - 1
        BY <2>11, <2>13 DEF AreBonds
      <4> QED BY <2>2, <2>4, <4>1 DEF IsItem
    <3> HIDE DEF v
    <3>5. Passed(packs, x) /\ (x.ok => packs.ok /\ x.v = v)
      BY <3>3, WithIs
    <3> HIDE DEF x
    <3>6. Read(r, coders)
      BY <1>4, <2>4, Onward DEF Read
    <3>7. Read(r, d)
      BY <2>7, <3>6, Onward DEF Read
    <3>8. Read(r, bonds)
      BY <2>11, <3>7, Onward DEF Read
    <3>9. Read(r, packs)
      BY <3>3, <3>8, Onward DEF Read
    <3>10. Read(r, x)
      BY <3>5, <3>9, Onward DEF Read
    <3> QED BY <1>1, <2>5, <3>4, <3>5, <3>10
  <2> QED BY <2>12, <2>13
<1> QED BY <1>5, <1>6

\* A folder as it is passed over.
FolderSet == [coders : 1..64, packs : Nat, main : 0..63, data : Seq(Byte)]
IsScan(f) == \E r : IsCursor(r) /\ ScanFolder(r).ok /\ f = ScanFolder(r).v
Folders == {f \in FolderSet : f.main < f.coders /\ IsScan(f)}

\* What was read and what is left are the bytes there were.
LEMMA ConsumedIs ==
  ASSUME NEW r, IsCursor(r), NEW x, Passed(r, x), x.ok
  PROVE  Consumed(r, x) \in Seq(Byte) /\ r.sd = Consumed(r, x) \o x.sd
<1>1. PICK p \in Seq(Byte) : r.sd = p \o x.sd
  BY DEF Passed, IsRest
<1>2. x.sd \in Seq(Byte) /\ r.sd \in Seq(Byte)
  BY DEF Passed, IsCursor
<1> DEFINE t == x.sd
           s == r.sd
<1> HIDE DEF t, s
<1>3. s = p \o t /\ t \in Seq(Byte) /\ s \in Seq(Byte) /\ Len(p) \in Nat /\ Len(t) \in Nat
  BY <1>1, <1>2 DEF s, t
<1>4. Len(s) - Len(t) = Len(p) /\ Len(s) = Len(p) + Len(t)
  BY <1>3, ConcatProperties
<1>5. SubSeq(s, 1, Len(p)) = p
  <2> DEFINE q == SubSeq(s, 1, Len(p))
  <2>1. q \in Seq(Byte) /\ Len(q) = Len(p) /\ \A i \in 1..Len(q) : q[i] = s[i]
    BY <1>3, <1>4
  <2>2. \A i \in 1..Len(p) : s[i] = p[i]
    BY <1>3
  <2> HIDE DEF q
  <2>3. \A i \in 1..Len(q) : q[i] = p[i]
    BY <2>1, <2>2
  <2>4. q = p
    BY <2>1, <2>3, SeqEqual
  <2> QED BY <2>4 DEF q
<1> QED BY <1>3, <1>4, <1>5 DEF s, t, Consumed

\* A folder the scan of ReadUnpackInfo accepts has a main coder and the bytes it was scanned from.
LEMMA ScanFolderIs ==
  ASSUME NEW r, IsCursor(r)
  PROVE  LET x == ScanFolder(r) IN Read(r, x) /\ (x.ok => x.v \in Folders)
<1> DEFINE a == ReadNumber32(r)
           n == a.v
           b == Check(a, n \in 1..64)
           coders == Repeat(n, b, CoderScan)
           c == ScanCoders(r, n, coders)
<1>1. ScanFolder(r) = c
  BY DEF ScanFolder, ScanCount
<1>2. Read(r, a) /\ IsCursor(a)
  BY Number32Is
<1> HIDE DEF a, n
<1>3. Passed(a, b) /\ IsCursor(b) /\ (b.ok => n \in 1..64)
  <2> DEFINE few == n \in 1..64
  <2>1. b = Check(a, few)
    OBVIOUS
  <2> HIDE DEF few, b
  <2>2. Passed(a, b) /\ IsCursor(b) /\ (b.ok => few)
    BY <1>2, <2>1, CheckIs
  <2> QED BY <2>2 DEF few
<1> HIDE DEF b
<1>4. Read(r, b)
  BY <1>2, <1>3, Onward DEF Read
<1>5. CASE ~coders.ok
  <2>1. c = Err
    BY <1>5 DEF ScanCoders
  <2> QED BY <1>1, <2>1, ErrIs
<1>6. CASE coders.ok
  <2>1. b.ok
    BY <1>6, ErrIs DEF Repeat
  <2>2. n \in 1..64 /\ n \in Nat
    BY <1>3, <2>1
  <2>3. ReadAll(b, coders, Ins, n)
    BY <1>3, <2>2, CoderScansAre
  <2> HIDE DEF coders
  <2>4. Passed(b, coders) /\ IsCursor(coders) /\ coders.v \in Seq(Ins) /\ Len(coders.v) = n
    BY <1>6, <2>3 DEF ReadAll, Passed
  <2> DEFINE ins == InputsOf(coders.v, n)
             d == Check(coders, ins >= n - 1 /\ ins <= 64)
             bonds == Repeat(n - 1, d, Bond)
             packs == PacksAfter(bonds, n, ins)
             main == FirstFree(Bonds(bonds.v, "out"), n)
             v == [coders |-> n, packs |-> ins - (n - 1), main |-> main, data |-> Consumed(r, packs)]
             x == With(packs, v)
  <2>5. c = x
    BY <1>6 DEF ScanCoders, ScanInputs, ScanBonds, Scanned
  <2>6. ins \in Nat
    <3>1. ASSUME NEW k \in 1..n PROVE coders.v[k] \in Nat
      <4>1. coders.v[k] \in Ins
        BY <2>4, ElementOfSeq
      <4> QED BY ONLY <4>1 DEF Ins
    <3>2. n \in 0..n
      BY <2>2
    <3>3. SumTo(coders.v, n) \in Nat
      BY <2>2, <3>1, <3>2, SumsRise
    <3> QED BY <3>3 DEF InputsOf
  <2> HIDE DEF ins
  <2>7. Passed(coders, d) /\ IsCursor(d) /\ (d.ok => ins >= n - 1)
    BY <2>4, CheckIs
  <2> HIDE DEF d
  <2>8. n - 1 \in Nat
    BY <2>2
  <2>9. ReadAll(d, bonds, BondSet, n - 1)
    BY <2>7, <2>8, BondsAre
  <2>10. ~d.ok => bonds = Err
    BY DEF Repeat
  <2> HIDE DEF bonds
  <2>11. Passed(d, bonds) /\ AreBonds(bonds, n)
    BY <2>9 DEF ReadAll, Passed, AreBonds
  <2>12. CASE ~bonds.ok
    <3>1. packs = Err
      <4> DEFINE e == Check(bonds, GoodBonds(bonds.v, ins, n))
      <4>1. e = Err
        BY <2>12 DEF Check
      <4>2. packs = PackStreams(e, ins - (n - 1), ins, bonds.v)
        BY DEF PacksAfter
      <4> HIDE DEF e
      <4> QED BY <4>1, <4>2, ErrIs DEF PackStreams, With, Repeat, Unbonded
    <3> HIDE DEF packs
    <3>2. x = Err
      BY <3>1, ErrIs DEF With
    <3> QED BY <1>1, <2>5, <3>2, ErrIs
  <2>13. CASE bonds.ok
    <3>1. d.ok
      BY <2>13, <2>10, ErrIs
    <3>2. ins >= n - 1
      BY <2>7, <3>1
    <3>3. Passed(bonds, packs) /\ IsCursor(packs)
      BY <2>2, <2>6, <2>11, <3>2, PacksAreRead
    <3> HIDE DEF packs
    <3>4. Read(r, packs)
      <4>1. Read(r, coders)
        BY <1>4, <2>4, Onward DEF Read
      <4>2. Read(r, d)
        BY <2>7, <4>1, Onward DEF Read
      <4>3. Read(r, bonds)
        BY <2>11, <4>2, Onward DEF Read
      <4> QED BY <3>3, <4>3, Onward DEF Read
    <3>5. packs.ok => v \in FolderSet /\ v.main < v.coders
      <4> SUFFICES ASSUME packs.ok PROVE v \in FolderSet /\ v.main < v.coders
        OBVIOUS
      <4>1. Consumed(r, packs) \in Seq(Byte)
        BY <3>4, ConsumedIs DEF Read
      <4>2. main \in 0..n - 1
        <5> DEFINE s == Bonds(bonds.v, "out")
        <5>1. bonds.v \in Seq(BondSet) /\ Len(bonds.v) = n - 1
          BY <2>11, <2>13 DEF AreBonds
        <5>2. DOMAIN s = 1..n - 1
          BY <2>8, <5>1 DEF Bonds
        <5> HIDE DEF s
        <5>3. n - 1 < n
          BY <2>2
        <5>4. FirstFree(s, n) \in 0..n - 1
          BY <2>2, <2>8, <5>2, <5>3, FirstFreeIs
        <5> QED BY <5>4 DEF s
      <4> HIDE DEF main
      <4>3. ins - (n - 1) \in Nat
        BY <2>2, <2>6, <3>2
      <4>4. main \in 0..63 /\ main < n
        BY <2>2, <4>2
      <4> QED BY <2>2, <4>1, <4>3, <4>4 DEF FolderSet
    <3> HIDE DEF v
    <3>6. Passed(packs, x) /\ (x.ok => packs.ok /\ x.v = v)
      BY <3>3, WithIs
    <3>7. ScanFolder(r) = x
      BY <1>1, <2>5
    <3> HIDE DEF x, c
    <3>8. Read(r, x)
      BY <3>4, <3>6, Onward DEF Read
    <3>9. x.ok => IsScan(x.v)
      BY <3>7 DEF IsScan
    <3> QED BY <3>5, <3>6, <3>7, <3>8, <3>9 DEF Folders
  <2> QED BY <2>12, <2>13
<1> QED BY <1>5, <1>6

\* Scanning n folders gives n folders or fails.
LEMMA FoldersAre ==
  ASSUME NEW r, IsCursor(r), NEW n \in Nat
  PROVE  ReadAll(r, Repeat(n, r, ScanFolder), Folders, n)
<1>1. CASE ~r.ok
  BY <1>1, ErrIs DEF Repeat, ReadAll
<1>2. CASE r.ok
  <2> DEFINE m == Bound(n, r)
             op == [c \in Cursors(Folders) |-> ScanFolder(c)]
             g == CHOOSE f : f = [k \in 0..m |-> IF k = 0 THEN With(r, <<>>) ELSE Turn(f[k - 1], ScanFolder(f[k - 1]))]
  <2>1. Repeat(n, r, ScanFolder) = g[m]
    BY <1>2 DEF Repeat, Loop, Turn, Bound
  <2>2. \A c \in Cursors(Folders) : op[c] = ScanFolder(c)
    OBVIOUS
  <2> HIDE DEF op
  <2>3. Reader(op, Folders)
    <3> SUFFICES ASSUME NEW c \in Cursors(Folders) PROVE Read(c, op[c]) /\ (op[c].ok => op[c].v \in Folders)
      BY DEF Reader
    <3>1. IsCursor(c) /\ op[c] = ScanFolder(c)
      BY <2>2 DEF Cursors, IsCursor
    <3> QED BY <3>1, ScanFolderIs
  <2>4. PICK h \in [0..m -> Cursors(Folders)] : Readings(h, m, r, op)
    BY <1>2, <2>3, ReadingsExist, Zenon
  <2>5. m \in Nat
    BY BoundIs
  <2> HIDE DEF m
  <2>6. h = [k \in 0..m |-> IF k = 0 THEN With(r, <<>>) ELSE Turn(h[k - 1], ScanFolder(h[k - 1]))]
    BY <2>2, <2>4, <2>5 DEF Readings
  <2>7. g = [k \in 0..m |-> IF k = 0 THEN With(r, <<>>) ELSE Turn(g[k - 1], ScanFolder(g[k - 1]))]
    BY <2>6
  <2> HIDE DEF g
  <2>8. g[0] = With(r, <<>>) /\ \A k \in 1..m : g[k - 1] \in Cursors(Folders) => g[k] = Turn(g[k - 1], op[g[k - 1]])
    BY <2>2, <2>5, <2>7
  <2>9. Running(g, r, n, op, Folders)
    BY <2>8 DEF Running, m
  <2> QED BY <1>2, <2>1, <2>3, <2>9, ReadingsAre DEF m
<1> QED BY <1>1, <1>2 DEF IsCursor

-----------------------------------------------------------------------------
(* What is skipped.                                                          *)

\* A cursor that failed may be moved by anything: it stays failed.
LEMMA MovedIs ==
  ASSUME NEW r, IsCursor(r), NEW n, r.ok => n \in Nat
  PROVE  Passed(r, Drop(r, n)) /\ IsCursor(Drop(r, n)) /\ (Drop(r, n).ok => r.ok /\ n <= Len(r.sd) /\ Drop(r, n).v = r.v)
<1>1. CASE r.ok
  BY <1>1, DropIs
<1>2. CASE ~r.ok
  BY <1>2, ErrIs DEF Drop
<1> QED BY <1>1, <1>2 DEF IsCursor

\* SkipData reads a size and moves on, and keeps the value.
LEMMA SkipDataIs ==
  ASSUME NEW r, IsCursor(r)
  PROVE  Read(r, SkipData(r)) /\ (SkipData(r).ok => SkipData(r).v = r.v)
<1> DEFINE a == ReadNumber(r)
           n == a.v
           d == Drop(a, n)
           v == r.v
           x == With(d, v)
<1>1. SkipData(r) = x
  BY DEF SkipData, SkipSize
<1>2. Read(r, a) /\ IsCursor(a) /\ (a.ok => n \in Number)
  BY NumberIs
<1>3. a.ok => n \in Nat
  BY <1>2 DEF Number
<1> HIDE DEF a, n
<1>4. Passed(a, d) /\ IsCursor(d)
  BY <1>2, <1>3, MovedIs
<1> HIDE DEF d
<1>5. Passed(d, x) /\ x.ok = d.ok /\ (d.ok => x.v = v)
  BY <1>4, WithIs
<1> HIDE DEF x
<1>6. Read(r, d)
  BY <1>2, <1>4, Onward DEF Read
<1>7. Read(r, x)
  BY <1>5, <1>6, Onward DEF Read
<1> QED BY <1>1, <1>5, <1>7

\* No more bits are set than there are.
LEMMA BitsCountIs ==
  ASSUME NEW bits, NEW n \in Nat, DOMAIN bits = 1..n
  PROVE  CountDefinedBits(bits) \in Nat /\ CountDefinedBits(bits) <= n
<1> DEFINE s == {i \in DOMAIN bits : bits[i]}
<1>1. s \subseteq 1..n
  OBVIOUS
<1> HIDE DEF s
<1>2. IsFiniteSet(1..n) /\ Cardinality(1..n) = n
  <2>1. 1 \in Int /\ n \in Int
    OBVIOUS
  <2>2. IsFiniteSet(1..n) /\ Cardinality(1..n) = IF 1 > n THEN 0 ELSE n - 1 + 1
    BY <2>1, FS_Interval, Zenon
  <2> QED BY <2>2
<1>3. IsFiniteSet(s) /\ Cardinality(s) <= n /\ Cardinality(s) \in Nat
  <2> DEFINE t == 1..n
  <2>1. IsFiniteSet(t) /\ Cardinality(t) = n /\ s \in SUBSET t
    BY <1>1, <1>2
  <2> HIDE DEF t
  <2>2. IsFiniteSet(s) /\ Cardinality(s) <= Cardinality(t)
    BY <2>1, FS_Subset
  <2>3. Cardinality(s) \in Nat
    BY <2>2, FS_CardinalityType
  <2> QED BY <2>1, <2>2, <2>3
<1> QED BY <1>3 DEF CountDefinedBits, s

\* ReadBitVector gives one bit for each of n entries.
LEMMA BitVectorIs ==
  ASSUME NEW r, IsCursor(r), NEW n \in Nat
  PROVE  LET d == ReadBitVector(r, n) IN Read(r, d) /\ IsCursor(d) /\ (d.ok => DOMAIN d.v = 1..n)
<1> DEFINE all == ReadByte(r)
           k == (n + 7) \div 8
           d == Drop(all, k)
           x == BitVector(all, d, n)
<1>1. ReadBitVector(r, n) = x
  BY DEF ReadBitVector, BitsAfter
<1>2. Read(r, all) /\ IsCursor(all)
  BY ByteIs
<1>3. k \in Nat
  OBVIOUS
<1> HIDE DEF all, k
<1>4. Passed(all, d) /\ IsCursor(d)
  BY <1>2, <1>3, DropIs
<1> HIDE DEF d
<1>5. CASE all.v # 0 \/ n = 0
  <2> DEFINE v == [i \in 1..n |-> TRUE]
             w == With(all, v)
  <2>1. x = w
    BY <1>5 DEF BitVector
  <2>2. DOMAIN v = 1..n
    OBVIOUS
  <2> HIDE DEF v, x
  <2>3. Passed(all, w) /\ IsCursor(w) /\ w.ok = all.ok /\ (all.ok => w.v = v)
    BY <1>2, WithIs
  <2> HIDE DEF w
  <2>4. Read(r, w)
    BY <1>2, <2>3, Onward DEF Read
  <2> QED BY <1>1, <2>1, <2>2, <2>3, <2>4
<1>6. CASE ~(all.v # 0 \/ n = 0)
  <2>1. CASE d.ok
    <3> DEFINE v == BitsOf(all.sd, n)
               w == With(d, v)
    <3>1. x = w
      BY <1>6, <2>1 DEF BitVector
    <3>2. DOMAIN v = 1..n
      BY DEF BitsOf
    <3> HIDE DEF v, x
    <3>3. Passed(d, w) /\ IsCursor(w) /\ w.ok = d.ok /\ (d.ok => w.v = v)
      BY <1>4, WithIs
    <3> HIDE DEF w
    <3>4. Read(r, d)
      BY <1>2, <1>4, Onward DEF Read
    <3>5. Read(r, w)
      BY <3>3, <3>4, Onward DEF Read
    <3> QED BY <1>1, <3>1, <3>2, <3>3, <3>5
  <2>2. CASE ~d.ok
    BY <1>1, <1>6, <2>2, ErrIs DEF BitVector
  <2> QED BY <2>1, <2>2
<1> QED BY <1>5, <1>6

\* Reading the values of the defined entries moves on.
LEMMA ValuesAreRead ==
  ASSUME NEW r, IsCursor(r), NEW defs, NEW n \in Nat, DOMAIN defs = 1..n, NEW width \in Nat
  PROVE  Passed(r, ReadValues(r, defs, width)) /\ IsCursor(ReadValues(r, defs, width))
<1> DEFINE k == width * CountDefinedBits(defs)
           d == Drop(r, k)
           v == [i \in DOMAIN defs |-> IF defs[i] THEN ValueAt(r.sd, width, Cardinality({j \in 1..i : defs[j]})) ELSE None]
           x == With(d, v)
<1>1. ReadValues(r, defs, width) = x
  BY DEF ReadValues
<1>2. k \in Nat
  <2> DEFINE c == CountDefinedBits(defs)
  <2>1. c \in Nat
    BY BitsCountIs
  <2> HIDE DEF c
  <2>2. width * c \in Nat
    BY <2>1
  <2> QED BY <2>2 DEF c
<1> HIDE DEF k, v
<1>3. Passed(r, d) /\ IsCursor(d)
  BY <1>2, DropIs
<1> HIDE DEF d
<1>4. Passed(d, x) /\ IsCursor(x)
  BY <1>3, WithIs
<1> HIDE DEF x
<1> QED BY <1>1, <1>3, <1>4, Onward

\* ReadBitUi32s moves on.
LEMMA BitUi32sAre ==
  ASSUME NEW r, IsCursor(r), NEW n \in Nat
  PROVE  Passed(r, ReadBitUi32s(r, n))
<1> DEFINE d == ReadBitVector(r, n)
           x == ReadBitUi32s(r, n)
<1>1. Read(r, d) /\ IsCursor(d) /\ (d.ok => DOMAIN d.v = 1..n)
  BY BitVectorIs
<1>2. x = IF d.ok THEN ReadValues(d, d.v, 4) ELSE Err
  BY DEF ReadBitUi32s, Ui32s
<1> HIDE DEF d, x
<1>3. CASE d.ok
  <2>1. 4 \in Nat
    OBVIOUS
  <2>2. Passed(d, x)
    BY <1>1, <1>2, <1>3, <2>1, ValuesAreRead
  <2>3. Passed(r, x)
    BY <1>1, <2>2, Onward DEF Read
  <2> QED BY <2>3 DEF x
<1>4. CASE ~d.ok
  BY <1>2, <1>4, ErrIs DEF x
<1> QED BY <1>3, <1>4

\* SkipBitUi32s moves on and keeps the value.
LEMMA SkipBitsIs ==
  ASSUME NEW r, IsCursor(r), NEW n \in Nat
  PROVE  Passed(r, SkipBitUi32s(r, n)) /\ (SkipBitUi32s(r, n).ok => SkipBitUi32s(r, n).v = r.v)
<1> DEFINE all == ReadByte(r)
           k == (n + 7) \div 8
           d == Drop(all, k)
           v == r.v
           c == CountDefinedBits(BitsOf(all.sd, n))
           a4 == 4 * n
           c4 == 4 * c
           x == SkipDefined(all, d, n, v)
<1>1. SkipBitUi32s(r, n) = x
  BY DEF SkipBitUi32s, SkipBits
<1>2. Read(r, all) /\ IsCursor(all)
  BY ByteIs
<1>3. k \in Nat /\ a4 \in Nat
  OBVIOUS
<1>4. c4 \in Nat
  <2>1. DOMAIN BitsOf(all.sd, n) = 1..n
    BY DEF BitsOf
  <2>2. c \in Nat
    BY <2>1, BitsCountIs
  <2> HIDE DEF c
  <2> QED BY <2>2
<1>5. x = IF all.v # 0 THEN With(Drop(all, a4), v) ELSE IF d.ok THEN With(Drop(d, c4), v) ELSE Err
  BY DEF SkipDefined
<1> HIDE DEF all, k, v, c4, a4, x
<1>6. Passed(all, d) /\ IsCursor(d)
  BY <1>2, <1>3, DropIs
<1> HIDE DEF d
<1>7. CASE all.v # 0
  <2> DEFINE e == Drop(all, a4)
             w == With(e, v)
  <2>1. Passed(all, e) /\ IsCursor(e)
    BY <1>2, <1>3, DropIs
  <2> HIDE DEF e
  <2>2. Passed(e, w) /\ w.ok = e.ok /\ (e.ok => w.v = v)
    BY <2>1, WithIs
  <2>3. x = w
    BY <1>5, <1>7 DEF e
  <2> HIDE DEF w
  <2>4. Passed(r, w)
    <3>1. Passed(r, e)
      BY <1>2, <2>1, Onward DEF Read
    <3> QED BY <2>2, <3>1, Onward
  <2> QED BY <1>1, <2>2, <2>3, <2>4 DEF v
<1>8. CASE all.v = 0 /\ d.ok
  <2> DEFINE e == Drop(d, c4)
             w == With(e, v)
  <2>1. Passed(d, e) /\ IsCursor(e)
    BY <1>4, <1>6, DropIs
  <2> HIDE DEF e
  <2>2. Passed(e, w) /\ w.ok = e.ok /\ (e.ok => w.v = v)
    BY <2>1, WithIs
  <2>3. x = w
    BY <1>5, <1>8 DEF e
  <2> HIDE DEF w
  <2>4. Passed(r, w)
    <3>1. Passed(r, d)
      BY <1>2, <1>6, Onward DEF Read
    <3>2. Passed(r, e)
      BY <2>1, <3>1, Onward
    <3> QED BY <2>2, <3>2, Onward
  <2> QED BY <1>1, <2>2, <2>3, <2>4 DEF v
<1>9. CASE all.v = 0 /\ ~d.ok
  BY <1>1, <1>5, <1>9, ErrIs
<1> QED BY <1>7, <1>8, <1>9

\* A skipped number is a reading of nothing that is kept.
LEMMA SkipNumberIs ==
  ASSUME NEW r, IsCursor(r)
  PROVE  Read(r, SkipNumber(r)) /\ (SkipNumber(r).ok => SkipNumber(r).v \in {0})
<1> DEFINE n == Following(Head(r.sd)) + 1
           d == Drop(r, n)
           x == With(d, 0)
<1>1. n \in Nat /\ n > 0
  <2>1. Following(Head(r.sd)) \in 0..8
    BY FollowingIs
  <2> QED BY <2>1
<1>2. SkipNumber(r) = IF r.sd = <<>> THEN Err ELSE x
  BY DEF SkipNumber
<1> HIDE DEF n
<1>3. Read(r, d) /\ IsCursor(d)
  BY <1>1, DropIs
<1> HIDE DEF d
<1>4. Passed(d, x) /\ (x.ok => x.v = 0)
  BY <1>3, WithIs
<1> HIDE DEF x
<1>5. Read(r, x)
  BY <1>3, <1>4, Onward DEF Read
<1> QED BY <1>2, <1>4, <1>5, ErrIs

Zero == {0}
\* Skipping n numbers is n readings or fails.
LEMMA SkipNumbersAre ==
  ASSUME NEW r, IsCursor(r), NEW n \in Nat
  PROVE  ReadAll(r, Repeat(n, r, SkipNumber), Zero, n)
<1>1. CASE ~r.ok
  BY <1>1, ErrIs DEF Repeat, ReadAll
<1>2. CASE r.ok
  <2> DEFINE m == Bound(n, r)
             op == [c \in Cursors(Zero) |-> SkipNumber(c)]
             g == CHOOSE f : f = [k \in 0..m |-> IF k = 0 THEN With(r, <<>>) ELSE Turn(f[k - 1], SkipNumber(f[k - 1]))]
  <2>1. Repeat(n, r, SkipNumber) = g[m]
    BY <1>2 DEF Repeat, Loop, Turn, Bound
  <2>2. \A c \in Cursors(Zero) : op[c] = SkipNumber(c)
    OBVIOUS
  <2> HIDE DEF op
  <2>3. Reader(op, Zero)
    <3> SUFFICES ASSUME NEW c \in Cursors(Zero) PROVE Read(c, op[c]) /\ (op[c].ok => op[c].v \in Zero)
      BY DEF Reader
    <3>1. IsCursor(c) /\ op[c] = SkipNumber(c)
      BY <2>2 DEF Cursors, IsCursor
    <3> QED BY <3>1, SkipNumberIs DEF Zero
  <2>4. PICK h \in [0..m -> Cursors(Zero)] : Readings(h, m, r, op)
    BY <1>2, <2>3, ReadingsExist, Zenon
  <2>5. m \in Nat
    BY BoundIs
  <2> HIDE DEF m
  <2>6. h = [k \in 0..m |-> IF k = 0 THEN With(r, <<>>) ELSE Turn(h[k - 1], SkipNumber(h[k - 1]))]
    BY <2>2, <2>4, <2>5 DEF Readings
  <2>7. g = [k \in 0..m |-> IF k = 0 THEN With(r, <<>>) ELSE Turn(g[k - 1], SkipNumber(g[k - 1]))]
    BY <2>6
  <2> HIDE DEF g
  <2>8. g[0] = With(r, <<>>) /\ \A k \in 1..m : g[k - 1] \in Cursors(Zero) => g[k] = Turn(g[k - 1], op[g[k - 1]])
    BY <2>2, <2>5, <2>7
  <2>9. Running(g, r, n, op, Zero)
    BY <2>8 DEF Running, m
  <2> QED BY <1>2, <2>1, <2>3, <2>9, ReadingsAre DEF m
<1> QED BY <1>1, <1>2 DEF IsCursor

-----------------------------------------------------------------------------
(* The loops over properties.                                                *)

\* One turn of the loop that `loop` names, from s on; p is what it is given.
Over(s) == s.ended \/ ~s.c.ok
LoopTurn(loop, p, s, k) ==
  CASE loop = "wait" -> IF s.found \/ ~s.c.ok THEN s ELSE Found(ReadNumber(s.c), p)
    [] loop = "packs" -> IF Over(s) THEN s
                         ELSE HandleNext(ReadNumber(s.c), s.c.v,
                                         LAMBDA id, c : IF id = Id.CRC THEN SkipBitUi32s(c, p) ELSE SkipData(c))
    [] loop = "unpack" -> IF Over(s) THEN s ELSE HandleNext(ReadNumber(s.c), s.c.v, UnpackProperty)
    [] loop = "subs" -> IF Over(s) THEN s ELSE HandleNext(ReadNumber(s.c), s.c.v, SubStreamProperty)
    [] loop = "skip" -> IF Over(s) THEN s ELSE HandleNext(ReadNumber(s.c), s.c.v, LAMBDA id, c : SkipData(c))
    [] loop = "files" -> IF Over(s) THEN s
                         ELSE HandleNext(ReadNumber(s.c), s.c.v, LAMBDA id, c : PropertySized(id, c.v, ReadNumber(c), p))
    [] loop = "enter" -> IF ~s.ok \/ s.rem # 0 THEN s
                         ELSE EnterOne(s, p.i, p.db, IF p.ssi.counts = None THEN With(s.counts, 1) ELSE ReadNumber32(s.counts))
    [] loop = "mean" -> Outputs(p, s)
    [] loop = "layout" -> IF s.ok THEN EntryAt(s, k, p.files, p.db, p.ssi) ELSE s

Runs(f, loop, p, b, n) == f = [k \in 0..n |-> IF k = 0 THEN b ELSE LoopTurn(loop, p, f[k - 1], k)]

\* The model's loops are recursive functions, which exist for every body and bound.
LEMMA LoopRuns ==
  ASSUME NEW loop, NEW p, NEW b, NEW n \in Nat
  PROVE  \E f : Runs(f, loop, p, b, n)
<1> DEFINE Step(s, k) == LoopTurn(loop, p, s, k)
<1> HIDE DEF Step
<1> DEFINE Good(m, f) == f[0] = b /\ \A k \in 1..m : f[k] = Step(f[k - 1], k)
           T == {m \in 0..n : \E f : Good(m, f)}
<1>1. 0 \in T
  <2> DEFINE h == [k \in 0..0 |-> b]
  <2>1. Good(0, h)
    OBVIOUS
  <2> HIDE DEF h, Good
  <2> QED BY <2>1
<1>2. ASSUME NEW m \in 0..n, m \in T, m < n PROVE m + 1 \in T
  <2>1. PICK f : Good(m, f)
    BY <1>2
  <2> DEFINE h == [k \in 0..(m + 1) |-> IF k = m + 1 THEN Step(f[m], m + 1) ELSE f[k]]
  <2>2. h[0] = b
    BY <2>1
  <2>3. ASSUME NEW k \in 1..(m + 1) PROVE h[k] = Step(h[k - 1], k)
    <3>1. CASE k = m + 1
      <4>1. h[m + 1] = Step(f[m], m + 1) /\ h[m] = f[m]
        OBVIOUS
      <4> HIDE DEF h
      <4>2. k - 1 = m
        BY <3>1
      <4> QED BY <3>1, <4>1, <4>2
    <3>2. CASE k \in 1..m
      <4>1. h[k] = f[k] /\ h[k - 1] = f[k - 1]
        BY <3>2
      <4> HIDE DEF h
      <4> QED BY <2>1, <3>2, <4>1
    <3> QED BY <3>1, <3>2
  <2> HIDE DEF h
  <2>4. Good(m + 1, h)
    BY <2>2, <2>3
  <2>5. m + 1 \in 0..n
    BY <1>2
  <2> QED BY <2>4, <2>5
<1> HIDE DEF T
<1>3. n \in T
  <2>1. \A k \in 0..n : k \in T
    BY <1>1, <1>2, Upwards
  <2> QED BY <2>1
<1>4. PICK f : Good(n, f)
  BY <1>3 DEF T
<1> DEFINE h == [k \in 0..n |-> f[k]]
<1>5. ASSUME NEW k \in 0..n PROVE h[k] = IF k = 0 THEN b ELSE Step(h[k - 1], k)
  <2>1. CASE k = 0
    BY <1>4, <2>1
  <2>2. CASE k # 0
    <3>1. k \in 1..n /\ k - 1 \in 0..n
      BY <2>2
    <3>2. h[k] = f[k] /\ h[k - 1] = f[k - 1]
      BY <3>1
    <3> HIDE DEF h
    <3> QED BY <1>4, <2>2, <3>1, <3>2
  <2> QED BY <2>1, <2>2
<1>6. h = [k \in 0..n |-> h[k]]
  OBVIOUS
<1> HIDE DEF h
<1>7. h = [k \in 0..n |-> IF k = 0 THEN b ELSE Step(h[k - 1], k)]
  BY <1>5, <1>6
<1> QED BY <1>7 DEF Step, Runs

\* The bound of the property loops is a number.
LEMMA TurnsIs ==
  ASSUME NEW r, IsCursor(r)
  PROVE  Turns(r, 2) \in Nat
<1>1. Len(r.sd) \in Nat
  BY DEF IsCursor
<1> DEFINE l == Len(r.sd)
<1> HIDE DEF l
<1>2. l \in Nat => l \div 2 + 1 \in Nat
  OBVIOUS
<1> QED BY <1>1, <1>2 DEF Turns, l

\* One id and what is done with it.
Given(c, h) == LET w == With(ReadNumber(c), c.v) IN w.ok => Passed(w, h)
Taken(r, c, h, s) == Passed(r, s.c) /\ (s.c.ok => c.ok /\ ReadNumber(c).ok /\ (s.c.v = c.v \/ (h.ok /\ s.c.v = h.v)))

\* A property handled moves the cursor on, and keeps the value or replaces it by what its handler made.
LEMMA HandledIs ==
  ASSUME NEW r, IsCursor(r), NEW c, Passed(r, c), NEW h, Given(c, h)
  PROVE  Taken(r, c, h, Property(ReadNumber(c), c.v, h))
<1> DEFINE t == ReadNumber(c)
           v == c.v
           w == With(t, v)
           s == Property(t, v, h)
<1>1. IsCursor(c)
  BY DEF Passed
<1>2. Read(c, t) /\ IsCursor(t)
  BY <1>1, NumberIs
<1> HIDE DEF t
<1>3. Passed(t, w) /\ w.ok = t.ok /\ (t.ok => w.v = v)
  BY <1>2, WithIs
<1>4. w.ok => Passed(w, h)
  BY DEF t, Given
<1>5. s.c = IF ~t.ok THEN Err ELSE IF t.v = Id.End THEN w ELSE h
  BY DEF Property
<1> HIDE DEF s, w
<1>6. Passed(c, t) /\ (t.ok => c.ok)
  BY <1>2 DEF Read, Passed
<1>7. Passed(r, w) /\ (w.ok => c.ok)
  <2>1. Passed(r, t)
    BY <1>6, Onward
  <2> QED BY <1>3, <1>6, <2>1, Onward
<1>8. w.ok => Passed(r, h)
  BY <1>4, <1>7, Onward DEF Passed
<1>9. Passed(r, s.c) /\ (s.c.ok => c.ok /\ t.ok /\ (s.c.v = v \/ (h.ok /\ s.c.v = h.v)))
  <2>1. CASE ~t.ok
    BY <1>5, <2>1, ErrIs
  <2>2. CASE t.ok /\ t.v = Id.End
    BY <1>3, <1>5, <1>6, <1>7, <2>2
  <2>3. CASE t.ok /\ t.v # Id.End
    BY <1>3, <1>5, <1>6, <1>7, <1>8, <2>3
  <2> QED BY <2>1, <2>2, <2>3
<1> QED BY <1>9 DEF s, t, Taken

\* WaitId moves on to the id it waits for.
LEMMA WaitForIs ==
  ASSUME NEW r, IsCursor(r), NEW ids
  PROVE  Passed(r, WaitFor(r, ids))
<1> DEFINE m == Turns(r, 2)
           b == [found |-> FALSE, c |-> r]
           g == CHOOSE f : f = [k \in 0..m |-> IF k = 0 THEN b ELSE IF f[k - 1].found \/ ~f[k - 1].c.ok THEN f[k - 1] ELSE Found(ReadNumber(f[k - 1].c), ids)]
<1>0. m \in Nat
  BY TurnsIs
<1>1. WaitFor(r, ids) = g[m].c
  BY DEF WaitFor, Loop
<1>2. PICK h : h = [k \in 0..m |-> IF k = 0 THEN b ELSE LoopTurn("wait", ids, h[k - 1], k)]
  <2> HIDE DEF b
  <2> DEFINE p == ids
             l == "wait"
  <2> HIDE DEF p, l, m
  <2>1. \E h : Runs(h, l, p, b, m)
    BY <1>0, LoopRuns
  <2> QED BY <2>1 DEF p, l, Runs
<1>3. h = [k \in 0..m |-> IF k = 0 THEN b ELSE IF h[k - 1].found \/ ~h[k - 1].c.ok THEN h[k - 1] ELSE Found(ReadNumber(h[k - 1].c), ids)]
  BY <1>2 DEF LoopTurn
<1> HIDE DEF m
<1>4. g = [k \in 0..m |-> IF k = 0 THEN b ELSE IF g[k - 1].found \/ ~g[k - 1].c.ok THEN g[k - 1] ELSE Found(ReadNumber(g[k - 1].c), ids)]
  BY <1>3
<1> HIDE DEF g
<1> DEFINE T == {k \in 0..m : Passed(r, g[k].c)}
<1>5. 0 \in T
  <2>2. 0 \in 0..m
    BY <1>0
  <2>3. g[0] = b
    BY <1>4, <2>2
  <2>4. b.c = r
    OBVIOUS
  <2> HIDE DEF b
  <2> QED BY <2>2, <2>3, <2>4, HereIsPassed
<1>6. ASSUME NEW k \in 0..m, k \in T, k < m PROVE k + 1 \in T
  <2> DEFINE s == g[k]
             x == IF s.found \/ ~s.c.ok THEN s ELSE Found(ReadNumber(s.c), ids)
  <2>1. k + 1 \in 0..m /\ k + 1 # 0 /\ (k + 1) - 1 = k
    BY <1>0, <1>6
  <2>2. g[k + 1] = x
    BY <1>4, <2>1
  <2>3. Passed(r, s.c)
    BY <1>6
  <2> HIDE DEF s, g
  <2>4. Passed(r, x.c)
    <3>1. CASE s.found \/ ~s.c.ok
      BY <2>3, <3>1
    <3>2. CASE ~(s.found \/ ~s.c.ok)
      <4> DEFINE t == ReadNumber(s.c)
                 y == Found(t, ids)
      <4>1. IsCursor(s.c)
        BY <2>3 DEF Passed
      <4>2. Read(s.c, t) /\ IsCursor(t)
        BY <4>1, NumberIs
      <4>3. x = y
        BY <3>2
      <4> HIDE DEF t, x
      <4>4. y.c = IF t.ok /\ t.v \in ids THEN t ELSE IF t.v = Id.End THEN Err ELSE SkipData(t)
        BY DEF Found
      <4>5. Passed(r, t)
        BY <2>3, <4>2, Onward DEF Read
      <4>6. Passed(t, SkipData(t))
        BY <4>2, SkipDataIs DEF Read
      <4> HIDE DEF y
      <4> DEFINE q == SkipData(t)
      <4> HIDE DEF q
      <4>7. Passed(r, q)
        BY <4>5, <4>6, Onward DEF q
      <4> QED BY <4>3, <4>4, <4>5, <4>7, ErrIs DEF q
    <3> QED BY <3>1, <3>2
  <2> QED BY <2>1, <2>2, <2>4
<1> HIDE DEF T
<1>8. \A k \in 0..m : k \in T
  BY <1>0, <1>5, <1>6, Upwards
<1>9. m \in T
  BY <1>0, <1>8
<1> QED BY <1>1, <1>9 DEF T

\* Skipping properties up to the end moves on and keeps the value.
LEMMA SkipAllIs ==
  ASSUME NEW r, IsCursor(r)
  PROVE  LET x == SkipAll(r) IN Passed(r, x) /\ (x.ok => x.v = r.v)
<1> DEFINE m == Turns(r, 2)
           b == [ended |-> FALSE, c |-> r]
           g == CHOOSE f : f = [k \in 0..m |-> IF k = 0 THEN b ELSE IF Over(f[k - 1]) THEN f[k - 1] ELSE HandleNext(ReadNumber(f[k - 1].c), f[k - 1].c.v, LAMBDA id, c : SkipData(c))]
<1>0. m \in Nat
  BY TurnsIs
<1>1. SkipAll(r) = g[m].c
  BY DEF SkipAll, Properties, Loop, Over
<1>2. PICK run : run = [k \in 0..m |-> IF k = 0 THEN b ELSE LoopTurn("skip", 0, run[k - 1], k)]
  <2> HIDE DEF b
  <2> DEFINE p == 0
             l == "skip"
  <2> HIDE DEF p, l, m
  <2>1. \E run : Runs(run, l, p, b, m)
    BY <1>0, LoopRuns
  <2> QED BY <2>1 DEF p, l, Runs
<1>3. run = [k \in 0..m |-> IF k = 0 THEN b ELSE IF Over(run[k - 1]) THEN run[k - 1] ELSE HandleNext(ReadNumber(run[k - 1].c), run[k - 1].c.v, LAMBDA id, c : SkipData(c))]
  BY <1>2 DEF LoopTurn, Over
<1> HIDE DEF m
<1>4. g = [k \in 0..m |-> IF k = 0 THEN b ELSE IF Over(g[k - 1]) THEN g[k - 1] ELSE HandleNext(ReadNumber(g[k - 1].c), g[k - 1].c.v, LAMBDA id, c : SkipData(c))]
  BY <1>3
<1> HIDE DEF g
<1> DEFINE T == {k \in 0..m : Passed(r, g[k].c) /\ (g[k].c.ok => g[k].c.v = r.v)}
<1>5. 0 \in T
  <2>2. 0 \in 0..m
    BY <1>0
  <2>3. g[0] = b
    BY <1>4, <2>2
  <2>4. b.c = r
    OBVIOUS
  <2> HIDE DEF b
  <2> QED BY <2>2, <2>3, <2>4, HereIsPassed
<1>6. ASSUME NEW k \in 0..m, k \in T, k < m PROVE k + 1 \in T
  <2> DEFINE s == g[k]
             x == IF Over(s) THEN s ELSE HandleNext(ReadNumber(s.c), s.c.v, LAMBDA id, c : SkipData(c))
  <2>1. k + 1 \in 0..m /\ k + 1 # 0 /\ (k + 1) - 1 = k
    BY <1>0, <1>6
  <2>2. g[k + 1] = x
    BY <1>4, <2>1
  <2>3. Passed(r, s.c) /\ (s.c.ok => s.c.v = r.v)
    BY <1>6
  <2> HIDE DEF s, g
  <2>4. Passed(r, x.c) /\ (x.c.ok => x.c.v = r.v)
    <3>1. CASE Over(s)
      BY <2>3, <3>1 DEF Over
    <3>2. CASE ~Over(s)
      <4> DEFINE c == s.c
                 t == ReadNumber(c)
                 v == c.v
                 w == With(t, v)
                 i == t.v
                 h == SkipData(w)
                 y == Property(t, v, h)
      <4>1. x = y
        BY <3>2 DEF HandleNext, Over
      <4>2. Passed(r, c) /\ (c.ok => v = r.v) /\ IsCursor(c)
        BY <2>3 DEF Passed
      <4> HIDE DEF x, c, v
      <4>3. IsCursor(t) /\ Read(c, t)
        BY <4>2, NumberIs
      <4>4. t.ok => c.ok
        BY <4>3 DEF Read, Passed
      <4> DEFINE tt == t
      <4>5. IsCursor(w) /\ (w.ok => w.v = v) /\ w.ok = t.ok
        BY <4>3, WithIs
      <4>6. w.ok => w.v = r.v
        BY <4>2, <4>4, <4>5
      <4> HIDE DEF i, w
      <4>7. w.ok => Passed(w, h) /\ (h.ok => h.v = r.v)
        <5> SUFFICES ASSUME w.ok PROVE Passed(w, h) /\ (h.ok => h.v = r.v)
          OBVIOUS
        <5>1. Read(w, SkipData(w)) /\ (SkipData(w).ok => SkipData(w).v = w.v)
          BY <4>5, SkipDataIs
        <5> QED BY <4>6, <5>1 DEF Read, Passed
      <4> HIDE DEF h
      <4>8. Passed(r, y.c) /\ (y.c.ok => c.ok /\ t.ok /\ (y.c.v = v \/ (h.ok /\ y.c.v = h.v)))
        <5>1. Given(c, h)
          BY <4>7 DEF w, v, Given
        <5>2. Taken(r, c, h, Property(ReadNumber(c), c.v, h))
          BY <4>2, <5>1, HandledIs
        <5> QED BY <5>2 DEF v, Taken
      <4> HIDE DEF y
      <4> QED BY <4>1, <4>2, <4>5, <4>7, <4>8
    <3> QED BY <3>1, <3>2
  <2> QED BY <2>1, <2>2, <2>4
<1> HIDE DEF T
<1>8. \A k \in 0..m : k \in T
  BY <1>0, <1>5, <1>6, Upwards
<1>9. m \in T
  BY <1>0, <1>8
<1> QED BY <1>1, <1>9 DEF T

\* A property behind the pack sizes is skipped.
LEMMA PackCrcIs ==
  ASSUME NEW c, IsCursor(c), NEW id, NEW n \in Nat
  PROVE  LET h == IF id = Id.CRC THEN SkipBitUi32s(c, n) ELSE SkipData(c) IN Passed(c, h) /\ (h.ok => h.v = c.v)
<1>1. CASE id = Id.CRC
  BY <1>1, SkipBitsIs
<1>2. CASE id # Id.CRC
  BY <1>2, SkipDataIs DEF Read
<1> QED BY <1>1, <1>2

\* The properties behind the pack sizes are skipped.
LEMMA PackCrcsAre ==
  ASSUME NEW r, IsCursor(r), NEW n \in Nat
  PROVE  LET x == PackCrcs(r, n) IN Passed(r, x) /\ (x.ok => x.v = r.v)
<1> DEFINE m == Turns(r, 2)
           b == [ended |-> FALSE, c |-> r]
           g == CHOOSE f : f = [k \in 0..m |-> IF k = 0 THEN b ELSE IF Over(f[k - 1]) THEN f[k - 1] ELSE HandleNext(ReadNumber(f[k - 1].c), f[k - 1].c.v, LAMBDA id, c : IF id = Id.CRC THEN SkipBitUi32s(c, n) ELSE SkipData(c))]
<1>0. m \in Nat
  BY TurnsIs
<1>1. PackCrcs(r, n) = g[m].c
  BY DEF PackCrcs, Properties, Loop, Over
<1>2. PICK run : run = [k \in 0..m |-> IF k = 0 THEN b ELSE LoopTurn("packs", n, run[k - 1], k)]
  <2> HIDE DEF b
  <2> DEFINE p == n
             l == "packs"
  <2> HIDE DEF p, l, m
  <2>1. \E run : Runs(run, l, p, b, m)
    BY <1>0, LoopRuns
  <2> QED BY <2>1 DEF p, l, Runs
<1>3. run = [k \in 0..m |-> IF k = 0 THEN b ELSE IF Over(run[k - 1]) THEN run[k - 1] ELSE HandleNext(ReadNumber(run[k - 1].c), run[k - 1].c.v, LAMBDA id, c : IF id = Id.CRC THEN SkipBitUi32s(c, n) ELSE SkipData(c))]
  BY <1>2 DEF LoopTurn, Over
<1> HIDE DEF m
<1>4. g = [k \in 0..m |-> IF k = 0 THEN b ELSE IF Over(g[k - 1]) THEN g[k - 1] ELSE HandleNext(ReadNumber(g[k - 1].c), g[k - 1].c.v, LAMBDA id, c : IF id = Id.CRC THEN SkipBitUi32s(c, n) ELSE SkipData(c))]
  BY <1>3
<1> HIDE DEF g
<1> DEFINE T == {k \in 0..m : Passed(r, g[k].c) /\ (g[k].c.ok => g[k].c.v = r.v)}
<1>5. 0 \in T
  <2>2. 0 \in 0..m
    BY <1>0
  <2>3. g[0] = b
    BY <1>4, <2>2
  <2>4. b.c = r
    OBVIOUS
  <2> HIDE DEF b
  <2> QED BY <2>2, <2>3, <2>4, HereIsPassed
<1>6. ASSUME NEW k \in 0..m, k \in T, k < m PROVE k + 1 \in T
  <2> DEFINE s == g[k]
             x == IF Over(s) THEN s ELSE HandleNext(ReadNumber(s.c), s.c.v, LAMBDA id, c : IF id = Id.CRC THEN SkipBitUi32s(c, n) ELSE SkipData(c))
  <2>1. k + 1 \in 0..m /\ k + 1 # 0 /\ (k + 1) - 1 = k
    BY <1>0, <1>6
  <2>2. g[k + 1] = x
    BY <1>4, <2>1
  <2>3. Passed(r, s.c) /\ (s.c.ok => s.c.v = r.v)
    BY <1>6
  <2> HIDE DEF s, g
  <2>4. Passed(r, x.c) /\ (x.c.ok => x.c.v = r.v)
    <3>1. CASE Over(s)
      BY <2>3, <3>1 DEF Over
    <3>2. CASE ~Over(s)
      <4> DEFINE c == s.c
                 t == ReadNumber(c)
                 v == c.v
                 w == With(t, v)
                 i == t.v
                 h == IF i = Id.CRC THEN SkipBitUi32s(w, n) ELSE SkipData(w)
                 y == Property(t, v, h)
      <4>1. x = y
        BY <3>2 DEF HandleNext, Over
      <4>2. Passed(r, c) /\ (c.ok => v = r.v) /\ IsCursor(c)
        BY <2>3 DEF Passed
      <4> HIDE DEF x, c, v
      <4>3. IsCursor(t) /\ Read(c, t)
        BY <4>2, NumberIs
      <4>4. t.ok => c.ok
        BY <4>3 DEF Read, Passed
      <4> DEFINE tt == t
      <4>5. IsCursor(w) /\ (w.ok => w.v = v) /\ w.ok = t.ok
        BY <4>3, WithIs
      <4>6. w.ok => w.v = r.v
        BY <4>2, <4>4, <4>5
      <4> HIDE DEF i, w
      <4>7. w.ok => Passed(w, h) /\ (h.ok => h.v = r.v)
        <5> SUFFICES ASSUME w.ok PROVE Passed(w, h) /\ (h.ok => h.v = r.v)
          OBVIOUS
        <5>1. Passed(w, h) /\ (h.ok => h.v = w.v)
          BY <4>5, PackCrcIs
        <5> HIDE DEF h
        <5> QED BY <4>6, <5>1 DEF Passed
      <4> HIDE DEF h
      <4>8. Passed(r, y.c) /\ (y.c.ok => c.ok /\ t.ok /\ (y.c.v = v \/ (h.ok /\ y.c.v = h.v)))
        <5>1. Given(c, h)
          BY <4>7 DEF w, v, Given
        <5>2. Taken(r, c, h, Property(ReadNumber(c), c.v, h))
          BY <4>2, <5>1, HandledIs
        <5> QED BY <5>2 DEF v, Taken
      <4> HIDE DEF y
      <4> QED BY <4>1, <4>2, <4>5, <4>7, <4>8
    <3> QED BY <3>1, <3>2
  <2> QED BY <2>1, <2>2, <2>4
<1> HIDE DEF T
<1>8. \A k \in 0..m : k \in T
  BY <1>0, <1>5, <1>6, Upwards
<1>9. m \in T
  BY <1>0, <1>8
<1> QED BY <1>1, <1>9 DEF T

-----------------------------------------------------------------------------
(* The handlers that keep a record: folders, substreams, files.              *)

IsUnpacked(v, F, Z) == v = [folders |-> F, sizes |-> Z, crcs |-> v.crcs]

\* A property behind the unpack sizes leaves folders and sizes as they are.
LEMMA UnpackPropertyIs ==
  ASSUME NEW c, IsCursor(c), NEW id, NEW F, Len(F) \in Nat, NEW Z, IsUnpacked(c.v, F, Z)
  PROVE  LET h == UnpackProperty(id, c) IN Passed(c, h) /\ (h.ok => IsUnpacked(h.v, F, Z))
<1>1. c.v.folders = F /\ c.v.sizes = Z
  BY DEF IsUnpacked
<1>2. CASE id = Id.CRC
  <2> DEFINE x == ReadBitUi32s(c, Len(c.v.folders))
             v == [c.v EXCEPT !.crcs = x.v]
             w == With(x, v)
             h == UnpackProperty(id, c)
  <2>1. Passed(c, x)
    BY <1>1, BitUi32sAre
  <2>2. h = IF c.v.crcs = None THEN w ELSE Err
    BY <1>2 DEF UnpackProperty, FolderCrcs
  <2>3. IsUnpacked(v, F, Z)
    BY DEF IsUnpacked
  <2> HIDE DEF x, v, h
  <2>4. Passed(x, w) /\ (w.ok => w.v = v)
    <3>1. IsCursor(x)
      BY <2>1 DEF Passed
    <3> QED BY <3>1, WithIs
  <2> HIDE DEF w
  <2>5. Passed(c, w)
    BY <2>1, <2>4, Onward
  <2>6. Passed(c, h) /\ (h.ok => IsUnpacked(h.v, F, Z))
    BY <2>2, <2>3, <2>4, <2>5, ErrIs
  <2> QED BY <2>6 DEF h
<1>3. CASE id # Id.CRC
  <2> DEFINE h == SkipData(c)
  <2>1. UnpackProperty(id, c) = h
    BY <1>3 DEF UnpackProperty
  <2>2. Passed(c, h) /\ (h.ok => h.v = c.v)
    BY SkipDataIs DEF Read
  <2> HIDE DEF h
  <2> QED BY <2>1, <2>2
<1> QED BY <1>2, <1>3

\* So do all of them.
LEMMA UnpackLoopIs ==
  ASSUME NEW r, IsCursor(r), NEW F, Len(F) \in Nat, NEW Z, r.ok => IsUnpacked(r.v, F, Z)
  PROVE  LET x == Properties(r, UnpackProperty) IN Passed(r, x) /\ (x.ok => IsUnpacked(x.v, F, Z))
<1> DEFINE m == Turns(r, 2)
           b == [ended |-> FALSE, c |-> r]
           g == CHOOSE f : f = [k \in 0..m |-> IF k = 0 THEN b ELSE IF Over(f[k - 1]) THEN f[k - 1] ELSE HandleNext(ReadNumber(f[k - 1].c), f[k - 1].c.v, UnpackProperty)]
<1>0. m \in Nat
  BY TurnsIs
<1>1. Properties(r, UnpackProperty) = g[m].c
  BY DEF Properties, Loop, Over
<1>2. PICK run : run = [k \in 0..m |-> IF k = 0 THEN b ELSE LoopTurn("unpack", 0, run[k - 1], k)]
  <2> HIDE DEF b
  <2> DEFINE p == 0
             l == "unpack"
  <2> HIDE DEF p, l, m
  <2>1. \E run : Runs(run, l, p, b, m)
    BY <1>0, LoopRuns
  <2> QED BY <2>1 DEF p, l, Runs
<1>3. run = [k \in 0..m |-> IF k = 0 THEN b ELSE IF Over(run[k - 1]) THEN run[k - 1] ELSE HandleNext(ReadNumber(run[k - 1].c), run[k - 1].c.v, UnpackProperty)]
  BY <1>2 DEF LoopTurn, Over, HandleNext
<1> HIDE DEF m
<1>4. g = [k \in 0..m |-> IF k = 0 THEN b ELSE IF Over(g[k - 1]) THEN g[k - 1] ELSE HandleNext(ReadNumber(g[k - 1].c), g[k - 1].c.v, UnpackProperty)]
  BY <1>3
<1> HIDE DEF g
<1> DEFINE T == {k \in 0..m : Passed(r, g[k].c) /\ (g[k].c.ok => IsUnpacked(g[k].c.v, F, Z))}
<1>5. 0 \in T
  <2>2. 0 \in 0..m
    BY <1>0
  <2>3. g[0] = b
    BY <1>4, <2>2
  <2>4. b.c = r
    OBVIOUS
  <2> HIDE DEF b
  <2> QED BY <2>2, <2>3, <2>4, HereIsPassed
<1>6. ASSUME NEW k \in 0..m, k \in T, k < m PROVE k + 1 \in T
  <2> DEFINE s == g[k]
             x == IF Over(s) THEN s ELSE HandleNext(ReadNumber(s.c), s.c.v, UnpackProperty)
  <2>1. k + 1 \in 0..m /\ k + 1 # 0 /\ (k + 1) - 1 = k
    BY <1>0, <1>6
  <2>2. g[k + 1] = x
    BY <1>4, <2>1
  <2>3. Passed(r, s.c) /\ (s.c.ok => IsUnpacked(s.c.v, F, Z))
    BY <1>6
  <2> HIDE DEF s, g
  <2>4. Passed(r, x.c) /\ (x.c.ok => IsUnpacked(x.c.v, F, Z))
    <3>1. CASE Over(s)
      BY <2>3, <3>1 DEF Over
    <3>2. CASE ~Over(s)
      <4> DEFINE c == s.c
                 t == ReadNumber(c)
                 v == c.v
                 w == With(t, v)
                 i == t.v
                 h == UnpackProperty(i, w)
                 y == Property(t, v, h)
      <4>1. x = y
        BY <3>2 DEF HandleNext, Over
      <4>2. Passed(r, c) /\ (c.ok => IsUnpacked(v, F, Z)) /\ IsCursor(c)
        BY <2>3 DEF Passed
      <4> HIDE DEF x, c, v
      <4>3. IsCursor(t) /\ Read(c, t)
        BY <4>2, NumberIs
      <4>4. t.ok => c.ok
        BY <4>3 DEF Read, Passed
      <4> DEFINE tt == t
      <4>5. IsCursor(w) /\ (w.ok => w.v = v) /\ w.ok = t.ok
        BY <4>3, WithIs
      <4>6. w.ok => IsUnpacked(w.v, F, Z)
        BY <4>2, <4>4, <4>5
      <4> HIDE DEF i, w
      <4>7. w.ok => Passed(w, h) /\ (h.ok => IsUnpacked(h.v, F, Z))
        <5> SUFFICES ASSUME w.ok PROVE Passed(w, h) /\ (h.ok => IsUnpacked(h.v, F, Z))
          OBVIOUS
        <5>1. IsUnpacked(w.v, F, Z)
          BY <4>6
        <5>2. Passed(w, h) /\ (h.ok => IsUnpacked(h.v, F, Z))
          BY <4>5, <5>1, UnpackPropertyIs
        <5> QED BY <5>2
      <4> HIDE DEF h
      <4>8. Passed(r, y.c) /\ (y.c.ok => c.ok /\ t.ok /\ (y.c.v = v \/ (h.ok /\ y.c.v = h.v)))
        <5>1. Given(c, h)
          BY <4>7 DEF w, v, Given
        <5>2. Taken(r, c, h, Property(ReadNumber(c), c.v, h))
          BY <4>2, <5>1, HandledIs
        <5> QED BY <5>2 DEF v, Taken
      <4> HIDE DEF y
      <4> QED BY <4>1, <4>2, <4>5, <4>7, <4>8
    <3> QED BY <3>1, <3>2
  <2> QED BY <2>1, <2>2, <2>4
<1> HIDE DEF T
<1>8. \A k \in 0..m : k \in T
  BY <1>0, <1>5, <1>6, Upwards
<1>9. m \in T
  BY <1>0, <1>8
<1> QED BY <1>1, <1>9 DEF T

\* The bytes that a first reading of n checksums went over.
AreDigests(crcs, n) ==
  crcs = None \/ \E s : IsCursor(s) /\ SkipBitUi32s(s, n).ok /\ crcs = Consumed(s, SkipBitUi32s(s, n))
IsSubStreams(v, t, n, C, Z) ==
  v = [total |-> t, digests |-> n, counts |-> C, sizes |-> Z, crcs |-> v.crcs] /\ AreDigests(v.crcs, n)

\* A property behind the substream sizes sets digests of the right length and leaves the counts.
LEMMA SubStreamPropertyIs ==
  ASSUME NEW c, IsCursor(c), NEW id, NEW n \in Nat, NEW t, NEW C, NEW Z, c.ok => IsSubStreams(c.v, t, n, C, Z), c.ok
  PROVE  LET h == SubStreamProperty(id, c) IN Passed(c, h) /\ (h.ok => IsSubStreams(h.v, t, n, C, Z))
<1>1. c.v.digests = n
  BY DEF IsSubStreams
<1>2. CASE id = Id.CRC
  <2> DEFINE x == SkipBitUi32s(c, n)
             v == [c.v EXCEPT !.crcs = Consumed(c, x)]
             w == With(x, v)
             h == SubStreamProperty(id, c)
  <2>1. Passed(c, x)
    BY SkipBitsIs
  <2>2. h = IF c.v.crcs = None THEN w ELSE Err
    BY <1>1, <1>2 DEF SubStreamProperty, SubStreamCrcs
  <2>3. x.ok => IsSubStreams(v, t, n, C, Z)
    <3>1. c.v = [total |-> t, digests |-> n, counts |-> C, sizes |-> Z, crcs |-> c.v.crcs]
      BY DEF IsSubStreams
    <3> DEFINE u == Consumed(c, x)
    <3>2. x.ok => AreDigests(u, n)
      BY DEF AreDigests
    <3> HIDE DEF u
    <3>3. v = [total |-> t, digests |-> n, counts |-> C, sizes |-> Z, crcs |-> u]
      BY <3>1 DEF u
    <3> QED BY <3>2, <3>3 DEF IsSubStreams
  <2> HIDE DEF x, v, h
  <2>4. Passed(x, w) /\ (w.ok => w.v = v) /\ w.ok = x.ok
    <3>1. IsCursor(x)
      BY <2>1 DEF Passed
    <3> QED BY <3>1, WithIs
  <2> HIDE DEF w
  <2>5. Passed(c, w)
    BY <2>1, <2>4, Onward
  <2>6. Passed(c, h) /\ (h.ok => IsSubStreams(h.v, t, n, C, Z))
    BY <2>2, <2>3, <2>4, <2>5, ErrIs
  <2> QED BY <2>6 DEF h
<1>3. CASE id # Id.CRC
  <2> DEFINE h == SkipData(c)
  <2>1. SubStreamProperty(id, c) = h
    BY <1>3 DEF SubStreamProperty
  <2>2. Passed(c, h) /\ (h.ok => h.v = c.v)
    BY SkipDataIs DEF Read
  <2> HIDE DEF h
  <2> QED BY <2>1, <2>2
<1> QED BY <1>2, <1>3

\* So do all of them.
LEMMA SubStreamLoopIs ==
  ASSUME NEW r, IsCursor(r), NEW n \in Nat, NEW t0, NEW C, NEW Z, r.ok => IsSubStreams(r.v, t0, n, C, Z)
  PROVE  LET x == Properties(r, SubStreamProperty) IN Passed(r, x) /\ (x.ok => IsSubStreams(x.v, t0, n, C, Z))
<1> DEFINE m == Turns(r, 2)
           b == [ended |-> FALSE, c |-> r]
           g == CHOOSE f : f = [k \in 0..m |-> IF k = 0 THEN b ELSE IF Over(f[k - 1]) THEN f[k - 1] ELSE HandleNext(ReadNumber(f[k - 1].c), f[k - 1].c.v, SubStreamProperty)]
<1>0. m \in Nat
  BY TurnsIs
<1>1. Properties(r, SubStreamProperty) = g[m].c
  BY DEF Properties, Loop, Over
<1>2. PICK run : run = [k \in 0..m |-> IF k = 0 THEN b ELSE LoopTurn("subs", 0, run[k - 1], k)]
  <2> HIDE DEF b
  <2> DEFINE p == 0
             l == "subs"
  <2> HIDE DEF p, l, m
  <2>1. \E run : Runs(run, l, p, b, m)
    BY <1>0, LoopRuns
  <2> QED BY <2>1 DEF p, l, Runs
<1>3. run = [k \in 0..m |-> IF k = 0 THEN b ELSE IF Over(run[k - 1]) THEN run[k - 1] ELSE HandleNext(ReadNumber(run[k - 1].c), run[k - 1].c.v, SubStreamProperty)]
  BY <1>2 DEF LoopTurn, Over, HandleNext
<1> HIDE DEF m
<1>4. g = [k \in 0..m |-> IF k = 0 THEN b ELSE IF Over(g[k - 1]) THEN g[k - 1] ELSE HandleNext(ReadNumber(g[k - 1].c), g[k - 1].c.v, SubStreamProperty)]
  BY <1>3
<1> HIDE DEF g
<1> DEFINE T == {k \in 0..m : Passed(r, g[k].c) /\ (g[k].c.ok => IsSubStreams(g[k].c.v, t0, n, C, Z))}
<1>5. 0 \in T
  <2>2. 0 \in 0..m
    BY <1>0
  <2>3. g[0] = b
    BY <1>4, <2>2
  <2>4. b.c = r
    OBVIOUS
  <2> HIDE DEF b
  <2> QED BY <2>2, <2>3, <2>4, HereIsPassed
<1>6. ASSUME NEW k \in 0..m, k \in T, k < m PROVE k + 1 \in T
  <2> DEFINE s == g[k]
             x == IF Over(s) THEN s ELSE HandleNext(ReadNumber(s.c), s.c.v, SubStreamProperty)
  <2>1. k + 1 \in 0..m /\ k + 1 # 0 /\ (k + 1) - 1 = k
    BY <1>0, <1>6
  <2>2. g[k + 1] = x
    BY <1>4, <2>1
  <2>3. Passed(r, s.c) /\ (s.c.ok => IsSubStreams(s.c.v, t0, n, C, Z))
    BY <1>6
  <2> HIDE DEF s, g
  <2>4. Passed(r, x.c) /\ (x.c.ok => IsSubStreams(x.c.v, t0, n, C, Z))
    <3>1. CASE Over(s)
      BY <2>3, <3>1 DEF Over
    <3>2. CASE ~Over(s)
      <4> DEFINE c == s.c
                 t == ReadNumber(c)
                 v == c.v
                 w == With(t, v)
                 i == t.v
                 h == SubStreamProperty(i, w)
                 y == Property(t, v, h)
      <4>1. x = y
        BY <3>2 DEF HandleNext, Over
      <4>2. Passed(r, c) /\ (c.ok => IsSubStreams(v, t0, n, C, Z)) /\ IsCursor(c)
        BY <2>3 DEF Passed
      <4> HIDE DEF x, c, v
      <4>3. IsCursor(t) /\ Read(c, t)
        BY <4>2, NumberIs
      <4>4. t.ok => c.ok
        BY <4>3 DEF Read, Passed
      <4> DEFINE tt == t
      <4>5. IsCursor(w) /\ (w.ok => w.v = v) /\ w.ok = t.ok
        BY <4>3, WithIs
      <4>6. w.ok => IsSubStreams(w.v, t0, n, C, Z)
        BY <4>2, <4>4, <4>5
      <4> HIDE DEF i, w
      <4>7. w.ok => Passed(w, h) /\ (h.ok => IsSubStreams(h.v, t0, n, C, Z))
        <5> SUFFICES ASSUME w.ok PROVE Passed(w, h) /\ (h.ok => IsSubStreams(h.v, t0, n, C, Z))
          OBVIOUS
        <5>1. w.ok => IsSubStreams(w.v, t0, n, C, Z)
          BY <4>6
        <5>2. Passed(w, h) /\ (h.ok => IsSubStreams(h.v, t0, n, C, Z))
          BY <4>5, <5>1, SubStreamPropertyIs
        <5> QED BY <5>2
      <4> HIDE DEF h
      <4>8. Passed(r, y.c) /\ (y.c.ok => c.ok /\ t.ok /\ (y.c.v = v \/ (h.ok /\ y.c.v = h.v)))
        <5>1. Given(c, h)
          BY <4>7 DEF w, v, Given
        <5>2. Taken(r, c, h, Property(ReadNumber(c), c.v, h))
          BY <4>2, <5>1, HandledIs
        <5> QED BY <5>2 DEF v, Taken
      <4> HIDE DEF y
      <4> QED BY <4>1, <4>2, <4>5, <4>7, <4>8
    <3> QED BY <3>1, <3>2
  <2> QED BY <2>1, <2>2, <2>4
<1> HIDE DEF T
<1>8. \A k \in 0..m : k \in T
  BY <1>0, <1>5, <1>6, Upwards
<1>9. m \in T
  BY <1>0, <1>8
<1> QED BY <1>1, <1>9 DEF T

IsFiles(v, n) == v = [n |-> n, emptyStreams |-> v.emptyStreams, emptyFiles |-> v.emptyFiles, names |-> v.names,
                      attribs |-> v.attribs, mtime |-> v.mtime, ctime |-> v.ctime]

\* A field of the files that may be set once leaves their number.
LEMMA OnceIs ==
  ASSUME NEW n, NEW files, IsFiles(files, n), NEW x,
         NEW field \in {"emptyStreams", "emptyFiles", "names", "attribs", "mtime", "ctime"},
         Once(files, field, x).ok
  PROVE  IsFiles(Once(files, field, x).v, n)
<1> DEFINE v == [files EXCEPT ![field] = <<x.v>>]
           e == <<>>
           c == Cursor(e)
<1>1. Once(files, field, x) = IF x.ok /\ files[field] = e THEN With(c, v) ELSE Err
  BY DEF Once
<1>2. IsFiles(v, n)
  <2> DEFINE u == <<x.v>>
             w == [files EXCEPT ![field] = u]
             a0 == files.emptyStreams
             a1 == files.emptyFiles
             a2 == files.names
             a3 == files.attribs
             a4 == files.mtime
             a5 == files.ctime
  <2>1. files = [n |-> n, emptyStreams |-> a0, emptyFiles |-> a1, names |-> a2, attribs |-> a3, mtime |-> a4, ctime |-> a5]
    BY DEF IsFiles
  <2> HIDE DEF u, a0, a1, a2, a3, a4, a5
  <2> DEFINE of(b0, b1, b2, b3, b4, b5) == [n |-> n, emptyStreams |-> b0, emptyFiles |-> b1, names |-> b2, attribs |-> b3, mtime |-> b4, ctime |-> b5]
  <2>2. \E b0, b1, b2, b3, b4, b5 : w = of(b0, b1, b2, b3, b4, b5)
    <3>1. CASE field = "emptyStreams"
      <4>1. w = of(u, a1, a2, a3, a4, a5)
        BY <2>1, <3>1
      <4> HIDE DEF w, of
      <4> QED BY <4>1
    <3>2. CASE field = "emptyFiles"
      <4>1. w = of(a0, u, a2, a3, a4, a5)
        BY <2>1, <3>2
      <4> HIDE DEF w, of
      <4> QED BY <4>1
    <3>3. CASE field = "names"
      <4>1. w = of(a0, a1, u, a3, a4, a5)
        BY <2>1, <3>3
      <4> HIDE DEF w, of
      <4> QED BY <4>1
    <3>4. CASE field = "attribs"
      <4>1. w = of(a0, a1, a2, u, a4, a5)
        BY <2>1, <3>4
      <4> HIDE DEF w, of
      <4> QED BY <4>1
    <3>5. CASE field = "mtime"
      <4>1. w = of(a0, a1, a2, a3, u, a5)
        BY <2>1, <3>5
      <4> HIDE DEF w, of
      <4> QED BY <4>1
    <3>6. CASE field = "ctime"
      <4>1. w = of(a0, a1, a2, a3, a4, u)
        BY <2>1, <3>6
      <4> HIDE DEF w, of
      <4> QED BY <4>1
    <3> QED BY <3>1, <3>2, <3>3, <3>4, <3>5, <3>6
  <2>3. PICK b0, b1, b2, b3, b4, b5 : w = of(b0, b1, b2, b3, b4, b5)
    BY <2>2
  <2> HIDE DEF w
  <2>4. b0 = w.emptyStreams /\ b1 = w.emptyFiles /\ b2 = w.names /\ b3 = w.attribs /\ b4 = w.mtime /\ b5 = w.ctime
    BY <2>3
  <2> QED BY <2>3, <2>4 DEF IsFiles, u, w
<1>3. c.ok
  BY DEF Cursor
<1>4. With(c, v).v = v
  BY DEF With, Cursor
<1> HIDE DEF v, c, e
<1>5. With(c, v).v = v
  BY <1>4
<1> QED BY <1>1, <1>2, <1>5, ErrIs

\* A property of the files leaves their number.
LEMMA FilePropertyIs ==
  ASSUME NEW id, NEW s, IsCursor(s), NEW n, NEW files, IsFiles(files, n), NEW temp, FileProperty(id, s, files, temp).ok
  PROVE  IsFiles(FileProperty(id, s, files, temp).v, n)
<1> DEFINE p == FileProperty(id, s, files, temp)
           bits(k) == With(s, BitsOf(s.sd, k))
           x1 == bits(files.n)
           x2 == bits(NumEmpty(files))
           x3 == ReadNames(s, files.n, temp)
           x4 == ReadAttribs(s, files.n, temp)
           x5 == ReadTime(s, files.n, temp)
<1>1. CASE id = Id.EmptyStream
  <2>1. p = IF Len(s.sd) = (files.n + 7) \div 8 /\ files.emptyFiles = <<>> THEN Once(files, "emptyStreams", x1) ELSE Err
    BY <1>1 DEF FileProperty, FileBits, Id
  <2> HIDE DEF x1, p
  <2> QED BY <2>1, OnceIs, ErrIs DEF p
<1>2. CASE id = Id.EmptyFile
  <2>1. p = IF Len(s.sd) = (NumEmpty(files) + 7) \div 8 /\ files.emptyFiles = <<>> THEN Once(files, "emptyFiles", x2) ELSE Err
    BY <1>2 DEF FileProperty, FileBits, Id
  <2> HIDE DEF x2, p
  <2> QED BY <2>1, OnceIs, ErrIs DEF p
<1>3. CASE id = Id.Name
  <2>1. p = Once(files, "names", x3)
    BY <1>3 DEF FileProperty, Id
  <2> HIDE DEF x3, p
  <2> QED BY <2>1, OnceIs DEF p
<1>4. CASE id = Id.WinAttrib
  <2>1. p = Once(files, "attribs", x4)
    BY <1>4 DEF FileProperty, Id
  <2> HIDE DEF x4, p
  <2> QED BY <2>1, OnceIs DEF p
<1>5. CASE id = Id.MTime
  <2>1. p = Once(files, "mtime", x5)
    BY <1>5 DEF FileProperty, Id
  <2> HIDE DEF x5, p
  <2> QED BY <2>1, OnceIs DEF p
<1>6. CASE id = Id.CTime
  <2>1. p = Once(files, "ctime", x5)
    BY <1>6 DEF FileProperty, Id
  <2> HIDE DEF x5, p
  <2> QED BY <2>1, OnceIs DEF p
<1>7. CASE id \notin {Id.EmptyStream, Id.EmptyFile, Id.Name, Id.WinAttrib, Id.MTime, Id.CTime}
  <2>1. p = With(s, files)
    BY <1>7 DEF FileProperty
  <2> HIDE DEF p
  <2>2. p.ok
    BY DEF p
  <2>3. p.v = files
    BY <2>1, <2>2, WithIs
  <2> QED BY <2>3 DEF p
<1> QED BY <1>1, <1>2, <1>3, <1>4, <1>5, <1>6, <1>7

\* The bytes a property occupies can be read on their own.
LEMMA ConsumedCursor ==
  ASSUME NEW r, IsCursor(r), NEW x, Passed(r, x), x.ok
  PROVE  IsCursor(Cursor(Consumed(r, x)))
<1> DEFINE s == Consumed(r, x)
<1>1. s \in Seq(Byte)
  BY ConsumedIs
<1> HIDE DEF s
<1> QED BY <1>1 DEF IsCursor, Cursor, s

\* A property of the files with its size moves on past its bytes and leaves their number.
LEMMA PropertySizedIs ==
  ASSUME NEW c, IsCursor(c), NEW id, NEW n, IsFiles(c.v, n), NEW temp
  PROVE  LET h == PropertySized(id, c.v, ReadNumber(c), temp) IN Passed(c, h) /\ (h.ok => IsFiles(h.v, n))
<1> DEFINE size == ReadNumber(c)
           k == size.v
           rest == Drop(size, k)
           q == Cursor(Consumed(size, rest))
           p == FileProperty(id, q, c.v, temp)
           ok == p.ok
           v == p.v
           y == Check(rest, ok)
           w == With(y, v)
           h == PropertySized(id, c.v, ReadNumber(c), temp)
<1>1. h = IF rest.ok THEN w ELSE Err
  BY DEF PropertySized, PropertyOf, PropertyKept
<1>2. Read(c, size) /\ IsCursor(size) /\ (size.ok => k \in Nat)
  <2>1. Read(c, size) /\ IsCursor(size) /\ (size.ok => k \in Number)
    BY NumberIs
  <2> QED BY <2>1 DEF Number
<1> HIDE DEF size, k, h
<1>3. Passed(size, rest) /\ IsCursor(rest)
  BY <1>2, MovedIs
<1> HIDE DEF rest
<1>4. rest.ok => IsCursor(q)
  BY <1>2, <1>3, ConsumedCursor
<1> HIDE DEF q
<1>5. rest.ok /\ p.ok => IsFiles(v, n)
  BY <1>4, FilePropertyIs
<1> HIDE DEF p, v, ok
<1>6. Passed(rest, y) /\ IsCursor(y) /\ (y.ok => ok)
  BY <1>3, CheckIs
<1> HIDE DEF y
<1>7. Passed(y, w) /\ (w.ok => y.ok /\ w.v = v)
  BY <1>6, WithIs
<1> HIDE DEF w
<1>8. Passed(c, rest)
  BY <1>2, <1>3, Onward DEF Read
<1>9. Passed(c, y)
  BY <1>6, <1>8, Onward
<1>10. Passed(c, w)
  BY <1>7, <1>9, Onward
<1>11. rest.ok => (w.ok => IsFiles(w.v, n))
  BY <1>5, <1>6, <1>7 DEF ok
<1>12. Passed(c, h) /\ (h.ok => IsFiles(h.v, n))
  BY <1>1, <1>10, <1>11, ErrIs
<1> QED BY <1>12 DEF h

FilesLoop(r, temp) == Properties(r, LAMBDA id, c : PropertySized(id, c.v, ReadNumber(c), temp))

\* The loop over the properties of the files leaves their number.
LEMMA FilesLoopIs ==
  ASSUME NEW r, IsCursor(r), NEW n, r.ok => IsFiles(r.v, n), NEW temp
  PROVE  LET x == FilesLoop(r, temp) IN Passed(r, x) /\ (x.ok => IsFiles(x.v, n))
<1> DEFINE m == Turns(r, 2)
           b == [ended |-> FALSE, c |-> r]
           g == CHOOSE f : f = [k \in 0..m |-> IF k = 0 THEN b ELSE IF Over(f[k - 1]) THEN f[k - 1] ELSE HandleNext(ReadNumber(f[k - 1].c), f[k - 1].c.v, LAMBDA id, c : PropertySized(id, c.v, ReadNumber(c), temp))]
<1>0. m \in Nat
  BY TurnsIs
<1>1. FilesLoop(r, temp) = g[m].c
  BY DEF FilesLoop, Properties, Loop, Over
<1>2. PICK run : run = [k \in 0..m |-> IF k = 0 THEN b ELSE LoopTurn("files", temp, run[k - 1], k)]
  <2> HIDE DEF b
  <2> DEFINE p == temp
             l == "files"
  <2> HIDE DEF p, l, m
  <2>1. \E run : Runs(run, l, p, b, m)
    BY <1>0, LoopRuns
  <2> QED BY <2>1 DEF p, l, Runs
<1>3. run = [k \in 0..m |-> IF k = 0 THEN b ELSE IF Over(run[k - 1]) THEN run[k - 1] ELSE HandleNext(ReadNumber(run[k - 1].c), run[k - 1].c.v, LAMBDA id, c : PropertySized(id, c.v, ReadNumber(c), temp))]
  BY <1>2 DEF LoopTurn, Over, HandleNext
<1> HIDE DEF m
<1>4. g = [k \in 0..m |-> IF k = 0 THEN b ELSE IF Over(g[k - 1]) THEN g[k - 1] ELSE HandleNext(ReadNumber(g[k - 1].c), g[k - 1].c.v, LAMBDA id, c : PropertySized(id, c.v, ReadNumber(c), temp))]
  BY <1>3
<1> HIDE DEF g
<1> DEFINE T == {k \in 0..m : Passed(r, g[k].c) /\ (g[k].c.ok => IsFiles(g[k].c.v, n))}
<1>5. 0 \in T
  <2>2. 0 \in 0..m
    BY <1>0
  <2>3. g[0] = b
    BY <1>4, <2>2
  <2>4. b.c = r
    OBVIOUS
  <2> HIDE DEF b
  <2> QED BY <2>2, <2>3, <2>4, HereIsPassed
<1>6. ASSUME NEW k \in 0..m, k \in T, k < m PROVE k + 1 \in T
  <2> DEFINE s == g[k]
             x == IF Over(s) THEN s ELSE HandleNext(ReadNumber(s.c), s.c.v, LAMBDA id, c : PropertySized(id, c.v, ReadNumber(c), temp))
  <2>1. k + 1 \in 0..m /\ k + 1 # 0 /\ (k + 1) - 1 = k
    BY <1>0, <1>6
  <2>2. g[k + 1] = x
    BY <1>4, <2>1
  <2>3. Passed(r, s.c) /\ (s.c.ok => IsFiles(s.c.v, n))
    BY <1>6
  <2> HIDE DEF s, g
  <2>4. Passed(r, x.c) /\ (x.c.ok => IsFiles(x.c.v, n))
    <3>1. CASE Over(s)
      BY <2>3, <3>1 DEF Over
    <3>2. CASE ~Over(s)
      <4> DEFINE c == s.c
                 t == ReadNumber(c)
                 v == c.v
                 w == With(t, v)
                 i == t.v
                 h == PropertySized(i, w.v, ReadNumber(w), temp)
                 y == Property(t, v, h)
      <4>1. x = y
        BY <3>2 DEF HandleNext, Over
      <4>2. Passed(r, c) /\ (c.ok => IsFiles(v, n)) /\ IsCursor(c)
        BY <2>3 DEF Passed
      <4> HIDE DEF x, c, v
      <4>3. IsCursor(t) /\ Read(c, t)
        BY <4>2, NumberIs
      <4>4. t.ok => c.ok
        BY <4>3 DEF Read, Passed
      <4> DEFINE tt == t
      <4>5. IsCursor(w) /\ (w.ok => w.v = v) /\ w.ok = t.ok
        BY <4>3, WithIs
      <4>6. w.ok => IsFiles(w.v, n)
        BY <4>2, <4>4, <4>5
      <4> HIDE DEF i, w
      <4>7. w.ok => Passed(w, h) /\ (h.ok => IsFiles(h.v, n))
        <5> SUFFICES ASSUME w.ok PROVE Passed(w, h) /\ (h.ok => IsFiles(h.v, n))
          OBVIOUS
        <5>1. IsFiles(w.v, n)
          BY <4>6
        <5>2. Passed(w, h) /\ (h.ok => IsFiles(h.v, n))
          BY <4>5, <5>1, PropertySizedIs
        <5> QED BY <5>2
      <4> HIDE DEF h
      <4>8. Passed(r, y.c) /\ (y.c.ok => c.ok /\ t.ok /\ (y.c.v = v \/ (h.ok /\ y.c.v = h.v)))
        <5>1. Given(c, h)
          BY <4>7 DEF w, v, Given
        <5>2. Taken(r, c, h, Property(ReadNumber(c), c.v, h))
          BY <4>2, <5>1, HandledIs
        <5> QED BY <5>2 DEF v, Taken
      <4> HIDE DEF y
      <4> QED BY <4>1, <4>2, <4>5, <4>7, <4>8
    <3> QED BY <3>1, <3>2
  <2> QED BY <2>1, <2>2, <2>4
<1> HIDE DEF T
<1>8. \A k \in 0..m : k \in T
  BY <1>0, <1>5, <1>6, Upwards
<1>9. m \in T
  BY <1>0, <1>8
<1> QED BY <1>1, <1>9 DEF T

-----------------------------------------------------------------------------
(* The sections.                                                             *)

\* ReadPackInfo moves on.
LEMMA PackInfoIs ==
  ASSUME NEW r, IsCursor(r)
  PROVE  Passed(r, ReadPackInfo(r))
<1> DEFINE n == ReadNumber32(r)
           w == WaitId(n, Id.Size)
           z == Repeat(n.v, w, ReadNumber)
           f == Sums(z.v)
           ok == \A i \in DOMAIN z.v : f[i + 1] >= z.v[i]
           c == Check(z, ok)
           y == With(c, f)
           x == PackCrcs(y, n.v)
<1>1. ReadPackInfo(r) = IF z.ok THEN x ELSE Err
  BY DEF ReadPackInfo, PackInfo, PackSizes, Positions
<1>2. Passed(r, n) /\ IsCursor(n) /\ (n.ok => n.v \in Number32)
  BY Number32Is DEF Read
<1>3. n.ok => n.v \in Nat
  BY <1>2, WordIs DEF Number32
<1> HIDE DEF n
<1>4. Passed(n, w) /\ IsCursor(w)
  BY <1>2, WaitForIs DEF WaitId, Passed
<1> HIDE DEF w
<1>5. Passed(w, z) /\ IsCursor(z) /\ (z.ok => n.ok)
  <2>1. CASE w.ok
    <3>1. n.ok
      BY <1>4, <2>1 DEF Passed
    <3>2. ReadAll(w, z, Number, n.v)
      BY <1>3, <1>4, <3>1, NumbersAre
    <3> QED BY <3>1, <3>2 DEF ReadAll, Passed
  <2>2. CASE ~w.ok
    <3>1. z = Err
      BY <2>2 DEF Repeat
    <3> QED BY <3>1, ErrIs
  <2> QED BY <2>1, <2>2
<1> HIDE DEF z, f, ok
<1>6. Passed(z, c) /\ IsCursor(c)
  BY <1>5, CheckIs
<1> HIDE DEF c
<1>7. Passed(c, y) /\ IsCursor(y)
  BY <1>6, WithIs
<1> HIDE DEF y
<1>8. Passed(r, y)
  <2>1. Passed(r, w)
    BY <1>2, <1>4, Onward
  <2>2. Passed(r, z)
    BY <1>5, <2>1, Onward
  <2>3. Passed(r, c)
    BY <1>6, <2>2, Onward
  <2> QED BY <1>7, <2>3, Onward
<1>9. z.ok => Passed(y, x)
  BY <1>3, <1>5, <1>7, PackCrcsAre
<1> HIDE DEF x
<1>10. z.ok => Passed(r, x)
  BY <1>8, <1>9, Onward
<1> QED BY <1>1, <1>10, ErrIs

\* Folders read from the header, or from an extra stream, are folders.
LEMMA FoldersReadIs ==
  ASSUME NEW r, IsCursor(r), NEW foldersMax, NEW temp \in Seq(Seq(Byte))
  PROVE  LET x == ReadFolders(r, foldersMax, temp) IN Passed(r, x) /\ (x.ok => x.v \in Seq(Folders))
<1> DEFINE w == WaitId(r, Id.Folder)
           n == ReadNumber32(w)
           ok == n.v <= foldersMax
           c == Check(n, ok)
           e == ReadByte(c)
           here == Repeat(n.v, e, ScanFolder)
           index == ReadNumber32(e)
           there == Repeat(n.v, Cursor(temp[index.v + 1]), ScanFolder)
           whole == there.ok /\ there.sd = <<>>
           tv == there.v
           d == Check(index, whole)
           y == With(d, tv)
           x == ReadFolders(r, foldersMax, temp)
<1>1. x = IF e.v = 0 THEN here ELSE IF index.ok /\ index.v < Len(temp) THEN y ELSE Err
  BY DEF ReadFolders, CountedFolders, FoldersAt, FoldersElsewhere, AllFolders
<1>2. Passed(r, w) /\ IsCursor(w)
  BY WaitForIs DEF WaitId, Passed
<1> HIDE DEF w
<1>3. Passed(w, n) /\ IsCursor(n) /\ (n.ok => n.v \in Nat)
  BY <1>2, Number32Is, WordIs DEF Number32, Read
<1> HIDE DEF n, ok
<1>4. Passed(n, c) /\ IsCursor(c)
  BY <1>3, CheckIs
<1> HIDE DEF c
<1>5. Passed(c, e) /\ IsCursor(e)
  BY <1>4, ByteIs DEF Read
<1> HIDE DEF e
<1>6. Passed(r, n) /\ Passed(r, e) /\ (e.ok => n.v \in Nat)
  <2>1. Passed(r, n)
    BY <1>2, <1>3, Onward
  <2>2. Passed(r, c)
    BY <1>4, <2>1, Onward
  <2>3. Passed(n, e)
    BY <1>3, <1>4, <1>5, Onward
  <2>4. e.ok => n.v \in Nat
    BY <1>3, <2>3 DEF Passed
  <2> QED BY <1>5, <2>1, <2>2, <2>4, Onward
<1>7. Passed(e, here) /\ (here.ok => here.v \in Seq(Folders))
  <2>1. CASE e.ok
    <3>1. ReadAll(e, here, Folders, n.v)
      BY <1>5, <1>6, <2>1, FoldersAre
    <3> QED BY <3>1 DEF ReadAll
  <2>2. CASE ~e.ok
    <3>1. here = Err
      BY <2>2 DEF Repeat
    <3> QED BY <3>1, ErrIs
  <2> QED BY <2>1, <2>2
<1> HIDE DEF here
<1>8. Passed(r, here)
  BY <1>6, <1>7, Onward
<1>9. Passed(e, index) /\ IsCursor(index) /\ (index.ok => index.v \in Nat)
  BY <1>5, Number32Is, WordIs DEF Number32, Read
<1> HIDE DEF index
<1>10. Passed(r, index) /\ (index.ok => e.ok)
  BY <1>6, <1>9, Onward DEF Passed
<1>11. ASSUME index.ok, index.v < Len(temp)
       PROVE  there.ok => tv \in Seq(Folders)
  <2> DEFINE q == temp[index.v + 1]
             cq == Cursor(q)
  <2>1. q \in Seq(Byte)
    <3>1. Len(temp) \in Nat
      OBVIOUS
    <3>2. index.v + 1 \in 1..Len(temp)
      BY <1>9, <1>11, <3>1
    <3> QED BY <3>2, ElementOfSeq
  <2> HIDE DEF q
  <2>2. IsCursor(cq)
    BY <2>1 DEF Cursor, IsCursor
  <2>3. there = Repeat(n.v, cq, ScanFolder)
    BY DEF q
  <2> HIDE DEF cq, there
  <2>4. n.v \in Nat
    BY <1>6, <1>10, <1>11
  <2>5. ReadAll(cq, there, Folders, n.v)
    BY <2>2, <2>3, <2>4, FoldersAre
  <2> QED BY <2>5 DEF ReadAll
<1>12. Passed(index, d) /\ IsCursor(d) /\ (d.ok => there.ok)
  <2> HIDE DEF whole
  <2>1. Passed(index, d) /\ IsCursor(d) /\ (d.ok => whole)
    BY <1>9, CheckIs
  <2> QED BY <2>1 DEF whole
<1> HIDE DEF there, tv, whole, d
<1>13. Passed(d, y) /\ (y.ok => d.ok /\ y.v = tv)
  BY <1>12, WithIs
<1> HIDE DEF y
<1>14. Passed(r, y)
  <2>1. Passed(r, d)
    BY <1>10, <1>12, Onward
  <2> QED BY <1>13, <2>1, Onward
<1> HIDE DEF x
<1>15. Passed(r, x) /\ (x.ok => x.v \in Seq(Folders))
  <2>1. CASE e.v = 0
    BY <1>1, <1>7, <1>8, <2>1
  <2>2. CASE e.v # 0 /\ index.ok /\ index.v < Len(temp)
    BY <1>1, <1>11, <1>12, <1>13, <1>14, <2>2
  <2>3. CASE e.v # 0 /\ ~(index.ok /\ index.v < Len(temp))
    BY <1>1, <2>3, ErrIs
  <2> QED BY <2>1, <2>2, <2>3
<1> QED BY <1>15 DEF x

\* The sizes of a folder's coders lie within those of all folders.
LEMMA UsedIs ==
  ASSUME NEW F \in Seq(Folders)
  PROVE  /\ Len(F) \in Nat
         /\ Used(F, "coders") \in Nat
         /\ \A fo \in 1..Len(F) : Before(F, fo, "coders") \in Nat /\ Before(F, fo, "coders") + F[fo].main + 1 \in 1..Used(F, "coders")
<1> DEFINE n == Len(F)
           s == [k \in DOMAIN F |-> F[k]["coders"]]
<1>1. n \in Nat /\ DOMAIN F = 1..n
  OBVIOUS
<1>2. ASSUME NEW k \in 1..n PROVE s[k] \in Nat /\ F[k].main \in Nat /\ F[k].main + 1 <= s[k]
  <2> DEFINE g == F[k]
  <2>1. g \in Folders
    BY <1>2, ElementOfSeq
  <2>2. s[k] = g.coders
    BY <1>1
  <2> HIDE DEF g, s
  <2>3. g.coders \in 1..64 /\ g.main \in 0..63 /\ g.main < g.coders
    BY ONLY <2>1 DEF Folders, FolderSet
  <2>4. \A a \in 1..64, b \in 0..63 : b < a => a \in Nat /\ b \in Nat /\ b + 1 <= a
    OBVIOUS
  <2>5. s[k] \in Nat /\ g.main \in Nat /\ g.main + 1 <= s[k]
    BY <2>2, <2>3, <2>4
  <2> QED BY <2>5 DEF g
<1> DEFINE S(k) == SumTo(s, k)
<1>3. Used(F, "coders") = S(n) /\ \A fo \in 1..n : Before(F, fo, "coders") = S(fo - 1)
  <2>1. (n + 1) - 1 = n
    BY <1>1
  <2> QED BY <2>1 DEF Used, Before
<1> HIDE DEF s, n
<1>4. /\ \A k \in 0..n : S(k) \in Nat /\ S(k) <= S(n)
      /\ \A k \in 0..n - 1 : S(k + 1) = S(k) + s[k + 1]
  BY <1>1, <1>2, SumsRise
<1> HIDE DEF S
<1>5. ASSUME NEW fo \in 1..n
      PROVE  S(fo - 1) \in Nat /\ S(fo - 1) + F[fo].main + 1 \in 1..S(n)
  <2>1. fo - 1 \in 0..n - 1 /\ fo - 1 \in 0..n /\ fo \in 0..n /\ (fo - 1) + 1 = fo
    BY <1>1
  <2>2. S(fo - 1) \in Nat /\ S(fo) \in Nat /\ S(fo) <= S(n) /\ S(fo) = S(fo - 1) + s[fo] /\ S(n) \in Nat
    <3>1. S(fo) = S(fo - 1) + s[fo]
      BY <1>4, <2>1
    <3>2. n \in 0..n
      BY <1>1
    <3> QED BY <1>4, <2>1, <3>1, <3>2
  <2> DEFINE a == S(fo - 1)
             b == S(fo)
             c == s[fo]
             d == S(n)
             e == F[fo].main
  <2>3. a \in Nat /\ b \in Nat /\ b <= d /\ b = a + c /\ d \in Nat /\ c \in Nat /\ e \in Nat /\ e + 1 <= c
    BY <1>2, <2>2
  <2> HIDE DEF a, b, c, d, e
  <2>4. a \in Nat /\ a + e + 1 \in 1..d
    BY <2>3
  <2> QED BY <2>4 DEF a, d, e
<1>6. S(n) \in Nat
  BY <1>1, <1>4
<1>7. Len(F) = n
  BY DEF n
<1> QED BY <1>1, <1>3, <1>5, <1>6, <1>7

\* The folders, and a size for every coder of them.
GoodFolders(F, Z) == F \in Seq(Folders) /\ Z \in Seq(Number) /\ Len(Z) = Used(F, "coders")

\* ReadUnpackInfo gives folders and one unpack size for each of their coders.
LEMMA UnpackInfoIs ==
  ASSUME NEW r, IsCursor(r), NEW numPacks, NEW foldersMax, NEW temp \in Seq(Seq(Byte))
  PROVE  LET x == ReadUnpackInfo(r, numPacks, foldersMax, temp) IN Passed(r, x) /\ (x.ok => GoodFolders(x.v.folders, x.v.sizes))
<1> DEFINE scan == ReadFolders(r, foldersMax, temp)
           F == scan.v
           n == Used(F, "coders")
           w == WaitId(scan, Id.CodersUnpackSize)
           z == Repeat(n, w, ReadNumber)
           Z == z.v
           v == [folders |-> F, sizes |-> Z, crcs |-> None]
           y == With(z, v)
           p == Properties(y, UnpackProperty)
           x == ReadUnpackInfo(r, numPacks, foldersMax, temp)
<1>1. x = IF scan.ok /\ Used(F, "packs") <= numPacks THEN p ELSE Err
  BY DEF ReadUnpackInfo, UnpackFolders, UnpackSizes
<1>2. Passed(r, scan) /\ IsCursor(scan) /\ (scan.ok => F \in Seq(Folders))
  BY FoldersReadIs DEF Passed
<1> HIDE DEF scan, F, x
<1>3. scan.ok => n \in Nat /\ Len(F) \in Nat
  BY <1>2, UsedIs
<1> HIDE DEF n
<1>4. Passed(scan, w) /\ IsCursor(w)
  BY <1>2, WaitForIs DEF WaitId, Passed
<1> HIDE DEF w
<1>5. scan.ok => Passed(w, z) /\ IsCursor(z) /\ (z.ok => Z \in Seq(Number) /\ Len(Z) = n)
  <2> SUFFICES ASSUME scan.ok PROVE Passed(w, z) /\ IsCursor(z) /\ (z.ok => Z \in Seq(Number) /\ Len(Z) = n)
    OBVIOUS
  <2>1. ReadAll(w, z, Number, n)
    BY <1>3, <1>4, NumbersAre
  <2> QED BY <2>1 DEF ReadAll, Passed
<1> HIDE DEF z, Z
<1>6. IsUnpacked(v, F, Z)
  BY DEF IsUnpacked
<1> HIDE DEF v
<1>7. scan.ok => Passed(z, y) /\ IsCursor(y) /\ (y.ok => z.ok /\ y.v = v)
  BY <1>5, WithIs
<1> HIDE DEF y
<1>8. scan.ok => Passed(y, p) /\ (p.ok => IsUnpacked(p.v, F, Z))
  <2> SUFFICES ASSUME scan.ok PROVE Passed(y, p) /\ (p.ok => IsUnpacked(p.v, F, Z))
    OBVIOUS
  <2>1. y.ok => IsUnpacked(y.v, F, Z)
    BY <1>6, <1>7
  <2> QED BY <1>3, <1>7, <2>1, UnpackLoopIs
<1> HIDE DEF p
<1>9. scan.ok => Passed(r, p) /\ (p.ok => z.ok)
  <2> SUFFICES ASSUME scan.ok PROVE Passed(r, p) /\ (p.ok => z.ok)
    OBVIOUS
  <2>1. Passed(r, w)
    BY <1>2, <1>4, Onward
  <2>2. Passed(r, z)
    BY <1>5, <2>1, Onward
  <2>3. Passed(r, y)
    BY <1>7, <2>2, Onward
  <2>4. Passed(r, p)
    BY <1>8, <2>3, Onward
  <2> QED BY <1>7, <1>8, <2>4 DEF Passed
<1>10. scan.ok /\ p.ok => GoodFolders(p.v.folders, p.v.sizes)
  <2> SUFFICES ASSUME scan.ok, p.ok PROVE GoodFolders(p.v.folders, p.v.sizes)
    OBVIOUS
  <2>1. IsUnpacked(p.v, F, Z)
    BY <1>8
  <2>2. p.v.folders = F /\ p.v.sizes = Z
    BY <2>1 DEF IsUnpacked
  <2>3. F \in Seq(Folders) /\ Z \in Seq(Number) /\ Len(Z) = Used(F, "coders")
    BY <1>2, <1>5, <1>9 DEF n
  <2> QED BY <2>2, <2>3 DEF GoodFolders
<1>11. Passed(r, x) /\ (x.ok => GoodFolders(x.v.folders, x.v.sizes))
  BY <1>1, <1>9, <1>10, ErrIs
<1> QED BY <1>11 DEF x

\* There are no more summands above zero than their sum.
LEMMA NonZeroIs ==
  ASSUME NEW n \in Nat, NEW s, \A k \in 1..n : s[k] \in Nat
  PROVE  Cardinality({k \in 1..n : s[k] > 0}) \in Nat /\ Cardinality({k \in 1..n : s[k] > 0}) <= SumTo(s, n)
<1> DEFINE P(m) == {k \in 1..m : s[k] > 0}
           Good(m) == IsFiniteSet(P(m)) /\ Cardinality(P(m)) \in Nat /\ Cardinality(P(m)) <= SumTo(s, m)
           T == {m \in 0..n : Good(m)}
<1>1. /\ SumTo(s, 0) = 0 /\ \A k \in 0..n : SumTo(s, k) \in Nat
      /\ \A k \in 0..n - 1 : SumTo(s, k + 1) = SumTo(s, k) + s[k + 1]
  BY SumsRise
<1>2. 0 \in T
  <2>1. P(0) = {}
    OBVIOUS
  <2>2. IsFiniteSet({}) /\ Cardinality({}) = 0
    BY FS_EmptySet
  <2> HIDE DEF P
  <2>3. Good(0)
    BY <1>1, <2>1, <2>2
  <2> HIDE DEF Good
  <2> QED BY <2>3
<1>3. ASSUME NEW m \in 0..n, m \in T, m < n PROVE m + 1 \in T
  <2>1. Good(m) /\ m \in 0..n - 1 /\ m + 1 \in 0..n /\ m + 1 \in 1..n
    BY <1>3
  <2> DEFINE x == m + 1
             a == SumTo(s, m)
             c == Cardinality(P(m))
             d == s[x]
  <2>2. SumTo(s, x) = a + d /\ a \in Nat /\ d \in Nat /\ c \in Nat /\ c <= a
    BY <1>1, <2>1
  <2>3. IsFiniteSet(P(m)) /\ x \notin P(m)
    BY <2>1
  <2>4. CASE d > 0
    <3>1. P(x) = P(m) \cup {x}
      BY <2>1, <2>4
    <3> HIDE DEF P, x
    <3>2. IsFiniteSet(P(m) \cup {x}) /\ Cardinality(P(m) \cup {x}) = c + 1
      BY <2>3, FS_AddElement
    <3> HIDE DEF a, c, d
    <3>3. c + 1 \in Nat /\ c + 1 <= a + d
      BY <2>2, <2>4
    <3>4. Good(x)
      BY <2>2, <3>1, <3>2, <3>3
    <3> HIDE DEF Good
    <3> QED BY <2>1, <3>4 DEF x
  <2>5. CASE ~(d > 0)
    <3>1. P(x) = P(m)
      BY <2>1, <2>5
    <3> HIDE DEF P, x
    <3>2. c <= a + d
      <4> HIDE DEF a, c, d
      <4> QED BY <2>2
    <3>3. Good(x)
      BY <2>2, <2>3, <3>1, <3>2
    <3> HIDE DEF Good
    <3> QED BY <2>1, <3>3 DEF x
  <2> QED BY <2>4, <2>5
<1> HIDE DEF T
<1>4. \A k \in 0..n : k \in T
  BY <1>2, <1>3, Upwards
<1>5. n \in T
  BY <1>4
<1> QED BY <1>5 DEF T

\* The sum of the counts bounds the number of folders that have any.
LEMMA TotalIs ==
  ASSUME NEW s, NEW n \in Nat, DOMAIN s = 1..n, Len(s) = n, \A k \in 1..n : s[k] \in Nat
  PROVE  Total(s) \in Nat /\ Cardinality({fo \in DOMAIN s : s[fo] > 0}) \in Nat /\ Cardinality({fo \in DOMAIN s : s[fo] > 0}) <= Total(s)
<1>1. n \in 0..n /\ Total(s) = SumTo(s, n) /\ {fo \in DOMAIN s : s[fo] > 0} = {k \in 1..n : s[k] > 0}
  BY DEF Total
<1>2. SumTo(s, n) \in Nat
  BY <1>1, SumsRise
<1> QED BY <1>1, <1>2, NonZeroIs

\* How many streams every folder has: as it is read, or one each.
CountsAre(counts, s, n) ==
  /\ s \in Seq(Number32 \cup {1}) /\ Len(s) = n
  /\ \/ counts = None /\ s = [fo \in 1..n |-> 1]
     \/ \E t : /\ IsCursor(t) /\ t.ok /\ Repeat(n, t, ReadNumber32).ok
               /\ s = Repeat(n, t, ReadNumber32).v /\ counts = Consumed(t, Repeat(n, t, ReadNumber32))
Counted(v, db) ==
  /\ v.total \in Nat /\ v.digests \in Nat /\ v.counts \in Seq(Byte)
  /\ \E s : CountsAre(v.counts, s, Len(db.folders)) /\ v.digests = Total(OwnDigests(s, db)) /\ v.total = Total(s)

\* Folders counted add up to the total kept.
LEMMA CountsIs ==
  ASSUME NEW r, NEW c, IsCursor(c), NEW db, NEW n \in Nat, n = Len(db.folders), NEW bytes \in Seq(Byte),
         c.ok => CountsAre(bytes, c.v, n)
  PROVE  LET x == Counts(r, db, c, bytes) IN Passed(c, x) /\ (x.ok => Counted(x.v, db) /\ x.v.inData \in Nat)
<1> DEFINE s == c.v
           own == OwnDigests(s, db)
           nz == Cardinality({fo \in DOMAIN s : s[fo] > 0})
           tot == Total(s)
           dig == Total(own)
           in == tot - nz
           ok == tot < 2 * (Limit32 + 1)
           d == Check(c, ok)
           v == [total |-> tot, inData |-> in, digests |-> dig, counts |-> bytes]
           x == With(d, v)
<1>1. Counts(r, db, c, bytes) = x
  BY DEF Counts
<1>2. c.ok => tot \in Nat /\ dig \in Nat /\ in \in Nat
  <2> SUFFICES ASSUME c.ok PROVE tot \in Nat /\ dig \in Nat /\ in \in Nat
    OBVIOUS
  <2>1. CountsAre(bytes, s, n)
    OBVIOUS
  <2> HIDE DEF s
  <2>2. s \in Seq(Number32 \cup {1}) /\ Len(s) = n
    BY <2>1 DEF CountsAre
  <2>3. DOMAIN s = 1..n
    BY <2>2
  <2>4. ASSUME NEW k \in 1..n PROVE s[k] \in Nat
    <3>1. s[k] \in Number32 \cup {1}
      BY <2>2, <2>4, ElementOfSeq
    <3> DEFINE y == s[k]
    <3> HIDE DEF y
    <3>2. y \in Number32 \cup {1}
      BY <3>1 DEF y
    <3>3. y \in Nat
      BY ONLY <3>2, WordIs DEF Number32
    <3> QED BY <3>3 DEF y
  <2>5. tot \in Nat /\ nz \in Nat /\ nz <= tot
    BY <2>2, <2>3, <2>4, TotalIs
  <2>6. in \in Nat
    <3> HIDE DEF tot, nz
    <3> QED BY <2>5
  <2>7. own = [fo \in 1..n |-> IF s[fo] = 1 /\ FolderCrc(db, fo) # None THEN 0 ELSE s[fo]]
    BY <2>3 DEF OwnDigests
  <2>8. DOMAIN own = 1..n /\ \A k \in 1..n : own[k] \in Nat
    BY <2>4, <2>7
  <2>9. own \in Seq(Nat) /\ Len(own) = n
    BY <2>4, <2>7
  <2> HIDE DEF own
  <2>10. dig \in Nat
    BY <2>8, <2>9, TotalIs
  <2> QED BY <2>5, <2>6, <2>10
<1>3. v.total = tot /\ v.inData = in /\ v.digests = dig /\ v.counts = bytes
  OBVIOUS
<1> HIDE DEF in, ok, v
<1>4. Passed(c, d) /\ IsCursor(d) /\ (d.ok => c.ok)
  BY CheckIs
<1> HIDE DEF d
<1>5. Passed(d, x) /\ (x.ok => d.ok /\ x.v = v)
  BY <1>4, WithIs
<1> HIDE DEF x
<1>6. Passed(c, x)
  BY <1>4, <1>5, Onward
<1>7. x.ok => Counted(v, db) /\ v.inData \in Nat
  <2> SUFFICES ASSUME x.ok PROVE Counted(v, db) /\ v.inData \in Nat
    OBVIOUS
  <2>1. c.ok
    BY <1>4, <1>5
  <2>2. CountsAre(v.counts, s, Len(db.folders)) /\ v.digests = Total(OwnDigests(s, db)) /\ v.total = Total(s)
    BY <1>3, <2>1
  <2>3. v.total \in Nat /\ v.digests \in Nat /\ v.counts \in Seq(Byte) /\ v.inData \in Nat
    BY <1>2, <1>3, <2>1
  <2> HIDE DEF s
  <2> QED BY <2>2, <2>3 DEF Counted
<1> QED BY <1>1, <1>5, <1>6, <1>7

\* ReadSubStreamsInfo counts the streams of every folder, given or one each.
LEMMA SubStreamCountsAre ==
  ASSUME NEW r, IsCursor(r), NEW db, Len(db.folders) \in Nat, DOMAIN db.folders = 1..Len(db.folders), NEW given \in BOOLEAN
  PROVE  LET x == SubStreamCounts(r, db, given) IN Passed(r, x) /\ (x.ok => Counted(x.v, db) /\ x.v.inData \in Nat)
<1> DEFINE n == Len(db.folders)
           x == SubStreamCounts(r, db, given)
<1>1. n \in Nat /\ DOMAIN db.folders = 1..n
  OBVIOUS
<1>2. CASE given
  <2> DEFINE c == Repeat(n, r, ReadNumber32)
             bytes == Consumed(r, c)
             y == Counts(r, db, c, bytes)
  <2>1. x = y
    BY <1>2 DEF SubStreamCounts, CountsGiven
  <2> HIDE DEF n, x
  <2>2. CASE r.ok /\ c.ok
    <3>1. ReadAll(r, c, Number32, n)
      BY <1>1, Numbers32Are
    <3>2. Passed(r, c) /\ IsCursor(c) /\ c.v \in Seq(Number32) /\ Len(c.v) = n
      BY <2>2, <3>1 DEF ReadAll, Passed
    <3>3. bytes \in Seq(Byte)
      BY <2>2, <3>2, ConsumedIs
    <3>4. c.v \in Seq(Number32 \cup {1})
      BY <3>2
    <3>5. CountsAre(bytes, c.v, n)
      <4>1. IsCursor(r) /\ r.ok /\ Repeat(n, r, ReadNumber32).ok /\ c.v = Repeat(n, r, ReadNumber32).v
            /\ bytes = Consumed(r, Repeat(n, r, ReadNumber32))
        BY <2>2
      <4>2. \E t : /\ IsCursor(t) /\ t.ok /\ Repeat(n, t, ReadNumber32).ok
                   /\ c.v = Repeat(n, t, ReadNumber32).v /\ bytes = Consumed(t, Repeat(n, t, ReadNumber32))
        BY <4>1
      <4> HIDE DEF c, bytes
      <4> QED BY <3>2, <3>4, <4>2 DEF CountsAre
    <3> HIDE DEF c, bytes
    <3>6. Passed(c, y) /\ (y.ok => Counted(y.v, db) /\ y.v.inData \in Nat)
      BY <1>1, <3>2, <3>3, <3>5, CountsIs DEF n
    <3> HIDE DEF y
    <3>7. Passed(r, y)
      BY <3>2, <3>6, Onward
    <3> QED BY <2>1, <3>6, <3>7 DEF x
  <2>3. CASE ~(r.ok /\ c.ok)
    <3>1. ~c.ok
      BY <2>3, ErrIs DEF Repeat
    <3> HIDE DEF c
    <3>2. y = Err
      BY <3>1, ErrIs DEF Counts, With, Check
    <3> HIDE DEF y
    <3> QED BY <2>1, <3>2, ErrIs DEF x
  <2> QED BY <2>2, <2>3
<1>3. CASE ~given
  <2> DEFINE s == [fo \in 1..n |-> 1]
             c == With(r, s)
             y == Counts(r, db, c, None)
  <2>1. x = y
    BY <1>1, <1>3 DEF SubStreamCounts
  <2> HIDE DEF n, x
  <2>2. s \in Seq(Number32 \cup {1}) /\ Len(s) = n
    BY <1>1
  <2>3. None \in Seq(Byte)
    BY DEF None
  <2>4. CountsAre(None, s, n)
    BY <2>2 DEF CountsAre
  <2> HIDE DEF s
  <2>5. Passed(r, c) /\ IsCursor(c) /\ (c.ok => c.v = s)
    BY WithIs
  <2> HIDE DEF c
  <2>6. Passed(c, y) /\ (y.ok => Counted(y.v, db) /\ y.v.inData \in Nat)
    BY <1>1, <2>3, <2>4, <2>5, CountsIs DEF n
  <2> HIDE DEF y
  <2>7. Passed(r, y)
    BY <2>5, <2>6, Onward
  <2> QED BY <2>1, <2>6, <2>7 DEF x
<1> QED BY <1>2, <1>3

\* What is known of the substreams of db.
GoodSubStreams(ssi, db) == Counted(ssi, db) /\ ssi.sizes \in Seq(Byte) /\ AreDigests(ssi.crcs, ssi.digests)

\* Substreams with their counts, sizes and digests are good ones.
LEMMA KeptIs ==
  ASSUME NEW v, NEW c, NEW db, Counted(c, db), NEW Z \in Seq(Byte), IsSubStreams(v, c.total, c.digests, c.counts, Z)
  PROVE  GoodSubStreams(v, db)
<1>1. v.total = c.total /\ v.digests = c.digests /\ v.counts = c.counts /\ v.sizes = Z /\ AreDigests(v.crcs, v.digests)
  BY DEF IsSubStreams
<1>2. Counted(v, db)
  BY <1>1 DEF Counted
<1> QED BY <1>1, <1>2 DEF GoodSubStreams

\* What ReadSubStreamsInfo starts from holds no digest yet.
LEMMA SubStreamInfoIs ==
  ASSUME NEW r, IsCursor(r), NEW c, NEW sizes
  PROVE  LET x == SubStreamInfo(r, c, sizes) IN
         /\ Passed(r, x) /\ IsCursor(x) /\ x.ok = r.ok
         /\ x.ok => IsSubStreams(x.v, c.v.total, c.v.digests, c.v.counts, sizes)
<1> DEFINE t == c.v.total
           n == c.v.digests
           C == c.v.counts
           v == [total |-> t, digests |-> n, counts |-> C, sizes |-> sizes, crcs |-> None]
           x == With(r, v)
<1>1. SubStreamInfo(r, c, sizes) = x
  BY DEF SubStreamInfo
<1>2. IsSubStreams(v, t, n, C, sizes)
  <2> HIDE DEF t, n, C
  <2>1. v.crcs = None /\ v = [total |-> t, digests |-> n, counts |-> C, sizes |-> sizes, crcs |-> v.crcs]
    OBVIOUS
  <2>2. AreDigests(v.crcs, n)
    BY <2>1 DEF AreDigests
  <2> QED BY <2>1, <2>2 DEF IsSubStreams
<1> HIDE DEF v
<1>3. Passed(r, x) /\ IsCursor(x) /\ x.ok = r.ok /\ (x.ok => x.v = v)
  BY WithIs
<1> HIDE DEF x
<1> QED BY <1>1, <1>2, <1>3

\* Skipping digests behind a failure fails.
LEMMA SkipBitsErr == \A n : SkipBitUi32s(Err, n) = Err
<1> SUFFICES ASSUME NEW n PROVE SkipBitUi32s(Err, n) = Err
  OBVIOUS
<1> DEFINE k == (n + 7) \div 8
           v == Err.v
           a4 == 4 * n
           c4 == 4 * CountDefinedBits(BitsOf(Err.sd, n))
<1>1. ReadByte(Err) = Err
  BY ErrIs DEF ReadByte
<1>2. SkipBitUi32s(Err, n) = SkipDefined(Err, Drop(Err, k), n, v)
  BY <1>1 DEF SkipBitUi32s, SkipBits
<1>3. \A m : Drop(Err, m) = Err
  BY ErrIs DEF Drop
<1>4. Err.v = 0
  BY DEF Err
<1> HIDE DEF k, v
<1>5. SkipDefined(Err, Err, n, v) = Err
  BY ErrIs, <1>4 DEF SkipDefined
<1> QED BY <1>2, <1>3, <1>5

\* What follows the counts of ReadSubStreamsInfo gives good substreams.
LEMMA SubStreamsAfterIs ==
  ASSUME NEW c, IsCursor(c), NEW db, c.ok => Counted(c.v, db) /\ c.v.inData \in Nat
  PROVE  LET x == SubStreamsCounted(c) IN Passed(c, x) /\ (x.ok => GoodSubStreams(x.v, db))
<1> DEFINE ids == {Id.NumUnpackStream, Id.CRC, Id.Size, Id.End}
           next == WaitFor(c, ids)
           t == c.v.total
           n == c.v.digests
           C == c.v.counts
           plain == SubStreamInfo(next, c, None)
           x == SubStreamsCounted(c)
<1>1. x = SubStreamsAfter(c, next)
  BY DEF SubStreamsCounted
<1> HIDE DEF ids
<1>2. Passed(c, next) /\ IsCursor(next) /\ (next.ok => c.ok)
  BY WaitForIs DEF Passed
<1> HIDE DEF next, x
<1>3. /\ Passed(next, plain) /\ IsCursor(plain) /\ plain.ok = next.ok
      /\ plain.ok => IsSubStreams(plain.v, t, n, C, None)
  BY <1>2, SubStreamInfoIs
<1>4. c.ok => Counted(c.v, db) /\ n \in Nat
  BY DEF Counted
<1>5. None \in Seq(Byte)
  BY DEF None
<1>6. Passed(c, plain)
  BY <1>2, <1>3, Onward
<1>7. plain.ok => c.ok
  BY <1>2, <1>3
<1>8. ASSUME NEW v, NEW Z \in Seq(Byte), IsSubStreams(v, t, n, C, Z), c.ok PROVE GoodSubStreams(v, db)
  BY <1>4, <1>8, KeptIs
<1>9. CASE next.v = Id.End
  <2>1. x = plain
    BY <1>1, <1>9 DEF SubStreamsAfter, Id
  <2> HIDE DEF plain
  <2> QED BY <1>3, <1>5, <1>6, <1>7, <1>8, <2>1 DEF x
<1>10. CASE next.v = Id.CRC
  <2> DEFINE p == SubStreamProperty(Id.CRC, plain)
             q == Properties(p, SubStreamProperty)
  <2>1. x = q
    BY <1>1, <1>10 DEF SubStreamsAfter, Id
  <2> HIDE DEF plain
  <2>2. CASE plain.ok
    <3> HIDE DEF t, n, C
    <3>1. n \in Nat /\ c.ok
      BY <1>4, <1>7, <2>2
    <3>2. Passed(plain, p) /\ (p.ok => IsSubStreams(p.v, t, n, C, None))
      BY <1>3, <2>2, <3>1, SubStreamPropertyIs
    <3>3. IsCursor(p)
      BY <3>2 DEF Passed
    <3> HIDE DEF p
    <3>4. Passed(p, q) /\ (q.ok => IsSubStreams(q.v, t, n, C, None))
      BY <3>1, <3>2, <3>3, SubStreamLoopIs
    <3> HIDE DEF q
    <3>5. Passed(c, p)
      BY <1>6, <3>2, Onward
    <3>6. Passed(c, q)
      BY <3>4, <3>5, Onward
    <3>7. q.ok => GoodSubStreams(q.v, db)
      BY <1>5, <1>8, <3>1, <3>4
    <3> QED BY <2>1, <3>6, <3>7 DEF x
  <2>3. CASE ~plain.ok
    <3>1. ~next.ok /\ plain = Err
      BY <1>3, <2>3 DEF plain, SubStreamInfo, With
    <3> DEFINE m == Err.v.digests
               z == SkipBitUi32s(Err, m)
    <3>2. p = IF Err.v.crcs = None THEN With(z, [Err.v EXCEPT !.crcs = Consumed(Err, z)]) ELSE Err
      BY <3>1 DEF SubStreamProperty, SubStreamCrcs
    <3>3. z = Err
      BY SkipBitsErr
    <3> HIDE DEF z, p
    <3>4. p = Err
      BY <3>2, <3>3, ErrIs DEF With
    <3> DEFINE e == Err
    <3>5. IsCursor(e) /\ ~e.ok /\ 0 \in Nat
      BY ErrIs
    <3> HIDE DEF e
    <3> DEFINE w == Properties(e, SubStreamProperty)
    <3>6. Passed(e, w)
      BY <3>5, SubStreamLoopIs
    <3>7. q = w
      BY <3>4 DEF e
    <3> HIDE DEF w, q
    <3>8. ~q.ok /\ IsCursor(q)
      BY <3>5, <3>6, <3>7 DEF Passed
    <3> QED BY <2>1, <3>8 DEF x, Passed
  <2> QED BY <2>2, <2>3
<1>11. CASE next.v = Id.Size
  <2> DEFINE sizes == SkipNumbers(next, c.v.inData)
             Z == Consumed(next, sizes)
             p == SubStreamInfo(sizes, c, Z)
             q == Properties(p, SubStreamProperty)
  <2>1. x = q
    BY <1>1, <1>11 DEF SubStreamsAfter, SubStreamSizes, Id
  <2>2. Passed(next, sizes) /\ IsCursor(sizes) /\ (sizes.ok => c.ok)
    <3>1. CASE next.ok
      <4>1. c.v.inData \in Nat
        BY <1>2, <3>1
      <4>2. ReadAll(next, sizes, Zero, c.v.inData)
        BY <1>2, <4>1, SkipNumbersAre DEF SkipNumbers
      <4> QED BY <1>2, <3>1, <4>2 DEF ReadAll, Passed
    <3>2. CASE ~next.ok
      <4>1. sizes = Err
        BY <3>2 DEF SkipNumbers, Repeat
      <4> QED BY <4>1, ErrIs
    <3> QED BY <3>1, <3>2
  <2> HIDE DEF sizes
  <2>3. sizes.ok => Z \in Seq(Byte)
    BY <1>2, <2>2, ConsumedIs
  <2> HIDE DEF Z
  <2>4. Passed(sizes, p) /\ IsCursor(p) /\ p.ok = sizes.ok /\ (p.ok => IsSubStreams(p.v, t, n, C, Z))
    BY <2>2, SubStreamInfoIs
  <2> HIDE DEF p
  <2>5. Passed(c, p)
    <3>1. Passed(c, sizes)
      BY <1>2, <2>2, Onward
    <3> QED BY <2>4, <3>1, Onward
  <2>6. Passed(p, q) /\ (q.ok => p.ok /\ IsSubStreams(q.v, t, n, C, Z))
    <3> HIDE DEF t, n, C
    <3>1. CASE p.ok
      <4>1. n \in Nat
        BY <1>4, <2>2, <2>4, <3>1
      <4> QED BY <2>4, <3>1, <4>1, SubStreamLoopIs
    <3>2. CASE ~p.ok
      <4>1. 0 \in Nat
        OBVIOUS
      <4>2. Passed(p, q)
        BY <2>4, <3>2, <4>1, SubStreamLoopIs
      <4>3. ~q.ok
        BY <3>2, <4>2 DEF Passed
      <4> QED BY <4>2, <4>3
    <3> QED BY <3>1, <3>2
  <2> HIDE DEF q, t, n, C
  <2>7. Passed(c, q)
    BY <2>5, <2>6, Onward
  <2>8. q.ok => GoodSubStreams(q.v, db)
    BY <1>8, <2>2, <2>3, <2>4, <2>6
  <2> QED BY <2>1, <2>7, <2>8 DEF x
<1>12. CASE next.v \notin {Id.End, Id.CRC, Id.Size}
  <2>1. x = Err
    BY <1>1, <1>12 DEF SubStreamsAfter
  <2> QED BY <2>1, ErrIs DEF x
<1> QED BY <1>9, <1>10, <1>11, <1>12

\* ReadSubStreamsInfo gives good substreams.
LEMMA SubStreamsInfoIs ==
  ASSUME NEW r, IsCursor(r), NEW db, Len(db.folders) \in Nat, DOMAIN db.folders = 1..Len(db.folders)
  PROVE  LET x == ReadSubStreamsInfo(r, db) IN Passed(r, x) /\ (x.ok => GoodSubStreams(x.v, db))
<1> DEFINE ids == {Id.NumUnpackStream, Id.CRC, Id.Size}
           t == WaitFor(r, ids)
           a == SubStreamCounts(t, db, TRUE)
           b == SubStreamCounts(r, db, FALSE)
           c == IF t.ok /\ t.v = Id.NumUnpackStream THEN a ELSE b
           x == SubStreamsCounted(c)
<1>1. ReadSubStreamsInfo(r, db) = x
  BY DEF ReadSubStreamsInfo, SubStreams
<1> HIDE DEF ids
<1>2. Passed(r, t) /\ IsCursor(t)
  BY WaitForIs DEF Passed
<1> HIDE DEF t
<1>3. Passed(t, a) /\ (a.ok => Counted(a.v, db) /\ a.v.inData \in Nat)
  BY <1>2, SubStreamCountsAre
<1>4. Passed(r, b) /\ (b.ok => Counted(b.v, db) /\ b.v.inData \in Nat)
  BY SubStreamCountsAre
<1> HIDE DEF a, b
<1>5. Passed(r, a)
  BY <1>2, <1>3, Onward
<1>6. Passed(r, c) /\ (c.ok => Counted(c.v, db) /\ c.v.inData \in Nat)
  BY <1>3, <1>4, <1>5
<1> HIDE DEF c
<1>7. IsCursor(c)
  BY <1>6 DEF Passed
<1>8. Passed(c, x) /\ (x.ok => GoodSubStreams(x.v, db))
  BY <1>6, <1>7, SubStreamsAfterIs
<1> HIDE DEF x
<1> QED BY <1>1, <1>6, <1>8, Onward

IsSection(v) == v = [value |-> v.value, next |-> v.next]

\* A section is announced by its id, which is kept beside the value.
LEMMA AnnouncedIs ==
  ASSUME NEW t, IsCursor(t), NEW value
  PROVE  LET x == Announced(t, value) IN
         Passed(t, x) /\ IsCursor(x) /\ (x.ok => t.ok /\ IsSection(x.v) /\ x.v.value = value /\ x.v.next = t.v)
<1> DEFINE next == t.v
           v == [value |-> value, next |-> next]
           x == With(t, v)
<1>1. Announced(t, value) = x
  BY DEF Announced
<1>2. IsSection(v) /\ v.value = value /\ v.next = next
  BY DEF IsSection
<1> HIDE DEF v
<1>3. Passed(t, x) /\ IsCursor(x) /\ x.ok = t.ok /\ (x.ok => x.v = v)
  BY WithIs
<1> HIDE DEF x
<1> QED BY <1>1, <1>2, <1>3

\* What a section leaves: the value it is read to, or that of its absence.
SectionLeft(r, id, read, absent, x) ==
  /\ Passed(r, x) /\ IsCursor(x)
  /\ x.ok => /\ r.ok /\ IsSection(x.v)
             /\ x.v.value = absent \/ (read.ok /\ r.v.next = id /\ x.v.value = read.v)

\* A section is read when its id comes next, and its default taken when not.
LEMMA SectionIs ==
  ASSUME NEW r, IsCursor(r), r.ok => IsSection(r.v), NEW id, NEW read, r.ok /\ r.v.next = id => Passed(r, read), NEW absent
  PROVE  SectionLeft(r, id, read, absent, Section(r, id, read, absent))
<1> DEFINE n == ReadNumber(read)
           rv == read.v
           x == Announced(n, rv)
           v == [r.v EXCEPT !.value = absent]
           y == With(r, v)
           s == Section(r, id, read, absent)
<1>1. s = IF ~r.ok THEN Err ELSE IF r.v.next = id THEN x ELSE y
  BY DEF Section, Followed
<1> HIDE DEF s, rv
<1>2. CASE ~r.ok
  <2>1. SectionLeft(r, id, read, absent, s)
    BY <1>1, <1>2, ErrIs DEF SectionLeft
  <2> QED BY <2>1 DEF s
<1>3. CASE r.ok /\ r.v.next = id
  <2>1. Passed(r, read) /\ IsCursor(read)
    BY <1>3 DEF Passed
  <2>2. Passed(read, n) /\ IsCursor(n) /\ (n.ok => read.ok)
    BY <2>1, NumberIs DEF Read, Passed
  <2> HIDE DEF n
  <2>3. Passed(n, x) /\ IsCursor(x) /\ (x.ok => n.ok /\ IsSection(x.v) /\ x.v.value = rv)
    BY <2>2, AnnouncedIs
  <2> HIDE DEF x
  <2>4. Passed(r, n)
    BY <2>1, <2>2, Onward
  <2>5. Passed(r, x)
    BY <2>3, <2>4, Onward
  <2>6. SectionLeft(r, id, read, absent, s)
    BY <1>1, <1>3, <2>2, <2>3, <2>5 DEF SectionLeft, rv
  <2> QED BY <2>6 DEF s
<1>4. CASE r.ok /\ r.v.next # id
  <2> DEFINE a == r.v.value
             b == r.v.next
  <2>1. r.v = [value |-> a, next |-> b]
    BY <1>4 DEF IsSection
  <2> HIDE DEF a, b
  <2>2. v = [value |-> absent, next |-> b]
    BY <2>1
  <2> HIDE DEF v
  <2>3. IsSection(v) /\ v.value = absent
    BY <2>2 DEF IsSection
  <2>4. Passed(r, y) /\ IsCursor(y) /\ (y.ok => y.v = v)
    BY WithIs
  <2> HIDE DEF y
  <2>5. SectionLeft(r, id, read, absent, s)
    BY <1>1, <1>4, <2>3, <2>4 DEF SectionLeft
  <2> QED BY <2>5 DEF s
<1> QED BY <1>2, <1>3, <1>4

\* The folders and sizes of db, and its substreams, are those of some header.
GoodDb(db) == GoodFolders(db.folders, db.sizes)
GoodStreams(v) == GoodDb(v.db) /\ (GoodSubStreams(v.ssi, v.db) \/ v.ssi = NoSubStreams(v.db))

\* The section of the pack streams moves on.
LEMMA PackSectionIs ==
  ASSUME NEW pos, IsCursor(pos), NEW limit
  PROVE  Passed(pos, PackSection(pos, limit))
<1> DEFINE ok == pos.v <= limit
           c == Check(pos, ok)
           p == ReadPackInfo(c)
           ok2 == p.v[Len(p.v)] <= limit - pos.v
           d == Check(p, ok2)
           v == [pos |-> pos.v, packs |-> p.v]
           x == With(d, v)
<1>1. PackSection(pos, limit) = x
  BY DEF PackSection, PacksWithin
<1> HIDE DEF ok
<1>2. Passed(pos, c) /\ IsCursor(c)
  BY CheckIs
<1> HIDE DEF c
<1>3. Passed(c, p) /\ IsCursor(p)
  BY <1>2, PackInfoIs DEF Passed
<1> HIDE DEF p, ok2
<1>4. Passed(p, d) /\ IsCursor(d)
  BY <1>3, CheckIs
<1> HIDE DEF d, v
<1>5. Passed(d, x)
  BY <1>4, WithIs
<1> HIDE DEF x
<1>6. Passed(pos, p)
  BY <1>2, <1>3, Onward
<1>7. Passed(pos, d)
  BY <1>4, <1>6, Onward
<1> QED BY <1>1, <1>5, <1>7, Onward

\* No streams at all are good streams.
LEMMA NoStreamsGood == GoodFolders(NoStreams.folders, NoStreams.sizes)
<1> DEFINE e == <<>>
<1>1. NoStreams.folders = e /\ NoStreams.sizes = e
  BY DEF NoStreams
<1>2. e \in Seq(Folders) /\ e \in Seq(Number) /\ Len(e) = 0 /\ DOMAIN e = {}
  OBVIOUS
<1>3. Used(e, "coders") = 0
  <2> DEFINE s == [k \in DOMAIN e |-> e[k]["coders"]]
  <2> HIDE DEF s
  <2>1. Used(e, "coders") = SumTo(s, 0)
    BY <1>2 DEF Used, Before, s
  <2>2. SumTo(s, 0) = 0
    <3>1. 0 \in Nat /\ \A k \in 1..0 : s[k] \in Nat
      OBVIOUS
    <3> QED BY <3>1, SumsRise
  <2> QED BY <2>1, <2>2
<1> HIDE DEF e
<1> QED BY <1>1, <1>2, <1>3 DEF GoodFolders

\* SzReadStreamsInfo gives good folders and substreams.
LEMMA StreamsInfoIs ==
  ASSUME NEW r, IsCursor(r), NEW limit, NEW foldersMax, NEW temp \in Seq(Seq(Byte))
  PROVE  LET x == SzReadStreamsInfo(r, limit, foldersMax, temp) IN Passed(r, x) /\ (x.ok => GoodStreams(x.v))
<1> DEFINE n == ReadNumber(r)
           t == Announced(n, 0)
           pos == ReadNumber(t)
           ps == PackSection(pos, limit)
           none == [pos |-> 0, packs |-> << 0 >>]
           p == Section(t, Id.PackInfo, ps, none)
           numPacks == Len(p.v.value.packs) - 1
           ui == ReadUnpackInfo(p, numPacks, foldersMax, temp)
           u == Section(p, Id.UnpackInfo, ui, NoStreams)
           db == [packs |-> p.v.value.packs, folders |-> u.v.value.folders,
                  sizes |-> u.v.value.sizes, crcs |-> u.v.value.crcs]
           at == p.v.value.pos
           si == ReadSubStreamsInfo(u, db)
           nss == NoSubStreams(db)
           s == Section(u, Id.SubStreamsInfo, si, nss)
           end == s.v.next = Id.End
           c == Check(s, end)
           v == [db |-> db, ssi |-> s.v.value, dataPos |-> at]
           x == With(c, v)
<1>1. SzReadStreamsInfo(r, limit, foldersMax, temp) = x
  BY DEF SzReadStreamsInfo, StreamSections, UnpackSection, Unpacked, SubStreamSection, StreamsInfo
<1>2. Passed(r, n) /\ IsCursor(n)
  BY NumberIs DEF Read
<1> HIDE DEF n
<1>3. Passed(n, t) /\ IsCursor(t) /\ (t.ok => IsSection(t.v))
  BY <1>2, AnnouncedIs
<1> HIDE DEF t
<1>4. Passed(t, pos) /\ IsCursor(pos)
  BY <1>3, NumberIs DEF Read
<1> HIDE DEF pos
<1>5. Passed(t, ps)
  <2>1. Passed(pos, ps)
    BY <1>4, PackSectionIs
  <2> HIDE DEF ps
  <2> QED BY <1>3, <1>4, <2>1, Onward
<1> HIDE DEF ps, none
<1>6. SectionLeft(t, Id.PackInfo, ps, none, p)
  BY <1>3, <1>5, SectionIs
<1> HIDE DEF p
<1>7. Passed(t, p) /\ IsCursor(p) /\ (p.ok => IsSection(p.v))
  BY <1>6 DEF SectionLeft
<1> HIDE DEF numPacks, at
<1>8. Passed(p, ui) /\ (ui.ok => GoodFolders(ui.v.folders, ui.v.sizes))
  BY <1>7, UnpackInfoIs
<1> HIDE DEF ui
<1>9. SectionLeft(p, Id.UnpackInfo, ui, NoStreams, u)
  BY <1>7, <1>8, SectionIs
<1> HIDE DEF u
<1>10. Passed(p, u) /\ IsCursor(u) /\ (u.ok => IsSection(u.v))
  BY <1>9 DEF SectionLeft
<1>11. u.ok => GoodFolders(u.v.value.folders, u.v.value.sizes)
  <2> SUFFICES ASSUME u.ok PROVE GoodFolders(u.v.value.folders, u.v.value.sizes)
    OBVIOUS
  <2>1. u.v.value = NoStreams \/ (ui.ok /\ u.v.value = ui.v)
    BY <1>9 DEF SectionLeft
  <2> DEFINE w == u.v.value
  <2> HIDE DEF w
  <2>2. w = NoStreams \/ (ui.ok /\ w = ui.v)
    BY <2>1 DEF w
  <2>3. GoodFolders(w.folders, w.sizes)
    BY <1>8, <2>2, NoStreamsGood
  <2> QED BY <2>3 DEF w
<1>12. db.folders = u.v.value.folders /\ db.sizes = u.v.value.sizes
  OBVIOUS
<1> HIDE DEF db
<1>13. u.ok => GoodDb(db)
  BY <1>11, <1>12 DEF GoodDb
<1>14. u.ok => Passed(u, si) /\ (si.ok => GoodSubStreams(si.v, db))
  <2> SUFFICES ASSUME u.ok PROVE Passed(u, si) /\ (si.ok => GoodSubStreams(si.v, db))
    OBVIOUS
  <2> DEFINE F == db.folders
  <2>1. F \in Seq(Folders)
    BY <1>13 DEF GoodDb, GoodFolders
  <2> HIDE DEF F
  <2>2. Len(F) \in Nat /\ DOMAIN F = 1..Len(F)
    BY <2>1
  <2> QED BY <1>10, <2>2, SubStreamsInfoIs DEF F
<1> HIDE DEF si, nss
<1>15. SectionLeft(u, Id.SubStreamsInfo, si, nss, s)
  BY <1>10, <1>14, SectionIs
<1> HIDE DEF s, end
<1>16. Passed(u, s) /\ IsCursor(s) /\ (s.ok => u.ok)
  BY <1>15 DEF SectionLeft
<1>17. s.ok => s.v.value = nss \/ GoodSubStreams(s.v.value, db)
  BY <1>14, <1>15, <1>16 DEF SectionLeft
<1>18. Passed(s, c) /\ IsCursor(c) /\ (c.ok => s.ok)
  BY <1>16, CheckIs
<1> HIDE DEF c
<1>19. v.db = db /\ v.ssi = s.v.value
  OBVIOUS
<1> HIDE DEF v
<1>20. Passed(c, x) /\ (x.ok => c.ok /\ x.v = v)
  BY <1>18, WithIs
<1> HIDE DEF x
<1>21. Passed(r, x)
  <2>1. Passed(r, t)
    BY <1>2, <1>3, Onward
  <2>2. Passed(r, p)
    BY <1>7, <2>1, Onward
  <2>3. Passed(r, u)
    BY <1>10, <2>2, Onward
  <2>4. Passed(r, s)
    BY <1>16, <2>3, Onward
  <2>5. Passed(r, c)
    BY <1>18, <2>4, Onward
  <2> QED BY <1>20, <2>5, Onward
<1>22. x.ok => GoodStreams(x.v)
  <2> SUFFICES ASSUME x.ok PROVE GoodStreams(v)
    BY <1>20
  <2>1. GoodDb(db) /\ (v.ssi = nss \/ GoodSubStreams(v.ssi, db))
    BY <1>13, <1>16, <1>17, <1>18, <1>19, <1>20
  <2> QED BY <1>19, <2>1 DEF GoodStreams, nss
<1> QED BY <1>1, <1>21, <1>22

\* The files of a header are as many as it says.
LEMMA FilesAre ==
  ASSUME NEW n, IsCursor(n), NEW temp
  PROVE  LET x == FilesAfter(n, temp) IN Passed(n, x) /\ (x.ok => IsFiles(x.v, n.v))
<1> DEFINE k == n.v
           v == NoFiles(k)
           y == With(n, v)
<1>1. IsFiles(v, k)
  BY DEF IsFiles, NoFiles
<1> HIDE DEF v, k
<1>2. Passed(n, y) /\ IsCursor(y) /\ (y.ok => y.v = v)
  BY WithIs
<1>3. y.ok => IsFiles(y.v, k)
  BY <1>1, <1>2
<1> DEFINE x == FilesAfter(n, temp)
<1>4. x = FilesLoop(y, temp)
  BY DEF FilesAfter, FilesLoop, v, k
<1> HIDE DEF x, y
<1>6. Passed(y, x) /\ (x.ok => IsFiles(x.v, k))
  BY <1>2, <1>3, <1>4, FilesLoopIs
<1> HIDE DEF x
<1>7. Passed(n, x)
  BY <1>2, <1>6, Onward
<1> QED BY <1>6, <1>7 DEF x, k

\* What a file holds, as far as the header goes: bytes.
GoodFile(f) == f.header \in Seq(Byte) /\ f.unpacked \in Seq(Seq(Byte))

\* A packed header gives the bytes of its streams.
LEMMA PackedAre ==
  ASSUME NEW r, IsCursor(r), NEW foldersMax, NEW f, GoodFile(f)
  PROVE  LET x == ReadPacked(r, foldersMax, f) IN Passed(r, x) /\ (x.ok => x.v.bufs \in Seq(Seq(Byte)) /\ x.v.bufs # <<>>)
<1> DEFINE info == SzReadStreamsInfo(r, f.offset, foldersMax, <<>>)
           db == info.v.db
           aes == AesFolders(db) # {}
           all == \A fo \in DOMAIN db.folders : Decodes(db, fo, f)
           some == db.folders # <<>>
           P == some /\ (aes => f.password) /\ all
           c == Check(info, P)
           bufs == [fo \in DOMAIN db.folders |-> f.unpacked[fo]]
           v == [bufs |-> bufs, aes |-> aes]
           x == With(c, v)
<1>1. ReadPacked(r, foldersMax, f) = IF info.ok THEN x ELSE Err
  BY DEF ReadPacked, PackedOf, PackedBufs
<1>2. Passed(r, info) /\ IsCursor(info) /\ (info.ok => GoodStreams(info.v))
  <2>1. <<>> \in Seq(Seq(Byte))
    OBVIOUS
  <2> QED BY <2>1, StreamsInfoIs DEF Passed
<1> HIDE DEF info
<1>3. info.ok => GoodDb(db)
  BY <1>2 DEF GoodStreams
<1>4. info.ok /\ all /\ some => bufs \in Seq(Seq(Byte)) /\ bufs # <<>>
  <2> SUFFICES ASSUME info.ok, all, some PROVE bufs \in Seq(Seq(Byte)) /\ bufs # <<>>
    OBVIOUS
  <2> DEFINE F == db.folders
             U == f.unpacked
  <2>1. F \in Seq(Folders)
    BY <1>3 DEF GoodDb, GoodFolders
  <2>2. U \in Seq(Seq(Byte))
    BY DEF GoodFile
  <2>3. ASSUME NEW fo \in DOMAIN F PROVE fo <= Len(U)
    BY <2>3 DEF Decodes
  <2> HIDE DEF F, U
  <2>4. Len(F) \in Nat /\ DOMAIN F = 1..Len(F) /\ Len(U) \in Nat
    BY <2>1, <2>2
  <2>5. ASSUME NEW fo \in 1..Len(F) PROVE U[fo] \in Seq(Byte)
    <3>1. fo <= Len(U)
      BY <2>3, <2>4
    <3>2. fo \in 1..Len(U)
      BY <2>4, <3>1
    <3> QED BY <2>2, <3>2, ElementOfSeq
  <2>7. F # <<>>
    BY DEF F
  <2>8. [fo \in DOMAIN F |-> U[fo]] # <<>>
    <3>1. Len(F) # 0
      BY <2>1, <2>7
    <3>2. 1 \in DOMAIN F
      BY <2>4, <3>1
    <3>3. DOMAIN [fo \in DOMAIN F |-> U[fo]] = DOMAIN F
      OBVIOUS
    <3> DEFINE w == [fo \in DOMAIN F |-> U[fo]]
    <3> HIDE DEF w
    <3>4. w = <<>> => DOMAIN w = {}
      OBVIOUS
    <3> QED BY <3>2, <3>3, <3>4 DEF w
  <2>6. [fo \in DOMAIN F |-> U[fo]] \in Seq(Seq(Byte))
    <3> DEFINE SB == Seq(Byte)
    <3>1. \A fo \in 1..Len(F) : U[fo] \in SB
      BY <2>5
    <3> HIDE DEF SB
    <3>2. [fo \in 1..Len(F) |-> U[fo]] \in Seq(SB)
      BY <2>4, <3>1
    <3> QED BY <2>4, <3>2 DEF SB
  <2> QED BY <2>6, <2>8 DEF F, U
<1>5. v.bufs = bufs
  OBVIOUS
<1> HIDE DEF bufs, v
<1>6. Passed(info, c) /\ IsCursor(c) /\ (c.ok => info.ok /\ all /\ some)
  <2> HIDE DEF P
  <2>1. Passed(info, c) /\ IsCursor(c) /\ (c.ok => info.ok /\ P)
    BY <1>2, CheckIs
  <2> QED BY <2>1 DEF P
<1> HIDE DEF c, all, some
<1>7. Passed(c, x) /\ (x.ok => c.ok /\ x.v = v)
  BY <1>6, WithIs
<1> HIDE DEF x
<1>8. Passed(r, x)
  <2>1. Passed(r, c)
    BY <1>2, <1>6, Onward
  <2> QED BY <1>7, <2>1, Onward
<1>9. x.ok => x.v.bufs \in Seq(Seq(Byte)) /\ x.v.bufs # <<>>
  BY <1>4, <1>5, <1>6, <1>7
<1> QED BY <1>1, <1>8, <1>9, ErrIs

-----------------------------------------------------------------------------
(* The archive.                                                              *)

GoodSub(ssi, db) == GoodSubStreams(ssi, db) \/ ssi = NoSubStreams(db)
\* The layout of n files in the folders of db.
IsLaid(n, lay, db) ==
  n \in Nat /\ \E files, ssi : IsFiles(files, n) /\ GoodSub(ssi, db) /\ lay = Layout(files, db, ssi) /\ lay.ok
GoodArchive(a) == {"db", "n", "lay"} \subseteq DOMAIN a /\ GoodDb(a.db) /\ ((a.n = 0 /\ a.lay = NoLayout) \/ IsLaid(a.n, a.lay, a.db))

\* What opening makes of the streams, without files, is a good archive.
LEMMA OpenedIs ==
  ASSUME NEW streams, GoodStreams(streams)
  PROVE  GoodArchive(Opened(streams)) /\ Opened(streams).db = streams.db
<1> DEFINE a == Opened(streams)
<1>1. a.db = streams.db /\ a.n = 0 /\ a.lay = NoLayout /\ {"db", "n", "lay"} \subseteq DOMAIN a
  BY DEF Opened, NoArchive
<1> HIDE DEF a
<1>2. GoodArchive(a)
  BY <1>1 DEF GoodArchive, GoodStreams
<1> QED BY <1>1, <1>2 DEF a

\* What follows the files of a header gives a good archive.
LEMMA FilesEndIs ==
  ASSUME NEW end, IsCursor(end), NEW n \in Nat, end.ok => IsFiles(end.v, n), NEW streams, GoodStreams(streams)
  PROVE  LET x == FilesEnd(end, streams) IN Passed(end, x) /\ (x.ok => GoodArchive(x.v))
<1> DEFINE e == end.v
           db == streams.db
           ssi == streams.ssi
           lay == Layout(e, db, ssi)
           o == Opened(streams)
           laid == lay.ok
           c == Check(end, laid)
           v == [o EXCEPT !.n = e.n, !.lay = lay, !.names = e.names, !.attribs = e.attribs, !.mtime = e.mtime, !.ctime = e.ctime]
           w == With(c, v)
           x == FilesEnd(end, streams)
<1>1. x = IF end.ok /\ e.n - NumEmpty(e) = streams.ssi.total THEN w ELSE Err
  BY DEF FilesEnd, WithFiles
<1> HIDE DEF x, lay, laid, e
<1>2. Passed(end, c) /\ IsCursor(c) /\ (c.ok => end.ok /\ laid)
  BY CheckIs
<1> HIDE DEF c
<1>3. v.n = e.n /\ v.lay = lay /\ v.db = db /\ {"db", "n", "lay"} \subseteq DOMAIN v
  <2> DEFINE a1 == e.n
             a2 == e.names
             a3 == e.attribs
             a4 == e.mtime
             a5 == e.ctime
  <2> HIDE DEF a1, a2, a3, a4, a5
  <2>1. [o EXCEPT !.n = a1, !.lay = lay, !.names = a2, !.attribs = a3, !.mtime = a4, !.ctime = a5].n = a1
    BY DEF Opened, NoArchive
  <2>2. [o EXCEPT !.n = a1, !.lay = lay, !.names = a2, !.attribs = a3, !.mtime = a4, !.ctime = a5].lay = lay
    BY DEF Opened, NoArchive
  <2>3. [o EXCEPT !.n = a1, !.lay = lay, !.names = a2, !.attribs = a3, !.mtime = a4, !.ctime = a5].db = db
    BY DEF Opened, NoArchive
  <2>4. {"db", "n", "lay"} \subseteq DOMAIN v
    BY DEF Opened, NoArchive
  <2> QED BY <2>1, <2>2, <2>3, <2>4 DEF a1, a2, a3, a4, a5
<1> HIDE DEF v
<1>4. Passed(c, w) /\ (w.ok => c.ok /\ w.v = v)
  BY <1>2, WithIs
<1> HIDE DEF w
<1>5. Passed(end, w)
  BY <1>2, <1>4, Onward
<1>6. w.ok => GoodArchive(v)
  <2> SUFFICES ASSUME w.ok PROVE GoodArchive(v)
    OBVIOUS
  <2>1. end.ok /\ lay.ok
    BY <1>2, <1>4 DEF laid
  <2>2. IsFiles(e, n)
    BY <2>1 DEF e
  <2>3. e.n = n
    BY <2>2 DEF IsFiles
  <2>4. GoodDb(db) /\ GoodSub(ssi, db)
    BY DEF GoodStreams, GoodSub
  <2> HIDE DEF db, ssi
  <2>5. lay = Layout(e, db, ssi)
    BY DEF lay, db, ssi
  <2>6. IsLaid(n, lay, db)
    BY <2>1, <2>2, <2>4, <2>5 DEF IsLaid
  <2> QED BY <1>3, <2>3, <2>4, <2>6 DEF GoodArchive
<1>7. Passed(end, x) /\ (x.ok => GoodArchive(x.v))
  BY <1>1, <1>4, <1>5, <1>6, ErrIs
<1> QED BY <1>7 DEF x

\* The files of a header give a good archive.
LEMMA FilesOfIs ==
  ASSUME NEW main, IsCursor(main), main.ok => IsSection(main.v) /\ GoodStreams(main.v.value), NEW temp
  PROVE  LET x == FilesOf(main, temp) IN Passed(main, x) /\ (x.ok => GoodArchive(x.v))
<1> DEFINE value == main.v.value
           o == Opened(value)
           y == With(main, o)
           n == ReadNumber32(main)
           fs == FilesAfter(n, temp)
           end == SkipAll(fs)
           z == FilesEnd(end, value)
           x == FilesOf(main, temp)
<1>1. x = IF ~main.ok \/ main.v.next \notin {Id.End, Id.FilesInfo} THEN Err
          ELSE IF main.v.next = Id.End THEN y ELSE z
  BY DEF FilesOf, ReadFilesInfo
<1> HIDE DEF x
<1>2. main.ok => GoodArchive(o)
  BY OpenedIs
<1> HIDE DEF o
<1>3. Passed(main, y) /\ (y.ok => main.ok /\ y.v = o)
  BY WithIs
<1> HIDE DEF y
<1>4. Passed(main, n) /\ IsCursor(n) /\ (n.ok => main.ok /\ n.v \in Nat)
  BY Number32Is, WordIs DEF Number32, Read, Passed
<1> HIDE DEF n
<1>5. Passed(n, fs) /\ IsCursor(fs) /\ (fs.ok => n.ok /\ IsFiles(fs.v, n.v))
  BY <1>4, FilesAre DEF Passed
<1> HIDE DEF fs
<1>6. Passed(fs, end) /\ IsCursor(end) /\ (end.ok => fs.ok /\ end.v = fs.v)
  BY <1>5, SkipAllIs DEF Passed
<1> HIDE DEF end
<1>7. end.ok => n.ok /\ n.v \in Nat /\ IsFiles(end.v, n.v) /\ main.ok
  BY <1>4, <1>5, <1>6
<1>8. end.ok => Passed(end, z) /\ (z.ok => GoodArchive(z.v))
  <2> HIDE DEF value
  <2>1. main.ok => GoodStreams(value)
    BY DEF value
  <2> QED BY <1>6, <1>7, <2>1, FilesEndIs
<1>9. ~end.ok => z = Err
  BY DEF FilesEnd
<1> HIDE DEF z
<1>10. Passed(main, end)
  <2>1. Passed(main, fs)
    BY <1>4, <1>5, Onward
  <2> QED BY <1>6, <2>1, Onward
<1>11. Passed(main, z) /\ (z.ok => GoodArchive(z.v))
  <2>1. CASE end.ok
    <3>1. Passed(end, z) /\ (z.ok => GoodArchive(z.v))
      BY <1>8, <2>1
    <3> QED BY <1>10, <3>1, Onward
  <2>2. CASE ~end.ok
    BY <1>9, <2>2, ErrIs
  <2> QED BY <2>1, <2>2
<1>12. Passed(main, x) /\ (x.ok => GoodArchive(x.v))
  BY <1>1, <1>2, <1>3, <1>11, ErrIs
<1> QED BY <1>12 DEF x

\* SzReadHeader gives a good archive.
LEMMA HeaderIs ==
  ASSUME NEW r, IsCursor(r), NEW f, GoodFile(f)
  PROVE  LET x == SzReadHeader(r, f) IN Passed(r, x) /\ (x.ok => GoodArchive(x.v))
<1> DEFINE n == ReadNumber(r)
           t == Announced(n, 0)
           sk == SkipAll(t)
           p == Section(t, Id.ArchiveProperties, sk, 0)
           rp == ReadPacked(p, 8, f)
           nobufs == [bufs |-> <<>>]
           more == Section(p, Id.AdditionalStreamsInfo, rp, nobufs)
           temp == more.v.value.bufs
           si == SzReadStreamsInfo(more, f.offset, Limit32, temp)
           nosi == [db |-> NoStreams, ssi |-> NoSubStreams(NoStreams), dataPos |-> 0]
           main == Section(more, Id.MainStreamsInfo, si, nosi)
           fo == FilesOf(main, temp)
           h == IF more.ok THEN fo ELSE Err
           done == h.sd = <<>>
           x == Check(h, done)
<1>1. SzReadHeader(r, f) = x
  BY DEF SzReadHeader, AllRead, SzReadHeader2, ArchiveProperties, MoreStreams, AfterMore, MainStreams
<1>2. Passed(r, n) /\ IsCursor(n)
  BY NumberIs DEF Read
<1> HIDE DEF n
<1>3. Passed(n, t) /\ IsCursor(t) /\ (t.ok => IsSection(t.v))
  BY <1>2, AnnouncedIs
<1> HIDE DEF t
<1>4. Passed(t, sk)
  BY <1>3, SkipAllIs
<1> HIDE DEF sk
<1>5. SectionLeft(t, Id.ArchiveProperties, sk, 0, p)
  BY <1>3, <1>4, SectionIs
<1> HIDE DEF p
<1>6. Passed(t, p) /\ IsCursor(p) /\ (p.ok => IsSection(p.v))
  BY <1>5 DEF SectionLeft
<1>7. Passed(p, rp) /\ (rp.ok => rp.v.bufs \in Seq(Seq(Byte)))
  BY <1>6, PackedAre
<1>8. nobufs.bufs \in Seq(Seq(Byte))
  OBVIOUS
<1> HIDE DEF rp, nobufs
<1>9. SectionLeft(p, Id.AdditionalStreamsInfo, rp, nobufs, more)
  BY <1>6, <1>7, SectionIs
<1> HIDE DEF more
<1>10. Passed(p, more) /\ IsCursor(more) /\ (more.ok => IsSection(more.v))
  BY <1>9 DEF SectionLeft
<1>11. more.ok => temp \in Seq(Seq(Byte))
  <2> SUFFICES ASSUME more.ok PROVE temp \in Seq(Seq(Byte))
    OBVIOUS
  <2> DEFINE w == more.v.value
  <2>1. w = nobufs \/ (rp.ok /\ w = rp.v)
    BY <1>9 DEF SectionLeft
  <2> HIDE DEF w
  <2>2. w.bufs \in Seq(Seq(Byte))
    BY <1>7, <1>8, <2>1
  <2> QED BY <2>2 DEF w
<1> HIDE DEF temp
<1>12. more.ok => Passed(more, si) /\ (si.ok => GoodStreams(si.v))
  BY <1>10, <1>11, StreamsInfoIs
<1>13. GoodStreams(nosi)
  <2>1. nosi.db = NoStreams /\ nosi.ssi = NoSubStreams(NoStreams)
    OBVIOUS
  <2> HIDE DEF nosi
  <2> QED BY <2>1, NoStreamsGood DEF GoodStreams, GoodDb
<1> HIDE DEF si, nosi
<1>14. SectionLeft(more, Id.MainStreamsInfo, si, nosi, main)
  BY <1>10, <1>12, SectionIs
<1> HIDE DEF main
<1>15. Passed(more, main) /\ IsCursor(main) /\ (main.ok => more.ok /\ IsSection(main.v))
  BY <1>14 DEF SectionLeft
<1>16. main.ok => GoodStreams(main.v.value)
  <2> SUFFICES ASSUME main.ok PROVE GoodStreams(main.v.value)
    OBVIOUS
  <2>1. main.v.value = nosi \/ (si.ok /\ main.v.value = si.v)
    BY <1>14 DEF SectionLeft
  <2> DEFINE w == main.v.value
  <2> HIDE DEF w
  <2>2. w = nosi \/ (si.ok /\ w = si.v)
    BY <2>1 DEF w
  <2>3. GoodStreams(w)
    BY <1>12, <1>13, <1>15, <2>2
  <2> QED BY <2>3 DEF w
<1>17. Passed(main, fo) /\ (fo.ok => GoodArchive(fo.v))
  BY <1>15, <1>16, FilesOfIs
<1> HIDE DEF fo
<1>18. Passed(r, fo)
  <2>1. Passed(r, t)
    BY <1>2, <1>3, Onward
  <2>2. Passed(r, p)
    BY <1>6, <2>1, Onward
  <2>3. Passed(r, more)
    BY <1>10, <2>2, Onward
  <2>4. Passed(r, main)
    BY <1>15, <2>3, Onward
  <2> QED BY <1>17, <2>4, Onward
<1>19. Passed(r, h) /\ IsCursor(h) /\ (h.ok => GoodArchive(h.v))
  <2>1. Passed(r, h) /\ (h.ok => GoodArchive(h.v))
    BY <1>17, <1>18, ErrIs
  <2> QED BY <2>1 DEF Passed
<1> HIDE DEF h, done
<1>20. Passed(h, x) /\ (x.ok => h.ok /\ x = h)
  BY <1>19, CheckIs
<1> HIDE DEF x
<1>21. Passed(r, x)
  BY <1>19, <1>20, Onward
<1> QED BY <1>1, <1>19, <1>20, <1>21

\* No archive is a good one.
LEMMA NoArchiveGood == GoodArchive(NoArchive)
<1>1. NoArchive.db = NoStreams /\ NoArchive.n = 0 /\ NoArchive.lay = NoLayout /\ {"db", "n", "lay"} \subseteq DOMAIN NoArchive
  BY DEF NoArchive
<1> QED BY <1>1, NoStreamsGood DEF GoodArchive, GoodDb

\* The tables read from a header, plain or unpacked, are good.
LEMMA TablesIs ==
  ASSUME NEW h, IsCursor(h.cursor), NEW f, GoodFile(f)
  PROVE  GoodArchive(TablesOf(h, f))
<1> DEFINE P == h.cursor.v = Id.Header
           c == Check(h.cursor, P)
           r == SzReadHeader(c, f)
           e == h.encrypted
           a == r.v
           x == [a EXCEPT !.headerEncrypted = e]
<1>1. TablesOf(h, f) = IF r.ok THEN x ELSE NoArchive
  BY DEF TablesOf, Tables
<1> HIDE DEF P
<1>2. IsCursor(c)
  BY CheckIs
<1> HIDE DEF c
<1>3. r.ok => GoodArchive(a)
  BY <1>2, HeaderIs
<1> HIDE DEF r, a, e
<1>4. r.ok => GoodArchive(x)
  <2> SUFFICES ASSUME r.ok PROVE GoodArchive(x)
    OBVIOUS
  <2>1. {"db", "n", "lay"} \subseteq DOMAIN a
    BY <1>3 DEF GoodArchive
  <2>2. x.db = a.db /\ x.n = a.n /\ x.lay = a.lay /\ {"db", "n", "lay"} \subseteq DOMAIN x
    BY <2>1
  <2> HIDE DEF x
  <2> QED BY <1>3, <2>2 DEF GoodArchive
<1> HIDE DEF x
<1> QED BY <1>1, <1>4, NoArchiveGood

\* SzArEx_Open gives a good archive, whatever the bytes of the file.
LEMMA OpenIs ==
  ASSUME NEW f, GoodFile(f)
  PROVE  GoodArchive(SzArEx_Open(f))
<1> DEFINE s == f.header
           c0 == Cursor(s)
           t == ReadNumber(c0)
           p == ReadPacked(t, 1, f)
           q == IF p.ok THEN Cursor(p.v.bufs[1]) ELSE Err
           n == ReadNumber(q)
           h == Header(f)
           o == [NoArchive EXCEPT !.opened = TRUE]
<1>1. IsCursor(c0)
  BY DEF GoodFile, IsCursor, Cursor
<1> HIDE DEF c0
<1>2. IsCursor(t)
  BY <1>1, NumberIs
<1>3. h.cursor = IF t.ok /\ t.v = Id.EncodedHeader THEN n ELSE t
  BY DEF Header, HeaderFrom, Decoded, c0
<1> HIDE DEF t
<1>4. p.ok => p.v.bufs \in Seq(Seq(Byte)) /\ p.v.bufs # <<>>
  BY <1>2, PackedAre
<1> HIDE DEF p
<1>5. IsCursor(q)
  <2>1. CASE p.ok
    <3> DEFINE all == p.v.bufs
               b == all[1]
    <3>1. all \in Seq(Seq(Byte)) /\ all # <<>>
      BY <1>4, <2>1
    <3> HIDE DEF all
    <3>2. 1 \in 1..Len(all)
      <4>1. Len(all) \in Nat /\ Len(all) # 0
        BY <3>1
      <4> QED BY <4>1
    <3>3. b \in Seq(Byte)
      BY <3>1, <3>2, ElementOfSeq
    <3>4. q = Cursor(b)
      BY <2>1 DEF all
    <3> HIDE DEF b
    <3>5. IsCursor(Cursor(b))
      BY <3>3 DEF IsCursor, Cursor
    <3> QED BY <3>4, <3>5
  <2>2. CASE ~p.ok
    BY <2>2, ErrIs
  <2> QED BY <2>1, <2>2
<1> HIDE DEF q
<1>6. IsCursor(n)
  BY <1>5, NumberIs
<1> HIDE DEF n, h
<1>7. IsCursor(h.cursor)
  BY <1>2, <1>3, <1>6
<1>8. GoodArchive(TablesOf(h, f))
  BY <1>7, TablesIs
<1>9. GoodArchive(o)
  <2>1. o.db = NoArchive.db /\ o.n = NoArchive.n /\ o.lay = NoArchive.lay /\ {"db", "n", "lay"} \subseteq DOMAIN o
    BY DEF NoArchive
  <2> HIDE DEF o
  <2> QED BY <2>1, NoArchiveGood DEF GoodArchive
<1> HIDE DEF o
<1>10. SzArEx_Open(f) \in {NoArchive, o, TablesOf(h, f)}
  BY DEF SzArEx_Open, o, h
<1> QED BY <1>8, <1>9, <1>10, NoArchiveGood

-----------------------------------------------------------------------------
(* The layout, entry by entry: what each step does to the fields.            *)

LayFields == {"ok", "unpackPos", "fo", "rem", "num", "counts", "sizes", "digest", "value", "overrun",
              "emptyFile", "positions", "folderOf", "first", "dirs", "crcs"}
IsLay(l) == DOMAIN l = LayFields /\ l = [x \in LayFields |-> l[x]]

\* The fields that say which checksums were handed out.
DigestsStay(l, y) == y.num = l.num /\ y.digest = l.digest /\ y.value = l.value /\ y.overrun = l.overrun

\* The layout before the files are laid out is one.
LEMMA NoLayoutIs == IsLay(NoLayout)
BY DEF IsLay, LayFields, NoLayout

Began(counts, sizes) == [NoLayout EXCEPT !.counts = counts, !.sizes = sizes]

\* The layout loop begins with nothing laid out.
LEMMA BeganIs ==
  ASSUME NEW counts, NEW sizes
  PROVE  LET y == Began(counts, sizes) IN
         /\ IsLay(y) /\ y.unpackPos = 0 /\ y.fo = 1 /\ y.rem = 0 /\ y.num = 0 /\ y.counts = counts /\ y.sizes = sizes
         /\ y.digest = 0 /\ y.value = 0 /\ ~y.overrun /\ y.positions = <<>> /\ y.folderOf = <<>> /\ y.first = <<>>
BY DEF Began, NoLayout, IsLay, LayFields

\* An entry without stream gets a position and, inside a folder, that folder.
LEMMA EmptyEntryIs ==
  ASSUME NEW l, IsLay(l), NEW i, NEW files
  PROVE  LET y == EmptyEntry(l, i, files) IN
         /\ IsLay(y) /\ y.ok = l.ok /\ y.unpackPos = l.unpackPos /\ y.fo = l.fo /\ y.rem = l.rem
         /\ y.counts = l.counts /\ y.sizes = l.sizes /\ y.first = l.first
         /\ y.positions = Append(l.positions, l.unpackPos)
         /\ y.folderOf = Append(l.folderOf, IF l.rem = 0 THEN 0 ELSE l.fo)
         /\ DigestsStay(l, y)
BY DEF EmptyEntry, IsLay, LayFields, DigestsStay

Positioned(l) == [l EXCEPT !.positions = Append(@, l.unpackPos), !.dirs = Append(@, FALSE)]

\* An entry's position is where the unpacked bytes have come to.
LEMMA PositionedIs ==
  ASSUME NEW l, IsLay(l)
  PROVE  LET y == Positioned(l) IN
         /\ IsLay(y) /\ y.ok = l.ok /\ y.unpackPos = l.unpackPos /\ y.fo = l.fo /\ y.rem = l.rem
         /\ y.counts = l.counts /\ y.sizes = l.sizes /\ y.first = l.first /\ y.folderOf = l.folderOf
         /\ y.positions = Append(l.positions, l.unpackPos)
         /\ DigestsStay(l, y)
BY DEF Positioned, IsLay, LayFields, DigestsStay

FoundIn(l) == [l EXCEPT !.folderOf = Append(@, l.fo)]

\* An entry's folder is the one being filled.
LEMMA FoundInIs ==
  ASSUME NEW l, IsLay(l)
  PROVE  LET y == FoundIn(l) IN
         /\ IsLay(y) /\ y.ok = l.ok /\ y.unpackPos = l.unpackPos /\ y.fo = l.fo /\ y.rem = l.rem
         /\ y.counts = l.counts /\ y.sizes = l.sizes /\ y.first = l.first /\ y.positions = l.positions
         /\ y.folderOf = Append(l.folderOf, l.fo)
         /\ DigestsStay(l, y)
BY DEF FoundIn, IsLay, LayFields, DigestsStay

\* A folder is entered, or passed over.
Entered(l, i, c, size, y) ==
  /\ IsLay(y) /\ c.ok /\ y.first = Append(l.first, i) /\ y.counts = c /\ y.num = c.v /\ y.rem = c.v
  /\ y.sizes = l.sizes /\ y.folderOf = l.folderOf /\ y.positions = l.positions
  /\ y.digest = l.digest /\ y.value = l.value /\ y.overrun = l.overrun
  /\ \/ c.v # 0 /\ y.fo = l.fo /\ y.unpackPos = l.unpackPos
     \/ c.v = 0 /\ y.fo = l.fo + 1 /\ y.unpackPos = Plus(l.unpackPos, size) /\ Plus(l.unpackPos, size) >= size

\* Entering a folder sets its first entry and its count.
LEMMA EnterOneIs ==
  ASSUME NEW l, IsLay(l), NEW i, NEW db, NEW c, EnterOne(l, i, db, c).ok
  PROVE  ~(l.fo > Len(db.folders)) /\ Entered(l, i, c, FolderUnpackSize(db, l.fo), EnterOne(l, i, db, c))
<1> DEFINE size == FolderUnpackSize(db, l.fo)
<1> HIDE DEF size
<1>1. ~(l.fo > Len(db.folders)) /\ c.ok
  <2>1. ~Refused(l).ok
    BY DEF Refused, IsLay, LayFields
  <2> QED BY <2>1 DEF EnterOne
<1>2. CASE c.v # 0
  <2>1. EnterOne(l, i, db, c) = [l EXCEPT !.first = Append(@, i), !.num = c.v, !.rem = c.v, !.counts = c]
    BY <1>1, <1>2 DEF EnterOne
  <2> QED BY <1>1, <1>2, <2>1 DEF Entered, IsLay, LayFields
<1>3. CASE c.v = 0
  <2> DEFINE m == [l EXCEPT !.first = Append(@, i), !.num = 0, !.rem = 0, !.counts = c]
  <2>1. EnterOne(l, i, db, c) = PassFolder(m, size)
    BY <1>1, <1>3 DEF EnterOne, size
  <2>2. /\ IsLay(m) /\ m.fo = l.fo /\ m.unpackPos = l.unpackPos /\ m.first = Append(l.first, i) /\ m.num = 0 /\ m.rem = 0
        /\ m.counts = c /\ m.sizes = l.sizes /\ m.folderOf = l.folderOf /\ m.positions = l.positions
        /\ m.digest = l.digest /\ m.value = l.value /\ m.overrun = l.overrun
    BY DEF IsLay, LayFields
  <2> HIDE DEF m
  <2> DEFINE y == PassFolder(m, size)
  <2>3. /\ IsLay(y) /\ y.ok = (Plus(m.unpackPos, size) >= size) /\ y.unpackPos = Plus(m.unpackPos, size)
        /\ y.fo = m.fo + 1 /\ y.first = m.first /\ y.num = m.num /\ y.rem = m.rem /\ y.counts = m.counts
        /\ y.sizes = m.sizes /\ y.folderOf = m.folderOf /\ y.positions = m.positions
        /\ y.digest = m.digest /\ y.value = m.value /\ y.overrun = m.overrun
    BY <2>2 DEF IsLay, LayFields, PassFolder
  <2> HIDE DEF y
  <2>4. y.ok
    BY <2>1 DEF y
  <2> QED BY <1>1, <1>3, <2>1, <2>2, <2>3, <2>4 DEF y, size, Entered
<1> QED BY <1>1, <1>2, <1>3

Ended(l, size, start, y) ==
  /\ IsLay(y) /\ (y.ok => size >= (l.unpackPos - start) % Word /\ Plus(start, size) >= size)
  /\ y.unpackPos = Plus(start, size) /\ y.fo = l.fo + 1 /\ y.rem = 0
  /\ y.counts = l.counts /\ y.sizes = l.sizes /\ y.first = l.first /\ y.positions = l.positions
  /\ y.folderOf = l.folderOf /\ DigestsStay(l, y)

\* The last entry of a folder ends where the folder does.
LEMMA LastEntryIs ==
  ASSUME NEW l, IsLay(l), NEW size, NEW start
  PROVE  Ended(l, size, start, LastEntry(l, size, start))
BY DEF Ended, LastEntry, IsLay, LayFields, DigestsStay

Inner(l, v, y) ==
  /\ IsLay(y) /\ (y.ok => v.ok /\ Plus(l.unpackPos, v.v) >= v.v)
  /\ y.unpackPos = Plus(l.unpackPos, v.v) /\ y.fo = l.fo /\ y.rem = l.rem - 1
  /\ y.counts = l.counts /\ y.sizes = v /\ y.first = l.first /\ y.positions = l.positions
  /\ y.folderOf = l.folderOf /\ DigestsStay(l, y)

\* An inner entry ends where its size says.
LEMMA InnerEntryIs ==
  ASSUME NEW l, IsLay(l), NEW v
  PROVE  Inner(l, v, InnerEntry(l, v))
BY DEF Inner, InnerEntry, IsLay, LayFields, DigestsStay

\* A checksum is handed out, or not: the entry stays where it is.
EntryStays(l, y) ==
  /\ IsLay(y) /\ y.ok = l.ok /\ y.unpackPos = l.unpackPos /\ y.fo = l.fo /\ y.rem = l.rem /\ y.num = l.num
  /\ y.counts = l.counts /\ y.sizes = l.sizes /\ y.first = l.first /\ y.positions = l.positions /\ y.folderOf = l.folderOf

\* Noting a digest leaves the layout of the entry.
LEMMA DigestStays ==
  ASSUME NEW l, IsLay(l), NEW fo, NEW db, NEW ssi
  PROVE  EntryStays(l, Digest(l, fo, db, ssi))
<1>1. \A x : EntryStays(l, [l EXCEPT !.crcs = Append(@, x)])
  BY DEF EntryStays, IsLay, LayFields
<1>2. EntryStays(l, NoDigest(l)) /\ EntryStays(l, [NoDigest(l) EXCEPT !.overrun = TRUE])
  BY DEF EntryStays, IsLay, LayFields, NoDigest
<1>3. \A x : EntryStays(l, [l EXCEPT !.crcs = Append(@, x), !.digest = @ + 1, !.value = @ + 1])
  BY DEF EntryStays, IsLay, LayFields
<1>4. \A all, bits, vals : EntryStays(l, NextDigest(l, all, bits, vals))
  BY <1>2, <1>3 DEF NextDigest
<1>5. \A crcs, size : EntryStays(l, DigestIn(l, crcs, size))
  BY <1>4 DEF DigestIn
<1> QED BY <1>1, <1>5 DEF Digest

-----------------------------------------------------------------------------
(* The layout keeps files in order within their folders.                     *)

\* Where entry j ends: where the next one begins.
End(l, j) == IF j < Len(l.positions) THEN l.positions[j + 1] ELSE l.unpackPos
Rising(s) == \A j, k \in DOMAIN s : j <= k => s[j] <= s[k]

\* Entry j is empty, or lies in a folder that begins with it or before, and ends within it once
\* the folder is complete.
Lies(l, j, db) ==
  LET fo == l.folderOf[j] IN
  \/ fo = 0 /\ End(l, j) = l.positions[j]
  \/ /\ fo \in 1..Len(l.first) /\ l.first[fo] <= j
     /\ fo < Len(l.first) => j < l.first[fo + 1]
     /\ fo < l.fo => End(l, j) <= l.positions[l.first[fo]] + FolderUnpackSize(db, fo)

\* n entries begun, m of them laid.
Typed(l, n, m, db) ==
  /\ IsLay(l) /\ n \in Nat /\ m \in Nat /\ m <= n
  /\ l.positions \in Seq(Number) /\ Len(l.positions) = n
  /\ l.unpackPos \in Number
  /\ l.folderOf \in Seq(Nat) /\ Len(l.folderOf) = m
  /\ l.rem \in Nat /\ l.fo \in Nat \ {0} /\ l.fo <= Len(db.folders) + 1
  /\ l.rem # 0 => l.fo <= Len(db.folders)
  /\ l.first \in Seq(1..n) /\ Len(l.first) = IF l.rem = 0 THEN l.fo - 1 ELSE l.fo
  /\ IsCursor(l.counts) /\ IsCursor(l.sizes)
Ordered(l) ==
  /\ Rising(l.positions) /\ \A j \in DOMAIN l.positions : l.positions[j] <= l.unpackPos
  /\ Rising(l.first)
Laid(l, n, m, db) == Typed(l, n, m, db) /\ Ordered(l) /\ \A j \in 1..m : Lies(l, j, db)

\* What appending a member leaves and adds.
LEMMA AppendIs ==
  ASSUME NEW S, NEW s \in Seq(S), NEW e \in S
  PROVE  LET t == Append(s, e) IN
         /\ t \in Seq(S) /\ Len(t) = Len(s) + 1 /\ Len(s) \in Nat /\ DOMAIN s = 1..Len(s) /\ DOMAIN t = 1..Len(s) + 1
         /\ t[Len(s) + 1] = e /\ \A j \in 1..Len(s) : t[j] = s[j]
OBVIOUS

\* A 64-bit number is a number below the word.
LEMMA NumberIsNat == \A x \in Number : x \in Nat /\ x < Word
BY WordIs DEF Number

\* A sequence in order stays so with an element at its end that is not less.
LEMMA RisingOn ==
  ASSUME NEW s \in Seq(Nat), Rising(s), NEW e \in Nat, \A j \in DOMAIN s : s[j] <= e
  PROVE  Rising(Append(s, e)) /\ \A j \in DOMAIN Append(s, e) : Append(s, e)[j] <= e
<1> DEFINE t == Append(s, e)
<1>1. /\ t \in Seq(Nat) /\ Len(t) = Len(s) + 1 /\ Len(s) \in Nat /\ DOMAIN s = 1..Len(s) /\ DOMAIN t = 1..Len(s) + 1
      /\ t[Len(s) + 1] = e /\ \A j \in 1..Len(s) : t[j] = s[j]
  BY AppendIs
<1>2. \A j \in 1..Len(s) : s[j] \in Nat
  OBVIOUS
<1> HIDE DEF t
<1>3. \A j \in DOMAIN t : t[j] <= e
  <2> TAKE j \in DOMAIN t
  <2>1. j = Len(s) + 1 \/ j \in 1..Len(s)
    BY <1>1
  <2> QED BY <1>1, <2>1
<1>4. ASSUME NEW j \in DOMAIN t, NEW k \in DOMAIN t, j <= k PROVE t[j] <= t[k]
  <2>1. k = Len(s) + 1 \/ (k \in 1..Len(s) /\ j \in 1..Len(s))
    BY <1>1, <1>4
  <2> QED BY <1>1, <1>3, <1>4, <2>1 DEF Rising
<1> QED BY <1>3, <1>4 DEF Rising, t

\* Before any entry.
LEMMA BeganLaid ==
  ASSUME NEW db, Len(db.folders) \in Nat, NEW counts, IsCursor(counts), NEW sizes, IsCursor(sizes)
  PROVE  Laid(Began(counts, sizes), 0, 0, db)
<1> DEFINE y == Began(counts, sizes)
<1>1. /\ IsLay(y) /\ y.unpackPos = 0 /\ y.fo = 1 /\ y.rem = 0 /\ y.counts = counts /\ y.sizes = sizes
      /\ y.positions = <<>> /\ y.folderOf = <<>> /\ y.first = <<>>
  BY BeganIs
<1> HIDE DEF y
<1>2. 0 \in Number
  BY WordIs DEF Number
<1>3. Typed(y, 0, 0, db)
  BY <1>1, <1>2 DEF Typed
<1>4. Ordered(y)
  BY <1>1 DEF Ordered, Rising
<1> QED BY <1>3, <1>4 DEF Laid, y

\* An entry begins where the last one ended.
LEMMA PositionedLaid ==
  ASSUME NEW l, NEW n \in Nat, NEW db, Len(db.folders) \in Nat, Laid(l, n, n, db), NEW y, IsLay(y),
         y.unpackPos = l.unpackPos, y.fo = l.fo, y.rem = l.rem, y.counts = l.counts, y.sizes = l.sizes, y.first = l.first,
         y.positions = Append(l.positions, l.unpackPos), y.folderOf = l.folderOf
  PROVE  Laid(y, n + 1, n, db)
<1>1. Typed(l, n, n, db) /\ Ordered(l)
  BY DEF Laid
<1>2. l.positions \in Seq(Number) /\ Len(l.positions) = n /\ l.unpackPos \in Number
  BY <1>1 DEF Typed
<1>3. /\ y.positions \in Seq(Number) /\ Len(y.positions) = n + 1 /\ y.positions[n + 1] = l.unpackPos
      /\ \A j \in 1..n : y.positions[j] = l.positions[j]
  BY <1>2, AppendIs
<1>4. Typed(y, n + 1, n, db)
  <2>1. l.first \in Seq(1..n) => l.first \in Seq(1..n + 1)
    OBVIOUS
  <2> QED BY <1>1, <1>3, <2>1 DEF Typed
<1>5. Ordered(y)
  <2>1. l.positions \in Seq(Nat) /\ l.unpackPos \in Nat
    BY <1>2, NumberIsNat
  <2>2. Rising(l.positions) /\ \A j \in DOMAIN l.positions : l.positions[j] <= l.unpackPos
    BY <1>1 DEF Ordered
  <2>3. Rising(y.positions) /\ \A j \in DOMAIN y.positions : y.positions[j] <= l.unpackPos
    BY <2>1, <2>2, RisingOn
  <2> QED BY <1>1, <2>3 DEF Ordered
<1>6. ASSUME NEW j \in 1..n PROVE Lies(y, j, db)
  <2>1. Lies(l, j, db)
    BY DEF Laid
  <2>2. End(y, j) = End(l, j)
    <3>1. CASE j < n
      <4>1. j + 1 \in 1..n /\ j < n + 1
        BY <3>1
      <4> QED BY <1>2, <1>3, <3>1, <4>1 DEF End
    <3>2. CASE j = n
      <4>1. ~(n < n) /\ n < n + 1
        OBVIOUS
      <4> QED BY <1>2, <1>3, <3>2, <4>1 DEF End
    <3> QED BY <3>1, <3>2
  <2>3. y.positions[j] = l.positions[j]
    BY <1>3
  <2>4. \A fo \in 1..Len(l.first) : y.positions[l.first[fo]] = l.positions[l.first[fo]]
    <3> TAKE fo \in 1..Len(l.first)
    <3>1. l.first[fo] \in 1..n
      <4>1. l.first \in Seq(1..n)
        BY <1>1 DEF Typed
      <4> QED BY <4>1
    <3> QED BY <1>3, <3>1
  <2> QED BY <2>1, <2>2, <2>3, <2>4 DEF Lies
<1> QED BY <1>4, <1>5, <1>6 DEF Laid

\* An entry without a stream.
LEMMA EmptyEntryLaid ==
  ASSUME NEW l, NEW n \in Nat, NEW db, Len(db.folders) \in Nat, Laid(l, n, n, db), NEW i, NEW files
  PROVE  Laid(EmptyEntry(l, i, files), n + 1, n + 1, db)
<1> DEFINE fo == IF l.rem = 0 THEN 0 ELSE l.fo
           y == EmptyEntry(l, i, files)
           m == Positioned(l)
<1>1. IsLay(l)
  BY DEF Laid, Typed
<1>2. /\ IsLay(y) /\ y.unpackPos = l.unpackPos /\ y.fo = l.fo /\ y.rem = l.rem
      /\ y.counts = l.counts /\ y.sizes = l.sizes /\ y.first = l.first
      /\ y.positions = Append(l.positions, l.unpackPos) /\ y.folderOf = Append(l.folderOf, fo)
  BY <1>1, EmptyEntryIs
<1>3. /\ IsLay(m) /\ m.unpackPos = l.unpackPos /\ m.fo = l.fo /\ m.rem = l.rem
      /\ m.counts = l.counts /\ m.sizes = l.sizes /\ m.first = l.first
      /\ m.positions = Append(l.positions, l.unpackPos) /\ m.folderOf = l.folderOf
  BY <1>1, PositionedIs
<1>4. l.fo \in Nat /\ l.rem \in Nat /\ l.first \in Seq(1..n) /\ Len(l.first) = (IF l.rem = 0 THEN l.fo - 1 ELSE l.fo) /\ l.fo >= 1
  BY DEF Laid, Typed
<1> HIDE DEF y, m
<1>5. Laid(m, n + 1, n, db)
  BY <1>3, PositionedLaid
<1>6. fo \in Nat
  BY <1>4
<1>7. fo = 0 \/ (l.rem # 0 /\ fo = l.fo)
  OBVIOUS
<1> HIDE DEF fo
<1>8. Typed(m, n + 1, n, db) /\ Ordered(m) /\ \A j \in 1..n : Lies(m, j, db)
  BY <1>5 DEF Laid
<1>9. m.folderOf \in Seq(Nat) /\ Len(m.folderOf) = n /\ m.positions \in Seq(Number) /\ Len(m.positions) = n + 1
  BY <1>8 DEF Typed
<1>10. y.folderOf \in Seq(Nat) /\ Len(y.folderOf) = n + 1 /\ y.folderOf[n + 1] = fo /\ \A j \in 1..n : y.folderOf[j] = m.folderOf[j]
  BY <1>2, <1>3, <1>6, <1>9, AppendIs
<1>11. Typed(y, n + 1, n + 1, db)
  BY <1>2, <1>3, <1>8, <1>10 DEF Typed
<1>12. Ordered(y)
  BY <1>2, <1>3, <1>8 DEF Ordered
<1>13. ASSUME NEW j \in 1..n PROVE Lies(y, j, db)
  <2>1. End(y, j) = End(m, j)
    BY <1>2, <1>3 DEF End
  <2>2. Lies(m, j, db)
    BY <1>8
  <2> QED BY <1>2, <1>3, <1>10, <2>1, <2>2 DEF Lies
<1>14. Lies(y, n + 1, db)
  <2>1. y.positions[n + 1] = l.unpackPos /\ End(y, n + 1) = y.unpackPos
    <3>1. l.positions \in Seq(Number) /\ Len(l.positions) = n /\ l.unpackPos \in Number
      BY DEF Laid, Typed
    <3>2. y.positions[n + 1] = l.unpackPos /\ Len(y.positions) = n + 1
      BY <1>2, <3>1, AppendIs
    <3> QED BY <3>2 DEF End
  <2>2. CASE fo = 0
    BY <1>2, <1>10, <2>1, <2>2 DEF Lies
  <2>3. CASE l.rem # 0 /\ fo = l.fo
    <3>1. fo \in 1..Len(l.first) /\ Len(l.first) = fo
      BY <1>4, <2>3
    <3>2. l.first[fo] \in 1..n
      BY <1>4, <3>1
    <3> QED BY <1>2, <1>10, <2>3, <3>1, <3>2 DEF Lies
  <2> QED BY <1>7, <2>2, <2>3
<1>15. \A j \in 1..n + 1 : Lies(y, j, db)
  <2> TAKE j \in 1..n + 1
  <2>1. j = n + 1 \/ j \in 1..n
    OBVIOUS
  <2> QED BY <1>13, <1>14, <2>1
<1> QED BY <1>11, <1>12, <1>15 DEF Laid, y

\* A 64-bit sum not below one of its terms did not wrap.
LEMMA PlusIs ==
  ASSUME NEW a \in Number, NEW b \in Number, Plus(a, b) >= b
  PROVE  Plus(a, b) = a + b /\ a + b \in Number
<1>1. a \in Nat /\ b \in Nat /\ a < Word /\ b < Word /\ Word \in Nat /\ Word > 0
  BY NumberIsNat, WordIs
<1>2. CASE a + b < Word
  <2>1. (a + b) % Word = a + b
    BY <1>1, <1>2
  <2> QED BY <1>1, <1>2, <2>1 DEF Plus, Number
<1>3. CASE a + b >= Word
  <2>1. (a + b) % Word = a + b - Word
    <3>1. a + b = 1 * Word + (a + b - Word) /\ a + b - Word \in 0..Word - 1
      BY <1>1, <1>3
    <3> QED BY <1>1, <3>1
  <2> QED BY <1>1, <2>1 DEF Plus
<1> QED BY <1>1, <1>2, <1>3

\* A 64-bit difference of a smaller number did not wrap.
LEMMA MinusIs ==
  ASSUME NEW a \in Number, NEW b \in Number, b <= a
  PROVE  (a - b) % Word = a - b /\ a - b \in Number
<1>1. a \in Nat /\ b \in Nat /\ a < Word /\ Word \in Nat /\ Word > 0
  BY NumberIsNat, WordIs
<1>2. a - b \in 0..Word - 1
  BY <1>1
<1> QED BY <1>1, <1>2 DEF Number

\* The unpack size of a folder is a 64-bit number.
LEMMA FolderSizeIs ==
  ASSUME NEW db, GoodDb(db), NEW fo \in 1..Len(db.folders)
  PROVE  FolderUnpackSize(db, fo) \in Number
<1>1. db.folders \in Seq(Folders) /\ db.sizes \in Seq(Number) /\ Len(db.sizes) = Used(db.folders, "coders")
  BY DEF GoodDb, GoodFolders
<1>2. Before(db.folders, fo, "coders") + db.folders[fo].main + 1 \in 1..Used(db.folders, "coders")
  BY <1>1, UsedIs
<1> DEFINE k == Before(db.folders, fo, "coders") + db.folders[fo].main + 1
<1> HIDE DEF k
<1>3. k \in 1..Len(db.sizes)
  BY <1>1, <1>2 DEF k
<1>4. db.sizes[k] \in Number
  BY <1>1, <1>3
<1> QED BY <1>4 DEF FolderUnpackSize, k

\* A folder is entered, or passed over, by an entry that is begun and not yet laid.
LEMMA EnterOneLaid ==
  ASSUME NEW l, NEW n \in Nat, NEW db, Len(db.folders) \in Nat, GoodDb(db), Laid(l, n + 1, n, db), l.rem = 0,
         NEW c, c.ok => IsCursor(c) /\ c.v \in Nat, EnterOne(l, n + 1, db, c).ok
  PROVE  LET y == EnterOne(l, n + 1, db, c) IN Laid(y, n + 1, n, db) /\ (y.rem = 0 => y.fo = l.fo + 1)
<1> DEFINE y == EnterOne(l, n + 1, db, c)
           size == FolderUnpackSize(db, l.fo)
<1>1. Typed(l, n + 1, n, db) /\ Ordered(l) /\ \A j \in 1..n : Lies(l, j, db)
  BY DEF Laid
<1>2. IsLay(l)
  BY <1>1 DEF Typed
<1>0. ~(l.fo > Len(db.folders)) /\ Entered(l, n + 1, c, size, y)
  BY <1>2, EnterOneIs
<1> HIDE DEF y, size
<1>3. /\ ~(l.fo > Len(db.folders))
      /\ IsLay(y) /\ c.ok /\ y.first = Append(l.first, n + 1) /\ y.counts = c /\ y.rem = c.v
      /\ y.sizes = l.sizes /\ y.folderOf = l.folderOf /\ y.positions = l.positions
      /\ \/ c.v # 0 /\ y.fo = l.fo /\ y.unpackPos = l.unpackPos
         \/ c.v = 0 /\ y.fo = l.fo + 1 /\ y.unpackPos = Plus(l.unpackPos, size) /\ Plus(l.unpackPos, size) >= size
  BY <1>0 DEF Entered
<1>4. IsCursor(c) /\ c.v \in Nat
  BY <1>3
<1>5. /\ l.fo \in Nat \ {0} /\ l.fo <= Len(db.folders) /\ l.first \in Seq(1..n + 1) /\ Len(l.first) = l.fo - 1
      /\ l.positions \in Seq(Number) /\ Len(l.positions) = n + 1 /\ l.unpackPos \in Number
  BY <1>1, <1>3 DEF Typed
<1>6. y.unpackPos \in Number /\ y.unpackPos >= l.unpackPos
  <2>1. CASE c.v # 0
    BY <1>3, <1>5, <2>1, NumberIsNat
  <2>2. CASE c.v = 0
    <3>1. l.fo \in 1..Len(db.folders)
      BY <1>5
    <3>2. size \in Number
      BY <3>1, FolderSizeIs DEF size
    <3>3. Plus(l.unpackPos, size) = l.unpackPos + size /\ l.unpackPos + size \in Number
      BY <1>3, <1>5, <2>2, <3>2, PlusIs
    <3>4. l.unpackPos \in Nat /\ size \in Nat
      BY <1>5, <3>2, NumberIsNat
    <3>5. y.unpackPos = l.unpackPos + size
      BY <1>3, <2>2, <3>3
    <3> QED BY <3>3, <3>4, <3>5
  <2> QED BY <2>1, <2>2
<1>7. /\ y.first \in Seq(1..n + 1) /\ Len(y.first) = l.fo /\ y.first[l.fo] = n + 1 /\ \A k \in 1..l.fo - 1 : y.first[k] = l.first[k]
  <2>1. n + 1 \in 1..n + 1
    OBVIOUS
  <2>2. Len(l.first) + 1 = l.fo
    BY <1>5
  <2> QED BY <1>3, <1>5, <2>1, <2>2, AppendIs
<1>8. Typed(y, n + 1, n, db)
  <2>1. y.fo \in Nat \ {0} /\ y.fo <= Len(db.folders) + 1 /\ (y.rem # 0 => y.fo <= Len(db.folders))
        /\ l.fo = IF y.rem = 0 THEN y.fo - 1 ELSE y.fo
    <3>0. l.fo \in Nat \ {0} /\ l.fo <= Len(db.folders) /\ y.rem = c.v
      BY <1>3, <1>5
    <3>1. (c.v # 0 /\ y.fo = l.fo) \/ (c.v = 0 /\ y.fo = l.fo + 1)
      BY <1>3
    <3> QED BY ONLY <3>0, <3>1, Len(db.folders) \in Nat
  <2>2. IsCursor(l.sizes) /\ l.folderOf \in Seq(Nat) /\ Len(l.folderOf) = n
    BY <1>1 DEF Typed
  <2> QED BY <1>3, <1>4, <1>5, <1>6, <1>7, <2>1, <2>2 DEF Typed
<1>9. Ordered(y)
  <2>1. l.first \in Seq(Nat) /\ n + 1 \in Nat /\ \A j \in DOMAIN l.first : l.first[j] <= n + 1
    BY <1>5
  <2>2. Rising(l.first)
    BY <1>1 DEF Ordered
  <2>3. Rising(y.first)
    BY <1>3, <2>1, <2>2, RisingOn
  <2>4. \A j \in DOMAIN l.positions : l.positions[j] <= y.unpackPos
    <3> TAKE j \in DOMAIN l.positions
    <3>1. l.positions[j] <= l.unpackPos
      BY <1>1 DEF Ordered
    <3>2. l.positions[j] \in Nat /\ l.unpackPos \in Nat /\ y.unpackPos \in Nat
      <4>1. l.positions[j] \in Number
        BY <1>5
      <4> QED BY <1>5, <1>6, <4>1, NumberIsNat
    <3> QED BY <1>6, <3>1, <3>2
  <2> QED BY <1>1, <1>3, <2>3, <2>4 DEF Ordered
<1>10. ASSUME NEW j \in 1..n PROVE Lies(y, j, db)
  <2>1. Lies(l, j, db)
    BY <1>1
  <2>2. j < Len(l.positions)
    BY <1>5
  <2>3. End(y, j) = End(l, j)
    BY <1>3, <2>2 DEF End
  <2> DEFINE fo == l.folderOf[j]
  <2>4. y.folderOf[j] = fo /\ y.positions = l.positions
    BY <1>3
  <2>5. CASE fo = 0 /\ End(l, j) = l.positions[j]
    BY <2>3, <2>4, <2>5 DEF Lies
  <2>6. CASE ~(fo = 0 /\ End(l, j) = l.positions[j])
    <3>1. /\ fo \in 1..Len(l.first) /\ l.first[fo] <= j
          /\ fo < Len(l.first) => j < l.first[fo + 1]
          /\ fo < l.fo => End(l, j) <= l.positions[l.first[fo]] + FolderUnpackSize(db, fo)
      BY <2>1, <2>6 DEF Lies
    <3> HIDE DEF fo
    <3>2. fo \in 1..l.fo - 1 /\ fo < l.fo /\ y.first[fo] = l.first[fo]
      BY <1>5, <1>7, <3>1
    <3>3. fo < Len(y.first) => j < y.first[fo + 1]
      <4>1. CASE fo + 1 = l.fo
        BY <1>7, <4>1
      <4>2. CASE fo + 1 < l.fo
        <5>1. fo + 1 \in 1..l.fo - 1
          <6>1. \A a, b \in Nat : a \in 1..b - 1 /\ a + 1 < b => a + 1 \in 1..b - 1
            OBVIOUS
          <6>2. fo \in Nat /\ l.fo \in Nat
            BY <1>5, <3>1
          <6> QED BY <3>2, <4>2, <6>1, <6>2
        <5>2. fo < Len(l.first) /\ y.first[fo + 1] = l.first[fo + 1]
          BY <1>5, <1>7, <3>2, <5>1
        <5> QED BY <3>1, <5>2
      <4> QED BY <1>5, <3>2, <4>1, <4>2
    <3>4. fo \in 1..Len(y.first)
      BY <1>5, <1>7, <3>2
    <3> QED BY <2>3, <2>4, <3>1, <3>2, <3>3, <3>4 DEF Lies, fo
  <2> QED BY <2>5, <2>6
<1>11. y.rem = 0 => y.fo = l.fo + 1
  BY <1>3
<1> QED BY <1>8, <1>9, <1>10, <1>11 DEF Laid, y

\* An entry in the folder that is entered: its end, and the folder's, if it is the last one.
LEMMA EntryEndLaid ==
  ASSUME NEW l, NEW n \in Nat, NEW db, Len(db.folders) \in Nat, GoodDb(db), Laid(l, n + 1, n, db), l.rem # 0,
         EntryEnd(FoundIn(l), db).ok
  PROVE  Laid(EntryEnd(FoundIn(l), db), n + 1, n + 1, db)
<1> DEFINE m == FoundIn(l)
           y == EntryEnd(m, db)
<1>1. Typed(l, n + 1, n, db) /\ Ordered(l) /\ \A j \in 1..n : Lies(l, j, db)
  BY DEF Laid
<1>2. IsLay(l)
  BY <1>1 DEF Typed
<1>3. /\ IsLay(m) /\ m.unpackPos = l.unpackPos /\ m.fo = l.fo /\ m.rem = l.rem
      /\ m.counts = l.counts /\ m.sizes = l.sizes /\ m.first = l.first /\ m.positions = l.positions
      /\ m.folderOf = Append(l.folderOf, l.fo)
  BY <1>2, FoundInIs
<1> HIDE DEF m
<1>4. /\ l.fo \in Nat \ {0} /\ l.fo <= Len(db.folders) /\ l.first \in Seq(1..n + 1) /\ Len(l.first) = l.fo /\ l.rem \in Nat \ {0}
      /\ l.positions \in Seq(Number) /\ Len(l.positions) = n + 1 /\ l.unpackPos \in Number
      /\ IsCursor(l.sizes) /\ IsCursor(l.counts) /\ l.folderOf \in Seq(Nat) /\ Len(l.folderOf) = n
  BY <1>1 DEF Typed
<1> DEFINE size == FolderUnpackSize(db, l.fo)
           start == l.positions[l.first[l.fo]]
           v == ReadNumber(l.sizes)
<1>5. size \in Number
  <2>1. l.fo \in 1..Len(db.folders)
    BY <1>4
  <2> QED BY <2>1, FolderSizeIs
<1>6. l.first[l.fo] \in 1..n + 1 /\ start \in Number /\ start <= l.unpackPos
  <2>1. l.fo \in 1..Len(l.first)
    BY <1>4
  <2>2. l.first[l.fo] \in 1..n + 1
    BY <1>4, <2>1
  <2>3. start \in Number
    BY <1>4, <2>2
  <2>4. start <= l.unpackPos
    BY <1>1, <1>4, <2>2 DEF Ordered
  <2> QED BY <2>2, <2>3, <2>4
<1>7. IsCursor(v) /\ (v.ok => v.v \in Number)
  BY <1>4, NumberIs
<1>8. y.ok
  BY DEF m
<1> HIDE DEF size, start, v
<1>9. /\ IsLay(y) /\ y.counts = l.counts /\ y.first = l.first /\ y.positions = l.positions /\ y.folderOf = m.folderOf
      /\ \/ /\ l.rem = 1 /\ y.rem = 0 /\ y.fo = l.fo + 1 /\ y.sizes = l.sizes
            /\ y.unpackPos = Plus(start, size) /\ size >= (l.unpackPos - start) % Word /\ Plus(start, size) >= size
         \/ /\ l.rem # 1 /\ y.rem = l.rem - 1 /\ y.fo = l.fo /\ y.sizes = v
            /\ y.unpackPos = Plus(l.unpackPos, v.v) /\ v.ok /\ Plus(l.unpackPos, v.v) >= v.v
  <2>1. CASE l.rem = 1
    <3> DEFINE z == LastEntry(m, size, start)
    <3>1. y = z
      BY <1>3, <2>1 DEF EntryEnd, size, start
    <3>2. Ended(m, size, start, z)
      BY <1>3, LastEntryIs
    <3> HIDE DEF y, z
    <3> QED BY <1>3, <1>8, <2>1, <3>1, <3>2 DEF Ended
  <2>2. CASE l.rem # 1
    <3> DEFINE z == InnerEntry(m, v)
    <3>1. y = z
      BY <1>3, <2>2 DEF EntryEnd, v
    <3>2. Inner(m, v, z)
      BY <1>3, InnerEntryIs
    <3> HIDE DEF y, z
    <3> QED BY <1>3, <1>8, <2>2, <3>1, <3>2 DEF Inner
  <2> QED BY <2>1, <2>2
<1> HIDE DEF y
<1>10. /\ y.unpackPos \in Number /\ y.unpackPos >= l.unpackPos /\ (y.rem = 0 => y.unpackPos = start + size)
  <2>0. l.unpackPos \in Nat /\ start \in Nat /\ size \in Nat
    BY <1>4, <1>5, <1>6, NumberIsNat
  <2>1. CASE l.rem = 1
    <3>1. Plus(start, size) = start + size /\ start + size \in Number
      BY <1>5, <1>6, <1>9, <2>1, PlusIs
    <3>2. (l.unpackPos - start) % Word = l.unpackPos - start
      BY <1>4, <1>6, MinusIs
    <3>3. size >= l.unpackPos - start /\ y.unpackPos = start + size
      BY <1>9, <2>1, <3>1, <3>2
    <3> QED BY <2>0, <3>1, <3>3
  <2>2. CASE l.rem # 1
    <3>1. Plus(l.unpackPos, v.v) = l.unpackPos + v.v /\ l.unpackPos + v.v \in Number
      BY <1>4, <1>7, <1>9, <2>2, PlusIs
    <3>2. v.v \in Nat
      BY <1>7, <1>9, <2>2, NumberIsNat
    <3>3. y.unpackPos = l.unpackPos + v.v /\ y.rem # 0
      BY <1>4, <1>9, <2>2, <3>1
    <3> QED BY <2>0, <3>1, <3>2, <3>3
  <2> QED BY <2>1, <2>2
<1>11. y.folderOf \in Seq(Nat) /\ Len(y.folderOf) = n + 1 /\ y.folderOf[n + 1] = l.fo /\ \A j \in 1..n : y.folderOf[j] = l.folderOf[j]
  <2>1. l.fo \in Nat
    BY <1>4
  <2> QED BY <1>3, <1>4, <1>9, <2>1, AppendIs
<1>12. Typed(y, n + 1, n + 1, db)
  <2>1. y.fo \in Nat \ {0} /\ y.fo <= Len(db.folders) + 1 /\ y.rem \in Nat /\ (y.rem # 0 => y.fo <= Len(db.folders))
        /\ l.fo = IF y.rem = 0 THEN y.fo - 1 ELSE y.fo
    <3>0. l.fo \in Nat \ {0} /\ l.fo <= Len(db.folders) /\ l.rem \in Nat \ {0}
      BY <1>4
    <3>1. CASE l.rem = 1
      <4>1. y.rem = 0 /\ y.fo = l.fo + 1
        BY <1>9, <3>1
      <4> QED BY ONLY <3>0, <4>1, Len(db.folders) \in Nat
    <3>2. CASE l.rem # 1
      <4>1. y.rem = l.rem - 1 /\ y.fo = l.fo
        BY <1>9, <3>2
      <4> QED BY ONLY <3>0, <3>2, <4>1, Len(db.folders) \in Nat
    <3> QED BY <3>1, <3>2
  <2>2. IsCursor(y.sizes) /\ IsCursor(y.counts)
    BY <1>4, <1>7, <1>9
  <2> QED BY <1>4, <1>9, <1>10, <1>11, <2>1, <2>2 DEF Typed
<1>13. Ordered(y)
  <2>4. \A j \in DOMAIN l.positions : l.positions[j] <= y.unpackPos
    <3> TAKE j \in DOMAIN l.positions
    <3>1. l.positions[j] <= l.unpackPos
      BY <1>1 DEF Ordered
    <3>2. l.positions[j] \in Nat /\ l.unpackPos \in Nat /\ y.unpackPos \in Nat
      <4>1. l.positions[j] \in Number
        BY <1>4
      <4> QED BY <1>4, <1>10, <4>1, NumberIsNat
    <3> QED BY <1>10, <3>1, <3>2
  <2> QED BY <1>1, <1>9, <2>4 DEF Ordered
<1>14. ASSUME NEW j \in 1..n + 1 PROVE Lies(y, j, db)
  <2> DEFINE fo == y.folderOf[j]
  <2>1. CASE fo = 0
    <3>1. j \in 1..n
      BY <1>4, <1>11, <2>1
    <3>2. l.folderOf[j] = 0 /\ Lies(l, j, db)
      BY <1>1, <1>11, <2>1, <3>1
    <3>3. End(l, j) = l.positions[j]
      BY <3>2 DEF Lies
    <3>4. j < Len(l.positions)
      BY <1>4, <3>1
    <3>5. End(y, j) = End(l, j)
      BY <1>9, <3>4 DEF End
    <3> QED BY <1>9, <2>1, <3>3, <3>5 DEF Lies
  <2>2. CASE fo # 0
    <3>1. /\ fo \in 1..l.fo /\ l.first[fo] <= j /\ (fo < Len(l.first) => j < l.first[fo + 1])
          /\ fo < l.fo => j \in 1..n /\ End(l, j) <= l.positions[l.first[fo]] + FolderUnpackSize(db, fo)
      <4>1. CASE j = n + 1
        <5>1. fo = l.fo
          BY <1>11, <4>1
        <5> HIDE DEF fo
        <5> QED BY <1>4, <1>6, <4>1, <5>1
      <4>2. CASE j \in 1..n
        <5>1. fo = l.folderOf[j] /\ Lies(l, j, db)
          BY <1>1, <1>11, <4>2
        <5> HIDE DEF fo
        <5> QED BY <1>4, <2>2, <4>2, <5>1 DEF Lies
      <4> QED BY <4>1, <4>2
    <3>2. fo < y.fo => End(y, j) <= l.positions[l.first[fo]] + FolderUnpackSize(db, fo)
      <4>1. CASE fo < l.fo
        <5>1. j < Len(l.positions)
          BY <1>4, <3>1, <4>1
        <5>2. End(y, j) = End(l, j)
          BY <1>9, <5>1 DEF End
        <5> QED BY <3>1, <4>1, <5>2
      <4>2. CASE fo = l.fo /\ fo < y.fo
        <5>1. y.rem = 0 /\ y.unpackPos = start + size
          BY <1>4, <1>9, <1>10, <4>2
        <5>2. End(y, j) <= y.unpackPos
          <6>1. CASE j < Len(y.positions)
            <7>1. j + 1 \in DOMAIN y.positions
              BY <1>4, <1>9, <6>1
            <7> QED BY <1>13, <6>1, <7>1 DEF Ordered, End
          <6>2. CASE ~(j < Len(y.positions))
            <7>1. y.unpackPos \in Nat
              BY <1>10, NumberIsNat
            <7> QED BY <6>2, <7>1 DEF End
          <6> QED BY <6>1, <6>2
        <5>3. l.positions[l.first[fo]] = start /\ FolderUnpackSize(db, fo) = size
          BY <4>2 DEF start, size
        <5> QED BY <5>1, <5>2, <5>3
      <4> QED BY <1>4, <3>1, <4>1, <4>2
    <3>3. fo \in 1..Len(y.first)
      BY <1>4, <1>9, <3>1
    <3>4. y.first = l.first /\ y.positions = l.positions
      BY <1>9
    <3> HIDE DEF fo
    <3> QED BY <3>1, <3>2, <3>3, <3>4 DEF Lies, fo
  <2> QED BY <2>1, <2>2
<1> QED BY <1>12, <1>13, <1>14 DEF Laid, y, m

-----------------------------------------------------------------------------
(* The same bytes read twice: from q, where they are all there is, and from  *)
(* r, where z comes after them.                                              *)

Ahead(q, r, z) == IsCursor(q) /\ IsCursor(r) /\ q.ok /\ r.ok /\ z \in Seq(Byte) /\ r.sd = q.sd \o z

\* The bytes of two sequences joined.
LEMMA JoinedIs ==
  ASSUME NEW p \in Seq(Byte), NEW z \in Seq(Byte)
  PROVE  /\ p \o z \in Seq(Byte) /\ Len(p \o z) = Len(p) + Len(z) /\ Len(p) \in Nat /\ Len(z) \in Nat
         /\ \A i \in 1..Len(p) : (p \o z)[i] = p[i]
         /\ \A i \in 1..Len(z) : (p \o z)[Len(p) + i] = z[i]
         /\ p # <<>> => p \o z # <<>> /\ Head(p \o z) = Head(p)
OBVIOUS

\* Dropping from the first of two sequences joined.
LEMMA DroppedIs ==
  ASSUME NEW p \in Seq(Byte), NEW z \in Seq(Byte), NEW n \in Nat, n <= Len(p)
  PROVE  /\ SubSeq(p \o z, n + 1, Len(p \o z)) = SubSeq(p, n + 1, Len(p)) \o z
         /\ SubSeq(p \o z, 1, n) = SubSeq(p, 1, n)
<1> DEFINE s == p \o z
           a == SubSeq(s, n + 1, Len(s))
           t == SubSeq(p, n + 1, Len(p))
           b == t \o z
<1>1. /\ s \in Seq(Byte) /\ Len(s) = Len(p) + Len(z) /\ Len(p) \in Nat /\ Len(z) \in Nat
      /\ \A i \in 1..Len(p) : s[i] = p[i]
      /\ \A i \in 1..Len(z) : s[Len(p) + i] = z[i]
  BY JoinedIs
<1> HIDE DEF s
<1>2. a \in Seq(Byte) /\ Len(a) = Len(s) - n /\ \A i \in 1..Len(s) - n : a[i] = s[n + i]
  BY <1>1
<1>3. t \in Seq(Byte) /\ Len(t) = Len(p) - n /\ \A i \in 1..Len(p) - n : t[i] = p[n + i]
  BY <1>1
<1> HIDE DEF a, t
<1>4. /\ b \in Seq(Byte) /\ Len(b) = Len(t) + Len(z) /\ \A i \in 1..Len(t) : b[i] = t[i]
      /\ \A i \in 1..Len(z) : b[Len(t) + i] = z[i]
  BY <1>3, JoinedIs
<1> HIDE DEF b
<1>5. Len(a) = Len(b)
  BY <1>1, <1>2, <1>3, <1>4
<1>6. ASSUME NEW i \in 1..Len(a) PROVE a[i] = b[i]
  <2>1. a[i] = s[n + i] /\ i \in Nat /\ i >= 1 /\ i <= Len(s) - n
    BY <1>1, <1>2
  <2>2. CASE i <= Len(p) - n
    <3>1. i \in 1..Len(t) /\ n + i \in 1..Len(p)
      BY <1>1, <1>3, <2>1, <2>2
    <3>2. b[i] = t[i] /\ t[i] = p[n + i] /\ s[n + i] = p[n + i]
      BY <1>1, <1>3, <1>4, <3>1
    <3> QED BY <2>1, <3>2
  <2>3. CASE i > Len(p) - n
    <3> DEFINE j == i - (Len(p) - n)
    <3>1. j \in 1..Len(z) /\ n + i = Len(p) + j /\ i = Len(t) + j
      BY <1>1, <1>3, <2>1, <2>3
    <3> HIDE DEF j
    <3> QED BY <1>1, <1>4, <2>1, <3>1
  <2> QED BY <1>1, <2>1, <2>2, <2>3
<1>7. a = b
  BY <1>2, <1>4, <1>5, <1>6, SeqEqual
<1>8. SubSeq(s, 1, n) = SubSeq(p, 1, n)
  <2> DEFINE u == SubSeq(s, 1, n)
             w == SubSeq(p, 1, n)
  <2>1. u \in Seq(Byte) /\ Len(u) = n /\ \A i \in 1..n : u[i] = s[i]
    BY <1>1
  <2>2. w \in Seq(Byte) /\ Len(w) = n /\ \A i \in 1..n : w[i] = p[i]
    BY <1>1
  <2> HIDE DEF u, w
  <2>3. \A i \in 1..n : u[i] = w[i]
    <3> TAKE i \in 1..n
    <3>1. i \in 1..Len(p)
      BY <1>1
    <3> QED BY <1>1, <2>1, <2>2, <3>1
  <2>4. u = w
    BY <2>1, <2>2, <2>3, SeqEqual
  <2> QED BY <2>4 DEF u, w
<1> QED BY <1>7, <1>8 DEF a, b, s, t

\* What is followed by the same bytes is the same.
LEMMA Cancelled ==
  ASSUME NEW p \in Seq(Byte), NEW q \in Seq(Byte), NEW z \in Seq(Byte), p \o z = q \o z
  PROVE  p = q
<1>1. Len(p) = Len(q)
  BY JoinedIs
<1>2. \A i \in 1..Len(p) : p[i] = q[i]
  BY <1>1, JoinedIs
<1> QED BY <1>1, <1>2, SeqEqual

\* Cursors over the same bytes stay so whatever values they carry.
LEMMA WithAhead ==
  ASSUME NEW q, NEW r, NEW z, Ahead(q, r, z), NEW v, NEW w
  PROVE  Ahead(With(q, v), With(r, w), z) /\ With(q, v).v = v /\ With(r, w).v = w
<1>1. IsCursor(With(q, v)) /\ With(q, v).ok = q.ok /\ (q.ok => With(q, v).v = v /\ With(q, v).sd = q.sd)
  BY WithIs DEF Ahead
<1>2. IsCursor(With(r, w)) /\ With(r, w).ok = r.ok /\ (r.ok => With(r, w).v = w /\ With(r, w).sd = r.sd)
  BY WithIs DEF Ahead
<1> QED BY <1>1, <1>2 DEF Ahead

\* Whatever q can drop, r can; and r can no more, unless it goes into z.
LEMMA DropAhead ==
  ASSUME NEW q, NEW r, NEW z, Ahead(q, r, z), NEW n \in Nat, n <= Len(q.sd)
  PROVE  /\ Ahead(Drop(q, n), Drop(r, n), z) /\ Drop(q, n).v = q.v /\ Drop(r, n).v = r.v
         /\ SubSeq(q.sd, 1, n) = SubSeq(r.sd, 1, n) /\ n <= Len(r.sd)
<1>1. q.sd \in Seq(Byte) /\ z \in Seq(Byte) /\ r.sd \in Seq(Byte) /\ r.sd = q.sd \o z /\ q.ok /\ r.ok
  BY DEF Ahead, IsCursor
<1>2. Len(r.sd) = Len(q.sd) + Len(z) /\ Len(z) \in Nat /\ Len(q.sd) \in Nat
  BY <1>1, JoinedIs
<1>3. n <= Len(r.sd)
  BY <1>2
<1>4. SubSeq(r.sd, n + 1, Len(r.sd)) = SubSeq(q.sd, n + 1, Len(q.sd)) \o z /\ SubSeq(r.sd, 1, n) = SubSeq(q.sd, 1, n)
  <2> DEFINE p == q.sd
             s == r.sd
  <2>1. p \in Seq(Byte) /\ s = p \o z /\ z \in Seq(Byte) /\ n <= Len(p)
    BY <1>1
  <2> HIDE DEF p, s
  <2>2. SubSeq(s, n + 1, Len(s)) = SubSeq(p, n + 1, Len(p)) \o z /\ SubSeq(s, 1, n) = SubSeq(p, 1, n)
    BY <2>1, DroppedIs, Zenon
  <2> QED BY <2>2 DEF p, s
<1>5. Drop(q, n).ok /\ Drop(r, n).ok
  BY <1>1, <1>3 DEF Drop
<1>6. IsCursor(Drop(q, n)) /\ (Drop(q, n).ok => Drop(q, n).v = q.v /\ Drop(q, n).sd = SubSeq(q.sd, n + 1, Len(q.sd)))
  BY DropIs DEF Ahead
<1>7. IsCursor(Drop(r, n)) /\ (Drop(r, n).ok => Drop(r, n).v = r.v /\ Drop(r, n).sd = SubSeq(r.sd, n + 1, Len(r.sd)))
  BY DropIs DEF Ahead
<1> QED BY <1>1, <1>3, <1>4, <1>5, <1>6, <1>7 DEF Ahead

\* A skip that succeeds had the bytes to skip.
LEMMA DropOk ==
  ASSUME NEW q, NEW n
  PROVE  Drop(q, n).ok => q.ok /\ n <= Len(q.sd)
BY DEF Drop, Err

\* The same byte is read from the same bytes.
LEMMA ByteAhead ==
  ASSUME NEW q, NEW r, NEW z, Ahead(q, r, z), ReadByte(q).ok
  PROVE  Ahead(ReadByte(q), ReadByte(r), z) /\ ReadByte(q).v = ReadByte(r).v
<1>1. q.ok /\ q.sd # <<>> /\ r.ok
  BY ErrIs DEF ReadByte, Ahead
<1>2. q.sd \in Seq(Byte) /\ z \in Seq(Byte) /\ r.sd = q.sd \o z
  BY DEF Ahead, IsCursor
<1>3. r.sd # <<>> /\ Head(r.sd) = Head(q.sd) /\ 1 <= Len(q.sd)
  <2>1. 1 <= Len(q.sd)
    BY <1>1, <1>2
  <2> QED BY <1>1, <1>2, <2>1, JoinedIs
<1>4. Ahead(Drop(q, 1), Drop(r, 1), z)
  BY <1>3, DropAhead
<1>5. ReadByte(q) = With(Drop(q, 1), Head(q.sd)) /\ ReadByte(r) = With(Drop(r, 1), Head(q.sd))
  BY <1>1, <1>3 DEF ReadByte
<1> DEFINE a == Drop(q, 1)
           b == Drop(r, 1)
           h == Head(q.sd)
<1> HIDE DEF a, b, h
<1>6. Ahead(With(a, h), With(b, h), z) /\ With(a, h).v = h /\ With(b, h).v = h
  BY <1>4, WithAhead DEF a, b
<1> QED BY <1>5, <1>6 DEF a, b, h

\* The first reading succeeds, or the second one does without going into z.
Within(x, y, z) == x.ok \/ (y.ok /\ Len(y.sd) >= Len(z))

\* So is the same number, when either reading stays within them.
LEMMA NumberAhead ==
  ASSUME NEW q, NEW r, NEW z, Ahead(q, r, z), Within(ReadNumber(q), ReadNumber(r), z)
  PROVE  Ahead(ReadNumber(q), ReadNumber(r), z) /\ ReadNumber(q).v = ReadNumber(r).v
<1> DEFINE m == Following(Head(r.sd))
<1>1. q.sd \in Seq(Byte) /\ z \in Seq(Byte) /\ r.sd \in Seq(Byte) /\ r.sd = q.sd \o z /\ q.ok /\ r.ok
  BY DEF Ahead, IsCursor
<1>2. Len(r.sd) = Len(q.sd) + Len(z) /\ Len(z) \in Nat /\ Len(q.sd) \in Nat
  BY <1>1, JoinedIs
<1>3. m \in 0..8
  BY FollowingIs
<1>4. q.sd # <<>> => r.sd # <<>> /\ Head(r.sd) = Head(q.sd)
  BY <1>1, JoinedIs
<1> HIDE DEF m
<1>5. ~Err.ok
  BY ErrIs
<1>6. q.sd # <<>> /\ m < Len(q.sd)
  <2>1. CASE ReadNumber(q).ok
    <3>1. q.sd # <<>>
      BY <1>5, <2>1 DEF ReadNumber
    <3>2. ReadNumber(q) = NumberAfter(q, m)
      BY <1>1, <1>4, <3>1 DEF ReadNumber, m
    <3>3. ~(m >= Len(q.sd))
      BY <1>5, <2>1, <3>2 DEF NumberAfter
    <3> QED BY <1>2, <1>3, <3>1, <3>3
  <2>2. CASE ReadNumber(r).ok /\ Len(ReadNumber(r).sd) >= Len(z)
    <3>1. r.sd # <<>>
      BY <1>5, <2>2 DEF ReadNumber
    <3>2. ReadNumber(r) = NumberAfter(r, m)
      BY <1>1, <3>1 DEF ReadNumber, m
    <3>3. ~(m >= Len(r.sd))
      BY <1>5, <2>2, <3>2 DEF NumberAfter
    <3> DEFINE d == Drop(r, m + 1)
               w == NumberOf(SubSeq(r.sd, 1, m + 1), m)
    <3>4. ReadNumber(r) = With(d, w)
      BY <3>2, <3>3 DEF NumberAfter
    <3> HIDE DEF w
    <3>5. IsCursor(d) /\ (d.ok => Len(d.sd) = Len(r.sd) - (m + 1))
      <4>1. m + 1 \in Nat /\ IsCursor(r)
        BY <1>3 DEF Ahead
      <4> QED BY <4>1, DropIs
    <3> HIDE DEF d
    <3>6. With(d, w).ok => d.ok /\ With(d, w).sd = d.sd
      BY <3>5, WithIs
    <3>7. Len(r.sd) - (m + 1) >= Len(z)
      BY <2>2, <3>4, <3>5, <3>6
    <3>8. m + 1 <= Len(q.sd)
      BY <1>2, <1>3, <3>7
    <3>9. m < Len(q.sd)
      BY <1>2, <1>3, <3>8
    <3> QED BY <1>3, <3>9
  <2> QED BY <2>1, <2>2 DEF Within
<1> DEFINE n == m + 1
<1>7. n \in Nat /\ n <= Len(q.sd) /\ n <= Len(r.sd) /\ ~(m >= Len(q.sd)) /\ ~(m >= Len(r.sd))
  BY <1>2, <1>3, <1>6
<1> DEFINE w == NumberOf(SubSeq(q.sd, 1, n), m)
<1>8. SubSeq(q.sd, 1, n) = SubSeq(r.sd, 1, n) /\ Ahead(Drop(q, n), Drop(r, n), z)
  BY <1>7, DropAhead
<1>9. ReadNumber(q) = With(Drop(q, n), w) /\ ReadNumber(r) = With(Drop(r, n), w)
  <2>1. ReadNumber(q) = NumberAfter(q, m) /\ ReadNumber(r) = NumberAfter(r, m)
    BY <1>1, <1>4, <1>6 DEF ReadNumber, m
  <2> QED BY <1>7, <1>8, <2>1 DEF NumberAfter
<1> DEFINE a == Drop(q, n)
           b == Drop(r, n)
<1> HIDE DEF a, b, w
<1>10. Ahead(With(a, w), With(b, w), z) /\ With(a, w).v = w /\ With(b, w).v = w
  BY <1>8, WithAhead DEF a, b
<1> QED BY <1>9, <1>10 DEF a, b

\* So is the same 32-bit number.
LEMMA Number32Ahead ==
  ASSUME NEW q, NEW r, NEW z, Ahead(q, r, z), Within(ReadNumber32(q), ReadNumber32(r), z)
  PROVE  Ahead(ReadNumber32(q), ReadNumber32(r), z) /\ ReadNumber32(q).v = ReadNumber32(r).v
<1> DEFINE a == ReadNumber(q)
           b == ReadNumber(r)
<1>1. ReadNumber32(q) = (IF a.ok /\ a.v < Limit32 THEN a ELSE Err) /\ ReadNumber32(r) = (IF b.ok /\ b.v < Limit32 THEN b ELSE Err)
  BY DEF ReadNumber32, Small, Check
<1> HIDE DEF a, b
<1>2. Within(a, b, z) /\ ((a.ok /\ a.v < Limit32) \/ (b.ok /\ b.v < Limit32))
  BY <1>1, ErrIs DEF Within
<1>3. Ahead(a, b, z) /\ a.v = b.v
  BY <1>2, NumberAhead DEF a, b
<1> QED BY <1>1, <1>2, <1>3 DEF Ahead

\* In a run of readings that succeeds, every reading does, and each is behind the one before it.
LEMMA RunPasses ==
  ASSUME NEW V, NEW r, IsCursor(r), r.ok, NEW n \in Nat, NEW op, Reader(op, V), NEW g, Running(g, r, n, op, V),
         g[Bound(n, r)].ok
  PROVE  \A k \in 0..Bound(n, r) : Passed(g[k], g[Bound(n, r)]) /\ g[k].ok
<1> DEFINE m == Bound(n, r)
           T == {i \in 0..m : Passed(g[m - i], g[m])}
<1>1. m \in Nat
  BY BoundIs
<1>2. \A k \in 0..m : ReadSoFar(r, g[k], V, k)
  BY RunningIs
<1>3. \A k \in 0..m : IsCursor(g[k])
  BY <1>2 DEF ReadSoFar, Passed
<1>4. \A k \in 1..m : Passed(g[k - 1], g[k])
  <2> TAKE k \in 1..m
  <2> DEFINE c == g[k - 1]
             x == op[c]
  <2>1. ReadSoFar(r, c, V, k - 1)
    BY <1>1, <1>2
  <2>2. c \in Cursors(V) /\ (c.ok => Read(c, x) /\ (x.ok => x.v \in V)) /\ (c.ok => c.v \in Seq(V))
    BY <2>1 DEF ReadSoFar, Reader
  <2>3. g[k] = Turn(c, x)
    BY <2>2 DEF Running
  <2> HIDE DEF x, c
  <2>4. Passed(c, Turn(c, x))
    BY <2>2, TurnIs
  <2> QED BY <2>3, <2>4 DEF c
<1> HIDE DEF m
<1>5. 0 \in T
  <2>1. m - 0 = m /\ m \in 0..m /\ 0 \in 0..m
    BY <1>1
  <2>2. Passed(g[m], g[m])
    BY <1>3, <2>1, HereIsPassed
  <2> QED BY <2>1, <2>2
<1>6. ASSUME NEW i \in 0..m, i \in T, i < m PROVE i + 1 \in T
  <2>1. m - i \in 1..m /\ (m - i) - 1 = m - (i + 1) /\ m - (i + 1) \in 0..m /\ i + 1 \in 0..m
    BY <1>1, <1>6
  <2>2. Passed(g[m - (i + 1)], g[m - i]) /\ Passed(g[m - i], g[m]) /\ IsCursor(g[m - (i + 1)])
    BY <1>3, <1>4, <1>6, <2>1
  <2>3. Passed(g[m - (i + 1)], g[m])
    BY <2>2, Onward
  <2> QED BY <2>1, <2>3
<1> HIDE DEF T
<1>7. \A i \in 0..m : i \in T
  BY <1>1, <1>5, <1>6, Upwards
<1>8. ASSUME NEW k \in 0..m PROVE Passed(g[k], g[m]) /\ g[k].ok
  <2>1. m - k \in 0..m /\ m - (m - k) = k
    BY <1>1
  <2>2. Passed(g[k], g[m])
    BY <1>7, <2>1 DEF T
  <2> QED BY <2>2 DEF Passed, m
<1> QED BY <1>8 DEF m

-----------------------------------------------------------------------------
(* The counts of the folders, read again one at a time.                      *)

\* at[k]: the bytes that are left of them after k counts.
ReadAgain(at, s, n) ==
  \A k \in 1..n : \A c : IsCursor(c) /\ c.ok /\ c.sd = at[k - 1] =>
    ReadNumber32(c).ok /\ ReadNumber32(c).sd = at[k] /\ ReadNumber32(c).v = s[k]

\* The counts the header was checked with are read again from the bytes kept, one by one.
LEMMA CountsReadAgain ==
  ASSUME NEW n \in Nat, NEW t, IsCursor(t), t.ok, Repeat(n, t, ReadNumber32).ok
  PROVE  \E at : at[0] = Consumed(t, Repeat(n, t, ReadNumber32)) /\ ReadAgain(at, Repeat(n, t, ReadNumber32).v, n)
<1> DEFINE x == Repeat(n, t, ReadNumber32)
<1>1. PICK op : (\A c \in Cursors(Number32) : op[c] = ReadNumber32(c)) /\ Ran(t, n, op, Number32, x)
  BY Numbers32AreRun
<1> HIDE DEF x
<1>2. PICK g : Running(g, t, n, op, Number32) /\ x = g[Bound(n, t)]
  BY <1>1 DEF Ran
<1>3. Reader(op, Number32)
  BY <1>1 DEF Ran
<1>4. x.ok
  BY DEF x
<1>5. Bound(n, t) = n /\ ReadAll(t, x, Number32, n)
  BY <1>2, <1>3, <1>4, ReadingsAre
<1>6. \A k \in 0..n : Passed(g[k], x) /\ g[k].ok
  BY <1>2, <1>3, <1>4, <1>5, RunPasses
<1>7. \A k \in 0..n : ReadSoFar(t, g[k], Number32, k)
  BY <1>2, <1>3, <1>5, RunningIs
<1> DEFINE z == x.sd
           at == [k \in 0..n |-> CHOOSE p \in Seq(Byte) : g[k].sd = p \o z]
<1>8. z \in Seq(Byte)
  BY <1>5 DEF ReadAll, Passed, IsCursor
<1>9. ASSUME NEW k \in 0..n PROVE at[k] \in Seq(Byte) /\ g[k].sd = at[k] \o z
  <2>1. Passed(g[k], x)
    BY <1>6
  <2>2. \E p \in Seq(Byte) : g[k].sd = p \o z
    BY <1>4, <2>1 DEF Passed, IsRest
  <2> QED BY <2>2
<1> HIDE DEF at
<1>10. \A k \in 1..n : g[k] = Turn(g[k - 1], ReadNumber32(g[k - 1]))
  <2> TAKE k \in 1..n
  <2>1. k - 1 \in 0..n
    OBVIOUS
  <2>2. g[k - 1] \in Cursors(Number32)
    BY <1>7, <2>1 DEF ReadSoFar
  <2> QED BY <1>1, <1>2, <1>5, <2>2 DEF Running
<1>11. ASSUME NEW k \in 1..n
       PROVE /\ IsCursor(g[k - 1]) /\ g[k - 1].ok /\ ReadNumber32(g[k - 1]).ok /\ ReadNumber32(g[k - 1]).sd = g[k].sd
             /\ g[k].v = Append(g[k - 1].v, ReadNumber32(g[k - 1]).v) /\ g[k - 1].v \in Seq(Number32) /\ Len(g[k - 1].v) = k - 1
  <2> DEFINE c == g[k - 1]
             y == ReadNumber32(c)
             w == Append(c.v, y.v)
  <2>1. k - 1 \in 0..n /\ k \in 0..n
    OBVIOUS
  <2>2. IsCursor(c) /\ c.ok /\ c.v \in Seq(Number32) /\ Len(c.v) = k - 1
    BY <1>6, <1>7, <2>1 DEF ReadSoFar, Passed
  <2>3. g[k] = With(y, w) /\ g[k].ok
    BY <1>6, <1>10, <2>1, <2>2 DEF Turn, Item
  <2>4. IsCursor(y)
    BY <2>2, Number32Is
  <2> HIDE DEF c, y, w
  <2>5. With(y, w).ok = y.ok /\ (y.ok => With(y, w).v = w /\ With(y, w).sd = y.sd)
    BY <2>4, WithIs
  <2> QED BY <2>2, <2>3, <2>5 DEF c, y, w
<1>12. \A k \in 1..n : x.v[k] = ReadNumber32(g[k - 1]).v
  <2> DEFINE T == {k \in 0..n : \A j \in 1..k : g[k].v[j] = ReadNumber32(g[j - 1]).v}
  <2>1. 0 \in T
    OBVIOUS
  <2>2. ASSUME NEW k \in 0..n, k \in T, k < n PROVE k + 1 \in T
    <3>1. k + 1 \in 1..n /\ (k + 1) - 1 = k
      BY <2>2
    <3> DEFINE c == g[k].v
               e == ReadNumber32(g[k]).v
    <3>2. g[k + 1].v = Append(c, e) /\ c \in Seq(Number32) /\ Len(c) = k
      BY <1>11, <3>1
    <3>3. \A j \in 1..k : c[j] = ReadNumber32(g[j - 1]).v
      BY <2>2
    <3> HIDE DEF c
    <3>4. Append(c, e)[k + 1] = e /\ \A j \in 1..k : Append(c, e)[j] = c[j]
      BY <3>2
    <3> HIDE DEF e
    <3>5. ASSUME NEW j \in 1..k + 1 PROVE g[k + 1].v[j] = ReadNumber32(g[j - 1]).v
      <4>1. CASE j \in 1..k
        BY <3>2, <3>3, <3>4, <4>1
      <4>2. CASE j = k + 1
        <5>1. j - 1 = k
          BY <4>2
        <5> QED BY <3>2, <3>4, <4>2, <5>1 DEF e
      <4> QED BY <4>1, <4>2
    <3> QED BY <3>1, <3>5
  <2> HIDE DEF T
  <2>3. n \in T
    <3>1. \A k \in 0..n : k \in T
      BY <2>1, <2>2, Upwards
    <3> QED BY <3>1
  <2> QED BY <1>2, <1>5, <2>3 DEF T
<1>13. ASSUME NEW k \in 1..n, NEW c, IsCursor(c), c.ok, c.sd = at[k - 1]
       PROVE  ReadNumber32(c).ok /\ ReadNumber32(c).sd = at[k] /\ ReadNumber32(c).v = x.v[k]
  <2> DEFINE r == g[k - 1]
             y == ReadNumber32(r)
             p == ReadNumber32(c)
  <2>1. k - 1 \in 0..n /\ k \in 0..n
    OBVIOUS
  <2>2. Ahead(c, r, z)
    BY <1>8, <1>9, <1>11, <1>13, <2>1 DEF Ahead
  <2>3. y.ok /\ y.sd = at[k] \o z /\ at[k] \in Seq(Byte) /\ y.v = x.v[k]
    BY <1>9, <1>11, <1>12, <2>1
  <2> HIDE DEF r, y, p
  <2>4. Len(y.sd) >= Len(z)
    <3> DEFINE a == at[k]
               b == a \o z
    <3> a \in Seq(Byte)
      BY <2>3
    <3> HIDE DEF a
    <3>1. Len(b) = Len(a) + Len(z) /\ Len(a) \in Nat /\ Len(z) \in Nat
      BY <1>8, JoinedIs
    <3>2. y.sd = b
      BY <2>3 DEF a
    <3> HIDE DEF b, z
    <3> QED BY <3>1, <3>2
  <2>5. Ahead(p, y, z) /\ p.v = y.v
    BY <2>2, <2>3, <2>4, Number32Ahead DEF Within, y, p
  <2>6. p.sd \in Seq(Byte) /\ p.sd \o z = at[k] \o z /\ p.ok
    BY <2>3, <2>5 DEF Ahead, IsCursor
  <2>7. p.sd = at[k]
    BY <1>8, <2>3, <2>6, Cancelled
  <2> QED BY <2>3, <2>5, <2>6, <2>7 DEF p
<1>14. at[0] = Consumed(t, x)
  <2>1. Passed(t, x) /\ x.ok
    BY <1>4, <1>5 DEF ReadAll
  <2>2. Consumed(t, x) \in Seq(Byte) /\ t.sd = Consumed(t, x) \o z
    BY <2>1, ConsumedIs
  <2>3. g[0].sd = t.sd
    <3>1. g[0] = With(t, <<>>)
      BY <1>2 DEF Running
    <3> QED BY <3>1, BeginIs
  <2>4. 0 \in 0..n
    OBVIOUS
  <2>5. at[0] \in Seq(Byte) /\ at[0] \o z = Consumed(t, x) \o z
    BY <1>9, <2>2, <2>3, <2>4
  <2> QED BY <1>8, <2>2, <2>5, Cancelled
<1> HIDE DEF z
<1>15. at[0] = Consumed(t, x) /\ ReadAgain(at, x.v, n)
  BY <1>13, <1>14 DEF ReadAgain
<1> QED BY <1>15 DEF x

-----------------------------------------------------------------------------
(* The checksums: which are defined, and where their values are.             *)

BitAt(bits, i) == (bits[(i + 7) \div 8] \div 2^(7 - ((i - 1) % 8))) % 2 = 1
Defined(bits, d) == Cardinality({i \in 1..d : BitAt(bits, i)})
FlagSize(n) == (n + 7) \div 8
Flags(crcs, n) == SubSeq(crcs, 2, 1 + FlagSize(n))
Values(crcs, n) == SubSeq(crcs, 2 + FlagSize(n), Len(crcs))
\* After d of n checksums were handed out, v values were.
Valued(crcs, n, d, v) == v = IF crcs[1] # 0 THEN d ELSE Defined(Flags(crcs, n), d)

\* The bits of a vector are those of its bytes.
LEMMA BitsOfIs ==
  ASSUME NEW bytes, NEW n \in Nat
  PROVE  /\ \A i \in 1..n : BitsOf(bytes, n)[i] = BitAt(bytes, i)
         /\ CountDefinedBits(BitsOf(bytes, n)) = Defined(bytes, n)
<1>1. BitsOf(bytes, n) = [i \in 1..n |-> BitAt(bytes, i)]
  BY DEF BitsOf, BitAt
<1>2. CountDefinedBits([i \in 1..n |-> BitAt(bytes, i)]) = Defined(bytes, n)
  <2> DEFINE b == [i \in 1..n |-> BitAt(bytes, i)]
  <2>1. DOMAIN b = 1..n /\ \A i \in 1..n : b[i] = BitAt(bytes, i)
    OBVIOUS
  <2> HIDE DEF b
  <2>2. {i \in DOMAIN b : b[i]} = {i \in 1..n : BitAt(bytes, i)}
    BY <2>1
  <2> QED BY <2>2 DEF CountDefinedBits, Defined, b
<1> QED BY <1>1, <1>2

\* The numbers up to a bound are finitely many.
LEMMA FiniteUpTo ==
  ASSUME NEW n \in Nat
  PROVE  IsFiniteSet(1..n)
<1>1. 1 \in Int /\ n \in Int
  OBVIOUS
<1> QED BY <1>1, FS_Interval, Zenon

\* One entry more adds one defined entry when its bit is set.
LEMMA DefinedIs ==
  ASSUME NEW bits, NEW d \in Nat
  PROVE  /\ Defined(bits, d) \in Nat /\ Defined(bits, 0) = 0
         /\ Defined(bits, d + 1) = Defined(bits, d) + IF BitAt(bits, d + 1) THEN 1 ELSE 0
<1> DEFINE S(k) == {i \in 1..k : BitAt(bits, i)}
<1>1. IsFiniteSet(S(d)) /\ Cardinality(S(d)) \in Nat
  <2>1. S(d) \subseteq 1..d
    OBVIOUS
  <2> HIDE DEF S
  <2> QED BY <2>1, FiniteUpTo, FS_Subset, FS_CardinalityType
<1>2. Cardinality(S(0)) = 0
  <2>1. S(0) = {}
    OBVIOUS
  <2> HIDE DEF S
  <2> QED BY <2>1, FS_EmptySet
<1>3. CASE BitAt(bits, d + 1)
  <2>1. S(d + 1) = S(d) \cup {d + 1}
    BY <1>3
  <2>2. d + 1 \notin S(d)
    OBVIOUS
  <2> HIDE DEF S
  <2>3. Cardinality(S(d + 1)) = Cardinality(S(d)) + 1
    BY <1>1, <2>1, <2>2, FS_AddElement
  <2> QED BY <1>1, <1>2, <1>3, <2>3 DEF Defined, S
<1>4. CASE ~BitAt(bits, d + 1)
  <2>1. S(d + 1) = S(d)
    BY <1>4
  <2> HIDE DEF S
  <2> QED BY <1>1, <1>2, <1>4, <2>1 DEF Defined, S
<1> QED BY <1>3, <1>4

\* No fewer entries are defined among more of them.
LEMMA DefinedRises ==
  ASSUME NEW bits, NEW n \in Nat, NEW d \in 0..n
  PROVE  Defined(bits, d) <= Defined(bits, n) /\ Defined(bits, d) \in Nat /\ Defined(bits, n) \in Nat
<1> DEFINE S == {i \in 1..d : BitAt(bits, i)}
           T == {i \in 1..n : BitAt(bits, i)}
<1>1. S \subseteq T
  OBVIOUS
<1>2. T \subseteq 1..n
  OBVIOUS
<1> HIDE DEF S, T
<1>3. IsFiniteSet(T) /\ Cardinality(T) \in Nat
  BY <1>2, FiniteUpTo, FS_Subset, FS_CardinalityType
<1>4. Cardinality(S) <= Cardinality(T) /\ Cardinality(S) \in Nat
  BY <1>1, <1>3, FS_Subset, FS_CardinalityType
<1> QED BY <1>3, <1>4 DEF Defined, S, T

\* The bytes of n checksums: all of them, or a value for every bit that is set.
DigestBytes(crcs, n) ==
  /\ crcs \in Seq(Byte) /\ Len(crcs) >= 1
  /\ crcs[1] # 0 => Len(Tail(crcs)) = 4 * n
  /\ crcs[1] = 0 => Len(Flags(crcs, n)) = FlagSize(n) /\ Len(Values(crcs, n)) = 4 * Defined(Flags(crcs, n), n)

\* The bytes of a bit vector hold a bit for every entry.
LEMMA FlagSizeIs ==
  ASSUME NEW n \in Nat
  PROVE  FlagSize(n) \in Nat /\ n <= 8 * FlagSize(n) /\ \A i \in 1..n : (i + 7) \div 8 \in 1..FlagSize(n)
BY DEF FlagSize

\* The digests kept hold a value for every defined entry.
LEMMA DigestBytesAre ==
  ASSUME NEW n \in Nat, NEW crcs, crcs # None, AreDigests(crcs, n)
  PROVE  DigestBytes(crcs, n)
<1>1. PICK s : IsCursor(s) /\ SkipBitUi32s(s, n).ok /\ crcs = Consumed(s, SkipBitUi32s(s, n))
  BY DEF AreDigests
<1> DEFINE x == SkipBitUi32s(s, n)
           all == ReadByte(s)
           size == FlagSize(n)
           bits == Drop(all, size)
           L == Len(s.sd)
<1>2. IsCursor(all) /\ (all.ok => all.v \in Byte /\ s.sd # <<>> /\ all.v = Head(s.sd) /\ all.sd = Tail(s.sd))
  <2>1. IsCursor(all) /\ (all.ok => all.v \in Byte /\ s.sd # <<>> /\ all.v = Head(s.sd))
    BY <1>1, ByteIs
  <2>2. all.ok => all.sd = Tail(s.sd)
    <3> SUFFICES ASSUME all.ok PROVE all.sd = Tail(s.sd)
      OBVIOUS
    <3> DEFINE d == Drop(s, 1)
               h == Head(s.sd)
    <3>1. all = With(d, h)
      BY ErrIs DEF ReadByte
    <3>2. IsCursor(d) /\ (d.ok => d.sd = SubSeq(s.sd, 1 + 1, Len(s.sd)))
      BY <1>1, DropIs
    <3> HIDE DEF d, h, all
    <3>3. all.sd = d.sd /\ d.ok
      BY <3>1, <3>2, WithIs
    <3>4. s.sd \in Seq(Byte) /\ s.sd # <<>>
      BY <1>1, <2>1 DEF IsCursor
    <3>5. SubSeq(s.sd, 1 + 1, Len(s.sd)) = Tail(s.sd)
      BY <3>4
    <3> QED BY <3>2, <3>3, <3>5
  <2> QED BY <2>1, <2>2
<1>3. x = IF all.v # 0 THEN With(Drop(all, 4 * n), s.v)
          ELSE IF bits.ok THEN With(Drop(bits, 4 * Defined(all.sd, n)), s.v) ELSE Err
  BY BitsOfIs DEF SkipBitUi32s, SkipBits, SkipDefined, FlagSize
<1>4. size \in Nat /\ s.sd \in Seq(Byte) /\ L \in Nat
  BY <1>1, FlagSizeIs DEF IsCursor
<1>5. Defined(all.sd, n) \in Nat
  BY DefinedIs
<1> DEFINE count == Defined(all.sd, n)
<1> HIDE DEF count, size, all
<1>6. /\ all.ok
      /\ \/ all.v # 0 /\ 4 * n <= Len(all.sd) /\ Len(x.sd) = Len(all.sd) - 4 * n
         \/ all.v = 0 /\ size <= Len(all.sd) /\ 4 * count <= Len(all.sd) - size /\ Len(x.sd) = Len(all.sd) - size - 4 * count
  <2>0. x.ok /\ ~Err.ok
    BY <1>1, ErrIs
  <2>1. CASE all.v # 0
    <3> DEFINE d == Drop(all, 4 * n)
    <3>1. x = With(d, s.v)
      BY <1>3, <2>1
    <3>2. 4 * n \in Nat
      OBVIOUS
    <3>3. IsCursor(d) /\ (d.ok => all.ok /\ 4 * n <= Len(all.sd) /\ Len(d.sd) = Len(all.sd) - 4 * n)
      BY <1>2, <3>2, DropIs
    <3> HIDE DEF d, x
    <3>4. d.ok /\ x.sd = d.sd
      BY <2>0, <3>1, <3>3, WithIs
    <3> QED BY <2>1, <3>3, <3>4
  <2>2. CASE all.v = 0
    <3> DEFINE d == Drop(bits, 4 * count)
    <3>1. x = With(d, s.v) /\ bits.ok
      BY <1>3, <2>0, <2>2 DEF count
    <3>2. 4 * count \in Nat
      BY <1>5 DEF count
    <3>3. IsCursor(bits) /\ all.ok /\ size <= Len(all.sd) /\ Len(bits.sd) = Len(all.sd) - size
      BY <1>2, <1>4, <3>1, DropIs
    <3> HIDE DEF bits
    <3>4. IsCursor(d) /\ (d.ok => 4 * count <= Len(bits.sd) /\ Len(d.sd) = Len(bits.sd) - 4 * count)
      BY <3>2, <3>3, DropIs
    <3> HIDE DEF d, x
    <3>5. d.ok /\ x.sd = d.sd
      BY <2>0, <3>1, <3>4, WithIs
    <3> QED BY <2>2, <3>3, <3>4, <3>5
  <2> QED BY <2>1, <2>2
<1> DEFINE a == all.sd
           sd == s.sd
           k == L - Len(x.sd)
<1>7. a \in Seq(Byte) /\ Len(a) = L - 1 /\ L >= 1 /\ all.v = sd[1] /\ all.v \in Byte /\ \A i \in 1..L - 1 : a[i] = sd[i + 1]
  <2>1. a = Tail(sd) /\ sd # <<>> /\ all.v = Head(sd) /\ all.v \in Byte /\ sd \in Seq(Byte)
    BY <1>2, <1>4, <1>6
  <2> HIDE DEF a, sd
  <2>2. L = Len(sd)
    BY DEF sd
  <2> QED BY <2>1, <2>2
<1>8. crcs = SubSeq(sd, 1, k)
  BY <1>1 DEF Consumed
<1>9. k \in 1..L /\ (all.v # 0 => k = 1 + 4 * n) /\ (all.v = 0 => k = 1 + size + 4 * count)
  <2>1. Len(x.sd) \in Nat /\ Len(a) \in Nat
    <3>1. Passed(s, x)
      BY <1>1, SkipBitsIs
    <3>2. x.sd \in Seq(Byte)
      BY <3>1 DEF Passed, IsCursor
    <3> QED BY <1>7, <3>2
  <2>2. count \in Nat
    BY <1>5 DEF count
  <2> DEFINE lx == Len(x.sd)
             la == Len(a)
  <2>3. lx \in Nat /\ la \in Nat /\ la = L - 1 /\ L >= 1
        /\ \/ all.v # 0 /\ 4 * n <= la /\ lx = la - 4 * n
           \/ all.v = 0 /\ size <= la /\ 4 * count <= la - size /\ lx = la - size - 4 * count
    BY <1>6, <1>7, <2>1
  <2>4. k = L - lx
    OBVIOUS
  <2> HIDE DEF lx, la, k, L
  <2>5. L \in Nat /\ size \in Nat
    BY <1>4
  <2> QED BY <2>2, <2>3, <2>4, <2>5
<1> HIDE DEF k, x
<1>10. crcs \in Seq(Byte) /\ Len(crcs) = k /\ \A i \in 1..k : crcs[i] = sd[i]
  BY <1>4, <1>8, <1>9
<1>11. crcs[1] = all.v
  BY <1>7, <1>9, <1>10
<1>12. crcs[1] # 0 => Len(Tail(crcs)) = 4 * n
  <2>1. crcs # <<>> /\ Len(Tail(crcs)) = Len(crcs) - 1
    BY <1>9, <1>10
  <2> QED BY <1>9, <1>10, <1>11, <2>1
<1>13. ASSUME crcs[1] = 0 PROVE Len(Flags(crcs, n)) = FlagSize(n) /\ Len(Values(crcs, n)) = 4 * Defined(Flags(crcs, n), n)
  <2>1. k = 1 + size + 4 * count /\ size \in Nat /\ count \in Nat
    BY <1>4, <1>5, <1>9, <1>11, <1>13 DEF count
  <2> DEFINE f == SubSeq(crcs, 2, 1 + size)
             v == SubSeq(crcs, 2 + size, Len(crcs))
  <2>2. f \in Seq(Byte) /\ Len(f) = size /\ \A j \in 1..size : f[j] = crcs[j + 1]
    BY <1>10, <2>1
  <2>3. Len(v) = 4 * count
    BY <1>10, <2>1
  <2> HIDE DEF f, v
  <2>4. \A j \in 1..size : f[j] = a[j]
    <3> TAKE j \in 1..size
    <3>1. j + 1 \in 1..k /\ j \in 1..L - 1
      <4>1. k <= L /\ k \in Nat /\ L \in Nat
        BY <1>4, <1>9
      <4> QED BY <2>1, <4>1
    <3> QED BY <1>7, <1>10, <2>2, <3>1
  <2>5. \A i \in 1..n : BitAt(f, i) = BitAt(a, i)
    <3> TAKE i \in 1..n
    <3>1. (i + 7) \div 8 \in 1..size
      BY FlagSizeIs DEF size
    <3>2. f[(i + 7) \div 8] = a[(i + 7) \div 8]
      BY <2>4, <3>1
    <3> QED BY <3>2 DEF BitAt
  <2>6. {i \in 1..n : BitAt(f, i)} = {i \in 1..n : BitAt(a, i)}
    BY <2>5
  <2>7. Defined(f, n) = Defined(a, n)
    BY <2>6 DEF Defined
  <2>8. f = Flags(crcs, n) /\ v = Values(crcs, n)
    BY DEF f, v, Flags, Values, size
  <2> QED BY <2>2, <2>3, <2>7, <2>8 DEF size, count
<1> QED BY <1>9, <1>10, <1>12, <1>13 DEF DigestBytes

\* The next checksum of those counted is there.
LEMMA HandedOut ==
  ASSUME NEW n \in Nat, NEW crcs, crcs # None, AreDigests(crcs, n), NEW l, IsLay(l), ~l.overrun, l.digest \in Nat, l.digest < n,
         Valued(crcs, n, l.digest, l.value)
  PROVE  LET z == DigestIn(l, crcs, FlagSize(n)) IN ~z.overrun /\ z.digest = l.digest + 1 /\ Valued(crcs, n, l.digest + 1, z.value)
<1> DEFINE z == DigestIn(l, crcs, FlagSize(n))
           d == l.digest
           v == l.value
           bits == Flags(crcs, n)
           vals == Values(crcs, n)
<1>1. DigestBytes(crcs, n)
  BY DigestBytesAre
<1>2. LET y == NoDigest(l) IN ~y.overrun /\ y.digest = d + 1 /\ y.value = v
  BY DEF NoDigest, IsLay, LayFields
<1>3. \A x : LET y == [l EXCEPT !.crcs = Append(@, x), !.digest = @ + 1, !.value = @ + 1] IN
              ~y.overrun /\ y.digest = d + 1 /\ y.value = v + 1
  BY DEF IsLay, LayFields
<1>4. CASE crcs[1] # 0
  <2> DEFINE t == Tail(crcs)
             x == SubSeq(t, 4 * v + 1, 4 * v + 4)
             y == [l EXCEPT !.crcs = Append(@, x), !.digest = @ + 1, !.value = @ + 1]
  <2>1. v = d
    BY <1>4 DEF Valued
  <2>2. ~(4 * v + 4 > Len(t))
    <3>1. Len(t) = 4 * n
      BY <1>1, <1>4 DEF DigestBytes
    <3> QED BY <2>1, <3>1
  <2>3. z = y
    <3>1. z = NextDigest(l, TRUE, <<>>, t)
      BY <1>4 DEF DigestIn
    <3> QED BY <2>2, <3>1 DEF NextDigest
  <2>4. ~y.overrun /\ y.digest = d + 1 /\ y.value = v + 1
    BY <1>3
  <2> HIDE DEF y, z
  <2>5. Valued(crcs, n, d + 1, z.value)
    BY <1>4, <2>1, <2>3, <2>4 DEF Valued
  <2> QED BY <2>3, <2>4, <2>5 DEF z
<1>5. CASE crcs[1] = 0
  <2>1. Len(bits) = FlagSize(n) /\ Len(vals) = 4 * Defined(bits, n) /\ v = Defined(bits, d)
    BY <1>1, <1>5 DEF DigestBytes, Valued
  <2>2. n <= 8 * FlagSize(n) /\ FlagSize(n) \in Nat
    BY FlagSizeIs
  <2>3. Defined(bits, d + 1) = Defined(bits, d) + (IF BitAt(bits, d + 1) THEN 1 ELSE 0) /\ Defined(bits, d) \in Nat
    BY DefinedIs
  <2>4. Defined(bits, d + 1) <= Defined(bits, n) /\ Defined(bits, n) \in Nat
    <3>1. d + 1 \in 0..n
      OBVIOUS
    <3> QED BY <3>1, DefinedRises
  <2>5. z = NextDigest(l, FALSE, bits, vals)
    BY <1>5 DEF DigestIn, Flags, Values
  <2>6. BitsOf(bits, d + 1)[d + 1] = BitAt(bits, d + 1)
    <3>1. d + 1 \in Nat /\ d + 1 \in 1..d + 1
      OBVIOUS
    <3> QED BY <3>1, BitsOfIs
  <2>7. d < 8 * Len(bits)
    BY <2>1, <2>2
  <2> HIDE DEF bits, vals, z
  <2>8. CASE ~BitAt(bits, d + 1)
    <3>1. z = NoDigest(l)
      BY <2>5, <2>6, <2>7, <2>8 DEF NextDigest
    <3>2. Defined(bits, d + 1) = v
      BY <2>1, <2>3, <2>8
    <3> QED BY <1>2, <1>5, <3>1, <3>2 DEF Valued, z, bits
  <2>9. CASE BitAt(bits, d + 1)
    <3> DEFINE x == SubSeq(vals, 4 * v + 1, 4 * v + 4)
               y == [l EXCEPT !.crcs = Append(@, x), !.digest = @ + 1, !.value = @ + 1]
    <3>1. Defined(bits, d + 1) = v + 1 /\ v \in Nat
      BY <2>1, <2>3, <2>9
    <3>2. ~(4 * v + 4 > Len(vals))
      BY <2>1, <2>4, <3>1
    <3>3. z = y
      BY <2>5, <2>6, <2>7, <2>9, <3>2 DEF NextDigest
    <3>4. ~y.overrun /\ y.digest = d + 1 /\ y.value = v + 1
      BY <1>3
    <3> HIDE DEF y
    <3> QED BY <1>5, <3>1, <3>3, <3>4 DEF Valued, z, bits
  <2> QED BY <2>8, <2>9
<1> QED BY <1>1, <1>4, <1>5

-----------------------------------------------------------------------------
(* No more checksums are handed out than were counted.                       *)

\* What is known of the counts: s are those of the folders, and can be read again.
CountsFit(ssi, db, s, at) ==
  LET n == Len(db.folders) IN
  /\ s \in Seq(Nat) /\ Len(s) = n
  /\ ssi.counts = None => \A k \in 1..n : s[k] = 1
  /\ ssi.counts # None => at[0] = ssi.counts /\ ReadAgain(at, s, n)
  /\ ssi.crcs # None => ssi.digests \in Nat /\ ssi.digests = Total(OwnDigests(s, db)) /\ AreDigests(ssi.crcs, ssi.digests)

\* How many checksums are taken by the first entries: those of whole folders, and of the one entered.
Handed(l, own) == SumTo(own, l.fo - 1) + IF l.rem = 0 \/ own[l.fo] = 0 THEN 0 ELSE l.num - l.rem

Dealt(l, db, ssi, s, at) ==
  /\ ssi.counts # None => l.counts.ok /\ l.counts.sd = at[Len(l.first)]
  /\ l.rem # 0 => l.num = s[l.fo] /\ l.rem <= l.num
  /\ l.digest \in Nat /\ l.digest <= Handed(l, OwnDigests(s, db))
  /\ ssi.crcs # None => Valued(ssi.crcs, ssi.digests, l.digest, l.value)
  /\ ~l.overrun

\* Every folder brings its streams as digests of their own, but for the folder of one stream whose CRC is known.
LEMMA OwnIs ==
  ASSUME NEW db, NEW s \in Seq(Nat), Len(db.folders) \in Nat, Len(s) = Len(db.folders)
  PROVE  LET own == OwnDigests(s, db)
             n == Len(db.folders) IN
         /\ DOMAIN own = 1..n /\ Len(own) = n /\ Total(own) = SumTo(own, n)
         /\ \A k \in 1..n : /\ own[k] \in Nat /\ own[k] <= s[k]
                            /\ own[k] # 0 => own[k] = s[k]
                            /\ s[k] = 1 /\ FolderCrc(db, k) # None => own[k] = 0
                            /\ ~(s[k] = 1 /\ FolderCrc(db, k) # None) => own[k] = s[k]
         /\ \A k \in 0..n : SumTo(own, k) \in Nat /\ SumTo(own, k) <= SumTo(own, n)
         /\ \A k \in 0..n - 1 : SumTo(own, k + 1) = SumTo(own, k) + own[k + 1]
<1> DEFINE own == OwnDigests(s, db)
           n == Len(db.folders)
<1>1. own = [k \in 1..n |-> IF s[k] = 1 /\ FolderCrc(db, k) # None THEN 0 ELSE s[k]]
  BY DEF OwnDigests
<1>2. \A k \in 1..n : s[k] \in Nat
  OBVIOUS
<1> HIDE DEF own, n
<1>3. n \in Nat
  BY DEF n
<1>4. \A k \in 1..n : own[k] = IF s[k] = 1 /\ FolderCrc(db, k) # None THEN 0 ELSE s[k]
  BY <1>1
<1>5. DOMAIN own = 1..n /\ own \in Seq(Nat)
  <2>1. own \in [1..n -> Nat]
    BY <1>1, <1>2
  <2> QED BY <1>1, <1>3, <2>1
<1>6. Len(own) = n
  BY <1>3, <1>5
<1>7. \A k \in 1..n : own[k] \in Nat
  BY <1>2, <1>4
<1>8. /\ \A k \in 0..n : SumTo(own, k) \in Nat /\ SumTo(own, k) <= SumTo(own, n)
      /\ \A k \in 0..n - 1 : SumTo(own, k + 1) = SumTo(own, k) + own[k + 1]
  BY <1>3, <1>7, SumsRise
<1>9. Total(own) = SumTo(own, n)
  BY <1>6 DEF Total
<1>10. \A k \in 1..n : /\ own[k] \in Nat /\ own[k] <= s[k]
                       /\ own[k] # 0 => own[k] = s[k]
                       /\ s[k] = 1 /\ FolderCrc(db, k) # None => own[k] = 0
                       /\ ~(s[k] = 1 /\ FolderCrc(db, k) # None) => own[k] = s[k]
  BY <1>2, <1>4
<1> QED BY <1>5, <1>6, <1>8, <1>9, <1>10 DEF own, n

\* What was dealt out stays so when counts, folder and digests stay.
LEMMA DealtStays ==
  ASSUME NEW l, NEW y, NEW db, NEW ssi, NEW s, NEW at, Dealt(l, db, ssi, s, at), DigestsStay(l, y),
         y.counts = l.counts, y.fo = l.fo, y.rem = l.rem, y.first = l.first
  PROVE  Dealt(y, db, ssi, s, at)
<1>1. Handed(y, OwnDigests(s, db)) = Handed(l, OwnDigests(s, db))
  BY DEF Handed, DigestsStay
<1> QED BY <1>1 DEF Dealt, DigestsStay

\* Nothing was dealt out when the layout begins.
LEMMA BeganDealt ==
  ASSUME NEW db, Len(db.folders) \in Nat, NEW ssi, NEW s, NEW at, CountsFit(ssi, db, s, at), NEW sizes
  PROVE  Dealt(Began(Cursor(ssi.counts), sizes), db, ssi, s, at)
<1> DEFINE y == Began(Cursor(ssi.counts), sizes)
           own == OwnDigests(s, db)
<1>1. /\ IsLay(y) /\ y.fo = 1 /\ y.rem = 0 /\ y.counts = Cursor(ssi.counts) /\ y.digest = 0 /\ y.value = 0 /\ ~y.overrun
      /\ y.first = <<>>
  BY BeganIs
<1>2. Cursor(ssi.counts).ok /\ Cursor(ssi.counts).sd = ssi.counts
  BY DEF Cursor
<1>3. SumTo(own, 0) \in Nat
  <2>1. s \in Seq(Nat) /\ Len(s) = Len(db.folders) /\ 0 \in 0..Len(db.folders)
    BY DEF CountsFit
  <2> QED BY <2>1, OwnIs
<1> HIDE DEF y, own
<1>4. Handed(y, own) = SumTo(own, 0)
  <2>1. y.fo - 1 = 0
    BY <1>1
  <2>2. Handed(y, own) = SumTo(own, y.fo - 1) + 0
    BY <1>1 DEF Handed
  <2> QED BY <1>3, <2>1, <2>2
<1>5. ssi.crcs # None => Valued(ssi.crcs, ssi.digests, 0, 0)
  BY DefinedIs DEF Valued
<1>6. ssi.counts # None => at[0] = ssi.counts
  BY DEF CountsFit
<1>7. Len(y.first) = 0
  BY <1>1
<1>8. y.digest \in Nat /\ y.digest <= Handed(y, own)
  BY <1>1, <1>3, <1>4
<1>9. Dealt(y, db, ssi, s, at)
  BY <1>1, <1>2, <1>5, <1>6, <1>7, <1>8 DEF Dealt, own
<1> QED BY <1>9 DEF y

\* The count that an entry finds: 1, or the next one there is.
NextCount(l, ssi) == IF ssi.counts = None THEN With(l.counts, 1) ELSE ReadNumber32(l.counts)

\* The next count is a number.
LEMMA NextCountIs ==
  ASSUME NEW l, IsCursor(l.counts), NEW ssi
  PROVE  LET c == NextCount(l, ssi) IN IsCursor(c) /\ (c.ok => c.v \in Nat)
<1>1. CASE ssi.counts = None
  <2> DEFINE one == 1
  <2> HIDE DEF one
  <2>1. IsCursor(With(l.counts, one)) /\ (With(l.counts, one).ok => With(l.counts, one).v = one)
    BY WithIs
  <2> QED BY <1>1, <2>1 DEF NextCount, one
<1>2. CASE ssi.counts # None
  <2>1. IsCursor(ReadNumber32(l.counts)) /\ (ReadNumber32(l.counts).ok => ReadNumber32(l.counts).v \in Number32)
    BY Number32Is
  <2>2. \A x \in Number32 : x \in Nat
    BY WordIs DEF Number32
  <2> QED BY <1>2, <2>1, <2>2 DEF NextCount
<1> QED BY <1>1, <1>2

\* Entering a folder deals out the count it was checked with.
LEMMA EnterOneDealt ==
  ASSUME NEW l, NEW n \in Nat, NEW db, Len(db.folders) \in Nat, Laid(l, n + 1, n, db), l.rem = 0,
         NEW ssi, NEW s, NEW at, CountsFit(ssi, db, s, at), Dealt(l, db, ssi, s, at),
         EnterOne(l, n + 1, db, NextCount(l, ssi)).ok
  PROVE  Dealt(EnterOne(l, n + 1, db, NextCount(l, ssi)), db, ssi, s, at)
<1> DEFINE c == NextCount(l, ssi)
           y == EnterOne(l, n + 1, db, c)
           size == FolderUnpackSize(db, l.fo)
           own == OwnDigests(s, db)
           N == Len(db.folders)
<1>1. Typed(l, n + 1, n, db)
  BY DEF Laid
<1>2. ~(l.fo > N) /\ Entered(l, n + 1, c, size, y)
  <2>1. IsLay(l)
    BY <1>1 DEF Typed
  <2> QED BY <2>1, EnterOneIs
<1> HIDE DEF y, size, c
<1>3. /\ c.ok /\ y.first = Append(l.first, n + 1) /\ y.counts = c /\ y.num = c.v /\ y.rem = c.v
      /\ y.digest = l.digest /\ y.value = l.value /\ y.overrun = l.overrun
      /\ (c.v # 0 /\ y.fo = l.fo) \/ (c.v = 0 /\ y.fo = l.fo + 1)
  BY <1>2 DEF Entered
<1>4. /\ l.fo \in Nat \ {0} /\ l.fo <= N /\ l.first \in Seq(1..n + 1) /\ Len(l.first) = l.fo - 1 /\ IsCursor(l.counts)
      /\ N \in Nat
  BY <1>1, <1>2 DEF Typed
<1>5. Len(y.first) = l.fo
  <2>1. n + 1 \in 1..n + 1
    OBVIOUS
  <2>2. Len(y.first) = Len(l.first) + 1
    BY <1>3, <1>4, <2>1, AppendIs
  <2> QED BY <1>4, <2>2
<1>6. /\ s \in Seq(Nat) /\ Len(s) = N
      /\ ssi.counts = None => \A k \in 1..N : s[k] = 1
      /\ ssi.counts # None => at[0] = ssi.counts /\ ReadAgain(at, s, N)
  BY DEF CountsFit
<1>7. l.fo \in 1..N
  BY <1>4
<1>8. c.v = s[l.fo] /\ (ssi.counts # None => c.sd = at[l.fo])
  <2>1. CASE ssi.counts = None
    <3> DEFINE one == 1
    <3> HIDE DEF one
    <3>1. c = With(l.counts, one)
      BY <2>1 DEF c, NextCount, one
    <3>2. c.v = one
      BY <1>3, <1>4, <3>1, WithIs
    <3> QED BY <1>6, <1>7, <2>1, <3>2 DEF one
  <2>2. CASE ssi.counts # None
    <3>1. l.counts.ok /\ l.counts.sd = at[l.fo - 1]
      BY <1>4, <2>2 DEF Dealt
    <3>2. c = ReadNumber32(l.counts)
      BY <2>2 DEF c, NextCount
    <3> DEFINE q == l.counts
    <3> HIDE DEF q
    <3>3. ReadAgain(at, s, N) /\ IsCursor(q) /\ q.ok /\ q.sd = at[l.fo - 1]
      BY <1>4, <1>6, <2>2, <3>1 DEF q
    <3>4. ReadNumber32(q).ok /\ ReadNumber32(q).sd = at[l.fo] /\ ReadNumber32(q).v = s[l.fo]
      BY <1>7, <3>3 DEF ReadAgain
    <3> QED BY <2>2, <3>2, <3>4 DEF q
  <2> QED BY <2>1, <2>2
<1>9. /\ DOMAIN own = 1..N /\ \A k \in 1..N : own[k] \in Nat /\ own[k] <= s[k] /\ (own[k] # 0 => own[k] = s[k])
      /\ \A k \in 0..N : SumTo(own, k) \in Nat
      /\ \A k \in 0..N - 1 : SumTo(own, k + 1) = SumTo(own, k) + own[k + 1]
  BY <1>6, OwnIs
<1> HIDE DEF own, N
<1>10. s[l.fo] \in Nat
  BY <1>6, <1>7
<1>11. l.digest \in Nat /\ l.digest <= SumTo(own, l.fo - 1) /\ SumTo(own, l.fo - 1) \in Nat
  <2>1. Handed(l, own) = SumTo(own, l.fo - 1) + 0
    BY DEF Handed
  <2>2. l.fo - 1 \in 0..N
    BY <1>4
  <2>3. SumTo(own, l.fo - 1) \in Nat
    BY <1>9, <2>2
  <2>4. l.digest \in Nat /\ l.digest <= Handed(l, own)
    BY DEF Dealt, own
  <2> QED BY <2>1, <2>3, <2>4
<1>12. l.digest <= Handed(y, own)
  <2>1. CASE c.v # 0
    <3>1. y.fo = l.fo /\ y.rem = c.v /\ y.num = c.v /\ c.v \in Nat
      BY <1>3, <1>8, <1>10, <2>1
    <3>2. y.num - y.rem = 0
      BY <3>1
    <3>3. Handed(y, own) = SumTo(own, l.fo - 1) + IF y.rem = 0 \/ own[l.fo] = 0 THEN 0 ELSE y.num - y.rem
      BY <3>1 DEF Handed
    <3> QED BY <1>11, <3>2, <3>3
  <2>2. CASE c.v = 0
    <3>1. y.fo = l.fo + 1 /\ y.rem = 0
      BY <1>3, <2>2
    <3>2. Handed(y, own) = SumTo(own, y.fo - 1) + 0 /\ y.fo - 1 = l.fo
      BY <1>4, <3>1 DEF Handed
    <3>3. SumTo(own, (l.fo - 1) + 1) = SumTo(own, l.fo - 1) + own[(l.fo - 1) + 1]
      <4>1. l.fo - 1 \in 0..N - 1
        BY <1>4
      <4> QED BY <1>9, <4>1
    <3>4. (l.fo - 1) + 1 = l.fo /\ own[l.fo] \in Nat
      BY <1>4, <1>7, <1>9
    <3>5. SumTo(own, l.fo) = SumTo(own, l.fo - 1) + own[l.fo]
      BY <3>3, <3>4
    <3>6. Handed(y, own) = SumTo(own, l.fo - 1) + own[l.fo]
      <4>1. Handed(y, own) = SumTo(own, l.fo) + 0
        BY <3>2
      <4> DEFINE a == SumTo(own, l.fo - 1)
                 b == own[l.fo]
                 d == SumTo(own, l.fo)
      <4>2. d = a + b /\ a \in Nat /\ b \in Nat /\ Handed(y, own) = d + 0
        BY <1>11, <3>4, <3>5, <4>1
      <4> HIDE DEF a, b, d
      <4>3. Handed(y, own) = a + b
        BY <4>2
      <4> QED BY <4>3 DEF a, b
    <3> QED BY <1>11, <3>4, <3>6
  <2> QED BY <2>1, <2>2
<1>13. y.rem # 0 => y.num = s[y.fo] /\ y.rem <= y.num
  BY <1>3, <1>8, <1>10
<1>14. ssi.counts # None => y.counts.ok /\ y.counts.sd = at[Len(y.first)]
  BY <1>3, <1>5, <1>8
<1>15. (ssi.crcs # None => Valued(ssi.crcs, ssi.digests, l.digest, l.value)) /\ ~l.overrun
  BY DEF Dealt
<1> QED BY <1>3, <1>11, <1>12, <1>13, <1>14, <1>15 DEF Dealt, y, c, own

\* An entry ends the folder or leaves one stream less in it.
LEMMA EntryEndIs ==
  ASSUME NEW l, IsLay(l), NEW db, l.rem # 0
  PROVE  LET y == EntryEnd(FoundIn(l), db) IN
         /\ IsLay(y) /\ DigestsStay(l, y) /\ y.counts = l.counts /\ y.first = l.first
         /\ y.folderOf = Append(l.folderOf, l.fo)
         /\ (l.rem = 1 /\ y.rem = 0 /\ y.fo = l.fo + 1) \/ (l.rem # 1 /\ y.rem = l.rem - 1 /\ y.fo = l.fo)
<1> DEFINE m == FoundIn(l)
           y == EntryEnd(m, db)
<1>1. /\ IsLay(m) /\ m.fo = l.fo /\ m.rem = l.rem /\ m.counts = l.counts /\ m.first = l.first /\ DigestsStay(l, m)
      /\ m.folderOf = Append(l.folderOf, l.fo)
  BY FoundInIs
<1> HIDE DEF m
<1>2. CASE l.rem = 1
  <2> DEFINE size == FolderUnpackSize(db, m.fo)
             start == m.positions[m.first[m.fo]]
             z == LastEntry(m, size, start)
  <2>1. y = z
    BY <1>1, <1>2 DEF EntryEnd
  <2> HIDE DEF size, start
  <2>2. Ended(m, size, start, z)
    BY <1>1, LastEntryIs
  <2> HIDE DEF z, y
  <2>3. /\ IsLay(z) /\ z.fo = l.fo + 1 /\ z.rem = 0 /\ z.counts = l.counts /\ z.first = l.first /\ DigestsStay(l, z)
        /\ z.folderOf = m.folderOf
    BY <1>1, <2>2 DEF Ended, DigestsStay
  <2> QED BY <1>1, <1>2, <2>1, <2>3 DEF y, m
<1>3. CASE l.rem # 1
  <2> DEFINE v == ReadNumber(m.sizes)
             z == InnerEntry(m, v)
  <2>1. y = z
    BY <1>1, <1>3 DEF EntryEnd
  <2> HIDE DEF v
  <2>2. Inner(m, v, z)
    BY <1>1, InnerEntryIs
  <2> HIDE DEF z, y
  <2>3. /\ IsLay(z) /\ z.fo = l.fo /\ z.rem = l.rem - 1 /\ z.counts = l.counts /\ z.first = l.first /\ DigestsStay(l, z)
        /\ z.folderOf = m.folderOf
    BY <1>1, <2>2 DEF Inner, DigestsStay
  <2> QED BY <1>1, <1>3, <2>1, <2>3 DEF y, m
<1> QED BY <1>2, <1>3

\* What an entry takes of the checksums: one, if its folder has any of its own.
LEMMA DigestDealt ==
  ASSUME NEW l, NEW n, NEW m, NEW db, Len(db.folders) \in Nat, Typed(l, n, m, db), l.rem # 0,
         NEW ssi, NEW s, NEW at, CountsFit(ssi, db, s, at), Dealt(l, db, ssi, s, at),
         NEW y, IsLay(y), DigestsStay(l, y), y.counts = l.counts, y.first = l.first,
         (l.rem = 1 /\ y.rem = 0 /\ y.fo = l.fo + 1) \/ (l.rem # 1 /\ y.rem = l.rem - 1 /\ y.fo = l.fo)
  PROVE  Dealt(Digest(y, l.fo, db, ssi), db, ssi, s, at)
<1> DEFINE z == Digest(y, l.fo, db, ssi)
           own == OwnDigests(s, db)
           N == Len(db.folders)
           d == l.digest
<1>1. l.fo \in 1..N /\ l.rem \in Nat \ {0} /\ N \in Nat
  BY DEF Typed
<1>2. s \in Seq(Nat) /\ Len(s) = N
  BY DEF CountsFit
<1>3. /\ DOMAIN own = 1..N
      /\ \A k \in 1..N : /\ own[k] \in Nat /\ own[k] <= s[k] /\ (own[k] # 0 => own[k] = s[k])
                         /\ s[k] = 1 /\ FolderCrc(db, k) # None => own[k] = 0
                         /\ ~(s[k] = 1 /\ FolderCrc(db, k) # None) => own[k] = s[k]
      /\ \A k \in 0..N : SumTo(own, k) \in Nat /\ SumTo(own, k) <= SumTo(own, N)
      /\ \A k \in 0..N - 1 : SumTo(own, k + 1) = SumTo(own, k) + own[k + 1]
      /\ Total(own) = SumTo(own, N)
  BY <1>2, OwnIs
<1>4. EntryStays(y, z)
  BY DigestStays
<1>5. /\ z.num = l.num /\ z.rem = y.rem /\ z.fo = y.fo /\ z.counts = l.counts /\ z.first = l.first
      /\ y.digest = d /\ y.value = l.value /\ (y.overrun = l.overrun) /\ y.num = l.num
  BY <1>4 DEF EntryStays, DigestsStay
<1>6. /\ ssi.counts # None => l.counts.ok /\ l.counts.sd = at[Len(l.first)]
      /\ l.num = s[l.fo] /\ l.rem <= l.num
      /\ d \in Nat /\ d <= Handed(l, own)
      /\ ssi.crcs # None => Valued(ssi.crcs, ssi.digests, d, l.value)
      /\ ~l.overrun
  BY DEF Dealt
<1> DEFINE a == SumTo(own, l.fo - 1)
           o == own[l.fo]
           num == l.num
           rem == l.rem
<1> HIDE DEF z
<1>7. a \in Nat /\ o \in Nat /\ num \in Nat /\ rem \in Nat \ {0} /\ rem <= num /\ SumTo(own, l.fo) = a + o /\ a + o <= SumTo(own, N)
      /\ (o # 0 => o = num) /\ Handed(l, own) = a + IF o = 0 THEN 0 ELSE num - rem
  <2>1. l.fo - 1 \in 0..N - 1 /\ (l.fo - 1) + 1 = l.fo /\ l.fo - 1 \in 0..N /\ l.fo \in 0..N
    BY <1>1
  <2>2. SumTo(own, l.fo) = a + o
    BY <1>3, <2>1
  <2>3. num \in Nat
    BY <1>1, <1>2, <1>6
  <2>4. Handed(l, own) = a + IF o = 0 THEN 0 ELSE num - rem
    BY DEF Handed
  <2> QED BY <1>1, <1>3, <1>6, <2>1, <2>2, <2>3, <2>4
<1>8. Handed(z, own) = a + IF o = 0 THEN 0 ELSE num - (rem - 1)
  <2>1. CASE l.rem = 1
    <3>1. z.rem = 0 /\ z.fo = l.fo + 1
      BY <1>5, <2>1
    <3>2. Handed(z, own) = SumTo(own, z.fo - 1) + 0 /\ z.fo - 1 = l.fo
      BY <1>1, <3>1 DEF Handed
    <3>3. Handed(z, own) = SumTo(own, l.fo) + 0
      BY <3>2
    <3> DEFINE b == SumTo(own, l.fo)
    <3>4. Handed(z, own) = b + 0 /\ b = a + o /\ rem = 1
      BY <1>7, <2>1, <3>3
    <3> HIDE DEF b, a, o, num, rem
    <3>5. Handed(z, own) = a + o
      BY <1>7, <3>4
    <3>6. o = IF o = 0 THEN 0 ELSE num - (rem - 1)
      BY <1>7, <3>4
    <3> QED BY <3>5, <3>6
  <2>2. CASE l.rem # 1
    <3>1. z.rem = rem - 1 /\ z.fo = l.fo /\ z.num = num /\ z.rem # 0
      BY <1>1, <1>5, <2>2
    <3>2. Handed(z, own) = SumTo(own, l.fo - 1) + IF own[l.fo] = 0 THEN 0 ELSE num - (rem - 1)
      BY <3>1 DEF Handed
    <3> QED BY <3>2
  <2> QED BY <2>1, <2>2
<1>9. z.rem # 0 => z.num = s[z.fo] /\ z.rem <= z.num
  <2>1. z.rem # 0 => z.fo = l.fo /\ z.rem = rem - 1 /\ z.num = num
    BY <1>5
  <2>2. rem - 1 <= num
    BY <1>7
  <2> QED BY <1>6, <2>1, <2>2
<1>10. ssi.counts # None => z.counts.ok /\ z.counts.sd = at[Len(z.first)]
  BY <1>5, <1>6
<1>11. /\ z.digest \in Nat /\ z.digest <= Handed(z, own) /\ ~z.overrun
       /\ ssi.crcs # None => Valued(ssi.crcs, ssi.digests, z.digest, z.value)
  <2>1. d <= a + IF o = 0 THEN 0 ELSE num - (rem - 1)
    <3>1. d <= a + IF o = 0 THEN 0 ELSE num - rem
      BY <1>6, <1>7
    <3> HIDE DEF a, o, num, rem, d
    <3>2. d \in Nat
      BY <1>6 DEF d
    <3> QED BY <1>7, <3>1, <3>2
  <2>2. \A x : LET w == [y EXCEPT !.crcs = Append(@, x)] IN w.digest = y.digest /\ w.value = y.value /\ (w.overrun = y.overrun)
    BY DEF IsLay, LayFields
  <2>3. CASE l.num = 1 /\ FolderCrc(db, l.fo) # None
    <3> DEFINE x == FolderCrc(db, l.fo)
               w == [y EXCEPT !.crcs = Append(@, x)]
    <3>1. z = w
      BY <1>5, <2>3 DEF Digest, z
    <3> HIDE DEF x
    <3>2. w.digest = y.digest /\ w.value = y.value /\ (w.overrun = y.overrun)
      BY <2>2
    <3> HIDE DEF w
    <3> QED BY <1>5, <1>6, <1>8, <2>1, <3>1, <3>2
  <2>4. CASE ~(l.num = 1 /\ FolderCrc(db, l.fo) # None) /\ ssi.crcs = None
    <3> DEFINE w == [y EXCEPT !.crcs = Append(@, None)]
    <3>1. z = w
      BY <1>5, <2>4 DEF Digest, z
    <3>2. w.digest = y.digest /\ w.value = y.value /\ (w.overrun = y.overrun)
      BY <2>2
    <3> HIDE DEF w
    <3> QED BY <1>5, <1>6, <1>8, <2>1, <2>4, <3>1, <3>2
  <2>5. CASE ~(l.num = 1 /\ FolderCrc(db, l.fo) # None) /\ ssi.crcs # None
    <3> DEFINE k == ssi.digests
               w == DigestIn(y, ssi.crcs, FlagSize(k))
    <3>1. z = w
      BY <1>5, <2>5 DEF Digest, z, FlagSize
    <3>2. k \in Nat /\ k = SumTo(own, N) /\ AreDigests(ssi.crcs, k)
      BY <1>3, <2>5 DEF CountsFit
    <3>3. o = num
      BY <1>1, <1>3, <1>6, <2>5
    <3>4. d < k /\ d + 1 <= a + IF o = 0 THEN 0 ELSE num - (rem - 1)
      <4>1. d <= a + IF o = 0 THEN 0 ELSE num - rem
        BY <1>6, <1>7
      <4>2. a + o <= k
        BY <1>7, <3>2
      <4> HIDE DEF a, o, num, rem, d, k
      <4>3. d \in Nat
        BY <1>6 DEF d
      <4> QED BY <1>7, <3>2, <3>3, <4>1, <4>2, <4>3
    <3>5. ~y.overrun /\ y.digest \in Nat /\ y.digest < k /\ Valued(ssi.crcs, k, y.digest, y.value)
      BY <1>5, <1>6, <2>5, <3>4
    <3> HIDE DEF k
    <3>6. ~w.overrun /\ w.digest = y.digest + 1 /\ Valued(ssi.crcs, k, y.digest + 1, w.value)
      BY <2>5, <3>2, <3>5, HandedOut
    <3> HIDE DEF w
    <3>7. z.digest = d + 1 /\ d + 1 \in Nat
      BY <1>5, <1>6, <3>1, <3>6
    <3> QED BY <1>5, <1>8, <3>1, <3>4, <3>6, <3>7 DEF k
  <2> QED BY <2>3, <2>4, <2>5
<1> QED BY <1>9, <1>10, <1>11 DEF Dealt, z

-----------------------------------------------------------------------------
(* Between the entries of a folder there are none without one.               *)

Apart(l, m) ==
  \A j \in 1..m : l.folderOf[j] = 0 =>
    /\ l.rem # 0 => l.first[l.fo] > j
    /\ \A k \in 1..m : k > j /\ l.folderOf[k] # 0 => l.first[l.folderOf[k]] > j

\* Folders laid out apart stay so when the entries stay.
LEMMA ApartStays ==
  ASSUME NEW l, NEW m, Apart(l, m), NEW y,
         y.folderOf = l.folderOf, y.rem = l.rem, y.fo = l.fo, y.first = l.first
  PROVE  Apart(y, m)
BY DEF Apart

\* One more entry, in the folder that is entered if there is one.
LEMMA ApartOn ==
  ASSUME NEW l, NEW n \in Nat, Apart(l, n), l.folderOf \in Seq(Nat), Len(l.folderOf) = n, NEW e \in Nat,
         e = 0 => l.rem = 0, e # 0 => l.rem # 0 /\ e = l.fo,
         NEW y, y.folderOf = Append(l.folderOf, e), y.first = l.first, y.rem # 0 => l.rem # 0 /\ y.fo = l.fo
  PROVE  Apart(y, n + 1)
<1>1. y.folderOf[n + 1] = e /\ \A j \in 1..n : y.folderOf[j] = l.folderOf[j]
  BY AppendIs
<1>2. ASSUME NEW j \in 1..n + 1, y.folderOf[j] = 0, y.rem # 0 PROVE y.first[y.fo] > j
  <2>1. j \in 1..n
    BY <1>1, <1>2
  <2>2. l.first[l.fo] > j
    BY <1>1, <1>2, <2>1 DEF Apart
  <2> QED BY <1>2, <2>2
<1>3. ASSUME NEW j \in 1..n + 1, y.folderOf[j] = 0, NEW k \in 1..n + 1, k > j, y.folderOf[k] # 0
      PROVE  y.first[y.folderOf[k]] > j
  <2>1. j \in 1..n /\ l.folderOf[j] = 0
    BY <1>1, <1>3
  <2>2. CASE k \in 1..n
    BY <1>1, <1>3, <2>1, <2>2 DEF Apart
  <2>3. CASE k = n + 1
    <3>1. y.folderOf[k] = e
      BY <1>1, <2>3
    <3>2. l.first[l.fo] > j
      BY <1>3, <2>1, <3>1 DEF Apart
    <3> QED BY <1>3, <3>1, <3>2
  <2>4. k \in 1..n \/ k = n + 1
    OBVIOUS
  <2> QED BY <2>2, <2>3, <2>4
<1> QED BY <1>2, <1>3 DEF Apart

\* Entering a folder leaves the entries of other folders apart from it.
LEMMA EnterOneApart ==
  ASSUME NEW l, NEW n \in Nat, NEW db, Len(db.folders) \in Nat, Laid(l, n + 1, n, db), Apart(l, n), l.rem = 0,
         NEW c, EnterOne(l, n + 1, db, c).ok
  PROVE  Apart(EnterOne(l, n + 1, db, c), n)
<1> DEFINE size == FolderUnpackSize(db, l.fo)
           y == EnterOne(l, n + 1, db, c)
<1>1. Typed(l, n + 1, n, db) /\ IsLay(l)
  BY DEF Laid, Typed
<1>2. Entered(l, n + 1, c, size, y)
  BY <1>1, EnterOneIs
<1> HIDE DEF size, y
<1>3. y.first = Append(l.first, n + 1) /\ y.folderOf = l.folderOf /\ (y.rem # 0 => y.fo = l.fo)
  BY <1>2 DEF Entered
<1> DEFINE a == l.fo
           len == Len(l.first)
<1>4. l.first \in Seq(1..n + 1) /\ len = a - 1 /\ a \in Nat
  BY <1>1 DEF Typed
<1>5. len \in Nat /\ len + 1 = a
  <2>1. len \in Nat
    BY <1>4
  <2> HIDE DEF len, a
  <2> QED BY <1>4, <2>1
<1>6. /\ y.first[len + 1] = n + 1 /\ \A j \in 1..len : y.first[j] = l.first[j]
  <2>1. n + 1 \in 1..n + 1
    OBVIOUS
  <2> QED BY <1>3, <1>4, <2>1, AppendIs
<1> HIDE DEF len, a
<1>7. ASSUME NEW j \in 1..n, y.folderOf[j] = 0, y.rem # 0 PROVE y.first[y.fo] > j
  <2>1. y.fo = len + 1
    BY <1>3, <1>5, <1>7 DEF a
  <2> QED BY <1>6, <2>1
<1>8. ASSUME NEW j \in 1..n, y.folderOf[j] = 0, NEW k \in 1..n, k > j, y.folderOf[k] # 0
      PROVE  y.first[y.folderOf[k]] > j
  <2>1. Lies(l, k, db)
    BY DEF Laid
  <2>2. l.folderOf[k] \in 1..Len(l.first)
    BY <1>3, <1>8, <2>1 DEF Lies
  <2>3. l.first[l.folderOf[k]] > j
    BY <1>3, <1>8 DEF Apart
  <2> QED BY <1>3, <1>6, <2>2, <2>3 DEF len
<1> QED BY <1>7, <1>8 DEF Apart, y

-----------------------------------------------------------------------------
(* An entry is laid into a folder.                                           *)

\* Entering a folder leaves a layout.
LEMMA EnterOneLay ==
  ASSUME NEW l, IsLay(l), NEW i, NEW db, NEW c
  PROVE  IsLay(EnterOne(l, i, db, c))
<1> DEFINE m == [l EXCEPT !.first = Append(@, i), !.num = 0, !.rem = 0, !.counts = c]
           size == FolderUnpackSize(db, l.fo)
<1>1. IsLay(Refused(l)) /\ IsLay([l EXCEPT !.first = Append(@, i), !.num = c.v, !.rem = c.v, !.counts = c]) /\ IsLay(m)
  BY DEF Refused, IsLay, LayFields
<1> HIDE DEF m, size
<1>2. IsLay(PassFolder(m, size))
  BY <1>1 DEF PassFolder, IsLay, LayFields
<1> QED BY <1>1, <1>2 DEF EnterOne, m, size

\* What k folders tried leave: one that is entered, or all of them passed over.
Entering(y, k, n, db, ssi, s, at) ==
  /\ IsLay(y)
  /\ y.ok => Laid(y, n + 1, n, db) /\ Apart(y, n) /\ Dealt(y, db, ssi, s, at) /\ (y.rem # 0 \/ y.fo >= k + 1)

\* Entering one folder more, past an empty one, keeps the layout as it should be.
LEMMA EnteringGoesOn ==
  ASSUME NEW y, NEW k \in Nat, NEW n \in Nat, NEW db, Len(db.folders) \in Nat, GoodDb(db),
         NEW ssi, NEW s, NEW at, CountsFit(ssi, db, s, at), Entering(y, k, n, db, ssi, s, at), y.ok, y.rem = 0
  PROVE  Entering(EnterOne(y, n + 1, db, NextCount(y, ssi)), k + 1, n, db, ssi, s, at)
<1> DEFINE c == NextCount(y, ssi)
           z == EnterOne(y, n + 1, db, c)
<1>1. Laid(y, n + 1, n, db) /\ Apart(y, n) /\ Dealt(y, db, ssi, s, at) /\ y.fo >= k + 1
  BY DEF Entering
<1>2. Typed(y, n + 1, n, db) /\ IsCursor(y.counts)
  BY <1>1 DEF Laid, Typed
<1>3. c.ok => IsCursor(c) /\ c.v \in Nat
  BY <1>2, NextCountIs
<1>4. y.fo \in Nat
  BY <1>2 DEF Typed
<1>5. z.ok => Dealt(z, db, ssi, s, at) /\ Apart(z, n)
  BY <1>1, EnterOneDealt, EnterOneApart
<1> HIDE DEF c
<1>6. z.ok => Laid(z, n + 1, n, db) /\ (z.rem = 0 => z.fo = y.fo + 1)
  BY <1>1, <1>3, EnterOneLaid
<1> HIDE DEF z
<1> DEFINE a == y.fo
<1>7. a + 1 >= (k + 1) + 1
  <2>1. a \in Nat /\ a >= k + 1
    BY <1>1, <1>4
  <2> HIDE DEF a
  <2> QED BY <2>1
<1> HIDE DEF a
<1>8. z.ok /\ z.rem = 0 => z.fo = a + 1
  BY <1>6 DEF a
<1>10. IsLay(z)
  BY <1>2, EnterOneLay DEF Typed, z
<1>9. Entering(z, k + 1, n, db, ssi, s, at)
  BY <1>5, <1>6, <1>7, <1>8, <1>10 DEF Entering
<1> QED BY <1>9 DEF z, c

\* The next folder that has files is entered.
LEMMA EnterFolderIs ==
  ASSUME NEW l, NEW n \in Nat, NEW db, Len(db.folders) \in Nat, GoodDb(db), Laid(l, n + 1, n, db), Apart(l, n), l.rem = 0,
         NEW ssi, NEW s, NEW at, CountsFit(ssi, db, s, at), Dealt(l, db, ssi, s, at)
  PROVE  LET y == EnterFolder(l, n + 1, db, ssi) IN
         IsLay(y) /\ (y.ok => Laid(y, n + 1, n, db) /\ Apart(y, n) /\ Dealt(y, db, ssi, s, at) /\ y.rem # 0)
<1> DEFINE m == Len(db.folders) + 1
           i == n + 1
           g == CHOOSE f : f = [k \in 0..m |-> IF k = 0 THEN l ELSE IF ~f[k - 1].ok \/ f[k - 1].rem # 0 THEN f[k - 1] ELSE EnterOne(f[k - 1], i, db, NextCount(f[k - 1], ssi))]
<1>0. m \in Nat
  OBVIOUS
<1>1. EnterFolder(l, i, db, ssi) = g[m]
  BY DEF EnterFolder, Loop, NextCount
<1> HIDE DEF i
<1>2. PICK h : h = [k \in 0..m |-> IF k = 0 THEN l ELSE LoopTurn("enter", [i |-> i, db |-> db, ssi |-> ssi], h[k - 1], k)]
  <2> DEFINE p == [i |-> i, db |-> db, ssi |-> ssi]
             t == "enter"
  <2> HIDE DEF p, t, m
  <2>1. \E h : Runs(h, t, p, l, m)
    BY <1>0, LoopRuns
  <2> QED BY <2>1 DEF p, t, Runs
<1>3. h = [k \in 0..m |-> IF k = 0 THEN l ELSE IF ~h[k - 1].ok \/ h[k - 1].rem # 0 THEN h[k - 1] ELSE EnterOne(h[k - 1], i, db, NextCount(h[k - 1], ssi))]
  BY <1>2 DEF LoopTurn, NextCount
<1> HIDE DEF m
<1>4. g = [k \in 0..m |-> IF k = 0 THEN l ELSE IF ~g[k - 1].ok \/ g[k - 1].rem # 0 THEN g[k - 1] ELSE EnterOne(g[k - 1], i, db, NextCount(g[k - 1], ssi))]
  BY <1>3
<1> HIDE DEF g
<1> DEFINE E(y, k) == Entering(y, k, n, db, ssi, s, at)
           T == {k \in 0..m : E(g[k], k)}
<1>5. 0 \in T
  <2>1. 0 \in 0..m /\ 0 + 1 = 1
    BY <1>0
  <2>2. g[0] = l
    BY <1>4, <2>1
  <2>3. l.fo \in Nat \ {0}
    BY DEF Laid, Typed
  <2> DEFINE a == l.fo
  <2>4. a >= 0 + 1
    <3>1. a \in Nat \ {0}
      BY <2>3
    <3> HIDE DEF a
    <3> QED BY <3>1
  <2>5. E(l, 0)
    BY <2>4 DEF Entering, Laid, Typed
  <2> HIDE DEF E
  <2> QED BY <2>1, <2>2, <2>5
<1>6. ASSUME NEW k \in 0..m, k \in T, k < m PROVE k + 1 \in T
  <2> DEFINE y == g[k]
  <2>1. k + 1 \in 0..m /\ k + 1 # 0 /\ (k + 1) - 1 = k /\ k \in Nat
    BY <1>0, <1>6
  <2>2. g[k + 1] = IF ~y.ok \/ y.rem # 0 THEN y ELSE EnterOne(y, i, db, NextCount(y, ssi))
    BY <1>4, <2>1
  <2>3. E(y, k)
    BY <1>6
  <2> HIDE DEF y
  <2>4. CASE ~y.ok \/ y.rem # 0
    <3>1. E(y, k + 1)
      BY <2>3, <2>4 DEF Entering
    <3>2. g[k + 1] = y
      BY <2>2, <2>4
    <3> HIDE DEF E
    <3> QED BY <2>1, <3>1, <3>2
  <2>5. CASE ~(~y.ok \/ y.rem # 0)
    <3> DEFINE z == EnterOne(y, i, db, NextCount(y, ssi))
    <3>1. E(z, k + 1)
      BY <2>1, <2>3, <2>5, EnteringGoesOn DEF i
    <3>2. g[k + 1] = z
      BY <2>2, <2>5
    <3> HIDE DEF E, z
    <3> QED BY <2>1, <3>1, <3>2
  <2> QED BY <2>4, <2>5
<1>7. m \in T
  <2> HIDE DEF T
  <2>1. \A k \in 0..m : k \in T
    BY <1>0, <1>5, <1>6, Upwards
  <2> QED BY <1>0, <2>1
<1> DEFINE y == g[m]
<1>8. IsLay(y) /\ (y.ok => Laid(y, n + 1, n, db) /\ Apart(y, n) /\ Dealt(y, db, ssi, s, at) /\ (y.rem # 0 \/ y.fo >= m + 1))
  BY <1>7 DEF Entering
<1> HIDE DEF y
<1>9. y.ok => y.rem # 0
  <2> SUFFICES ASSUME y.ok PROVE y.rem # 0
    OBVIOUS
  <2> DEFINE a == y.fo
             b == Len(db.folders)
  <2>1. a \in Nat /\ a <= b + 1 /\ b \in Nat /\ m + 1 = b + 1 + 1
    BY <1>8 DEF Laid, Typed, m
  <2> HIDE DEF a, b
  <2>2. ~(a >= m + 1)
    BY <2>1
  <2> QED BY <1>8, <2>2 DEF a
<1> QED BY <1>1, <1>8, <1>9 DEF i, y

\* A layout stays as it should be when a digest is noted.
LEMMA LaidStays ==
  ASSUME NEW y, NEW z, EntryStays(y, z), NEW n, NEW m, NEW db, Laid(y, n, m, db)
  PROVE  Laid(z, n, m, db)
<1>1. Typed(z, n, m, db)
  BY DEF EntryStays, Laid, Typed
<1>2. Ordered(z)
  BY DEF EntryStays, Laid, Ordered
<1>3. \A j \in 1..m : Lies(z, j, db)
  <2> TAKE j \in 1..m
  <2>1. Lies(y, j, db)
    BY DEF Laid
  <2>2. End(z, j) = End(y, j)
    BY DEF End, EntryStays
  <2> QED BY <2>1, <2>2 DEF Lies, EntryStays
<1> QED BY <1>1, <1>2, <1>3 DEF Laid

\* n entries are laid.
Good(l, n, db, ssi, s, at) == Laid(l, n, n, db) /\ Apart(l, n) /\ Dealt(l, db, ssi, s, at)

\* An entry with a stream.
LEMMA StreamEntryIs ==
  ASSUME NEW l, NEW n \in Nat, NEW db, Len(db.folders) \in Nat, GoodDb(db),
         NEW ssi, NEW s, NEW at, CountsFit(ssi, db, s, at), Good(l, n, db, ssi, s, at)
  PROVE  LET x == StreamEntry(l, n + 1, db, ssi) IN IsLay(x) /\ (x.ok => Good(x, n + 1, db, ssi, s, at))
<1> DEFINE p == Positioned(l)
           e == IF p.rem = 0 THEN EnterFolder(p, n + 1, db, ssi) ELSE p
           y == EntryEnd(FoundIn(e), db)
           z == Digest(y, e.fo, db, ssi)
           x == StreamEntry(l, n + 1, db, ssi)
<1>1. x = IF e.ok THEN z ELSE e
  BY DEF StreamEntry, Placed, InFolder, Positioned, FoundIn
<1> HIDE DEF x
<1>3. IsLay(l) /\ Laid(l, n, n, db) /\ Apart(l, n) /\ Dealt(l, db, ssi, s, at)
  BY DEF Good, Laid, Typed
<1>4. /\ IsLay(p) /\ p.unpackPos = l.unpackPos /\ p.fo = l.fo /\ p.rem = l.rem /\ p.counts = l.counts /\ p.sizes = l.sizes
      /\ p.first = l.first /\ p.folderOf = l.folderOf /\ p.positions = Append(l.positions, l.unpackPos) /\ DigestsStay(l, p)
  BY <1>3, PositionedIs
<1> HIDE DEF p
<1>5. Laid(p, n + 1, n, db)
  BY <1>3, <1>4, PositionedLaid
<1>6. Dealt(p, db, ssi, s, at) /\ Apart(p, n)
  BY <1>3, <1>4, DealtStays, ApartStays
<1>17. IsLay(e) /\ (e.ok => Laid(e, n + 1, n, db) /\ Apart(e, n) /\ Dealt(e, db, ssi, s, at) /\ e.rem # 0)
  <2>1. CASE p.rem = 0
    <3>1. e = EnterFolder(p, n + 1, db, ssi)
      BY <2>1
    <3> HIDE DEF e
    <3> QED BY <1>5, <1>6, <2>1, <3>1, EnterFolderIs
  <2>2. CASE p.rem # 0
    <3>1. e = p
      BY <2>2
    <3> HIDE DEF e
    <3> QED BY <1>4, <1>5, <1>6, <2>2, <3>1
  <2> QED BY <2>1, <2>2
<1> HIDE DEF e
<1>18. CASE ~e.ok
  <2>1. x = e
    BY <1>1, <1>18
  <2> QED BY <1>17, <1>18, <2>1 DEF x
<1>19. CASE e.ok
  <2>1. x = z
    BY <1>1, <1>19
  <2>2. Laid(e, n + 1, n, db) /\ Apart(e, n) /\ Dealt(e, db, ssi, s, at) /\ e.rem # 0
    BY <1>17, <1>19
  <2>3. Typed(e, n + 1, n, db) /\ IsLay(e)
    BY <2>2 DEF Laid, Typed
  <2>4. /\ IsLay(y) /\ DigestsStay(e, y) /\ y.counts = e.counts /\ y.first = e.first
        /\ y.folderOf = Append(e.folderOf, e.fo)
        /\ (e.rem = 1 /\ y.rem = 0 /\ y.fo = e.fo + 1) \/ (e.rem # 1 /\ y.rem = e.rem - 1 /\ y.fo = e.fo)
    BY <2>2, <2>3, EntryEndIs
  <2>5. EntryStays(y, z)
    <3> HIDE DEF y
    <3> QED BY <2>4, DigestStays
  <2>6. y.ok => Laid(y, n + 1, n + 1, db)
    BY <2>2, EntryEndLaid
  <2> HIDE DEF y
  <2>7. Dealt(z, db, ssi, s, at)
    BY <2>2, <2>3, <2>4, DigestDealt
  <2>8. Apart(y, n + 1)
    <3>1. e.folderOf \in Seq(Nat) /\ Len(e.folderOf) = n /\ e.fo \in Nat /\ e.fo # 0
      BY <2>3 DEF Typed
    <3>2. y.rem # 0 => e.rem # 0 /\ y.fo = e.fo
      BY <2>2, <2>4
    <3> DEFINE fo == e.fo
    <3>3. /\ fo \in Nat /\ (fo = 0 => e.rem = 0) /\ (fo # 0 => e.rem # 0 /\ fo = e.fo)
          /\ y.folderOf = Append(e.folderOf, fo)
      BY <2>2, <2>4, <3>1
    <3> HIDE DEF fo
    <3> QED BY <2>2, <2>4, <3>1, <3>2, <3>3, ApartOn
  <2> HIDE DEF z
  <2>9. z.ok => Laid(z, n + 1, n + 1, db)
    BY <2>5, <2>6, LaidStays DEF EntryStays
  <2>10. IsLay(z) /\ Apart(z, n + 1)
    BY <2>5, <2>8, ApartStays DEF EntryStays
  <2> QED BY <2>1, <2>7, <2>9, <2>10 DEF x, Good
<1> QED BY <1>18, <1>19

\* An entry of any kind.
LEMMA EntryAtIs ==
  ASSUME NEW l, NEW n \in Nat, NEW db, Len(db.folders) \in Nat, GoodDb(db),
         NEW ssi, NEW s, NEW at, CountsFit(ssi, db, s, at), Good(l, n, db, ssi, s, at), NEW files
  PROVE  LET x == EntryAt(l, n + 1, files, db, ssi) IN IsLay(x) /\ (x.ok => Good(x, n + 1, db, ssi, s, at))
<1> DEFINE x == EntryAt(l, n + 1, files, db, ssi)
           y == EmptyEntry(l, n + 1, files)
           z == StreamEntry(l, n + 1, db, ssi)
<1>1. x = y \/ x = z
  BY DEF EntryAt
<1>2. IsLay(z) /\ (z.ok => Good(z, n + 1, db, ssi, s, at))
  BY StreamEntryIs
<1>3. IsLay(y) /\ Good(y, n + 1, db, ssi, s, at)
  <2>1. IsLay(l) /\ Laid(l, n, n, db) /\ Apart(l, n) /\ Dealt(l, db, ssi, s, at)
    BY DEF Good, Laid, Typed
  <2>2. IsLay(y) /\ DigestsStay(l, y) /\ y.counts = l.counts /\ y.fo = l.fo /\ y.rem = l.rem /\ y.first = l.first
    BY <2>1, EmptyEntryIs
  <2>3. Laid(y, n + 1, n + 1, db)
    BY <2>1, EmptyEntryLaid
  <2> DEFINE e == IF l.rem = 0 THEN 0 ELSE l.fo
  <2>5. y.folderOf = Append(l.folderOf, e)
    BY <2>1, EmptyEntryIs
  <2> HIDE DEF y
  <2>6. l.folderOf \in Seq(Nat) /\ Len(l.folderOf) = n /\ l.fo \in Nat /\ l.fo # 0
    BY <2>1 DEF Laid, Typed
  <2>7. e \in Nat /\ (e = 0 => l.rem = 0) /\ (e # 0 => l.rem # 0 /\ e = l.fo)
    BY <2>6
  <2> HIDE DEF e
  <2>8. Apart(y, n + 1)
    BY <2>1, <2>2, <2>5, <2>6, <2>7, ApartOn
  <2>4. Dealt(y, db, ssi, s, at)
    BY <2>1, <2>2, DealtStays
  <2> QED BY <2>2, <2>3, <2>4, <2>8 DEF Good
<1> HIDE DEF y, z, x
<1>4. IsLay(x) /\ (x.ok => Good(x, n + 1, db, ssi, s, at))
  BY <1>1, <1>2, <1>3
<1> QED BY <1>4 DEF x

\* What is laid when every entry is.
Filled(l, files, n, db, ssi, s, at) ==
  /\ Layout(files, db, ssi) = LeftOver(l, n, db, ssi)
  /\ IsLay(l) /\ (l.ok => Good(l, n, db, ssi, s, at))

\* The loop of SzReadHeader2 lays out every entry as it should be.
LEMMA LayoutIs ==
  ASSUME NEW db, Len(db.folders) \in Nat, GoodDb(db), NEW ssi, NEW s, NEW at, CountsFit(ssi, db, s, at),
         ssi.counts \in Seq(Byte), ssi.sizes \in Seq(Byte), NEW files, NEW n \in Nat, files.n = n
  PROVE  \E l : Filled(l, files, n, db, ssi, s, at)
<1> DEFINE z == Cursor(ssi.sizes)
           b == Began(Cursor(ssi.counts), z)
           g == CHOOSE f : f = [k \in 0..n |-> IF k = 0 THEN b ELSE IF f[k - 1].ok THEN EntryAt(f[k - 1], k, files, db, ssi) ELSE f[k - 1]]
<1>1. Layout(files, db, ssi) = LeftOver(g[n], n, db, ssi)
  BY DEF Layout, Fold, Began
<1>2. Laid(b, 0, 0, db) /\ Dealt(b, db, ssi, s, at) /\ Apart(b, 0)
  <2>1. IsCursor(Cursor(ssi.counts)) /\ IsCursor(z)
    BY DEF IsCursor, Cursor
  <2> HIDE DEF z
  <2>2. Apart(b, 0)
    BY DEF Apart
  <2> QED BY <2>1, <2>2, BeganLaid, BeganDealt
<1> HIDE DEF b
<1>3. PICK h : h = [k \in 0..n |-> IF k = 0 THEN b ELSE LoopTurn("layout", [files |-> files, db |-> db, ssi |-> ssi], h[k - 1], k)]
  <2> DEFINE p == [files |-> files, db |-> db, ssi |-> ssi]
             t == "layout"
  <2> HIDE DEF p, t
  <2>1. \E h : Runs(h, t, p, b, n)
    BY LoopRuns
  <2> QED BY <2>1 DEF p, t, Runs
<1>4. h = [k \in 0..n |-> IF k = 0 THEN b ELSE IF h[k - 1].ok THEN EntryAt(h[k - 1], k, files, db, ssi) ELSE h[k - 1]]
  BY <1>3 DEF LoopTurn
<1>5. g = [k \in 0..n |-> IF k = 0 THEN b ELSE IF g[k - 1].ok THEN EntryAt(g[k - 1], k, files, db, ssi) ELSE g[k - 1]]
  BY <1>4
<1> HIDE DEF g
<1> DEFINE G(y, k) == IsLay(y) /\ (y.ok => Good(y, k, db, ssi, s, at))
           T == {k \in 0..n : G(g[k], k)}
<1>6. 0 \in T
  <2>1. 0 \in 0..n /\ g[0] = b
    BY <1>5
  <2>2. Good(b, 0, db, ssi, s, at)
    BY <1>2 DEF Good
  <2>3. IsLay(b)
    BY <1>2 DEF Laid, Typed
  <2> QED BY <2>1, <2>2, <2>3
<1>7. ASSUME NEW k \in 0..n, k \in T, k < n PROVE k + 1 \in T
  <2> DEFINE y == g[k]
             x == EntryAt(y, k + 1, files, db, ssi)
  <2>1. k + 1 \in 0..n /\ k + 1 # 0 /\ (k + 1) - 1 = k /\ k \in Nat
    BY <1>7
  <2>2. g[k + 1] = IF y.ok THEN x ELSE y
    BY <1>5, <2>1
  <2>3. G(y, k)
    BY <1>7
  <2> HIDE DEF y
  <2>4. y.ok => IsLay(x) /\ (x.ok => Good(x, k + 1, db, ssi, s, at))
    BY <2>1, <2>3, EntryAtIs
  <2>5. G(g[k + 1], k + 1)
    BY <2>2, <2>3, <2>4
  <2> HIDE DEF G
  <2> QED BY <2>1, <2>5
<1>8. n \in T
  <2> HIDE DEF T
  <2>1. \A k \in 0..n : k \in T
    BY <1>6, <1>7, Upwards
  <2> QED BY <2>1
<1>9. Filled(g[n], files, n, db, ssi, s, at)
  BY <1>1, <1>8 DEF Filled
<1> QED BY <1>9

\* The last entry ends where what is laid ends, and folders that are left over have no entries.
Closed(l, n, db, y) ==
  /\ y.ok => l.ok /\ l.rem = 0
  /\ y.positions = Append(l.positions, l.unpackPos) /\ y.folderOf = l.folderOf /\ y.overrun = l.overrun
  /\ \A fo \in 1..Len(db.folders) + 1 : y.first[fo] = IF fo < l.fo THEN l.first[fo] ELSE n + 1

\* What the code checks behind the loop closes the layout.
LEMMA LeftOverIs ==
  ASSUME NEW l, NEW n, NEW db, Len(db.folders) \in Nat, NEW ssi, IsLay(l)
  PROVE  Closed(l, n, db, LeftOver(l, n, db, ssi))
<1> DEFINE rest == Repeat(Len(db.folders) + 1 - l.fo, l.counts, ReadNumber32)
           y == LeftAll(l, n, db, ssi, rest)
<1>1. LeftOver(l, n, db, ssi) = y
  BY DEF LeftOver
<1> HIDE DEF rest
<1>2. Closed(l, n, db, y)
  <2> DEFINE ok == /\ l.ok /\ l.rem = 0
                   /\ l.fo > Len(db.folders) \/ ssi.counts # None
                   /\ ssi.counts # None => rest.ok /\ rest.sd = <<>> /\ \A k \in DOMAIN rest.v : rest.v[k] = 0
             first == [fo \in 1..Len(db.folders) + 1 |-> IF fo < l.fo THEN l.first[fo] ELSE n + 1]
  <2>1. y = [l EXCEPT !.ok = ok, !.positions = Append(@, l.unpackPos), !.first = first]
    BY DEF LeftAll
  <2>2. ok => l.ok /\ l.rem = 0
    OBVIOUS
  <2>3. \A fo \in 1..Len(db.folders) + 1 : first[fo] = IF fo < l.fo THEN l.first[fo] ELSE n + 1
    OBVIOUS
  <2> HIDE DEF ok, first, y
  <2>4. y.ok = ok /\ y.positions = Append(l.positions, l.unpackPos) /\ y.folderOf = l.folderOf /\ (y.overrun = l.overrun) /\ y.first = first
    BY <2>1 DEF IsLay, LayFields
  <2> QED BY <2>2, <2>3, <2>4 DEF Closed
<1> QED BY <1>1, <1>2

\* The counts of a header fit its folders.
LEMMA CountsFitIs ==
  ASSUME NEW db, Len(db.folders) \in Nat, NEW ssi, GoodSub(ssi, db)
  PROVE  ssi.counts \in Seq(Byte) /\ ssi.sizes \in Seq(Byte) /\ \E s, at : CountsFit(ssi, db, s, at)
<1> DEFINE n == Len(db.folders)
<1>0. <<>> \in Seq(Byte) /\ None = <<>>
  BY DEF None
<1>1. CASE GoodSubStreams(ssi, db)
  <2>1. ssi.counts \in Seq(Byte) /\ ssi.sizes \in Seq(Byte) /\ AreDigests(ssi.crcs, ssi.digests) /\ ssi.digests \in Nat
    BY <1>1 DEF GoodSubStreams, Counted
  <2>2. PICK s : CountsAre(ssi.counts, s, n) /\ ssi.digests = Total(OwnDigests(s, db))
    BY <1>1 DEF GoodSubStreams, Counted
  <2> DEFINE C == ssi.counts
  <2>3. s \in Seq(Nat) /\ Len(s) = n
    <3>1. s \in Seq(Number32 \cup {1}) /\ Len(s) = n
      BY <2>2 DEF CountsAre
    <3>2. Number32 \cup {1} \subseteq Nat
      BY WordIs DEF Number32
    <3> DEFINE S == Number32 \cup {1}
    <3> HIDE DEF S
    <3>3. s \in Seq(S) /\ Len(s) = n /\ n \in Nat /\ S \subseteq Nat
      BY <3>1, <3>2 DEF S
    <3> HIDE DEF n
    <3>4. \A k \in 1..n : s[k] \in Nat
      <4> TAKE k \in 1..n
      <4>1. s[k] \in S
        BY <3>3, ElementOfSeq
      <4> QED BY <3>3, <4>1
    <3>5. s = [k \in 1..n |-> s[k]]
      BY <3>3
    <3>6. s \in Seq(Nat)
      BY <3>3, <3>4, <3>5
    <3> QED BY <3>3, <3>6
  <2> HIDE DEF n
  <2>4. CASE C = None /\ s = [fo \in 1..n |-> 1]
    <3>1. CountsFit(ssi, db, s, <<>>)
      BY <2>1, <2>2, <2>3, <2>4 DEF CountsFit, n
    <3> QED BY <2>1, <3>1
  <2>5. CASE \E t : /\ IsCursor(t) /\ t.ok /\ Repeat(n, t, ReadNumber32).ok
                    /\ s = Repeat(n, t, ReadNumber32).v /\ C = Consumed(t, Repeat(n, t, ReadNumber32))
    <3> DEFINE x(t) == Repeat(n, t, ReadNumber32)
    <3>1. PICK t : IsCursor(t) /\ t.ok /\ x(t).ok /\ s = x(t).v /\ C = Consumed(t, x(t))
      BY <2>5
    <3>2. n \in Nat
      BY DEF n
    <3>3. PICK at : at[0] = C /\ ReadAgain(at, s, n)
      BY <3>1, <3>2, CountsReadAgain
    <3>4. C = None => \A k \in 1..n : s[k] = 1
      <4> SUFFICES ASSUME C = None PROVE n = 0
        OBVIOUS
      <4> DEFINE y == x(t)
                 a == Len(t.sd)
                 b == Len(y.sd)
      <4>1. ReadAll(t, y, Number32, n)
        BY <3>1, <3>2, Numbers32Are
      <4>2. Passed(t, y) /\ y.ok /\ C = Consumed(t, y)
        BY <3>1, <4>1 DEF ReadAll
      <4>3. b + n <= a
        BY <3>1, <4>1 DEF ReadAll
      <4> HIDE DEF y
      <4>4. t.sd = C \o y.sd
        BY <3>1, <4>2, ConsumedIs
      <4>5. y.sd \in Seq(Byte)
        BY <4>2 DEF Passed, IsCursor
      <4>6. t.sd = y.sd
        <5> DEFINE z == y.sd
        <5>1. z \in Seq(Byte) /\ t.sd = <<>> \o z
          BY <4>4, <4>5, <1>0
        <5> HIDE DEF z
        <5>2. <<>> \o z = z
          BY <5>1
        <5> QED BY <5>1, <5>2 DEF z
      <4>7. a = b /\ b \in Nat
        <5>1. a = b
          BY <4>6
        <5> QED BY <4>5, <5>1
      <4> HIDE DEF a, b
      <4> QED BY <3>2, <4>3, <4>7
    <3>5. CountsFit(ssi, db, s, at)
      BY <2>1, <2>2, <2>3, <3>3, <3>4 DEF CountsFit, n
    <3> QED BY <2>1, <3>5
  <2> QED BY <2>2, <2>4, <2>5 DEF CountsAre
<1>2. CASE ssi = NoSubStreams(db)
  <2>1. ssi.counts = <<>> /\ ssi.sizes = <<>> /\ ssi.crcs = <<>>
    BY <1>0, <1>2 DEF NoSubStreams
  <2> DEFINE s == [k \in 1..n |-> 1]
  <2>2. s \in Seq(Nat) /\ Len(s) = n /\ \A k \in 1..n : s[k] = 1
    OBVIOUS
  <2> HIDE DEF s
  <2>3. CountsFit(ssi, db, s, <<>>)
    BY <1>0, <2>1, <2>2 DEF CountsFit
  <2> QED BY <1>0, <2>1, <2>3
<1> QED BY <1>1, <1>2 DEF GoodSub

-----------------------------------------------------------------------------
(* Where the files of an archive lie.                                        *)

\* A layout as the tables hold it: l, closed.
Tables7z(y, n, db) ==
  \E l, ssi, s, at : /\ Good(l, n, db, ssi, s, at) /\ Closed(l, n, db, y) /\ l.rem = 0

\* The tables of an archive laid out are those the invariant speaks of.
LEMMA LaidOut ==
  ASSUME NEW n, NEW y, NEW db, GoodDb(db), IsLaid(n, y, db)
  PROVE  n \in Nat /\ Len(db.folders) \in Nat /\ Tables7z(y, n, db)
<1>1. PICK files, ssi : IsFiles(files, n) /\ GoodSub(ssi, db) /\ y = Layout(files, db, ssi) /\ y.ok
  BY DEF IsLaid
<1>2. n \in Nat /\ files.n = n
  BY <1>1 DEF IsLaid, IsFiles
<1>3. Len(db.folders) \in Nat
  BY UsedIs DEF GoodDb, GoodFolders
<1>4. PICK s, at : ssi.counts \in Seq(Byte) /\ ssi.sizes \in Seq(Byte) /\ CountsFit(ssi, db, s, at)
  BY <1>1, <1>3, CountsFitIs
<1>5. PICK l : Filled(l, files, n, db, ssi, s, at)
  BY <1>2, <1>3, <1>4, LayoutIs
<1>6. IsLay(l) /\ (l.ok => Good(l, n, db, ssi, s, at)) /\ y = LeftOver(l, n, db, ssi)
  BY <1>1, <1>5 DEF Filled
<1>7. Closed(l, n, db, y)
  BY <1>3, <1>6, LeftOverIs
<1>8. l.ok /\ l.rem = 0
  BY <1>1, <1>7 DEF Closed
<1> QED BY <1>2, <1>3, <1>6, <1>7, <1>8 DEF Tables7z

\* An entry that is not the first in its folder comes after another one there.
LEMMA BesideIs ==
  ASSUME NEW l, NEW n \in Nat, NEW db, Laid(l, n, n, db), Apart(l, n), NEW i \in 1..n,
         l.folderOf[i] # 0, i > l.first[l.folderOf[i]]
  PROVE  i - 1 \in 1..n /\ l.folderOf[i - 1] = l.folderOf[i]
<1> DEFINE len == Len(l.first)
           fo == l.folderOf[i]
           g == l.folderOf[i - 1]
           F == l.first
           j == i - 1
<1>1. Typed(l, n, n, db) /\ Rising(F)
  BY DEF Laid, Ordered
<1>2. F \in Seq(1..n) /\ len \in Nat /\ DOMAIN F = 1..len
  BY <1>1 DEF Typed
<1>3. \A k \in 1..len : F[k] \in 1..n
  BY <1>2, ElementOfSeq
<1>4. Lies(l, i, db)
  BY DEF Laid
<1>5. fo \in 1..len /\ F[fo] <= i /\ (fo < len => i < F[fo + 1]) /\ F[fo] < i
  BY <1>3, <1>4 DEF Lies
<1>6. F[fo] \in 1..n
  BY <1>3, <1>5
<1>7. j \in 1..n /\ F[fo] <= j /\ j < i
  BY <1>5, <1>6
<1>8. g # 0
  <2> SUFFICES ASSUME g = 0 PROVE FALSE
    OBVIOUS
  <2>1. F[fo] > j
    BY <1>7 DEF Apart
  <2> QED BY <1>6, <1>7, <2>1
<1>9. Lies(l, j, db)
  BY <1>7 DEF Laid
<1>10. g \in 1..len /\ F[g] <= j /\ (g < len => j < F[g + 1])
  BY <1>8, <1>9 DEF Lies
<1> HIDE DEF fo, g, F, len, j
<1>11. ~(g < fo)
  <2> SUFFICES ASSUME g < fo PROVE FALSE
    OBVIOUS
  <2>1. g + 1 \in 1..len /\ g + 1 <= fo /\ g < len
    BY <1>2, <1>5, <1>10
  <2>2. F[g + 1] <= F[fo] /\ F[g + 1] \in 1..n
    BY <1>1, <1>2, <1>3, <1>5, <2>1 DEF Rising
  <2> QED BY <1>6, <1>7, <1>10, <2>1, <2>2
<1>12. ~(fo < g)
  <2> SUFFICES ASSUME fo < g PROVE FALSE
    OBVIOUS
  <2>1. fo + 1 \in 1..len /\ fo + 1 <= g /\ fo < len
    BY <1>2, <1>5, <1>10
  <2>2. F[fo + 1] <= F[g] /\ F[fo + 1] \in 1..n /\ F[g] \in 1..n
    BY <1>1, <1>2, <1>3, <1>10, <2>1 DEF Rising
  <2> QED BY <1>5, <1>7, <1>10, <2>1, <2>2
<1>13. g = fo
  BY <1>5, <1>10, <1>11, <1>12
<1> QED BY <1>7, <1>13 DEF g, fo, j

\* The positions of a layout that is closed, and where its folders begin.
PositionsOf(l, n, db, y, P) ==
  /\ P \in Seq(Number) /\ Len(P) = n + 1 /\ Rising(P)
  /\ \A j \in 1..n : End(l, j) = P[j + 1] /\ P[j] = l.positions[j]
  /\ \A fo \in 1..Len(l.first) : y.first[fo] = l.first[fo] /\ l.first[fo] \in 1..n /\ P[l.first[fo]] = l.positions[l.first[fo]]
  /\ Len(l.first) \in Nat /\ y.first[Len(l.first) + 1] = n + 1
  /\ Len(l.first) <= Len(db.folders) /\ \A fo \in 1..Len(l.first) : fo < l.fo

\* The positions rise up to the end of the last entry.
LEMMA PositionsAre ==
  ASSUME NEW l, NEW n \in Nat, NEW db, Len(db.folders) \in Nat, Laid(l, n, n, db), l.rem = 0, NEW y, Closed(l, n, db, y)
  PROVE  PositionsOf(l, n, db, y, y.positions)
<1> DEFINE P == y.positions
           u == l.unpackPos
           a == l.fo
           len == Len(l.first)
           N == Len(db.folders)
<1>1. Typed(l, n, n, db) /\ Ordered(l)
  BY DEF Laid
<1>2. l.positions \in Seq(Number) /\ Len(l.positions) = n /\ u \in Number
  BY <1>1 DEF Typed
<1>3. P = Append(l.positions, u)
  BY DEF Closed
<1>4. P \in Seq(Number) /\ Len(P) = n + 1 /\ P[n + 1] = u /\ \A j \in 1..n : P[j] = l.positions[j]
  BY <1>2, <1>3, AppendIs
<1>5. Rising(P)
  <2>1. l.positions \in Seq(Nat) /\ u \in Nat
    BY <1>2, NumberIsNat
  <2>2. Rising(l.positions) /\ \A j \in DOMAIN l.positions : l.positions[j] <= u
    BY <1>1 DEF Ordered
  <2> QED BY <1>3, <2>1, <2>2, RisingOn
<1>6. \A j \in 1..n : End(l, j) = P[j + 1]
  <2> TAKE j \in 1..n
  <2>1. CASE j < n
    <3>1. j + 1 \in 1..n
      BY <2>1
    <3> QED BY <1>2, <1>4, <2>1, <3>1 DEF End
  <2>2. CASE j = n
    <3>1. ~(n < n)
      OBVIOUS
    <3> QED BY <1>2, <1>4, <2>2, <3>1 DEF End
  <2> QED BY <2>1, <2>2
<1>7. l.first \in Seq(1..n) /\ len = a - 1 /\ a \in Nat \ {0} /\ a <= N + 1
  BY <1>1 DEF Typed
<1>8. len \in Nat
  BY <1>7
<1>9. \A fo \in 1..len : l.first[fo] \in 1..n
  BY <1>7, ElementOfSeq
<1>10. \A fo \in 1..N + 1 : y.first[fo] = IF fo < a THEN l.first[fo] ELSE n + 1
  BY DEF Closed
<1> HIDE DEF len, a, N
<1>11. N \in Nat
  BY DEF N
<1>12. len <= N /\ len + 1 \in 1..N + 1 /\ ~(len + 1 < a) /\ \A fo \in 1..len : fo < a /\ fo \in 1..N + 1
  BY <1>7, <1>8, <1>11
<1>13. y.first[len + 1] = n + 1 /\ \A fo \in 1..len : y.first[fo] = l.first[fo] /\ l.first[fo] \in 1..n
  BY <1>9, <1>10, <1>12
<1>14. \A fo \in 1..len : P[l.first[fo]] = l.positions[l.first[fo]]
  BY <1>4, <1>9
<1> HIDE DEF P
<1> QED BY <1>4, <1>5, <1>6, <1>8, <1>12, <1>13, <1>14 DEF P, len, a, N, PositionsOf

\* What FilesTileFolders says of entry i.
Tile(a, i) ==
  LET fo == a.lay.folderOf[i] IN
  IF fo = 0 THEN FileSize(a, i) = 0
  ELSE /\ a.lay.first[fo] <= i /\ i < a.lay.first[fo + 1]
       /\ Offset(a, i) + FileSize(a, i) <= FolderUnpackSize(a.db, fo)
       /\ i > a.lay.first[fo] => Offset(a, i) = Offset(a, i - 1) + FileSize(a, i - 1)

\* Every entry of a good archive lies within its folder, next to its neighbours.
LEMMA TileIs ==
  ASSUME NEW a, NEW n \in Nat, NEW db, db = a.db, GoodDb(db), Len(db.folders) \in Nat, Tables7z(a.lay, n, db), NEW i \in 1..n
  PROVE  Tile(a, i)
<1> DEFINE y == a.lay
           P == y.positions
<1>1. PICK l, ssi, s, at : Good(l, n, db, ssi, s, at) /\ Closed(l, n, db, y) /\ l.rem = 0
  BY DEF Tables7z
<1>2. Laid(l, n, n, db) /\ Apart(l, n) /\ y.folderOf = l.folderOf
  BY <1>1 DEF Good, Closed
<1> HIDE DEF y
<1>12. PositionsOf(l, n, db, y, P)
  BY <1>1, <1>2, PositionsAre
<1> DEFINE len == Len(l.first)
           F == l.first
<1>3. /\ P \in Seq(Number) /\ Len(P) = n + 1 /\ Rising(P)
      /\ \A j \in 1..n : End(l, j) = P[j + 1] /\ P[j] = l.positions[j]
      /\ \A fo \in 1..len : y.first[fo] = F[fo] /\ F[fo] \in 1..n /\ P[F[fo]] = l.positions[F[fo]]
      /\ len \in Nat /\ y.first[len + 1] = n + 1
      /\ len <= Len(db.folders) /\ \A fo \in 1..len : fo < l.fo
  BY <1>12 DEF PositionsOf
<1> HIDE DEF len, F
<1>4. DOMAIN P = 1..n + 1 /\ \A j \in 1..n + 1 : P[j] \in Number
  BY <1>3, ElementOfSeq
<1> HIDE DEF P
<1>5. \A j, k \in 1..n + 1 : j <= k => (P[k] - P[j]) % Word = P[k] - P[j] /\ P[k] - P[j] \in Number
  <2> TAKE j, k \in 1..n + 1
  <2> SUFFICES ASSUME j <= k PROVE (P[k] - P[j]) % Word = P[k] - P[j] /\ P[k] - P[j] \in Number
    OBVIOUS
  <2>1. P[j] <= P[k]
    BY <1>3, <1>4 DEF Rising
  <2> QED BY <1>4, <2>1, MinusIs
<1>6. \A j \in 1..n : FileSize(a, j) = P[j + 1] - P[j]
  <2> TAKE j \in 1..n
  <2>1. j \in 1..n + 1 /\ j + 1 \in 1..n + 1 /\ j <= j + 1
    OBVIOUS
  <2> QED BY <1>5, <2>1 DEF FileSize, P, y
<1>7. \A j \in 1..n : Lies(l, j, db)
  BY <1>2 DEF Laid
<1>8. \A j \in 1..n : l.folderOf[j] # 0 =>
        l.folderOf[j] \in 1..len /\ F[l.folderOf[j]] \in 1..n /\ F[l.folderOf[j]] <= j /\ Offset(a, j) = P[j] - P[F[l.folderOf[j]]]
  <2> TAKE j \in 1..n
  <2> DEFINE fo == l.folderOf[j]
  <2> SUFFICES ASSUME fo # 0 PROVE fo \in 1..len /\ F[fo] \in 1..n /\ F[fo] <= j /\ Offset(a, j) = P[j] - P[F[fo]]
    OBVIOUS
  <2>1. fo \in 1..len /\ F[fo] <= j
    BY <1>7 DEF Lies, F, len
  <2>2. F[fo] \in 1..n /\ y.first[fo] = F[fo]
    BY <1>3, <2>1
  <2>3. F[fo] \in 1..n + 1 /\ j \in 1..n + 1
    BY <2>2
  <2>4. (P[j] - P[F[fo]]) % Word = P[j] - P[F[fo]]
    BY <1>5, <2>1, <2>3
  <2>5. Offset(a, j) = (P[j] - P[F[fo]]) % Word
    BY <1>2, <2>2 DEF Offset, P, y
  <2> QED BY <2>1, <2>2, <2>4, <2>5
<1> DEFINE fo == l.folderOf[i]
<1>9. a.lay.folderOf[i] = fo
  BY <1>2 DEF y
<1>10. CASE fo = 0
  <2>1. End(l, i) = l.positions[i]
    BY <1>3, <1>7, <1>10 DEF Lies
  <2>2. P[i + 1] = P[i]
    BY <1>3, <2>1
  <2>3. i \in 1..n + 1
    OBVIOUS
  <2>4. P[i] \in Nat
    BY <1>4, <2>3, NumberIsNat
  <2>5. P[i + 1] - P[i] = 0
    BY <2>2, <2>4
  <2>6. FileSize(a, i) = 0
    BY <1>6, <2>5
  <2> QED BY <1>9, <1>10, <2>6 DEF Tile
<1>11. CASE fo # 0
  <2>1. fo \in 1..len /\ F[fo] \in 1..n /\ F[fo] <= i /\ Offset(a, i) = P[i] - P[F[fo]] /\ y.first[fo] = F[fo]
    BY <1>3, <1>8, <1>11
  <2>2. i < y.first[fo + 1]
    <3>1. CASE fo < len
      <4>0. fo \in 1..len /\ len \in Nat
        BY <1>3, <2>1
      <4>1. fo + 1 \in 1..len
        BY ONLY <3>1, <4>0
      <4>2. i < F[fo + 1]
        BY <1>7, <1>11, <3>1 DEF Lies, F, len
      <4> QED BY <1>3, <4>1, <4>2
    <3>2. CASE fo = len
      BY <1>3, <3>2
    <3> QED BY <1>3, <2>1, <3>1, <3>2
  <2> DEFINE p == P[F[fo]]
             q == P[i]
             r == P[i + 1]
             size == FolderUnpackSize(db, fo)
  <2>3. p \in Nat /\ q \in Nat /\ r \in Nat
    <3>1. F[fo] \in 1..n + 1 /\ i \in 1..n + 1 /\ i + 1 \in 1..n + 1
      BY <2>1
    <3> QED BY <1>4, <3>1, NumberIsNat
  <2>4. r <= p + size
    <3>1. fo < l.fo
      BY <1>3, <2>1
    <3>2. End(l, i) <= l.positions[F[fo]] + size
      BY <1>7, <1>11, <3>1 DEF Lies, F
    <3> QED BY <1>3, <2>1, <3>2
  <2>5. size \in Nat
    <3>1. len <= Len(db.folders)
      BY <1>3
    <3>2. fo \in 1..Len(db.folders)
      BY <1>3, <2>1, <3>1
    <3> QED BY <3>2, FolderSizeIs, NumberIsNat
  <2>6. Offset(a, i) = q - p /\ FileSize(a, i) = r - q
    BY <1>6, <2>1
  <2>7. i > F[fo] => Offset(a, i) = Offset(a, i - 1) + FileSize(a, i - 1)
    <3> SUFFICES ASSUME i > F[fo] PROVE Offset(a, i) = Offset(a, i - 1) + FileSize(a, i - 1)
      OBVIOUS
    <3> DEFINE j == i - 1
    <3>1. j \in 1..n /\ l.folderOf[j] = fo /\ j + 1 = i
      BY <1>2, <1>11, BesideIs DEF F
    <3> HIDE DEF j
    <3>2. Offset(a, j) = P[j] - p /\ FileSize(a, j) = q - P[j]
      BY <1>6, <1>8, <1>11, <3>1
    <3>3. P[j] \in Nat
      <4>1. j \in 1..n + 1
        BY <3>1
      <4> QED BY <1>4, <4>1, NumberIsNat
    <3> DEFINE t == P[j]
    <3> HIDE DEF t, p, q, r
    <3>4. q - p = (t - p) + (q - t)
      BY <2>3, <3>3 DEF t
    <3> QED BY <2>6, <3>2, <3>4 DEF j, t
  <2> HIDE DEF p, q, r, size
  <2>8. (q - p) + (r - q) <= size
    BY <2>3, <2>4, <2>5
  <2>9. Offset(a, i) + FileSize(a, i) <= FolderUnpackSize(a.db, fo)
    BY <2>6, <2>8 DEF size
  <2> QED BY <1>9, <1>11, <2>1, <2>2, <2>7, <2>9 DEF Tile, y
<1> QED BY <1>10, <1>11

\* In a good archive files tile folders, and no checksum is taken that was not counted.
LEMMA ArchiveTiles ==
  ASSUME NEW a, GoodArchive(a)
  PROVE  (\A i \in 1..a.n : Tile(a, i)) /\ ~a.lay.overrun
<1>1. CASE a.n = 0 /\ a.lay = NoLayout
  <2>1. 1..0 = {}
    OBVIOUS
  <2>2. ~NoLayout.overrun
    BY DEF NoLayout
  <2> QED BY <1>1, <2>1, <2>2
<1>2. CASE IsLaid(a.n, a.lay, a.db)
  <2> DEFINE n == a.n
             db == a.db
             y == a.lay
  <2>1. GoodDb(db)
    BY DEF GoodArchive
  <2>2. n \in Nat /\ Len(db.folders) \in Nat /\ Tables7z(y, n, db)
    BY <1>2, <2>1, LaidOut
  <2>3. ~y.overrun
    BY <2>2 DEF Tables7z, Closed, Good, Dealt
  <2> HIDE DEF n, db
  <2>4. \A i \in 1..n : Tile(a, i)
    BY <2>1, <2>2, TileIs DEF db
  <2> QED BY <2>3, <2>4 DEF n
<1> QED BY <1>1, <1>2 DEF GoodArchive

-----------------------------------------------------------------------------
(* Two runs of readings over the same bytes.                                 *)

\* A loop within the bytes left is not cut.
LEMMA BoundAll ==
  ASSUME NEW n \in Nat, NEW r, IsCursor(r), n <= Len(r.sd)
  PROVE  Bound(n, r) = n
<1>1. r.sd \in Seq(Byte) /\ Len(r.sd) \in Nat
  BY DEF IsCursor
<1> DEFINE l == Len(r.sd)
<1> HIDE DEF l
<1>2. l \in Nat /\ n <= l
  BY <1>1 DEF l
<1>3. l \div 1 + 1 = l + 1
  BY <1>2
<1>4. Bound(n, r) = IF n < l + 1 THEN n ELSE l + 1
  BY <1>3 DEF Bound, Turns, LesserOf, l
<1> QED BY <1>2, <1>4

\* Whatever op reads, os reads too, and what is read is related by R.
Matched(op, os, V, W, z, R) ==
  \A c \in Cursors(V), d \in Cursors(W) :
    Ahead(c, d, z) /\ op[c].ok => Ahead(op[c], os[d], z) /\ <<op[c].v, os[d].v>> \in R
Matching(x, y, V, W, z, n, R) ==
  /\ Ahead(x, y, z) /\ x.v \in Seq(V) /\ y.v \in Seq(W) /\ Len(x.v) = n /\ Len(y.v) = n
  /\ \A i \in 1..n : <<x.v[i], y.v[i]>> \in R

\* A turn of two loops over the same bytes keeps them in step.
LEMMA ItemAhead ==
  ASSUME NEW V, NEW W, NEW z, NEW R, NEW n \in Nat, NEW c, NEW d, Matching(c, d, V, W, z, n, R),
         NEW x, NEW y, Ahead(x, y, z), x.v \in V, y.v \in W, <<x.v, y.v>> \in R
  PROVE  Matching(Turn(c, x), Turn(d, y), V, W, z, n + 1, R)
<1> DEFINE s == Append(c.v, x.v)
           t == Append(d.v, y.v)
<1>1. c.v \in Seq(V) /\ d.v \in Seq(W) /\ Len(c.v) = n /\ Len(d.v) = n /\ c.ok /\ d.ok
  BY DEF Matching, Ahead
<1>2. s \in Seq(V) /\ Len(s) = n + 1 /\ s[n + 1] = x.v /\ \A i \in 1..n : s[i] = c.v[i]
  BY <1>1, AppendIs
<1>3. t \in Seq(W) /\ Len(t) = n + 1 /\ t[n + 1] = y.v /\ \A i \in 1..n : t[i] = d.v[i]
  BY <1>1, AppendIs
<1>4. Turn(c, x) = With(x, s) /\ Turn(d, y) = With(y, t)
  BY <1>1 DEF Turn, Item
<1> HIDE DEF s, t
<1>5. Ahead(With(x, s), With(y, t), z) /\ With(x, s).v = s /\ With(y, t).v = t
  BY WithAhead
<1>6. \A i \in 1..n + 1 : <<s[i], t[i]>> \in R
  <2> TAKE i \in 1..n + 1
  <2>1. i = n + 1 \/ i \in 1..n
    OBVIOUS
  <2>2. i \in 1..n => <<c.v[i], d.v[i]>> \in R
    BY DEF Matching
  <2> QED BY <1>2, <1>3, <2>1, <2>2
<1> QED BY <1>2, <1>3, <1>4, <1>5, <1>6 DEF Matching

\* Two loops over the same bytes stay in step to their end.
LEMMA RunAhead ==
  ASSUME NEW V, NEW W, NEW z, NEW R, NEW q, NEW r, Ahead(q, r, z), NEW n \in Nat, NEW op, NEW os,
         Matched(op, os, V, W, z, R), NEW x, NEW y, Ran(q, n, op, V, x), Ran(r, n, os, W, y), x.ok
  PROVE  Matching(x, y, V, W, z, n, R)
<1>1. IsCursor(q) /\ IsCursor(r) /\ q.ok /\ r.ok
  BY DEF Ahead
<1>2. PICK g : Running(g, q, n, op, V) /\ x = g[Bound(n, q)]
  BY DEF Ran
<1>3. PICK h : Running(h, r, n, os, W) /\ y = h[Bound(n, r)]
  BY DEF Ran
<1>4. Reader(op, V) /\ Reader(os, W)
  BY DEF Ran
<1>5. ReadAll(q, x, V, n) /\ Bound(n, q) = n
  BY <1>1, <1>2, <1>4, ReadingsAre
<1>6. Bound(n, r) = n
  <2> DEFINE a == Len(q.sd)
             b == Len(r.sd)
             c == Len(z)
             e == Len(x.sd)
  <2>1. b = a + c /\ a \in Nat /\ c \in Nat
    BY JoinedIs DEF Ahead, IsCursor
  <2>2. e + n <= a /\ e \in Nat
    BY <1>5 DEF ReadAll, Passed, IsCursor
  <2> HIDE DEF a, b, c, e
  <2>3. n <= b
    BY <2>1, <2>2
  <2> QED BY <1>1, <2>3, BoundAll DEF b
<1>7. \A k \in 0..n : ReadSoFar(q, g[k], V, k) /\ g[k].ok
  BY <1>1, <1>2, <1>4, <1>5, RunningIs, RunPasses
<1>8. \A k \in 0..n : ReadSoFar(r, h[k], W, k)
  BY <1>1, <1>3, <1>4, <1>6, RunningIs
<1> DEFINE M(k) == Matching(g[k], h[k], V, W, z, k, R)
           T == {k \in 0..n : M(k)}
<1>9. 0 \in T
  <2>1. g[0] = With(q, <<>>) /\ h[0] = With(r, <<>>)
    BY <1>2, <1>3 DEF Running
  <2>2. Ahead(g[0], h[0], z) /\ g[0].v = <<>> /\ h[0].v = <<>>
    BY <2>1, WithAhead
  <2>3. <<>> \in Seq(V) /\ <<>> \in Seq(W) /\ Len(<<>>) = 0 /\ 1..0 = {}
    OBVIOUS
  <2>4. M(0)
    BY <2>2, <2>3 DEF Matching
  <2> QED BY <2>4
<1>10. ASSUME NEW k \in 0..n, k \in T, k < n PROVE k + 1 \in T
  <2> DEFINE c == g[k]
             d == h[k]
             a == op[c]
             b == os[d]
  <2>1. k + 1 \in 1..n /\ k + 1 \in 0..n /\ (k + 1) - 1 = k /\ k \in Nat
    BY <1>10
  <2>2. Matching(c, d, V, W, z, k, R)
    BY <1>10
  <2>3. c \in Cursors(V) /\ d \in Cursors(W) /\ c.ok /\ d.ok /\ Ahead(c, d, z)
    BY <1>7, <1>8, <2>2 DEF ReadSoFar, Matching, Ahead
  <2>4. g[k + 1] = Turn(c, a) /\ h[k + 1] = Turn(d, b)
    BY <1>2, <1>3, <1>5, <1>6, <2>1, <2>3 DEF Running
  <2>5. Turn(c, a).ok
    BY <1>7, <2>1, <2>4
  <2>6. Read(c, a) /\ (a.ok => a.v \in V) /\ Read(d, b) /\ (b.ok => b.v \in W)
    BY <1>4, <2>3 DEF Reader
  <2> HIDE DEF a, b
  <2>7. a.ok
    BY <2>3, <2>5, ErrIs DEF Turn, Item, With
  <2>8. Ahead(a, b, z) /\ <<a.v, b.v>> \in R
    BY <2>3, <2>7 DEF Matched, a, b
  <2>9. b.ok
    BY <2>8 DEF Ahead
  <2> HIDE DEF c, d
  <2>10. Matching(Turn(c, a), Turn(d, b), V, W, z, k + 1, R)
    BY <2>1, <2>2, <2>6, <2>7, <2>8, <2>9, ItemAhead
  <2> QED BY <2>1, <2>4, <2>10
<1>11. n \in T
  <2> HIDE DEF T
  <2>1. \A k \in 0..n : k \in T
    BY <1>9, <1>10, Upwards
  <2> QED BY <2>1
<1> QED BY <1>2, <1>3, <1>5, <1>6, <1>11

-----------------------------------------------------------------------------
(* A coder that is read is passed over in the same way.                      *)

\* A check succeeds when what it checks holds, and only then.
LEMMA CheckAll == \A r, P : (Check(r, P).ok => r.ok /\ P /\ Check(r, P) = r) /\ (r.ok /\ P => Check(r, P) = r)
BY ErrIs DEF Check

\* A value on a cursor that failed does not mend it.
LEMMA WithOk == \A r, v : With(r, v).ok => r.ok
BY ErrIs DEF With

\* Nothing is read behind a failure.
LEMMA Number32Ok == \A r : ReadNumber32(r).ok => r.ok
BY ErrIs DEF ReadNumber32, Small, Check, ReadNumber

\* What both readings know of a coder.
Alike(v, w) == v \in ItemSet /\ w \in PassedSet /\ v.main = w.main /\ v.ins = w.ins /\ v.outs = w.outs /\ v.size = w.size

\* The two readings of a coder stay alike when both set a field.
LEMMA AlikeStays ==
  ASSUME NEW v, NEW w, Alike(v, w), NEW k \in Nat, NEW name \in {"ins", "outs", "size"},
         NEW a, a = [v EXCEPT ![name] = k], NEW b, b = [w EXCEPT ![name] = k]
  PROVE  /\ Alike(a, b) /\ a.main = v.main /\ (name # "ins" => a.ins = v.ins)
         /\ (name # "outs" => a.outs = v.outs)
BY FieldsStay DEF Alike, ItemSet, PassedSet

\* The same number, read into the same field.
Both(c, d, z) == Ahead(c, d, z) /\ Alike(c.v, d.v)

\* Both readings of a coder read the same field.
LEMMA FieldAhead ==
  ASSUME NEW c, NEW d, NEW z, Both(c, d, z), NEW name \in {"ins", "outs", "size"}, Field(c, name, ReadNumber32(c)).ok
  PROVE  LET x == Field(c, name, ReadNumber32(c)) IN
         /\ Both(x, Field(d, name, ReadNumber32(d)), z)
         /\ x.v.main = c.v.main /\ (name # "ins" => x.v.ins = c.v.ins) /\ (name # "outs" => x.v.outs = c.v.outs)
<1> DEFINE p == ReadNumber32(c)
           q == ReadNumber32(d)
           k == p.v
           v == [c.v EXCEPT ![name] = k]
           w == [d.v EXCEPT ![name] = k]
<1>1. Ahead(c, d, z) /\ Alike(c.v, d.v) /\ IsCursor(c)
  BY DEF Both, Ahead
<1>2. p.ok
  BY WithOk DEF Field
<1>3. Ahead(p, q, z) /\ p.v = q.v
  BY <1>1, <1>2, Number32Ahead DEF Within
<1>4. k \in Nat
  BY <1>1, <1>2, Number32Is, WordIs DEF Number32
<1>5. Field(c, name, p) = With(p, v) /\ Field(d, name, q) = With(q, w)
  BY <1>3 DEF Field
<1>8. v = [c.v EXCEPT ![name] = k] /\ w = [d.v EXCEPT ![name] = k]
  OBVIOUS
<1> HIDE DEF p, q, k, v, w
<1>6. Alike(v, w) /\ v.main = c.v.main /\ (name # "ins" => v.ins = c.v.ins) /\ (name # "outs" => v.outs = c.v.outs)
  BY <1>1, <1>4, <1>8, AlikeStays
<1>7. Ahead(With(p, v), With(q, w), z) /\ With(p, v).v = v /\ With(q, w).v = w
  BY <1>3, WithAhead
<1> QED BY <1>5, <1>6, <1>7 DEF Both, p, q

\* Both readings of a coder take the same method.
LEMMA MethodAhead ==
  ASSUME NEW c, NEW d, NEW z, Ahead(c, d, z), ItemMethod(ReadByte(c)).ok
  PROVE  LET m == ItemMethod(ReadByte(c)) IN Both(m, ScanMethod(ReadByte(d)), z) /\ m.v.ins = 1 /\ m.v.outs = 1
<1> DEFINE b == ReadByte(c)
           e == ReadByte(d)
           k == b.v % 16
           P == b.v < 64 /\ k <= 8
           h == Check(b, P)
           i == Check(e, P)
           v == [main |-> b.v, id |-> MethodId(SubSeq(b.sd, 1, k)), ins |-> 1, outs |-> 1, size |-> 0]
           w == [main |-> b.v, ins |-> 1, outs |-> 1, size |-> 0]
           m == ItemMethod(b)
<1>1. IsCursor(c) /\ IsCursor(d)
  BY DEF Ahead
<1>2. m = With(Drop(h, k), v)
  BY DEF ItemMethod
<1>3. Drop(h, k).ok /\ h.ok /\ k <= Len(h.sd)
  BY <1>2, WithOk, DropOk
<1>4. b.ok /\ P /\ h = b
  <2> HIDE DEF P, b
  <2> QED BY <1>3, CheckAll
<1>5. Ahead(b, e, z) /\ b.v = e.v
  BY <1>4, ByteAhead
<1>6. ScanMethod(e) = With(Drop(i, k), w) /\ i = e
  <2>1. e.ok
    BY <1>5 DEF Ahead
  <2>2. i = e
    <3> HIDE DEF P, e
    <3> QED BY <1>4, <2>1, CheckAll
  <2>3. ScanMethod(e) = With(Drop(i, k), w)
    BY <1>5 DEF ScanMethod
  <2> QED BY <2>2, <2>3
<1>7. m.v \in ItemSet /\ w \in PassedSet /\ k \in Nat
  <2>1. b.v \in Byte
    BY <1>1, <1>4, ByteIs
  <2>2. w \in PassedSet
    BY <2>1 DEF PassedSet
  <2>3. k \in Nat
    BY <2>1 DEF Byte
  <2>4. m.v = v
    BY <1>2, <1>3 DEF With, Drop
  <2>5. v.id \in Seq(Byte)
    <3> DEFINE s == SubSeq(b.sd, 1, k)
    <3>1. s \in Seq(Byte)
      BY <1>1, <1>3, <1>4, <2>3, ByteIs DEF IsCursor
    <3> HIDE DEF s
    <3>2. MethodId(s) \in Seq(Byte)
      BY <3>1, MethodIdIs
    <3> QED BY <3>2 DEF s
  <2> QED BY <2>1, <2>2, <2>3, <2>4, <2>5 DEF ItemSet
<1> HIDE DEF b, e, k, P, h, i, v, w
<1>8. Ahead(Drop(h, k), Drop(i, k), z)
  BY <1>3, <1>4, <1>5, <1>6, <1>7, DropAhead
<1>9. m.v = v /\ Ahead(m, ScanMethod(e), z) /\ ScanMethod(e).v = w
  BY <1>2, <1>6, <1>8, WithAhead
<1>10. Alike(v, w) /\ v.ins = 1 /\ v.outs = 1
  BY <1>7, <1>9 DEF Alike, v, w
<1> QED BY <1>9, <1>10 DEF Both, b, e

\* Both readings of a coder take the same number of inputs.
LEMMA InsAhead ==
  ASSUME NEW c, NEW d, NEW z, Both(c, d, z), c.v.ins = 1, ItemIns(c).ok
  PROVE  LET x == ItemIns(c) IN Both(x, ScanIns(d), z) /\ x.v.main = c.v.main /\ (Flag(c.v.main, 16) \/ x.v.ins = 1)
<1> DEFINE F == Flag(c.v.main, 16)
<1>1. c.ok /\ d.ok /\ c.v.main = d.v.main
  BY DEF Both, Ahead, Alike
<1>2. CASE F
  <2>1. ItemIns(c) = Field(c, "ins", ReadNumber32(c)) /\ ScanIns(d) = Field(d, "ins", ReadNumber32(d))
    BY <1>1, <1>2 DEF ItemIns, ScanIns
  <2>2. Field(c, "ins", ReadNumber32(c)).ok
    BY <2>1
  <2>3. /\ Both(Field(c, "ins", ReadNumber32(c)), Field(d, "ins", ReadNumber32(d)), z)
        /\ Field(c, "ins", ReadNumber32(c)).v.main = c.v.main
    BY <2>2, FieldAhead
  <2> QED BY <1>2, <2>1, <2>3
<1>3. CASE ~F
  BY <1>1, <1>3 DEF ItemIns, ScanIns
<1> QED BY <1>2, <1>3

\* Both readings of a coder take the same number of outputs.
LEMMA OutsAhead ==
  ASSUME NEW c, NEW d, NEW z, Both(c, d, z), Flag(c.v.main, 16) \/ c.v.ins = 1, ItemOuts(c).ok
  PROVE  LET x == ItemOuts(c) IN Both(x, ScanOuts(d), z) /\ x.v.ins <= 7
<1> DEFINE F == Flag(c.v.main, 16)
           P == c.v.ins <= 7
           e == Check(c, P)
<1>1. c.ok /\ d.ok /\ c.v.main = d.v.main
  BY DEF Both, Ahead, Alike
<1>2. CASE F
  <2>1. ItemOuts(c) = Field(c, "outs", ReadNumber32(e)) /\ ScanOuts(d) = Field(d, "outs", ReadNumber32(d))
    BY <1>1, <1>2 DEF ItemOuts, ScanOuts
  <2> HIDE DEF P, e
  <2>2. e.ok
    BY <2>1, WithOk, Number32Ok DEF Field
  <2>3. P /\ e = c
    BY <2>2, CheckAll DEF e
  <2>4. Field(c, "outs", ReadNumber32(c)).ok
    BY <2>1, <2>3
  <2>5. /\ Both(Field(c, "outs", ReadNumber32(c)), Field(d, "outs", ReadNumber32(d)), z)
        /\ Field(c, "outs", ReadNumber32(c)).v.ins = c.v.ins
    BY <2>4, FieldAhead
  <2> QED BY <2>1, <2>3, <2>5 DEF P
<1>3. CASE ~F
  BY <1>1, <1>3 DEF ItemOuts, ScanOuts
<1> QED BY <1>2, <1>3

\* Both readings of a coder take the same size of properties.
LEMMA SizeAhead ==
  ASSUME NEW c, NEW d, NEW z, Both(c, d, z), ItemSize(c).ok
  PROVE  LET x == ItemSize(c) IN Both(x, ScanSize(d), z) /\ x.v.ins = c.v.ins
<1> DEFINE F == Flag(c.v.main, 32)
           e == Check(c, c.v.outs = 1)
           g == Check(d, d.v.outs = 1)
<1>1. c.ok /\ d.ok /\ c.v.main = d.v.main /\ c.v.outs = d.v.outs
  BY DEF Both, Ahead, Alike
<1>2. CASE F
  <2>1. ItemSize(c) = Field(c, "size", ReadNumber32(e)) /\ ScanSize(d) = Field(d, "size", ReadNumber32(g))
    BY <1>1, <1>2 DEF ItemSize, ScanSize
  <2> HIDE DEF e, g
  <2>2. e.ok
    BY <2>1, WithOk, Number32Ok DEF Field
  <2>3. e = c /\ g = d
    <3>1. e = c /\ c.v.outs = 1
      BY <2>2, CheckAll DEF e
    <3>2. d.v.outs = 1
      BY <1>1, <3>1
    <3> QED BY <1>1, <3>1, <3>2, CheckAll DEF g
  <2>4. Field(c, "size", ReadNumber32(c)).ok
    BY <2>1, <2>3
  <2>5. /\ Both(Field(c, "size", ReadNumber32(c)), Field(d, "size", ReadNumber32(d)), z)
        /\ Field(c, "size", ReadNumber32(c)).v.ins = c.v.ins
    BY <2>4, FieldAhead
  <2> QED BY <2>1, <2>3, <2>5
<1>3. CASE ~F
  BY <1>1, <1>3 DEF ItemSize, ScanSize
<1> QED BY <1>2, <1>3

\* Both readings of a coder pass the same properties.
LEMMA PropsAhead ==
  ASSUME NEW c, NEW d, NEW z, Both(c, d, z), c.v.ins <= 7, ItemProps(c).ok
  PROVE  LET x == ItemProps(c) IN Ahead(x, ScanProps(d), z) /\ x.v.numStreams = ScanProps(d).v
<1> DEFINE P == c.v.outs = 1 /\ c.v.size < 128 /\ Len(c.v.id) <= 4
           Q == d.v.ins <= 64 /\ d.v.outs = 1
           e == Check(c, P)
           g == Check(d, Q)
           n == c.v.size
           v == [id |-> c.v.id, numStreams |-> c.v.ins, props |-> SubSeq(c.sd, 1, n)]
           w == d.v.ins
<1>1. /\ c.ok /\ d.ok /\ Ahead(c, d, z) /\ c.v.outs = d.v.outs /\ n = d.v.size /\ c.v.ins = w /\ c.v.size \in Nat /\ w \in Nat
  BY DEF Both, Ahead, Alike, ItemSet, PassedSet
<1>2. ItemProps(c) = With(Drop(e, n), v) /\ ScanProps(d) = With(Drop(g, n), w)
  BY <1>1 DEF ItemProps, ScanProps
<1>3. w <= 64
  BY <1>1
<1> HIDE DEF e, g, n, v
<1>4. Drop(e, n).ok /\ e.ok /\ n <= Len(e.sd)
  BY <1>2, WithOk, DropOk
<1>5. e = c /\ c.v.outs = 1
  BY <1>4, CheckAll DEF e
<1>6. g = d
  <2>1. Q
    BY <1>1, <1>3, <1>5
  <2> HIDE DEF Q
  <2> QED BY <1>1, <2>1, CheckAll DEF g
<1>7. n \in Nat
  BY <1>1 DEF n
<1> HIDE DEF w
<1>8. Ahead(Drop(e, n), Drop(g, n), z)
  BY <1>1, <1>4, <1>5, <1>6, <1>7, DropAhead
<1> DEFINE a == Drop(e, n)
           b == Drop(g, n)
<1> HIDE DEF a, b
<1>9. Ahead(With(a, v), With(b, w), z) /\ With(a, v).v = v /\ With(b, w).v = w
  BY <1>8, WithAhead DEF a, b
<1>10. v.numStreams = w
  BY <1>1 DEF v
<1> QED BY <1>2, <1>9, <1>10 DEF a, b

\* A coder the second reading accepts, the scan passed with the same number of streams.
LEMMA CoderAhead ==
  ASSUME NEW c, NEW d, NEW z, Ahead(c, d, z), CoderItem(c).ok
  PROVE  LET x == CoderItem(c) IN Ahead(x, CoderScan(d), z) /\ x.v.numStreams = CoderScan(d).v
<1> DEFINE m == ItemMethod(ReadByte(c))
           m2 == ScanMethod(ReadByte(d))
           i == ItemIns(m)
           i2 == ScanIns(m2)
           o == ItemOuts(i)
           o2 == ScanOuts(i2)
           s == ItemSize(o)
           s2 == ScanSize(o2)
<1>1. CoderItem(c) = ItemProps(s) /\ CoderScan(d) = ScanProps(s2)
  BY DEF CoderItem, CoderScan
<1>2. ItemProps(s).ok
  BY <1>1
<1>3. s.ok
  <2> HIDE DEF s
  <2> DEFINE P == s.v.outs = 1 /\ s.v.size < 128 /\ Len(s.v.id) <= 4
             v == [id |-> s.v.id, numStreams |-> s.v.ins, props |-> SubSeq(s.sd, 1, s.v.size)]
             n == s.v.size
  <2>1. ItemProps(s) = With(Drop(Check(s, P), n), v)
    BY DEF ItemProps
  <2> HIDE DEF P, v, n
  <2> QED BY <1>2, <2>1, WithOk, DropOk, CheckAll
<1>4. o.ok
  <2> HIDE DEF o
  <2> QED BY <1>3 DEF ItemSize
<1>5. i.ok
  <2> HIDE DEF i
  <2> QED BY <1>4 DEF ItemOuts
<1>6. m.ok
  <2> HIDE DEF m
  <2> QED BY <1>5 DEF ItemIns
<1>7. Both(m, m2, z) /\ m.v.ins = 1
  BY <1>6, MethodAhead
<1> HIDE DEF m, m2
<1>8. Both(i, i2, z) /\ (Flag(m.v.main, 16) \/ i.v.ins = 1) /\ i.v.main = m.v.main
  BY <1>5, <1>7, InsAhead
<1> HIDE DEF i, i2
<1>9. Both(o, o2, z) /\ o.v.ins <= 7
  BY <1>4, <1>8, OutsAhead
<1> HIDE DEF o, o2
<1>10. Both(s, s2, z) /\ s.v.ins = o.v.ins
  BY <1>3, <1>9, SizeAhead
<1> HIDE DEF s, s2
<1>11. Ahead(ItemProps(s), ScanProps(s2), z) /\ ItemProps(s).v.numStreams = ScanProps(s2).v
  BY <1>2, <1>9, <1>10, PropsAhead
<1> QED BY <1>1, <1>11

-----------------------------------------------------------------------------
(* A folder that is read was passed over in the same way.                    *)

\* The same bond is read from the same bytes.
LEMMA BondAhead ==
  ASSUME NEW c, NEW d, NEW z, Ahead(c, d, z), Bond(c).ok
  PROVE  Ahead(Bond(c), Bond(d), z) /\ Bond(c).v = Bond(d).v
<1> DEFINE i == ReadNumber32(c)
           o == ReadNumber32(i)
           j == ReadNumber32(d)
           p == ReadNumber32(j)
           v == [in |-> i.v, out |-> o.v]
           w == [in |-> j.v, out |-> p.v]
<1>1. Bond(c) = With(o, v) /\ Bond(d) = With(p, w)
  BY DEF Bond, BondFrom, BondTo
<1>2. o.ok /\ i.ok
  BY <1>1, WithOk, Number32Ok
<1>3. Ahead(i, j, z) /\ i.v = j.v
  BY <1>2, Number32Ahead DEF Within
<1> HIDE DEF i, j
<1>4. Ahead(o, p, z) /\ o.v = p.v
  BY <1>2, <1>3, Number32Ahead DEF Within
<1> HIDE DEF o, p
<1>5. v = w
  BY <1>3, <1>4
<1> HIDE DEF v, w
<1>6. Ahead(With(o, v), With(p, w), z) /\ With(o, v).v = v /\ With(p, w).v = w
  BY <1>4, WithAhead
<1> QED BY <1>1, <1>5, <1>6

Same(V) == {<<e, e>> : e \in V}

\* What is read in both is the same.
SameRead(x, y, z, V, n) == Ahead(x, y, z) /\ x.v = y.v /\ x.v \in Seq(V) /\ Len(x.v) = n

\* Loops in step over equal readings hold equal values.
LEMMA MatchingSame ==
  ASSUME NEW x, NEW y, NEW V, NEW z, NEW n, Matching(x, y, V, V, z, n, Same(V))
  PROVE  SameRead(x, y, z, V, n)
<1> DEFINE s == x.v
           t == y.v
<1>1. s \in Seq(V) /\ t \in Seq(V) /\ Len(s) = n /\ Len(t) = n
  BY DEF Matching
<1>2. \A i \in 1..n : s[i] = t[i]
  BY DEF Matching, Same
<1> HIDE DEF s, t
<1>3. s = t
  BY <1>1, <1>2, SeqEqual
<1> QED BY <1>1, <1>3 DEF SameRead, Matching, s, t

\* The same numbers are read from the same bytes.
LEMMA Numbers32Ahead ==
  ASSUME NEW q, NEW r, NEW z, Ahead(q, r, z), NEW n \in Nat, Repeat(n, q, ReadNumber32).ok
  PROVE  SameRead(Repeat(n, q, ReadNumber32), Repeat(n, r, ReadNumber32), z, Number32, n)
<1> DEFINE x == Repeat(n, q, ReadNumber32)
           y == Repeat(n, r, ReadNumber32)
           V == Number32
<1>1. IsCursor(q) /\ IsCursor(r) /\ q.ok /\ r.ok
  BY DEF Ahead
<1>2. PICK op : (\A c \in Cursors(V) : op[c] = ReadNumber32(c)) /\ Ran(q, n, op, V, x)
  BY <1>1, Numbers32AreRun
<1>3. PICK os : (\A c \in Cursors(V) : os[c] = ReadNumber32(c)) /\ Ran(r, n, os, V, y)
  BY <1>1, Numbers32AreRun
<1> HIDE DEF x, y
<1>4. Matched(op, os, V, V, z, Same(V))
  <2> SUFFICES ASSUME NEW c \in Cursors(V), NEW d \in Cursors(V), Ahead(c, d, z), op[c].ok
               PROVE  Ahead(op[c], os[d], z) /\ <<op[c].v, os[d].v>> \in Same(V)
    BY DEF Matched
  <2> DEFINE a == ReadNumber32(c)
             b == ReadNumber32(d)
  <2>1. op[c] = a /\ os[d] = b
    BY <1>2, <1>3
  <2>2. Ahead(a, b, z) /\ a.v = b.v
    BY <2>1, Number32Ahead DEF Within
  <2>3. a.v \in V
    BY <2>1, Number32Is DEF Ahead
  <2> HIDE DEF a, b, V
  <2> QED BY <2>1, <2>2, <2>3 DEF Same
<1>5. x.ok
  BY DEF x
<1> HIDE DEF V
<1>6. Matching(x, y, V, V, z, n, Same(V))
  BY <1>2, <1>3, <1>4, <1>5, RunAhead
<1> QED BY <1>6, MatchingSame DEF x, y, V

\* The same bonds are read from the same bytes.
LEMMA BondsAhead ==
  ASSUME NEW q, NEW r, NEW z, Ahead(q, r, z), NEW n \in Nat, Repeat(n, q, Bond).ok
  PROVE  SameRead(Repeat(n, q, Bond), Repeat(n, r, Bond), z, BondSet, n)
<1> DEFINE x == Repeat(n, q, Bond)
           y == Repeat(n, r, Bond)
           V == BondSet
<1>1. IsCursor(q) /\ IsCursor(r) /\ q.ok /\ r.ok
  BY DEF Ahead
<1>2. PICK op : (\A c \in Cursors(V) : op[c] = Bond(c)) /\ Ran(q, n, op, V, x)
  BY <1>1, BondsAreRun
<1>3. PICK os : (\A c \in Cursors(V) : os[c] = Bond(c)) /\ Ran(r, n, os, V, y)
  BY <1>1, BondsAreRun
<1> HIDE DEF x, y
<1>4. Matched(op, os, V, V, z, Same(V))
  <2> SUFFICES ASSUME NEW c \in Cursors(V), NEW d \in Cursors(V), Ahead(c, d, z), op[c].ok
               PROVE  Ahead(op[c], os[d], z) /\ <<op[c].v, os[d].v>> \in Same(V)
    BY DEF Matched
  <2> DEFINE a == Bond(c)
             b == Bond(d)
  <2>1. op[c] = a /\ os[d] = b
    BY <1>2, <1>3
  <2>2. Ahead(a, b, z) /\ a.v = b.v
    BY <2>1, BondAhead
  <2>3. a.v \in V
    BY <2>1, BondIs DEF Ahead
  <2> HIDE DEF a, b, V
  <2> QED BY <2>1, <2>2, <2>3 DEF Same
<1>5. x.ok
  BY DEF x
<1> HIDE DEF V
<1>6. Matching(x, y, V, V, z, n, Same(V))
  BY <1>2, <1>3, <1>4, <1>5, RunAhead
<1> QED BY <1>6, MatchingSame DEF x, y, V

\* A coder as it is read, and what passing over it leaves of it.
Passing == {p \in CoderSet \X Ins : p[1].numStreams = p[2]}

\* The coders the second reading accepts, the scan passed, with the same numbers of streams.
LEMMA CodersAhead ==
  ASSUME NEW q, NEW r, NEW z, Ahead(q, r, z), NEW n \in Nat, Repeat(n, q, CoderItem).ok
  PROVE  Matching(Repeat(n, q, CoderItem), Repeat(n, r, CoderScan), CoderSet, Ins, z, n, Passing)
<1> DEFINE x == Repeat(n, q, CoderItem)
           y == Repeat(n, r, CoderScan)
           V == CoderSet
           W == Ins
<1>1. IsCursor(q) /\ IsCursor(r) /\ q.ok /\ r.ok
  BY DEF Ahead
<1>2. PICK op : (\A c \in Cursors(V) : op[c] = CoderItem(c)) /\ Ran(q, n, op, V, x)
  BY <1>1, CoderItemsAreRun
<1>3. PICK os : (\A c \in Cursors(W) : os[c] = CoderScan(c)) /\ Ran(r, n, os, W, y)
  BY <1>1, CoderScansAreRun
<1> HIDE DEF x, y
<1>4. Matched(op, os, V, W, z, Passing)
  <2> SUFFICES ASSUME NEW c \in Cursors(V), NEW d \in Cursors(W), Ahead(c, d, z), op[c].ok
               PROVE  Ahead(op[c], os[d], z) /\ <<op[c].v, os[d].v>> \in Passing
    BY DEF Matched
  <2> DEFINE a == CoderItem(c)
             b == CoderScan(d)
  <2>1. op[c] = a /\ os[d] = b
    BY <1>2, <1>3
  <2>2. Ahead(a, b, z) /\ a.v.numStreams = b.v
    BY <2>1, CoderAhead
  <2>3. a.v \in V
    BY <2>1, CoderItemIs DEF Ahead
  <2>4. b.v \in W
    <3>1. b.ok /\ IsCursor(d)
      BY <2>2 DEF Ahead
    <3> QED BY <3>1, CoderScanIs DEF Ins
  <2> HIDE DEF a, b, V, W
  <2>5. <<a.v, b.v>> \in V \X W
    BY <2>3, <2>4
  <2> QED BY <2>1, <2>2, <2>5 DEF Passing, V, W
<1>5. x.ok
  BY DEF x
<1> HIDE DEF V, W
<1>6. Matching(x, y, V, W, z, n, Passing)
  BY <1>2, <1>3, <1>4, <1>5, RunAhead
<1> QED BY <1>6 DEF x, y, V, W

\* Equal members have equal sums.
LEMMA SumSame ==
  ASSUME NEW n \in Nat, NEW s, NEW t, \A k \in 1..n : s[k] \in Nat /\ s[k] = t[k]
  PROVE  SumTo(s, n) = SumTo(t, n)
<1>1. /\ SumTo(s, 0) = 0 /\ \A k \in 0..n : SumTo(s, k) \in Nat
      /\ \A k \in 0..n - 1 : SumTo(s, k + 1) = SumTo(s, k) + s[k + 1]
  BY SumsRise
<1>2. /\ SumTo(t, 0) = 0
      /\ \A k \in 0..n - 1 : SumTo(t, k + 1) = SumTo(t, k) + t[k + 1]
  BY SumsRise
<1> DEFINE T == {k \in 0..n : SumTo(s, k) = SumTo(t, k)}
<1>3. 0 \in T
  BY <1>1, <1>2
<1>4. ASSUME NEW k \in 0..n, k \in T, k < n PROVE k + 1 \in T
  <2>1. k \in 0..n - 1 /\ k + 1 \in 0..n /\ k + 1 \in 1..n
    BY <1>4
  <2>2. SumTo(s, k + 1) = SumTo(s, k) + s[k + 1] /\ SumTo(t, k + 1) = SumTo(t, k) + t[k + 1] /\ s[k + 1] = t[k + 1]
    BY <1>1, <1>2, <2>1
  <2>3. SumTo(s, k) = SumTo(t, k)
    BY <1>4
  <2>4. SumTo(s, k + 1) = SumTo(t, k + 1)
    BY <2>2, <2>3
  <2> QED BY <2>1, <2>4
<1>5. n \in T
  <2> HIDE DEF T
  <2>1. \A k \in 0..n : k \in T
    BY <1>3, <1>4, Upwards
  <2> QED BY <2>1
<1> QED BY <1>5

\* No pack streams are read behind a failure.
LEMMA PacksOk ==
  ASSUME NEW bonds, NEW n, NEW ins, PacksAfter(bonds, n, ins).ok
  PROVE  bonds.ok
<1> DEFINE P == GoodBonds(bonds.v, ins, n)
           c == Check(bonds, P)
           k == ins - (n - 1)
           p == Repeat(k, c, ReadNumber32)
<1>1. PacksAfter(bonds, n, ins) = IF k = 1 THEN With(c, <<FirstFree(Bonds(bonds.v, "in"), ins)>>) ELSE Unbonded(p, bonds.v, ins)
  BY DEF PacksAfter, PackStreams
<1>2. p.ok => c.ok
  BY ErrIs DEF Repeat
<1> HIDE DEF c, k, p
<1>3. Unbonded(p, bonds.v, ins).ok => p.ok
  BY ErrIs DEF Unbonded
<1>4. c.ok
  BY <1>1, <1>2, <1>3, WithOk
<1> HIDE DEF P
<1> QED BY <1>4, CheckAll DEF c

\* Both readings of a folder pass the same pack streams.
LEMMA PacksAhead ==
  ASSUME NEW b, NEW e, NEW z, Ahead(b, e, z), b.v = e.v, NEW n \in Nat, NEW ins \in Nat, ins >= n - 1, PacksAfter(b, n, ins).ok
  PROVE  LET x == PacksAfter(b, n, ins) IN Ahead(x, PacksAfter(e, n, ins), z) /\ Len(x.v) = ins - (n - 1)
<1> DEFINE P == GoodBonds(b.v, ins, n)
           c == Check(b, P)
           d == Check(e, P)
           k == ins - (n - 1)
           u == b.v
           f == <<FirstFree(Bonds(u, "in"), ins)>>
           p == Repeat(k, c, ReadNumber32)
           q == Repeat(k, d, ReadNumber32)
           x == PacksAfter(b, n, ins)
           y == PacksAfter(e, n, ins)
<1>1. x = IF k = 1 THEN With(c, f) ELSE Unbonded(p, u, ins)
  BY DEF PacksAfter, PackStreams
<1>2. y = IF k = 1 THEN With(d, f) ELSE Unbonded(q, u, ins)
  BY DEF PacksAfter, PackStreams
<1>3. p.ok => c.ok
  BY ErrIs DEF Repeat
<1>4. k \in Nat
  OBVIOUS
<1>5. Len(f) = 1
  OBVIOUS
<1> HIDE DEF P, f, x, y
<1>6. c.ok
  <2> HIDE DEF c, k, p
  <2>1. Unbonded(p, u, ins).ok => p.ok
    BY ErrIs DEF Unbonded
  <2> QED BY <1>1, <1>3, <2>1, WithOk DEF x
<1>7. c = b /\ P
  BY <1>6, CheckAll
<1>8. d = e
  <2>1. e.ok
    BY DEF Ahead
  <2> QED BY <1>7, <2>1, CheckAll
<1>9. Ahead(c, d, z)
  BY <1>7, <1>8
<1> HIDE DEF c, d, k
<1>10. CASE k = 1
  <2>1. x = With(c, f) /\ y = With(d, f)
    BY <1>1, <1>2, <1>10
  <2>2. Ahead(With(c, f), With(d, f), z) /\ With(c, f).v = f
    BY <1>9, WithAhead
  <2> QED BY <1>5, <1>10, <2>1, <2>2 DEF x, y, k
<1>11. CASE k # 1
  <2>1. x = Unbonded(p, u, ins) /\ y = Unbonded(q, u, ins) /\ x.ok
    BY <1>1, <1>2, <1>11 DEF x
  <2>2. p.ok
    <3> HIDE DEF p
    <3> QED BY <2>1, ErrIs DEF Unbonded
  <2>3. SameRead(p, q, z, Number32, k)
    BY <1>4, <1>9, <2>2, Numbers32Ahead
  <2> HIDE DEF p, q, u
  <2>4. Ahead(p, q, z) /\ p.v = q.v /\ q.ok /\ Len(p.v) = k
    BY <2>3 DEF SameRead, Ahead
  <2> DEFINE D == Distinct(Bonds(u, "in") \o p.v, ins)
  <2>5. x = Check(p, D) /\ y = Check(q, D)
    BY <2>1, <2>2, <2>4 DEF Unbonded
  <2> HIDE DEF D
  <2>6. x = p /\ y = q
    BY <2>1, <2>4, <2>5, CheckAll
  <2> QED BY <2>4, <2>6 DEF x, y, k
<1> QED BY <1>10, <1>11

\* What is read of a folder is what was found when it was passed over.
FolderAgrees(x, y, z) ==
  /\ Ahead(x, y, z) /\ x.v.unpackStream = y.v.main
  /\ Len(x.v.coders) = y.v.coders /\ Len(x.v.packStreams) = y.v.packs

\* A folder SzGetNextFolderItem accepts, the scan passed with the same coders, packs and main coder.
LEMMA FolderAhead ==
  ASSUME NEW q, NEW r, NEW z, Ahead(q, r, z), SzGetNextFolderItem(q).ok
  PROVE  FolderAgrees(SzGetNextFolderItem(q), ScanFolder(r), z)
<1> DEFINE a == ReadNumber32(q)
           n == a.v
           few == n \in 1..4
           b == Check(a, few)
           coders == Repeat(n, b, CoderItem)
           ins == InputsOf([i \in 1..n |-> coders.v[i].numStreams], n)
           good == ins <= 7 /\ ins - (n - 1) \in 0..4
           d == Check(coders, good)
           bonds == Repeat(n - 1, d, Bond)
           len == Len(coders.v)
           packs == PacksAfter(bonds, len, ins)
           v == [coders |-> coders.v, bonds |-> bonds.v, packStreams |-> packs.v,
                 unpackStream |-> FirstFree(Bonds(bonds.v, "out"), len)]
           x == With(packs, v)
<1>1. SzGetNextFolderItem(q) = IF coders.ok THEN x ELSE Err
  BY DEF SzGetNextFolderItem, ItemCount, ItemCoders, ItemInputs, ItemBonds, FolderItem
<1> DEFINE a2 == ReadNumber32(r)
           n2 == a2.v
           some == n2 \in 1..64
           b2 == Check(a2, some)
           coders2 == Repeat(n2, b2, CoderScan)
           ins2 == InputsOf(coders2.v, n2)
           good2 == ins2 >= n2 - 1 /\ ins2 <= 64
           d2 == Check(coders2, good2)
           bonds2 == Repeat(n2 - 1, d2, Bond)
           packs2 == PacksAfter(bonds2, n2, ins2)
           v2 == [coders |-> n2, packs |-> ins2 - (n2 - 1), main |-> FirstFree(Bonds(bonds2.v, "out"), n2),
                  data |-> Consumed(r, packs2)]
           x2 == With(packs2, v2)
<1>2. ScanFolder(r) = IF coders2.ok THEN x2 ELSE Err
  BY DEF ScanFolder, ScanCount, ScanCoders, ScanInputs, ScanBonds, Scanned
<1>3. coders.ok /\ packs.ok
  <2> HIDE DEF coders, packs, v
  <2> QED BY <1>1, ErrIs, WithOk
<1>4. bonds.ok
  <2> HIDE DEF bonds, ins, len
  <2> QED BY <1>3, PacksOk
<1>5. d.ok
  <2> HIDE DEF d
  <2> QED BY <1>4, ErrIs DEF Repeat
<1>6. d = coders /\ good
  <2> HIDE DEF coders, good
  <2> QED BY <1>5, CheckAll
<1>7. b.ok
  <2> HIDE DEF b
  <2> QED BY <1>3, ErrIs DEF Repeat
<1>8. b = a /\ few /\ a.ok
  <2> HIDE DEF a, few
  <2> QED BY <1>7, CheckAll
<1>9. Ahead(a, a2, z) /\ n = n2
  BY <1>8, Number32Ahead DEF Within
<1> HIDE DEF a, a2
<1>10. n \in 1..4 /\ n \in Nat /\ n - 1 \in Nat /\ some
  BY <1>8, <1>9
<1>11. b2 = a2
  <2> HIDE DEF some
  <2>1. a2.ok
    BY <1>9 DEF Ahead
  <2> QED BY <1>10, <2>1, CheckAll
<1> HIDE DEF n, n2, few, some
<1>12. Ahead(b, b2, z)
  BY <1>8, <1>9, <1>11
<1> HIDE DEF b, b2
<1>13. Matching(coders, coders2, CoderSet, Ins, z, n, Passing)
  BY <1>3, <1>9, <1>10, <1>12, CodersAhead
<1> HIDE DEF coders, coders2
<1>14. Ahead(coders, coders2, z) /\ coders2.ok /\ len = n
  BY <1>13 DEF Matching, Ahead
<1>15. ins = ins2 /\ ins \in Nat
  <2> DEFINE s == [i \in 1..n |-> coders.v[i].numStreams]
             t == coders2.v
  <2>1. ASSUME NEW k \in 1..n PROVE s[k] \in Nat /\ s[k] = t[k]
    <3>1. <<coders.v[k], t[k]>> \in Passing
      BY <1>13 DEF Matching
    <3>2. coders.v[k].numStreams = t[k] /\ t[k] \in Ins
      BY <3>1 DEF Passing
    <3>3. t[k] \in Nat
      BY <3>2 DEF Ins
    <3> QED BY <3>2, <3>3
  <2> HIDE DEF s, t
  <2>2. SumTo(s, n) = SumTo(t, n)
    BY <1>10, <2>1, SumSame
  <2>3. SumTo(s, n) \in Nat
    <3>1. n \in 0..n
      BY <1>10
    <3> QED BY <1>10, <2>1, <3>1, SumsRise
  <2> QED BY <1>9, <2>2, <2>3 DEF InputsOf, s, t
<1>16. ins <= 7 /\ ins - (n - 1) \in 0..4
  BY <1>6
<1> HIDE DEF ins, ins2, len
<1>17. ins >= n - 1 /\ good2
  BY <1>9, <1>10, <1>15, <1>16
<1>18. d2 = coders2
  <2> HIDE DEF good2
  <2> QED BY <1>14, <1>17, CheckAll
<1> HIDE DEF good, good2
<1>19. Ahead(d, d2, z)
  BY <1>6, <1>14, <1>18
<1> HIDE DEF d, d2
<1>20. SameRead(bonds, bonds2, z, BondSet, n - 1)
  BY <1>4, <1>9, <1>10, <1>19, BondsAhead
<1> HIDE DEF bonds, bonds2
<1>21. Ahead(bonds, bonds2, z) /\ bonds.v = bonds2.v
  BY <1>20 DEF SameRead
<1>22. packs = PacksAfter(bonds, n, ins) /\ packs2 = PacksAfter(bonds2, n, ins)
  BY <1>9, <1>14, <1>15
<1>23. Ahead(packs, packs2, z) /\ Len(packs.v) = ins - (n - 1)
  <2> HIDE DEF packs, packs2
  <2> QED BY <1>3, <1>10, <1>15, <1>17, <1>21, <1>22, PacksAhead
<1> HIDE DEF packs, packs2
<1>24. /\ v.unpackStream = v2.main /\ Len(v.coders) = v2.coders /\ Len(v.packStreams) = v2.packs
  BY <1>9, <1>14, <1>15, <1>21, <1>23 DEF len
<1> HIDE DEF v, v2
<1>25. Ahead(x, x2, z) /\ x.v = v /\ x2.v = v2
  BY <1>23, WithAhead
<1> HIDE DEF x, x2
<1>26. FolderAgrees(x, x2, z)
  BY <1>24, <1>25 DEF FolderAgrees
<1> QED BY <1>1, <1>2, <1>3, <1>14, <1>26

\* What passing over a folder keeps of it are the bytes it has passed over.
LEMMA ScanData ==
  ASSUME NEW r, IsCursor(r), ScanFolder(r).ok
  PROVE  ScanFolder(r).v.data = Consumed(r, ScanFolder(r))
<1> DEFINE a == ReadNumber32(r)
           n == a.v
           some == n \in 1..64
           b == Check(a, some)
           coders == Repeat(n, b, CoderScan)
           ins == InputsOf(coders.v, n)
           good == ins >= n - 1 /\ ins <= 64
           d == Check(coders, good)
           bonds == Repeat(n - 1, d, Bond)
           packs == PacksAfter(bonds, n, ins)
           bytes == Consumed(r, packs)
           v == [coders |-> n, packs |-> ins - (n - 1), main |-> FirstFree(Bonds(bonds.v, "out"), n), data |-> bytes]
           x == With(packs, v)
<1>1. ScanFolder(r) = IF coders.ok THEN x ELSE Err
  BY DEF ScanFolder, ScanCount, ScanCoders, ScanInputs, ScanBonds, Scanned
<1>2. v.data = bytes
  OBVIOUS
<1> HIDE DEF v, packs, coders
<1>3. ScanFolder(r) = x /\ packs.ok
  BY <1>1, ErrIs, WithOk
<1>4. x.v = v /\ x.sd = packs.sd
  BY <1>3 DEF With
<1> HIDE DEF x
<1> QED BY <1>2, <1>3, <1>4 DEF Consumed

\* A folder that was passed over is read from the bytes that were kept of it, and from all of them.
ReadAgainIs(item, f) ==
  item.ok => /\ item.sd = <<>> /\ item.v.unpackStream = f.main
             /\ Len(item.v.coders) = f.coders /\ Len(item.v.packStreams) = f.packs

\* SzAr_DecodeFolder reads from the bytes kept the folder that was scanned.
LEMMA FolderReadAgain ==
  ASSUME NEW f \in Folders
  PROVE  ReadAgainIs(SzGetNextFolderItem(Cursor(f.data)), f)
<1> DEFINE q == Cursor(f.data)
           item == SzGetNextFolderItem(q)
<1> SUFFICES ASSUME item.ok PROVE ReadAgainIs(item, f)
  BY DEF ReadAgainIs
<1>1. PICK r : IsCursor(r) /\ ScanFolder(r).ok /\ f = ScanFolder(r).v
  BY DEF Folders, IsScan
<1> DEFINE x == ScanFolder(r)
           z == x.sd
<1>2. Passed(r, x)
  BY <1>1, ScanFolderIs DEF Read
<1>3. f.data = Consumed(r, x)
  BY <1>1, ScanData
<1>4. r.ok /\ IsCursor(r) /\ x.ok /\ z \in Seq(Byte)
  BY <1>1, <1>2 DEF Passed, IsCursor
<1>5. f.data \in Seq(Byte) /\ r.sd = f.data \o z
  BY <1>1, <1>2, <1>3, ConsumedIs
<1>6. IsCursor(q) /\ q.ok /\ q.sd = f.data
  BY <1>5 DEF Cursor, IsCursor
<1> HIDE DEF q
<1>7. Ahead(q, r, z)
  BY <1>4, <1>5, <1>6 DEF Ahead
<1> HIDE DEF z
<1>8. FolderAgrees(item, x, z)
  BY <1>7, FolderAhead
<1> HIDE DEF item, x
<1>9. Ahead(item, x, z) /\ f = x.v
  BY <1>1, <1>8 DEF FolderAgrees, x
<1>10. x.sd = item.sd \o z /\ item.sd \in Seq(Byte) /\ z \in Seq(Byte) /\ x.sd = z
  BY <1>9 DEF Ahead, IsCursor, z
<1>11. <<>> \o z = z /\ <<>> \in Seq(Byte)
  BY <1>10
<1>12. item.sd = <<>>
  BY <1>10, <1>11, Cancelled
<1> QED BY <1>8, <1>9, <1>12 DEF FolderAgrees, ReadAgainIs

(* What the bonds of a folder say.                                           *)

\* What coder c makes of what the coders made before.
MadeBy(f, below, c) == <<Name(Coder(f, c)), [k \in 1..Coder(f, c).numStreams |-> InputAt(f, Stream(f, c, k), below)]>>
\* What the coders make, step by step.
Makes(f, M, n) == \A k \in 1..n, c \in Indices(f) : M[k][c] = MadeBy(f, M[k - 1], c)
Means(f, M) == Makes(f, M, Len(f.coders)) /\ Meaning(f) = M[Len(f.coders)][f.unpackStream]

\* The meaning of a folder's bonds exists: stream by stream, as often as there are coders.
LEMMA MeaningIs ==
  ASSUME NEW f, IsItem(f)
  PROVE  \E M : Means(f, M)
<1> DEFINE n == Len(f.coders)
           b == [c \in Indices(f) |-> <<"cycle">>]
           g == CHOOSE h : h = [k \in 0..n |-> IF k = 0 THEN b ELSE Outputs(f, h[k - 1])]
<1>1. n \in Nat
  BY DEF IsItem
<1>2. Meaning(f) = g[n][f.unpackStream]
  BY DEF Meaning, Fold
<1> HIDE DEF n, b
<1>3. PICK h : h = [k \in 0..n |-> IF k = 0 THEN b ELSE LoopTurn("mean", f, h[k - 1], k)]
  <2> DEFINE t == "mean"
  <2> HIDE DEF t
  <2>1. \E h : Runs(h, t, f, b, n)
    BY <1>1, LoopRuns
  <2> QED BY <2>1 DEF t, Runs
<1>4. h = [k \in 0..n |-> IF k = 0 THEN b ELSE Outputs(f, h[k - 1])]
  BY <1>3 DEF LoopTurn
<1>5. g = [k \in 0..n |-> IF k = 0 THEN b ELSE Outputs(f, g[k - 1])]
  BY <1>4
<1> HIDE DEF g
<1>6. ASSUME NEW k \in 1..n, NEW c \in Indices(f) PROVE g[k][c] = MadeBy(f, g[k - 1], c)
  <2>1. k \in 0..n /\ k # 0
    BY <1>1
  <2>2. g[k] = Outputs(f, g[k - 1])
    BY <1>5, <2>1
  <2>3. Outputs(f, g[k - 1])[c] = MadeBy(f, g[k - 1], c)
    BY DEF Outputs, MadeBy
  <2> QED BY <2>2, <2>3
<1>7. Means(f, g)
  BY <1>2, <1>6 DEF Means, Makes, n
<1> QED BY <1>7

\* Behind coders of one stream each, stream k of a coder has the coder's own number and on.
LEMMA StreamIs ==
  ASSUME NEW f, IsItem(f), NEW c \in Indices(f), \A i \in 0..c - 1 : Coder(f, i).numStreams = 1, NEW k
  PROVE  Stream(f, c, k) = c + k - 1
<1> DEFINE n == Len(f.coders)
           s == [i \in DOMAIN f.coders |-> f.coders[i].numStreams]
<1>1. n \in 1..4 /\ DOMAIN f.coders = 1..n /\ c \in 0..n - 1
  BY DEF IsItem, Indices
<1>2. \A i \in 1..n : s[i] \in Nat /\ s[i] = f.coders[i].numStreams
  <2> SUFFICES ASSUME NEW i \in 1..n PROVE s[i] \in Nat /\ s[i] = f.coders[i].numStreams
    OBVIOUS
  <2>1. f.coders[i] \in CoderSet
    BY <1>1, ElementOfSeq DEF IsItem
  <2>2. f.coders[i].numStreams \in Nat
    BY <2>1 DEF CoderSet
  <2> QED BY <1>1, <2>2
<1>3. \A i \in 1..c : s[i] = 1
  <2> SUFFICES ASSUME NEW i \in 1..c PROVE s[i] = 1
    OBVIOUS
  <2>1. i - 1 \in 0..c - 1 /\ i \in 1..n /\ (i - 1) + 1 = i
    BY <1>1
  <2>2. Coder(f, i - 1).numStreams = 1
    BY <2>1
  <2> QED BY <1>2, <2>1, <2>2 DEF Coder
<1>4. Stream(f, c, k) = SumTo(s, c) + k - 1
  BY DEF Stream, InputsOf
<1> HIDE DEF s, n
<1>5. SumTo(s, 0) = 0 /\ \A i \in 0..n - 1 : SumTo(s, i + 1) = SumTo(s, i) + s[i + 1]
  <2>1. n \in Nat /\ \A i \in 1..n : s[i] \in Nat
    BY <1>1, <1>2
  <2> QED BY <2>1, SumsRise
<1> DEFINE T == {i \in 0..c : SumTo(s, i) = i}
<1>6. \A i \in 0..c : i \in T
  <2>1. 0 \in T /\ c \in Nat
    BY <1>1, <1>5
  <2>2. \A i \in 0..c : i \in T /\ i < c => i + 1 \in T
    <3> SUFFICES ASSUME NEW i \in 0..c, i \in T, i < c PROVE i + 1 \in T
      OBVIOUS
    <3>1. i \in 0..n - 1 /\ i + 1 \in 1..c /\ i + 1 \in 0..c
      BY <1>1
    <3>2. SumTo(s, i) = i /\ s[i + 1] = 1 /\ SumTo(s, i + 1) = SumTo(s, i) + s[i + 1]
      BY <1>3, <1>5, <3>1
    <3> QED BY <3>1, <3>2
  <2> HIDE DEF T
  <2> QED BY <2>1, <2>2, Upwards
<1>7. SumTo(s, c) = c
  BY <1>1, <1>6
<1> QED BY <1>4, <1>7

\* What a coder of one stream makes.
LEMMA OneMade ==
  ASSUME NEW f, IsItem(f), NEW c \in Indices(f), \A i \in 0..c : Coder(f, i).numStreams = 1, NEW below
  PROVE  MadeBy(f, below, c) = <<Name(Coder(f, c)), <<InputAt(f, c, below)>>>>
<1>1. c \in Nat
  BY DEF Indices
<1>2. Coder(f, c).numStreams = 1 /\ \A i \in 0..c - 1 : Coder(f, i).numStreams = 1
  BY <1>1
<1>3. Stream(f, c, 1) = c
  BY <1>1, <1>2, StreamIs
<1> DEFINE P(j) == InputAt(f, Stream(f, c, j), below)
           s == [j \in 1..1 |-> P(j)]
<1>4. MadeBy(f, below, c) = <<Name(Coder(f, c)), s>>
  BY <1>2 DEF MadeBy
<1>5. P(1) = InputAt(f, c, below)
  BY <1>3
<1> HIDE DEF P
<1>6. s = <<P(1)>>
  OBVIOUS
<1> QED BY <1>4, <1>5, <1>6

\* The first stream no bond takes.
LEMMA FirstFreeAt ==
  ASSUME NEW s, NEW n \in Nat, NEW i \in 0..n - 1, NEW R, R = {s[j] : j \in DOMAIN s}, i \notin R, 0..i - 1 \subseteq R
  PROVE  FirstFree(s, n) = i
<1> DEFINE P(m) == m \notin R /\ 0..m - 1 \subseteq R
           j == CHOOSE m \in 0..n - 1 : P(m)
<1>1. FirstFree(s, n) = j
  BY DEF FirstFree
<1>2. j \in 0..n - 1 /\ P(j)
  <2>1. P(i)
    OBVIOUS
  <2> HIDE DEF P
  <2> QED BY <2>1
<1> HIDE DEF j
<1>3. ~(j < i)
  <2> SUFFICES ASSUME j < i PROVE FALSE
    OBVIOUS
  <2>1. j \in 0..i - 1
    BY <1>2
  <2> QED BY <1>2, <2>1
<1>4. ~(i < j)
  <2> SUFFICES ASSUME i < j PROVE FALSE
    OBVIOUS
  <2>1. i \in 0..j - 1
    BY <1>2
  <2> QED BY <1>2, <2>1
<1>5. j = i
  BY <1>2, <1>3, <1>4
<1> QED BY <1>1, <1>5

(* The coders of a folder, and what one of them makes of a stream.           *)

\* FindAesCoder returns a cipher, if there is one.
LEMMA AesIs ==
  ASSUME NEW f, IsItem(f)
  PROVE  LET a == FindAesCoder(f) IN a = -1 \/ (a \in Indices(f) /\ Name(Coder(f, a)) = "AES")
<1> DEFINE A(i) == Name(Coder(f, i)) = "AES"
           I == Indices(f)
           a == FindAesCoder(f)
           T == {i \in I : A(i)}
<1>1. a = IF \E i \in I : A(i) THEN CHOOSE i \in I : A(i) /\ \A j \in 0..i - 1 : ~A(j) ELSE -1
  BY DEF FindAesCoder
<1>2. \A i \in I : i \in Nat /\ \A j \in 0..i - 1 : j \in I
  BY DEF IsItem, Indices
<1> HIDE DEF a, A, I
<1>3. CASE \E i \in I : A(i)
  <2>1. T \in SUBSET Nat /\ T # {}
    BY <1>2, <1>3
  <2>2. PICK m \in T : \A i \in T : m <= i
    BY <2>1, LeastNat
  <2>3. A(m) /\ m \in I /\ \A j \in 0..m - 1 : ~A(j)
    <3> SUFFICES ASSUME NEW j \in 0..m - 1, A(j) PROVE FALSE
      BY <2>2
    <3>1. j \in T
      BY <1>2, <2>2
    <3>2. m <= j /\ m \in Nat
      BY <1>2, <2>2, <3>1
    <3> QED BY <3>2
  <2>4. a \in I /\ A(a)
    BY <1>1, <1>3, <2>3
  <2> QED BY <2>4 DEF a, A, I
<1>4. CASE ~\E i \in I : A(i)
  BY <1>1, <1>4 DEF a
<1> QED BY <1>3, <1>4

\* LastOf returns one of those it looks for, if there is one.
LEMMA LastIs ==
  ASSUME NEW f, IsItem(f), NEW main
  PROVE  LET l == LastOf(f, main)
             s == {i \in Indices(f) \ {FindAesCoder(f)} : IsMain(Coder(f, i)) = main}
         IN (l = -1 /\ s = {}) \/ l \in s
<1> DEFINE s == {i \in Indices(f) \ {FindAesCoder(f)} : IsMain(Coder(f, i)) = main}
           l == LastOf(f, main)
           n == Len(f.coders)
           T == {k \in 0..n : \E i \in s : k = n - i}
<1>1. l = IF s = {} THEN -1 ELSE CHOOSE i \in s : \A j \in s : j <= i
  BY DEF LastOf
<1>2. n \in Nat /\ s \subseteq 0..n - 1
  BY DEF IsItem, Indices
<1> HIDE DEF l, s, n
<1>3. CASE s # {}
  <2>1. T # {} /\ T \in SUBSET Nat
    <3>1. PICK i \in s : TRUE
      BY <1>3
    <3>2. n - i \in T
      BY <1>2, <3>1
    <3> QED BY <3>2
  <2>2. PICK m \in T : \A k \in T : m <= k
    BY <2>1, LeastNat
  <2>3. PICK i \in s : m = n - i
    BY <2>2
  <2>4. ASSUME NEW j \in s PROVE j <= i
    <3>1. n - j \in T
      BY <1>2
    <3>2. n - i <= n - j /\ i \in 0..n - 1 /\ j \in 0..n - 1
      BY <1>2, <2>2, <2>3, <3>1
    <3> QED BY <1>2, <3>2
  <2>5. l \in s
    BY <1>1, <1>3, <2>4
  <2> QED BY <2>5 DEF l, s
<1>4. CASE s = {}
  BY <1>1, <1>4 DEF l, s
<1> QED BY <1>3, <1>4

\* A result succeeds when it is said to, and then carries its term.
LEMMA ResultIs == \A ok, t : Result(ok, t).ok = ok /\ (ok => Result(ok, t).term = t)
  BY DEF Result

\* A plain decoder turns its pack stream into what the coder makes of it.
LEMMA PlainIs ==
  ASSUME NEW c, NEW s, NEW n, DecodePlain(c, s, n).ok
  PROVE  DecodePlain(c, s, n).term = <<Name(c), <<s.term>>>>
<1>1. CASE Name(c) = "Copy"
  <2> DEFINE t == <<"Copy", <<s.term>>>>
             fit == s.size <= s.size
             r == Result(fit, t)
  <2>1. DecodePlain(c, s, n) = IF s.size = n THEN r ELSE Result(FALSE, <<>>)
    BY <1>1 DEF DecodePlain, SzDecodeCopy
  <2> HIDE DEF r, fit, t
  <2>2. s.size = n
    BY <2>1, ResultIs
  <2>3. r.ok
    BY <2>1, <2>2
  <2>4. r.term = t
    BY <2>3, ResultIs DEF r
  <2> QED BY <1>1, <2>1, <2>2, <2>4 DEF t
<1>2. CASE Name(c) # "Copy"
  <2> DEFINE t == <<Name(c), <<s.term>>>>
             good == GoodProps(c) /\ s.whole /\ s.left = 0
  <2>1. DecodePlain(c, s, n) = Result(good, t)
    BY <1>2 DEF DecodePlain, DecodeMain
  <2> HIDE DEF t, good
  <2>2. DecodePlain(c, s, n).term = t
    BY <2>1, ResultIs
  <2> QED BY <2>2 DEF t
<1> QED BY <1>1, <1>2

\* The packed streams a folder is given: stream k is coded as "pack" k.
ArePacks(packs, n) ==
  \A k \in 1..n :
    packs[k] = [term |-> <<"pack", k>>, size |-> packs[k].size, left |-> packs[k].left, whole |-> packs[k].whole]

\* A packed stream that feeds stream s, which no coder is bonded to.
LEMMA PackedAt ==
  ASSUME NEW f, NEW s, NEW k \in DOMAIN f.packStreams, f.packStreams[k] = s,
         \A j \in DOMAIN f.packStreams : f.packStreams[j] = s => j = k,
         \A b \in DOMAIN f.bonds : f.bonds[b].in # s, NEW below
  PROVE  InputAt(f, s, below) = <<"pack", k>>
<1>1. BondedTo(f, s) = {}
  BY DEF BondedTo
<1>2. (CHOOSE j \in DOMAIN f.packStreams : f.packStreams[j] = s) = k
  OBVIOUS
<1> QED BY <1>1, <1>2 DEF InputAt, PackedTo

\* An input that is bonded reads the output its bond names.
LEMMA BondedAt ==
  ASSUME NEW f, NEW s, NEW b \in DOMAIN f.bonds, f.bonds[b].in = s, NEW o,
         \A d \in DOMAIN f.bonds : f.bonds[d].in = s => f.bonds[d].out = o, NEW below
  PROVE  InputAt(f, s, below) = below[o]
<1> DEFINE d == CHOOSE e \in BondedTo(f, s) : TRUE
<1>1. b \in BondedTo(f, s)
  BY DEF BondedTo
<1>2. d \in BondedTo(f, s)
  BY <1>1
<1> HIDE DEF d
<1>3. f.bonds[d].out = o
  BY <1>2 DEF BondedTo
<1> QED BY <1>1, <1>3 DEF InputAt, d

\* A stream the only packed stream feeds.
LEMMA OnlyPack ==
  ASSUME NEW f, NEW s, f.packStreams = <<s>>, \A b \in DOMAIN f.bonds : f.bonds[b].in # s, NEW below
  PROVE  InputAt(f, s, below) = <<"pack", 1>>
<1> DEFINE k == 1
           p == f.packStreams
<1>1. k \in DOMAIN p /\ p[k] = s /\ \A j \in DOMAIN p : j = k
  OBVIOUS
<1>2. (CHOOSE j \in DOMAIN p : p[j] = s) = k
  BY <1>1
<1>3. BondedTo(f, s) = {}
  BY DEF BondedTo
<1> HIDE DEF k
<1>4. InputAt(f, s, below) = <<"pack", k>>
  BY <1>2, <1>3 DEF InputAt, PackedTo
<1> QED BY <1>4 DEF k

\* In a folder whose coders have one stream each.
Chain(f, M) ==
  \A k \in 1..Len(f.coders), c \in Indices(f) : M[k][c] = <<Name(Coder(f, c)), <<InputAt(f, c, M[k - 1])>>>>

\* In a chain of coders with one stream each, every coder reads the one its bond names.
LEMMA ChainIs ==
  ASSUME NEW f, IsItem(f), \A c \in Indices(f) : Coder(f, c).numStreams = 1
  PROVE  \E M : Chain(f, M) /\ Means(f, M)
<1>1. PICK M : Means(f, M)
  BY MeaningIs
<1>2. ASSUME NEW k \in 1..Len(f.coders), NEW c \in Indices(f)
      PROVE  M[k][c] = <<Name(Coder(f, c)), <<InputAt(f, c, M[k - 1])>>>>
  <2>1. \A i \in 0..c : Coder(f, i).numStreams = 1
    BY DEF Indices, IsItem
  <2>2. M[k][c] = MadeBy(f, M[k - 1], c)
    BY <1>1 DEF Means, Makes
  <2> QED BY <2>1, <2>2, OneMade
<1> QED BY <1>1, <1>2 DEF Chain

(* Each recipe makes what the bonds say.                                     *)

\* What an item says of its coders, bonds and streams.
LEMMA ItemFacts ==
  ASSUME NEW f, IsItem(f)
  PROVE  /\ Len(f.coders) \in 1..4 /\ Indices(f) = 0..Len(f.coders) - 1 /\ Len(f.bonds) = Len(f.coders) - 1
         /\ f.bonds \in Seq(BondSet) /\ DOMAIN f.bonds = 1..Len(f.coders) - 1
         /\ f.unpackStream = FirstFree(Bonds(f.bonds, "out"), Len(f.coders))
         /\ \A i \in DOMAIN f.bonds : Bonds(f.bonds, "out")[i] = f.bonds[i].out
         /\ DOMAIN Bonds(f.bonds, "out") = DOMAIN f.bonds
  BY DEF IsItem, Indices, Bonds

\* A folder of one coder and one packed stream.
LEMMA OneCoderMeans ==
  ASSUME NEW f, IsItem(f), Len(f.coders) = 1, f.packStreams = << 0 >>, Coder(f, 0).numStreams = 1
  PROVE  Meaning(f) = <<Name(Coder(f, 0)), <<<<"pack", 1>>>>>>
<1>1. Indices(f) = 0..0 /\ DOMAIN f.bonds = {} /\ f.unpackStream = FirstFree(Bonds(f.bonds, "out"), 1)
      /\ DOMAIN Bonds(f.bonds, "out") = {}
  <2>1. 1..1 - 1 = {} /\ 1 - 1 = 0
    OBVIOUS
  <2> QED BY <2>1, ItemFacts
<1>2. PICK M : Means(f, M)
  BY MeaningIs
<1>3. f.unpackStream = 0
  <2> DEFINE s == Bonds(f.bonds, "out")
             R == {s[j] : j \in DOMAIN s}
  <2>1. R = {}
    BY <1>1
  <2>2. R = {s[j] : j \in DOMAIN s}
    OBVIOUS
  <2> HIDE DEF s, R
  <2>3. 0 \in 0..1 - 1 /\ 0..0 - 1 = {} /\ 1 \in Nat
    OBVIOUS
  <2>4. FirstFree(s, 1) = 0
    BY <2>1, <2>2, <2>3, FirstFreeAt
  <2> QED BY <1>1, <2>4 DEF s
<1>4. \A i \in 0..0 : Coder(f, i).numStreams = 1
  OBVIOUS
<1>5. InputAt(f, 0, M[0]) = <<"pack", 1>>
  BY <1>1, OnlyPack
<1>6. 1 \in 1..Len(f.coders) /\ 0 \in Indices(f) /\ 1 - 1 = 0
  BY <1>1
<1>7. M[1][0] = <<Name(Coder(f, 0)), <<InputAt(f, 0, M[0])>>>>
  <2>1. M[1][0] = MadeBy(f, M[0], 0)
    BY <1>2, <1>6 DEF Means, Makes
  <2> QED BY <1>4, <1>6, <2>1, OneMade
<1> QED BY <1>2, <1>3, <1>5, <1>6, <1>7 DEF Means

\* A folder of two coders of one stream each, the first, a, of which is fed by the packed stream.
LEMMA TwoCodersMean ==
  ASSUME NEW f, IsItem(f), Len(f.coders) = 2, NEW a \in {0, 1}, f.packStreams = <<a>>, f.bonds = <<B(1 - a, a)>>,
         Coder(f, 0).numStreams = 1, Coder(f, 1).numStreams = 1
  PROVE  Meaning(f) = <<Name(Coder(f, 1 - a)), <<<<Name(Coder(f, a)), <<<<"pack", 1>>>>>>>>>>
<1> DEFINE o == 1 - a
<1>1. Indices(f) = 0..1 /\ f.unpackStream = FirstFree(Bonds(f.bonds, "out"), 2)
  BY ItemFacts
<1>2. DOMAIN f.bonds = {1} /\ f.bonds[1].in = o /\ f.bonds[1].out = a /\ o # a /\ a \in 0..1 /\ o \in 0..1
  BY DEF B
<1>3. PICK M : Chain(f, M) /\ Means(f, M)
  <2>1. \A c \in Indices(f) : Coder(f, c).numStreams = 1
    BY <1>1
  <2> QED BY <2>1, ChainIs
<1>4. f.unpackStream = o
  <2> DEFINE s == Bonds(f.bonds, "out")
             R == {s[j] : j \in DOMAIN s}
  <2>1. R = {a}
    <3>1. DOMAIN s = {1} /\ s[1] = a
      BY <1>2, ItemFacts
    <3> QED BY <3>1
  <2>2. R = {s[j] : j \in DOMAIN s}
    OBVIOUS
  <2> HIDE DEF s, R
  <2>3. o \in 0..2 - 1 /\ o \notin R /\ 0..o - 1 \subseteq R /\ 2 \in Nat
    BY <2>1
  <2> HIDE DEF o
  <2>4. FirstFree(s, 2) = o
    BY <2>2, <2>3, FirstFreeAt
  <2> QED BY <1>1, <2>4 DEF s
<1>5. \A k \in 1..2, c \in 0..1 : M[k][c] = <<Name(Coder(f, c)), <<InputAt(f, c, M[k - 1])>>>>
  BY <1>1, <1>3 DEF Chain
<1>6. InputAt(f, a, M[0]) = <<"pack", 1>>
  <2>1. \A b \in DOMAIN f.bonds : f.bonds[b].in # a
    BY <1>2
  <2> QED BY <2>1, OnlyPack
<1>7. InputAt(f, o, M[1]) = M[1][a]
  <2>1. 1 \in DOMAIN f.bonds /\ f.bonds[1].in = o /\ \A d \in DOMAIN f.bonds : f.bonds[d].in = o => f.bonds[d].out = a
    BY <1>2
  <2> HIDE DEF o
  <2> QED BY <2>1, BondedAt
<1> HIDE DEF o
<1>8. M[2][o] = <<Name(Coder(f, o)), <<InputAt(f, o, M[1])>>>> /\ M[1][a] = <<Name(Coder(f, a)), <<InputAt(f, a, M[0])>>>>
  <2>1. 1 \in 1..2 /\ 2 \in 1..2 /\ 2 - 1 = 1 /\ 1 - 1 = 0
    OBVIOUS
  <2> QED BY <1>2, <1>5, <2>1
<1>9. Meaning(f) = M[2][o]
  BY <1>3, <1>4 DEF Means
<1>10. Meaning(f) = <<Name(Coder(f, o)), <<M[1][a]>>>>
  BY <1>7, <1>8, <1>9
<1> QED BY <1>6, <1>8, <1>10 DEF o

\* A folder of three coders of one stream each in a chain: a, which the packed stream feeds, m, and t.
LEMMA ThreeCodersMean ==
  ASSUME NEW f, IsItem(f), Len(f.coders) = 3, NEW a \in 0..2, NEW m \in 0..2, NEW t \in 0..2, a # m, a # t, m # t,
         f.packStreams = <<a>>, {f.bonds[i] : i \in 1..2} = {B(m, a), B(t, m)},
         \A c \in 0..2 : Coder(f, c).numStreams = 1
  PROVE  Meaning(f) = <<Name(Coder(f, t)), <<<<Name(Coder(f, m)), <<<<Name(Coder(f, a)), <<<<"pack", 1>>>>>>>>>>>>>>
<1>1. Indices(f) = 0..2 /\ f.unpackStream = FirstFree(Bonds(f.bonds, "out"), 3) /\ DOMAIN f.bonds = 1..2
  <2>1. 3 - 1 = 2
    OBVIOUS
  <2> QED BY <2>1, ItemFacts
<1>2. /\ \A i \in 1..2 : f.bonds[i] = B(m, a) \/ f.bonds[i] = B(t, m)
      /\ \E i \in 1..2 : f.bonds[i] = B(m, a)
      /\ \E i \in 1..2 : f.bonds[i] = B(t, m)
  OBVIOUS
<1>3. B(m, a).in = m /\ B(m, a).out = a /\ B(t, m).in = t /\ B(t, m).out = m
  BY DEF B
<1>4. PICK M : Chain(f, M) /\ Means(f, M)
  <2>1. \A c \in Indices(f) : Coder(f, c).numStreams = 1
    BY <1>1
  <2> QED BY <2>1, ChainIs
<1>5. f.unpackStream = t
  <2> DEFINE s == Bonds(f.bonds, "out")
             R == {s[j] : j \in DOMAIN s}
  <2>1. R = {a, m}
    <3>1. DOMAIN s = 1..2 /\ \A j \in 1..2 : s[j] = f.bonds[j].out
      BY <1>1, ItemFacts
    <3> HIDE DEF s
    <3> QED BY <1>2, <1>3, <3>1
  <2>2. R = {s[j] : j \in DOMAIN s}
    OBVIOUS
  <2> HIDE DEF s, R
  <2>3. t \in 0..3 - 1 /\ t \notin R /\ 0..t - 1 \subseteq R /\ 3 \in Nat
    BY <2>1
  <2>4. FirstFree(s, 3) = t
    BY <2>2, <2>3, FirstFreeAt
  <2> QED BY <1>1, <2>4 DEF s
<1>6. \A k \in 1..3, c \in 0..2 : M[k][c] = <<Name(Coder(f, c)), <<InputAt(f, c, M[k - 1])>>>>
  BY <1>1, <1>4 DEF Chain
<1>7. InputAt(f, a, M[0]) = <<"pack", 1>>
  <2>1. \A b \in DOMAIN f.bonds : f.bonds[b].in # a
    BY <1>1, <1>2, <1>3
  <2> QED BY <2>1, OnlyPack
<1>8. InputAt(f, m, M[1]) = M[1][a]
  <2>1. PICK b \in DOMAIN f.bonds : f.bonds[b].in = m
    BY <1>1, <1>2, <1>3
  <2>2. \A d \in DOMAIN f.bonds : f.bonds[d].in = m => f.bonds[d].out = a
    BY <1>1, <1>2, <1>3
  <2> QED BY <2>1, <2>2, BondedAt
<1>9. InputAt(f, t, M[2]) = M[2][m]
  <2>1. PICK b \in DOMAIN f.bonds : f.bonds[b].in = t
    BY <1>1, <1>2, <1>3
  <2>2. \A d \in DOMAIN f.bonds : f.bonds[d].in = t => f.bonds[d].out = m
    BY <1>1, <1>2, <1>3
  <2> QED BY <2>1, <2>2, BondedAt
<1>10. /\ M[1][a] = <<Name(Coder(f, a)), <<InputAt(f, a, M[0])>>>>
       /\ M[2][m] = <<Name(Coder(f, m)), <<InputAt(f, m, M[1])>>>>
       /\ M[3][t] = <<Name(Coder(f, t)), <<InputAt(f, t, M[2])>>>>
  <2>1. 1 \in 1..3 /\ 2 \in 1..3 /\ 3 \in 1..3 /\ 3 - 1 = 2 /\ 2 - 1 = 1 /\ 1 - 1 = 0
    OBVIOUS
  <2> QED BY <1>6, <2>1
<1>11. Meaning(f) = M[3][t]
  BY <1>4, <1>5 DEF Means
<1> QED BY <1>7, <1>8, <1>9, <1>10, <1>11

\* The graph of BCJ2: four packed streams, three coders of one stream, and the one they all feed.
LEMMA FourCodersMean ==
  ASSUME NEW f, IsItem(f), Len(f.coders) = 4, \A c \in 0..2 : Coder(f, c).numStreams = 1, Coder(f, 3).numStreams = 4,
         f.packStreams = <<2, 6, 1, 0>>, f.bonds = <<B(5, 0), B(4, 1), B(3, 2)>>
  PROVE  Meaning(f) = <<Name(Coder(f, 3)),
                        <<<<Name(Coder(f, 2)), <<<<"pack", 1>>>>>>, <<Name(Coder(f, 1)), <<<<"pack", 3>>>>>>,
                          <<Name(Coder(f, 0)), <<<<"pack", 4>>>>>>, <<"pack", 2>>>>>>
<1>1. Indices(f) = 0..3 /\ f.unpackStream = FirstFree(Bonds(f.bonds, "out"), 4) /\ DOMAIN f.bonds = 1..3
  <2>1. 4 - 1 = 3
    OBVIOUS
  <2> QED BY <2>1, ItemFacts
<1>2. /\ f.bonds[1].in = 5 /\ f.bonds[1].out = 0 /\ f.bonds[2].in = 4 /\ f.bonds[2].out = 1
      /\ f.bonds[3].in = 3 /\ f.bonds[3].out = 2
  BY DEF B
<1> DEFINE p == f.packStreams
<1>3. DOMAIN p = 1..4 /\ p[1] = 2 /\ p[2] = 6 /\ p[3] = 1 /\ p[4] = 0
  OBVIOUS
<1>4. PICK M : Means(f, M)
  BY MeaningIs
<1>5. f.unpackStream = 3
  <2> DEFINE s == Bonds(f.bonds, "out")
             R == {s[j] : j \in DOMAIN s}
  <2>1. R = {0, 1, 2}
    <3>1. DOMAIN s = 1..3 /\ \A j \in 1..3 : s[j] = f.bonds[j].out
      BY <1>1, ItemFacts
    <3> HIDE DEF s
    <3> QED BY <1>2, <3>1
  <2>2. R = {s[j] : j \in DOMAIN s}
    OBVIOUS
  <2> HIDE DEF s, R
  <2> DEFINE t == 3
  <2>3. t \in 0..4 - 1 /\ t \notin R /\ 0..t - 1 \subseteq R /\ 4 \in Nat
    BY <2>1
  <2> HIDE DEF t
  <2>4. FirstFree(s, 4) = t
    BY <2>2, <2>3, FirstFreeAt
  <2> QED BY <1>1, <2>4 DEF s, t
<1>6. \A c \in 0..2 : M[3][c] = <<Name(Coder(f, c)), <<InputAt(f, c, M[2])>>>>
  <2> SUFFICES ASSUME NEW c \in 0..2 PROVE M[3][c] = <<Name(Coder(f, c)), <<InputAt(f, c, M[2])>>>>
    OBVIOUS
  <2>1. c \in Indices(f) /\ 3 \in 1..Len(f.coders) /\ 3 - 1 = 2
    BY <1>1
  <2>2. \A i \in 0..c : Coder(f, i).numStreams = 1
    OBVIOUS
  <2>3. M[3][c] = MadeBy(f, M[2], c)
    BY <1>4, <2>1 DEF Means, Makes
  <2> QED BY ONLY IsItem(f), <2>1, <2>2, <2>3, OneMade
<1>7. M[4][3] = MadeBy(f, M[3], 3)
  <2>1. 4 \in 1..Len(f.coders) /\ 3 \in Indices(f) /\ 4 - 1 = 3
    BY <1>1
  <2> QED BY <1>4, <2>1 DEF Means, Makes
<1>8. \A k \in 1..4 : Stream(f, 3, k) = k + 2
  <2> SUFFICES ASSUME NEW k \in 1..4 PROVE Stream(f, 3, k) = k + 2
    OBVIOUS
  <2> DEFINE c == 3
  <2>1. c \in Indices(f) /\ c + k - 1 = k + 2 /\ \A i \in 0..c - 1 : Coder(f, i).numStreams = 1
    BY <1>1
  <2> HIDE DEF c
  <2>2. Stream(f, c, k) = c + k - 1
    BY <2>1, StreamIs
  <2> QED BY <2>1, <2>2 DEF c
<1> DEFINE in(s, below) == InputAt(f, s, below)
<1>9. MadeBy(f, M[3], 3) = <<Name(Coder(f, 3)), <<in(3, M[3]), in(4, M[3]), in(5, M[3]), in(6, M[3])>>>>
  <2> DEFINE q == [k \in 1..4 |-> InputAt(f, Stream(f, 3, k), M[3])]
  <2>1. MadeBy(f, M[3], 3) = <<Name(Coder(f, 3)), q>>
    BY DEF MadeBy
  <2>2. \A k \in 1..4 : q[k] = in(k + 2, M[3])
    BY <1>8
  <2>3. q \in [1..4 -> {q[k] : k \in 1..4}]
    OBVIOUS
  <2> HIDE DEF q, in
  <2>4. 1 + 2 = 3 /\ 2 + 2 = 4 /\ 3 + 2 = 5 /\ 4 + 2 = 6
    OBVIOUS
  <2>5. q[1] = in(3, M[3]) /\ q[2] = in(4, M[3]) /\ q[3] = in(5, M[3]) /\ q[4] = in(6, M[3])
    BY <2>2, <2>4
  <2>6. q = <<q[1], q[2], q[3], q[4]>>
    BY <2>3
  <2> QED BY <2>1, <2>5, <2>6
<1>10. \A below : in(3, below) = below[2] /\ in(4, below) = below[1] /\ in(5, below) = below[0]
  <2> SUFFICES ASSUME NEW below PROVE in(3, below) = below[2] /\ in(4, below) = below[1] /\ in(5, below) = below[0]
    OBVIOUS
  <2>1. ASSUME NEW s \in 3..5 PROVE in(s, below) = below[5 - s]
    <3> DEFINE b == 6 - s
               o == 5 - s
    <3>1. b \in DOMAIN f.bonds /\ f.bonds[b].in = s
      BY <1>1, <1>2, <2>1
    <3>2. \A d \in DOMAIN f.bonds : f.bonds[d].in = s => f.bonds[d].out = o
      BY <1>1, <1>2, <2>1
    <3> HIDE DEF b, o
    <3>3. in(s, below) = below[o]
      BY ONLY <3>1, <3>2, BondedAt
    <3> QED BY <3>3 DEF o
  <2> HIDE DEF in
  <2>2. 3 \in 3..5 /\ 4 \in 3..5 /\ 5 \in 3..5 /\ 5 - 3 = 2 /\ 5 - 4 = 1 /\ 5 - 5 = 0
    OBVIOUS
  <2> QED BY <2>1, <2>2
<1>11. \A below : /\ in(2, below) = <<"pack", 1>> /\ in(6, below) = <<"pack", 2>>
                  /\ in(1, below) = <<"pack", 3>> /\ in(0, below) = <<"pack", 4>>
  <2> SUFFICES ASSUME NEW below
               PROVE  /\ in(2, below) = <<"pack", 1>> /\ in(6, below) = <<"pack", 2>>
                      /\ in(1, below) = <<"pack", 3>> /\ in(0, below) = <<"pack", 4>>
    OBVIOUS
  <2>1. ASSUME NEW k \in 1..4 PROVE in(p[k], below) = <<"pack", k>>
    <3> DEFINE s == p[k]
    <3>1. k \in DOMAIN f.packStreams /\ f.packStreams[k] = s /\ \A j \in DOMAIN f.packStreams : f.packStreams[j] = s => j = k
      BY <1>3, <2>1
    <3>2. \A b \in DOMAIN f.bonds : f.bonds[b].in # s
      BY <1>1, <1>2, <1>3, <2>1
    <3>3. (CHOOSE j \in DOMAIN f.packStreams : f.packStreams[j] = s) = k
      BY <3>1
    <3>4. BondedTo(f, s) = {}
      BY <3>2 DEF BondedTo
    <3> HIDE DEF s, p
    <3>5. in(s, below) = <<"pack", k>>
      BY ONLY <3>3, <3>4 DEF InputAt, PackedTo
    <3> QED BY <3>5 DEF s
  <2> HIDE DEF in, p
  <2>2. 1 \in 1..4 /\ 2 \in 1..4 /\ 3 \in 1..4 /\ 4 \in 1..4
    OBVIOUS
  <2> QED BY <1>3, <2>1, <2>2
<1>12. Meaning(f) = M[4][3]
  BY <1>4, <1>5 DEF Means
<1>13. M[3][0] = <<Name(Coder(f, 0)), <<in(0, M[2])>>>> /\ M[3][1] = <<Name(Coder(f, 1)), <<in(1, M[2])>>>>
       /\ M[3][2] = <<Name(Coder(f, 2)), <<in(2, M[2])>>>>
  <2>1. 0 \in 0..2 /\ 1 \in 0..2 /\ 2 \in 0..2
    OBVIOUS
  <2> QED BY <1>6, <2>1
<1> HIDE DEF in, p
<1> QED BY <1>7, <1>9, <1>10, <1>11, <1>12, <1>13

\* A filter turns what it filters into what the coder makes of it.
LEMMA FilteredIs ==
  ASSUME NEW c, NEW r
  PROVE  /\ Filtered(c, r, FilterFits).ok => r.ok /\ Filtered(c, r, FilterFits).term = <<Name(c), <<r.term>>>>
         /\ Filtered(c, r, AesFilterFits).ok => r.ok /\ Filtered(c, r, AesFilterFits).term = <<Name(c), <<r.term>>>>
<1> DEFINE t == <<Name(c), <<r.term>>>>
           x == Filtered(c, r, FilterFits)
           y == Filtered(c, r, AesFilterFits)
<1>1. x = IF r.ok THEN Result(FilterFits(c), t) ELSE r
  BY DEF Filtered
<1>2. y = IF r.ok THEN Result(AesFilterFits(c), t) ELSE r
  BY DEF Filtered
<1> HIDE DEF t, x, y
<1>3. x.ok => r.ok /\ x.term = t
  BY <1>1, ResultIs
<1>4. y.ok => r.ok /\ y.term = t
  BY <1>2, ResultIs
<1> QED BY <1>3, <1>4 DEF t, x, y

\* A pack stream stands for itself, deciphered or not.
LEMMA PackIs ==
  ASSUME NEW packs, NEW n, ArePacks(packs, n)
  PROVE  \A k \in 1..n : packs[k].term = <<"pack", k>> /\ [packs[k] EXCEPT !.term = <<"AES", <<@>>>>].term = <<"AES", <<<<"pack", k>>>>>>
<1> TAKE k \in 1..n
<1> DEFINE p == packs[k]
<1>1. p = [term |-> <<"pack", k>>, size |-> p.size, left |-> p.left, whole |-> p.whole]
  BY DEF ArePacks
<1> HIDE DEF p
<1>2. p.term = <<"pack", k>> /\ [p EXCEPT !.term = <<"AES", <<@>>>>].term = <<"AES", <<<<"pack", k>>>>>>
  BY <1>1
<1> QED BY <1>2 DEF p

\* The recipes without a cipher.
LEMMA PlainRecipe ==
  ASSUME NEW f, IsItem(f), NEW packs, ArePacks(packs, Len(f.packStreams)), NEW sizes, NEW n, NEW password,
         CheckSupportedFolder(f), FindAesCoder(f) = -1, SzFolder_Decode2(f, packs, sizes, n, password).ok
  PROVE  SzFolder_Decode2(f, packs, sizes, n, password).term = Meaning(f)
<1> DEFINE x == SzFolder_Decode2(f, packs, sizes, n, password)
           c(i) == Coder(f, i)
           r == DecodePlain(c(0), packs[1], n)
<1>1. IsSupportedCoder(c(0)) /\ (MainAlone(f) \/ MainAndFilter(f) \/ Bcj2Folder(f))
  BY DEF CheckSupportedFolder
<1>2. x = IF Len(f.coders) = 4 THEN DecodeBcj2(f, packs, sizes, n)
          ELSE IF Len(f.coders) = 2 THEN Filtered(c(1), r, FilterFits) ELSE r
  BY DEF SzFolder_Decode2
<1>3. c(0).numStreams = 1
  BY <1>1 DEF IsSupportedCoder
<1>4. \A k \in 1..Len(f.packStreams) : packs[k].term = <<"pack", k>>
  BY PackIs
<1> HIDE DEF x, c
<1>5. CASE MainAlone(f)
  <2>1. Len(f.coders) = 1 /\ f.packStreams = << 0 >>
    BY <1>5 DEF MainAlone
  <2>2. x = r /\ x.ok
    BY <1>2, <2>1 DEF x
  <2>3. x.term = <<Name(c(0)), <<packs[1].term>>>>
    BY <2>2, PlainIs
  <2>4. Len(f.packStreams) = 1 /\ 1 \in 1..1
    BY <2>1
  <2>5. packs[1].term = <<"pack", 1>>
    BY <1>4, <2>4
  <2>6. Meaning(f) = <<Name(c(0)), <<<<"pack", 1>>>>>>
    BY <1>3, <2>1, OneCoderMeans DEF c
  <2> QED BY <2>3, <2>5, <2>6 DEF x
<1>6. CASE MainAndFilter(f)
  <2>1. Len(f.coders) = 2 /\ c(1).numStreams = 1 /\ f.packStreams = << 0 >> /\ f.bonds = <<B(1, 0)>>
    BY <1>6 DEF MainAndFilter, c
  <2>2. x = Filtered(c(1), r, FilterFits) /\ x.ok
    BY <1>2, <2>1 DEF x
  <2> HIDE DEF r
  <2>3. r.ok /\ x.term = <<Name(c(1)), <<r.term>>>>
    BY <2>2, FilteredIs
  <2>4. r.term = <<Name(c(0)), <<packs[1].term>>>>
    BY <2>3, PlainIs DEF r
  <2>5. Len(f.packStreams) = 1 /\ 1 \in 1..1
    BY <2>1
  <2>6. packs[1].term = <<"pack", 1>>
    BY <1>4, <2>5
  <2> DEFINE a == 0
  <2>7. a \in {0, 1} /\ 1 - a = 1 /\ f.packStreams = <<a>> /\ f.bonds = <<B(1 - a, a)>>
    BY <2>1
  <2>8. c(0).numStreams = 1 /\ c(1).numStreams = 1
    BY <1>3, <2>1
  <2> HIDE DEF a
  <2>9. Meaning(f) = <<Name(c(1 - a)), <<<<Name(c(a)), <<<<"pack", 1>>>>>>>>>>
    BY <2>1, <2>7, <2>8, TwoCodersMean DEF c
  <2>10. Meaning(f) = <<Name(c(1)), <<<<Name(c(0)), <<<<"pack", 1>>>>>>>>>>
    BY <2>7, <2>9 DEF a
  <2> QED BY <2>3, <2>4, <2>6, <2>10 DEF x
<1>7. CASE Bcj2Folder(f)
  <2>1. /\ Len(f.coders) = 4 /\ IsSupportedCoder(c(1)) /\ IsSupportedCoder(c(2)) /\ IsBcj2(c(3))
        /\ f.packStreams = <<2, 6, 1, 0>> /\ f.bonds = <<B(5, 0), B(4, 1), B(3, 2)>>
    BY <1>7 DEF Bcj2Folder, c
  <2>2. c(1).numStreams = 1 /\ c(2).numStreams = 1 /\ c(3).numStreams = 4 /\ Name(c(3)) = "BCJ2"
    BY <2>1 DEF IsSupportedCoder, IsBcj2
  <2>3. \A i \in 0..2 : Coder(f, i).numStreams = 1
    BY <1>3, <2>2 DEF c
  <2>4. Meaning(f) = <<Name(c(3)), <<<<Name(c(2)), <<<<"pack", 1>>>>>>, <<Name(c(1)), <<<<"pack", 3>>>>>>,
                                     <<Name(c(0)), <<<<"pack", 4>>>>>>, <<"pack", 2>>>>>>
    BY <2>1, <2>2, <2>3, FourCodersMean DEF c
  <2> DEFINE d0 == DecodePlain(c(0), packs[4], sizes[1])
             d1 == DecodePlain(c(1), packs[3], sizes[2])
             d2 == DecodePlain(c(2), packs[1], sizes[3])
             index == <<3, 2, 0>>
             d(i) == DecodePlain(Coder(f, i), packs[index[i + 1] + 1], sizes[i + 1])
             fit == /\ sizes[3] <= n /\ \A i \in 0..2 : d(i).ok
                    /\ sizes[1] % 4 = 0 /\ sizes[2] % 4 = 0 /\ sizes[1] + sizes[2] + sizes[3] = n
             t == <<"BCJ2", <<d(2).term, d(1).term, d(0).term, packs[2].term>>>>
  <2>5. x = Result(fit, t)
    BY <1>2, <2>1 DEF DecodeBcj2
  <2>6. d(0) = d0 /\ d(1) = d1 /\ d(2) = d2
    <3>1. index[1] + 1 = 4 /\ index[2] + 1 = 3 /\ index[3] + 1 = 1
      OBVIOUS
    <3> QED BY <3>1 DEF c
  <2> HIDE DEF d0, d1, d2, d
  <2>7. fit => d0.ok /\ d1.ok /\ d2.ok
    BY <2>6
  <2>8. t = <<"BCJ2", <<d2.term, d1.term, d0.term, packs[2].term>>>>
    BY <2>6
  <2> HIDE DEF fit, t
  <2>9. fit /\ x.term = t
    BY <2>5, ResultIs DEF x
  <2>10. Len(f.packStreams) = 4 /\ 1 \in 1..4 /\ 2 \in 1..4 /\ 3 \in 1..4 /\ 4 \in 1..4
    BY <2>1
  <2>11. packs[1].term = <<"pack", 1>> /\ packs[2].term = <<"pack", 2>> /\ packs[3].term = <<"pack", 3>> /\ packs[4].term = <<"pack", 4>>
    BY <1>4, <2>10
  <2>12. d0.term = <<Name(c(0)), <<packs[4].term>>>> /\ d1.term = <<Name(c(1)), <<packs[3].term>>>>
         /\ d2.term = <<Name(c(2)), <<packs[1].term>>>>
    BY <2>7, <2>9, PlainIs DEF d0, d1, d2
  <2>13. x.term = Meaning(f)
    BY <2>2, <2>4, <2>8, <2>9, <2>11, <2>12
  <2> QED BY <2>13 DEF x
<1> QED BY <1>1, <1>5, <1>6, <1>7

\* The main method behind a cipher.
MainBehind(c, s, n) == IF Name(c) = "Copy" THEN SzDecodeCopy(s, n) ELSE DecodeMain(c, s, TRUE)

\* The main decoder behind the cipher turns the plain bytes into what the coder makes of them.
LEMMA MainBehindIs ==
  ASSUME NEW c, NEW s, NEW n, MainBehind(c, s, n).ok
  PROVE  MainBehind(c, s, n).term = <<Name(c), <<s.term>>>>
<1> DEFINE x == MainBehind(c, s, n)
<1>1. CASE Name(c) = "Copy"
  <2> DEFINE t == <<"Copy", <<s.term>>>>
             fit == n <= s.size
  <2>1. x = Result(fit, t)
    BY <1>1 DEF MainBehind, SzDecodeCopy
  <2> HIDE DEF fit, t, x
  <2>2. x.term = t
    BY <2>1, ResultIs DEF x
  <2> QED BY <1>1, <2>2 DEF x, t
<1>2. CASE Name(c) # "Copy"
  <2> DEFINE t == <<Name(c), <<s.term>>>>
             good == GoodProps(c) /\ s.whole /\ s.left < 16
  <2>1. x = Result(good, t)
    BY <1>2 DEF MainBehind, DecodeMain
  <2> HIDE DEF t, good, x
  <2>2. x.term = t
    BY <2>1, ResultIs DEF x
  <2> QED BY <2>2 DEF x, t
<1> QED BY <1>1, <1>2

\* The recipes with a cipher.
LEMMA AesRecipe ==
  ASSUME NEW f, IsItem(f), NEW packs, ArePacks(packs, Len(f.packStreams)), NEW sizes, NEW n, NEW password,
         CheckSupportedFolder(f), FindAesCoder(f) # -1, HasRecipe(f), SzFolder_Decode2(f, packs, sizes, n, password).ok
  PROVE  SzFolder_Decode2(f, packs, sizes, n, password).term = Meaning(f)
<1> DEFINE x == SzFolder_Decode2(f, packs, sizes, n, password)
           c(i) == Coder(f, i)
           a == FindAesCoder(f)
           s == [packs[1] EXCEPT !.term = <<"AES", <<@>>>>]
           main == LastOf(f, TRUE)
           filter == LastOf(f, FALSE)
           r == MainBehind(c(main), s, n)
<1>1. a \in Indices(f) /\ Name(c(a)) = "AES" /\ a >= 0 /\ Len(f.coders) \in 1..4 /\ Indices(f) = 0..Len(f.coders) - 1
  <2>1. a \in Indices(f) /\ Name(c(a)) = "AES"
    BY AesIs
  <2> HIDE DEF a
  <2>2. Len(f.coders) \in 1..4 /\ Indices(f) = 0..Len(f.coders) - 1
    BY ItemFacts
  <2> QED BY <2>1, <2>2
<1>2. c(a).numStreams = 1 /\ (AesAlone(f) \/ AesAndMain(f) \/ AesMainFilter(f))
  BY <1>1 DEF CheckSupportedFolder
<1>3. x = IF ~password THEN Result(FALSE, <<>>)
          ELSE IF Len(f.coders) = 1 THEN Result(s.size >= n, s.term)
          ELSE IF filter >= 0 THEN AesFiltered(c(filter), r) ELSE r
  BY <1>1 DEF SzFolder_Decode2, DecodeAes, MainBehind
<1>4. password
  <2> HIDE DEF s, filter, r
  <2>1. ~Result(FALSE, <<>>).ok
    BY DEF Result
  <2> QED BY <1>3, <2>1 DEF x
<1>5. Len(f.packStreams) = 1 => s.term = <<"AES", <<<<"pack", 1>>>>>>
  BY PackIs
<1>6. f.packStreams = <<a>>
  <2> HIDE DEF a
  <2>1. AesAlone(f) => Len(f.coders) = 1 /\ f.packStreams = << 0 >>
    BY DEF AesAlone
  <2>2. AesAndMain(f) => f.packStreams = <<a>>
    BY DEF AesAndMain, a
  <2>3. AesMainFilter(f) => f.packStreams = <<a>>
    BY DEF AesMainFilter, a
  <2> HIDE DEF c
  <2>4. AesAlone(f) => a = 0
    <3> SUFFICES ASSUME AesAlone(f) PROVE a = 0
      OBVIOUS
    <3>1. Len(f.coders) = 1
      BY <2>1
    <3>2. a \in 0..1 - 1
      BY <1>1, <3>1
    <3> QED BY <3>2
  <2> QED BY <1>2, <2>1, <2>2, <2>3, <2>4
<1>7. s.term = <<"AES", <<<<"pack", 1>>>>>>
  BY <1>5, <1>6
<1>8. /\ main = -1 \/ (main \in Indices(f) \ {a} /\ IsMain(c(main)))
      /\ main = -1 => \A i \in Indices(f) \ {a} : ~IsMain(c(i))
      /\ filter = -1 \/ (filter \in Indices(f) \ {a} /\ ~IsMain(c(filter)))
  <2>1. \A i : (IsMain(c(i)) = TRUE) <=> IsMain(c(i))
    BY DEF IsMain
  <2>2. \A i : (IsMain(c(i)) = FALSE) <=> ~IsMain(c(i))
    BY DEF IsMain
  <2> DEFINE S(b) == {i \in Indices(f) \ {a} : IsMain(c(i)) = b}
  <2>3. (main = -1 /\ S(TRUE) = {}) \/ main \in S(TRUE)
    BY LastIs
  <2>4. (filter = -1 /\ S(FALSE) = {}) \/ filter \in S(FALSE)
    BY LastIs
  <2> HIDE DEF c, a, main, filter
  <2>5. \A i : i \in S(TRUE) <=> i \in Indices(f) \ {a} /\ IsMain(c(i))
    BY <2>1
  <2>6. \A i : i \in S(FALSE) <=> i \in Indices(f) \ {a} /\ ~IsMain(c(i))
    BY <2>2
  <2> HIDE DEF S
  <2>7. -1 \notin Indices(f)
    BY <1>1
  <2>8. main = -1 \/ (main \in Indices(f) \ {a} /\ IsMain(c(main)))
    BY <2>3, <2>5
  <2>9. filter = -1 \/ (filter \in Indices(f) \ {a} /\ ~IsMain(c(filter)))
    BY <2>4, <2>6
  <2>10. main = -1 => \A i \in Indices(f) \ {a} : ~IsMain(c(i))
    <3> SUFFICES ASSUME main = -1, NEW i \in Indices(f) \ {a}, IsMain(c(i)) PROVE FALSE
      OBVIOUS
    <3>1. main \notin S(TRUE)
      BY <2>5, <2>7
    <3>2. i \in S(TRUE)
      BY <2>5
    <3> QED BY <2>3, <3>1, <3>2
  <2> QED BY <2>8, <2>9, <2>10
<1> HIDE DEF a, c, x, main, filter, s, r
<1>9. Len(f.coders) # 1 /\ main # -1 => (r.ok => r.term = <<Name(c(main)), <<s.term>>>>)
  BY MainBehindIs DEF r
<1>10. CASE AesAlone(f)
  <2>1. Len(f.coders) = 1 /\ f.packStreams = << 0 >> /\ a = 0
    BY <1>1, <1>10 DEF AesAlone
  <2> DEFINE fit == s.size >= n
             t == s.term
  <2>2. x = Result(fit, t)
    BY <1>3, <1>4, <2>1
  <2> HIDE DEF fit, t
  <2>3. x.term = t
    BY <2>2, ResultIs DEF x
  <2>4. Meaning(f) = <<Name(c(0)), <<<<"pack", 1>>>>>>
    BY <1>2, <2>1, OneCoderMeans DEF c
  <2> QED BY <1>1, <1>7, <2>1, <2>3, <2>4 DEF x, t
<1>11. CASE AesAndMain(f)
  <2> DEFINE m == 1 - a
  <2>1. Len(f.coders) = 2 /\ IsSupportedCoder(c(m)) /\ f.packStreams = <<a>> /\ f.bonds = <<B(m, a)>>
    BY <1>11 DEF AesAndMain, a, c
  <2>2. Indices(f) = 0..1 /\ a \in {0, 1} /\ m \in {0, 1} /\ m # a
    BY <1>1, <2>1
  <2>3. c(m).numStreams = 1 /\ IsMain(c(m))
    BY <2>1 DEF IsSupportedCoder
  <2>4. \A i \in Indices(f) \ {a} : i = m
    BY <2>2
  <2>5. main = m /\ filter = -1
    <3> HIDE DEF m
    <3>1. m \in Indices(f) \ {a}
      BY <2>2
    <3> QED BY <1>8, <2>3, <2>4, <3>1
  <2>6. x = r /\ x.ok /\ main # -1
    <3>1. ~(filter >= 0)
      BY <2>5
    <3>2. x = r
      BY <1>3, <1>4, <2>1, <3>1
    <3>3. main # -1
      BY <2>2, <2>5
    <3> QED BY <3>2, <3>3 DEF x
  <2>7. x.term = <<Name(c(m)), <<s.term>>>>
    BY <1>9, <2>1, <2>5, <2>6
  <2>8. c(0).numStreams = 1 /\ c(1).numStreams = 1
    BY <1>2, <2>2, <2>3
  <2>9. Meaning(f) = <<Name(c(m)), <<<<Name(c(a)), <<<<"pack", 1>>>>>>>>>>
    BY <2>1, <2>2, <2>8, TwoCodersMean DEF c
  <2> QED BY <1>1, <1>7, <2>7, <2>9 DEF x
<1>12. CASE AesMainFilter(f)
  <2>1. /\ Len(f.coders) = 3 /\ main >= 0 /\ filter >= 0 /\ c(main).numStreams = 1 /\ c(filter).numStreams = 1
    BY <1>12 DEF AesMainFilter, main, filter, c
  <2>2. {f.bonds[i] : i \in 1..2} = {B(main, a), B(filter, main)} /\ Name(c(filter)) \in {"Delta", "ARM64", "BCJ"}
    BY <1>1, <2>1 DEF HasRecipe, main, filter, a, c
  <2>3. main \in 0..2 /\ filter \in 0..2 /\ a \in 0..2 /\ main # a /\ filter # a /\ main # filter
    <3>1. Indices(f) = 0..2
      BY <1>1, <2>1
    <3>2. main # -1 /\ filter # -1
      BY <2>1
    <3> QED BY <1>1, <1>8, <3>1, <3>2
  <2>4. \A i \in 0..2 : c(i).numStreams = 1
    <3>1. \A i \in 0..2 : i = a \/ i = main \/ i = filter
      BY <2>3
    <3> QED BY <1>2, <2>1, <3>1
  <2> DEFINE y == Filtered(c(filter), r, AesFilterFits)
  <2>5. x = y /\ x.ok
    <3>1. x = AesFiltered(c(filter), r)
      BY <1>3, <1>4, <2>1
    <3>2. AesFiltered(c(filter), r) = y
      BY <2>2 DEF AesFiltered
    <3> QED BY <3>1, <3>2 DEF x
  <2>6. r.ok /\ y.term = <<Name(c(filter)), <<r.term>>>>
    BY <2>5, FilteredIs
  <2> HIDE DEF y
  <2>7. r.term = <<Name(c(main)), <<s.term>>>>
    <3>1. main # -1
      BY <2>1
    <3> QED BY <1>9, <2>1, <2>6, <3>1
  <2>8. Meaning(f) = <<Name(c(filter)), <<<<Name(c(main)), <<<<Name(c(a)), <<<<"pack", 1>>>>>>>>>>>>>>
    <3>1. \A i \in 0..2 : Coder(f, i).numStreams = 1
      BY <2>4 DEF c
    <3>2. {f.bonds[i] : i \in 1..2} = {B(main, a), B(filter, main)}
      BY <2>2
    <3>3. Len(f.coders) = 3
      BY <2>1
    <3> HIDE DEF a, main, filter
    <3>4. Meaning(f) = <<Name(Coder(f, filter)), <<<<Name(Coder(f, main)), <<<<Name(Coder(f, a)), <<<<"pack", 1>>>>>>>>>>>>>>
      BY ONLY IsItem(f), <1>6, <2>3, <3>1, <3>2, <3>3, ThreeCodersMean
    <3> QED BY <3>4 DEF c
  <2> QED BY <1>1, <1>7, <2>5, <2>6, <2>7, <2>8 DEF x
<1> QED BY <1>2, <1>10, <1>11, <1>12

\* What a folder decodes to, if there is a recipe for it or a checksum of it.
AsBonded(x, f, crc) == x.ok => (HasRecipe(f) \/ crc # None => x.term = Meaning(f))

\* SzAr_DecodeFolder decodes a folder as its bonds say.
LEMMA DecodedIs ==
  ASSUME NEW db, NEW fo, db.folders[fo] \in Folders, NEW packs, ArePacks(packs, db.folders[fo].packs), NEW n, NEW password
  PROVE  AsBonded(SzAr_DecodeFolder(db, fo, packs, n, password), SzGetNextFolderItem(Cursor(db.folders[fo].data)).v, FolderCrc(db, fo))
<1> DEFINE folder == db.folders[fo]
           q == Cursor(folder.data)
           item == SzGetNextFolderItem(q)
           f == item.v
           crc == FolderCrc(db, fo)
           first == Before(db.folders, fo, "coders")
           sizes == SubSeq(db.sizes, first + 1, first + folder.coders)
           y == SzFolder_Decode2(f, packs, sizes, n, password)
           x == SzAr_DecodeFolder(db, fo, packs, n, password)
           bad == ~item.ok \/ item.sd # <<>> \/ f.unpackStream # folder.main \/ n # FolderUnpackSize(db, fo)
<1> SUFFICES ASSUME x.ok, HasRecipe(f) \/ crc # None PROVE x.term = Meaning(f)
  BY DEF AsBonded
<1>1. x = IF bad THEN Result(FALSE, <<>>) ELSE Verified(crc, y, f)
  BY DEF SzAr_DecodeFolder, DecodeItem
<1>2. ReadAgainIs(item, folder)
  BY FolderReadAgain
<1>3. IsCursor(q)
  <2>1. folder.data \in Seq(Byte)
    BY DEF Folders, FolderSet
  <2> HIDE DEF folder
  <2> QED BY <2>1 DEF IsCursor, Cursor
<1> HIDE DEF q
<1>4. item.ok => IsItem(f)
  BY <1>3, FolderItemIs
<1> HIDE DEF item, y, crc, sizes, x
<1>5. ~Result(FALSE, <<>>).ok
  BY DEF Result
<1>6. ~bad /\ x = Verified(crc, y, f)
  <2> HIDE DEF bad, f
  <2> QED BY <1>1, <1>5 DEF x
<1>7. item.ok
  BY <1>6
<1>8. IsItem(f) /\ Len(f.packStreams) = folder.packs
  BY <1>2, <1>4, <1>7 DEF ReadAgainIs
<1>9. ArePacks(packs, Len(f.packStreams))
  BY <1>8
<1> HIDE DEF f, folder, bad
<1>10. x = y /\ y.ok /\ (crc # None => y.term = Meaning(f))
  BY <1>5, <1>6 DEF Verified, x
<1>11. CASE crc # None
  BY <1>10, <1>11
<1>12. CASE crc = None
  <2>1. HasRecipe(f)
    BY <1>12 DEF f, crc, item, q, folder
  <2>2. CheckSupportedFolder(f)
    BY <1>5, <1>10 DEF SzFolder_Decode2, y
  <2>3. FindAesCoder(f) = -1 => y.term = Meaning(f)
    BY <1>8, <1>9, <1>10, <2>2, PlainRecipe DEF y
  <2>4. FindAesCoder(f) # -1 => y.term = Meaning(f)
    BY <1>8, <1>9, <1>10, <2>1, <2>2, AesRecipe DEF y
  <2> QED BY <1>10, <2>3, <2>4
<1> QED BY <1>11, <1>12 DEF x, f, item, q, folder

\* The pack streams of a folder are numbered from its first.
LEMMA PackedStreamsAre ==
  ASSUME NEW fo
  PROVE  ArePacks(PackedStreams(fo), archive.db.folders[fo].packs)
  BY DEF ArePacks, PackedStreams

(* The theorems.                                                             *)

vars == <<file, archive, stage, block>>

\* What every state of an open archive has.  GoodArchive is what opening establishes of the tables:
\* each folder is what ScanFolder kept of it, there is a size for every coder, and the layout is
\* closed - positions rise, the entries of a folder are adjacent, and no digest is counted twice.
\* No block survives Close, so what is left in it was decoded from the tables that are there.
IInv ==
  /\ file \in Files7z
  /\ GoodArchive(archive)
  /\ stage = "closed" => block = NoBlock
  /\ DecodesAsBonded

\* Opening a file keeps the invariant.
LEMMA OpenKeeps ==
  ASSUME IInv, Open
  PROVE  IInv'
<1>1. archive' = SzArEx_Open(file) /\ file' = file /\ block' = block /\ stage = "closed" /\ stage' = "opened"
  BY DEF Open
<1>2. GoodFile(file)
  BY FilesAssumption DEF IInv, GoodFile, Byte
<1>3. GoodArchive(archive')
  BY <1>1, <1>2, OpenIs
<1>4. ~block'.ok
  BY <1>1 DEF IInv, NoBlock
<1> QED BY <1>1, <1>3, <1>4 DEF IInv, DecodesAsBonded

\* Closing it keeps the invariant.
LEMMA CloseKeeps ==
  ASSUME IInv, Close
  PROVE  IInv'
<1>1. archive' = NoArchive /\ file' = file /\ block' = NoBlock
  BY DEF Close
<1>2. GoodArchive(archive') /\ ~block'.ok
  BY <1>1, NoArchiveGood DEF NoBlock
<1> QED BY <1>1, <1>2 DEF IInv, DecodesAsBonded

\* Extracting a folder keeps the invariant.
LEMMA ExtractKeeps ==
  ASSUME IInv, NEW fo \in DOMAIN archive.db.folders, Extract(fo)
  PROVE  IInv'
<1> DEFINE n == FolderUnpackSize(archive.db, fo)
           r == SzAr_DecodeFolder(archive.db, fo, PackedStreams(fo), n, file.password)
           f == SzGetNextFolderItem(Cursor(archive.db.folders[fo].data)).v
           crc == FolderCrc(archive.db, fo)
<1>1. archive' = archive /\ file' = file /\ stage' = stage /\ stage = "opened" /\ block' = [fo |-> fo, ok |-> r.ok, term |-> r.term]
  BY DEF Extract
<1>2. archive.db.folders[fo] \in Folders
  <2>1. archive.db.folders \in Seq(Folders)
    BY DEF IInv, GoodArchive, GoodDb, GoodFolders
  <2> QED BY <2>1, ElementOfSeq
<1>3. AsBonded(r, f, crc)
  BY <1>2, PackedStreamsAre, DecodedIs
<1> HIDE DEF r
<1>4. block'.ok = r.ok /\ block'.term = r.term /\ block'.fo = fo
  BY <1>1
<1>5. DecodesAsBonded'
  <2>1. SzGetNextFolderItem(Cursor(archive'.db.folders[block'.fo].data)).v = f /\ FolderCrc(archive'.db, block'.fo) = crc
    BY <1>1, <1>4
  <2> HIDE DEF f, crc
  <2> QED BY <1>3, <1>4, <2>1 DEF AsBonded, DecodesAsBonded
<1> QED BY <1>1, <1>5 DEF IInv

\* Whatever a file holds, its tables are in order while it is open (7zArcIn.c SzArEx_Open).
THEOREM ArchiveIsGood == Spec => []IInv
<1>1. Init => IInv
  BY NoArchiveGood DEF Init, IInv, DecodesAsBonded, NoBlock
<1>2. IInv /\ [Next]_vars => IInv'
  <2> SUFFICES ASSUME IInv, [Next]_vars PROVE IInv'
    OBVIOUS
  <2>1. CASE Open
    BY <2>1, OpenKeeps
  <2>2. CASE Close
    BY <2>2, CloseKeeps
  <2>3. CASE \E fo \in DOMAIN archive.db.folders : Extract(fo)
    BY <2>3, ExtractKeeps
  <2>4. CASE UNCHANGED vars
    <3>1. archive' = archive /\ file' = file /\ stage' = stage /\ block' = block
      BY <2>4 DEF vars
    <3> QED BY <3>1 DEF IInv, DecodesAsBonded
  <2> QED BY <2>1, <2>2, <2>3, <2>4 DEF Next
<1> QED BY <1>1, <1>2, PTL DEF Spec, vars

\* Whatever bytes a header holds, the files of an archive that opens are disjoint ranges of their
\* folders, in order, none beyond its folder's end: SzReadHeader2 checks every size before it is
\* added, so none of the 64-bit sums wraps round.
THEOREM FilesAreTiled == Spec => []FilesTileFolders
<1>1. IInv => FilesTileFolders
  <2> SUFFICES ASSUME IInv PROVE FilesTileFolders
    OBVIOUS
  <2>1. \A i \in 1..archive.n : Tile(archive, i)
    BY ArchiveTiles DEF IInv
  <2> QED BY <2>1 DEF FilesTileFolders, Tile
<1> QED BY <1>1, ArchiveIsGood, PTL

\* No checksum is taken that SkipBitUi32s did not pass over, and SzGetNextFolderItem reads of a
\* folder what SzReadUnpackInfo found when it passed over the same bytes.
THEOREM PassesDoAgree == Spec => []PassesAgree
<1>1. IInv => PassesAgree
  <2> SUFFICES ASSUME IInv PROVE PassesAgree
    OBVIOUS
  <2>1. ~archive.lay.overrun
    BY ArchiveTiles DEF IInv
  <2>2. ASSUME NEW fo \in DOMAIN archive.db.folders
        PROVE  ReadAgainIs(SzGetNextFolderItem(Cursor(archive.db.folders[fo].data)), archive.db.folders[fo])
    <3>1. archive.db.folders \in Seq(Folders)
      BY DEF IInv, GoodArchive, GoodDb, GoodFolders
    <3>2. archive.db.folders[fo] \in Folders
      BY <2>2, <3>1, ElementOfSeq
    <3> QED BY <3>2, FolderReadAgain
  <2> QED BY <2>1, <2>2 DEF PassesAgree, ReadAgainIs
<1> QED BY <1>1, ArchiveIsGood, PTL

\* Whatever coders and bonds a header describes, a folder that SzAr_DecodeFolder decodes by one of
\* the recipes of 7zDec.c, or that has a checksum, holds what its bonds say.
THEOREM FoldersDecodeAsBonded == Spec => []DecodesAsBonded
<1>1. IInv => DecodesAsBonded
  BY DEF IInv
<1> QED BY <1>1, ArchiveIsGood, PTL
=============================================================================
