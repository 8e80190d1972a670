---------------------------- MODULE DeflateProofs ----------------------------
(* The DEFLATE decompressor, for every stream and every word: the bits that  *)
(* its lookups and codewords take are in the bit buffer, and it stays inside *)
(* its buffers with one check a turn.                                        *)
EXTENDS Deflate, WellFoundedInduction, TLAPS

States == {"block", "lens", "tables", "loop", "fast", "fast2", "fast3", "offset", "generic", "genericOffset", "done", "good", "bad"}
Kinds == {"none", "static", "dynamic", "stored"}
Buffers ==
  [at : States, stream : Streams, word : {4, 8}, in : Nat, outSize : Nat, next : Int, over : Int, left : Int, loaded : Int,
   used : Int, out : Int, short : BOOLEAN, beyond : BOOLEAN, tables : Kinds, staticLoaded : BOOLEAN,
   block : Kinds, blocks : Int, i : Int, bits : Int]

\* Nothing behind the ends was touched; in every state, an error included.
Holds(b) == ~b.beyond /\ b.out <= b.outSize /\ b.next <= b.in
\* The bit buffer has what was taken from the input and not used.
Fed(b) ==
  b.at # "bad" =>
    /\ ~b.short /\ 8 * (b.next + b.over) = b.used + b.left
    /\ 0 <= b.left /\ b.left <= 8 * b.word - 1 /\ b.left <= b.loaded /\ b.loaded <= 8 * b.word
    /\ b.over >= 0 /\ (b.over > 0 => b.next = b.in) /\ b.used >= 0 /\ b.out >= 0 /\ b.next >= 0
Sane(b) == b \in Buffers /\ Holds(b) /\ Fed(b)

\* What the bit buffer's operations leave alone.
Kept(b, c) ==
  /\ c.stream = b.stream /\ c.word = b.word /\ c.in = b.in /\ c.outSize = b.outSize /\ c.out = b.out /\ c.tables = b.tables
  /\ c.staticLoaded = b.staticLoaded /\ c.block = b.block /\ c.blocks = b.blocks /\ c.i = b.i /\ c.bits = b.bits

-----------------------------------------------------------------------------
(* The bit buffer.                                                           *)

LEMMA AtIsSane ==
  ASSUME NEW b, Sane(b), NEW at \in States, b.at = "bad" => at = "bad"
  PROVE  LET c == [b EXCEPT !.at = at] IN
         /\ Sane(c) /\ Kept(b, c) /\ c.at = at /\ c.over = b.over
         /\ c.left = b.left /\ c.loaded = b.loaded /\ c.used = b.used /\ c.next = b.next
<1> DEFINE c == [b EXCEPT !.at = at]
<1>1. b \in Buffers
  BY DEF Sane
<1>2. /\ c \in Buffers /\ Kept(b, c) /\ c.at = at /\ c.over = b.over /\ c.next = b.next /\ c.beyond = b.beyond
      /\ c.left = b.left /\ c.loaded = b.loaded /\ c.used = b.used /\ c.short = b.short
  BY <1>1 DEF Buffers, Kept
<1> HIDE DEF c
<1> QED BY <1>2 DEF Sane, Holds, Fed, Kept, c

LEMMA BadIsSane ==
  ASSUME NEW b, Sane(b), NEW c, c = [b EXCEPT !.at = "bad"]
  PROVE  Sane(c) /\ Kept(b, c) /\ c.at = "bad" /\ c.used = b.used
<1>1. PICK at \in States : at = "bad"
  <2>1. "bad" \in States
    BY DEF States
  <2> QED BY <2>1, Zenon
<1>2. c = [b EXCEPT !.at = at]
  BY <1>1
<1>3. Sane([b EXCEPT !.at = at]) /\ Kept(b, [b EXCEPT !.at = at]) /\ [b EXCEPT !.at = at].at = at /\ [b EXCEPT !.at = at].used = b.used
  BY <1>1, AtIsSane
<1> QED BY <1>1, <1>2, <1>3

LEMMA GoesIsSane ==
  ASSUME NEW b, Sane(b), NEW at \in States
  PROVE  LET c == Goes(b, at) IN
         /\ Sane(c) /\ Kept(b, c) /\ c.at = (IF b.at = "bad" THEN "bad" ELSE at) /\ c.over = b.over
         /\ c.left = b.left /\ c.loaded = b.loaded /\ c.used = b.used /\ c.next = b.next
<1>1. CASE b.at = "bad"
  BY <1>1 DEF Goes, Kept
<1>2. CASE b.at # "bad"
  BY <1>2, AtIsSane DEF Goes
<1> QED BY <1>1, <1>2

LEMMA TakeIsSane ==
  ASSUME NEW b, Sane(b), NEW n \in Nat, b.at # "bad" => n <= b.left
  PROVE  LET c == Take(b, n) IN
         /\ Sane(c) /\ Kept(b, c) /\ c.at = b.at /\ c.over = b.over
         /\ c.left = b.left - n /\ c.loaded = b.loaded - n /\ c.used = b.used + n
<1> DEFINE c == Take(b, n)
           left == b.left - n
           loaded == b.loaded - n
           used == b.used + n
           short == b.short \/ n > b.left
<1>1. b \in Buffers
  BY DEF Sane
<1>a. c = [b EXCEPT !.left = left, !.loaded = loaded, !.used = used, !.short = short]
  BY DEF Take
<1>b. left \in Int /\ loaded \in Int /\ used \in Int /\ short \in BOOLEAN
  BY <1>1 DEF Buffers
<1> HIDE DEF c, left, loaded, used, short
<1>2. /\ c \in Buffers /\ Kept(b, c) /\ c.at = b.at /\ c.over = b.over /\ c.next = b.next /\ c.beyond = b.beyond
      /\ c.left = left /\ c.loaded = loaded /\ c.used = used /\ c.short = short
  BY <1>1, <1>a, <1>b DEF Buffers, Kept
<1>3. Holds(c)
  BY <1>2 DEF Sane, Holds, Kept
<1>4. Fed(c)
  BY <1>1, <1>2 DEF Sane, Fed, Kept, Buffers, left, loaded, used, short
<1> QED BY <1>2, <1>3, <1>4 DEF Sane, c, left, loaded, used

LEMMA PeekIsSane ==
  ASSUME NEW b, Sane(b), NEW n \in Nat, b.at # "bad" => n <= b.loaded
  PROVE  LET c == Peek(b, n) IN
         /\ Sane(c) /\ Kept(b, c) /\ c.at = b.at /\ c.over = b.over
         /\ c.left = b.left /\ c.loaded = b.loaded /\ c.used = b.used
<1> DEFINE c == Peek(b, n)
           short == b.short \/ n > b.loaded
<1>1. b \in Buffers
  BY DEF Sane
<1>a. c = [b EXCEPT !.short = short] /\ short \in BOOLEAN
  BY DEF Peek
<1> HIDE DEF c, short
<1>2. /\ c \in Buffers /\ Kept(b, c) /\ c.at = b.at /\ c.over = b.over /\ c.next = b.next /\ c.beyond = b.beyond
      /\ c.left = b.left /\ c.loaded = b.loaded /\ c.used = b.used /\ c.short = short
  BY <1>1, <1>a DEF Buffers, Kept
<1>3. Holds(c)
  BY <1>2 DEF Sane, Holds, Kept
<1>4. Fed(c)
  BY <1>1, <1>2 DEF Sane, Fed, Kept, Buffers, short
<1> QED BY <1>2, <1>3, <1>4 DEF Sane, c

LEMMA Eighths ==
  ASSUME NEW l \in Int
  PROVE  /\ l \div 8 \in Int /\ l % 8 \in 0..7 /\ l = 8 * (l \div 8) + (l % 8)
         /\ (l \div 8) % 8 \in 0..7 /\ (0 <= l /\ l <= 63 => (l \div 8) % 8 = l \div 8)
OBVIOUS

\* A word is read, and it is in the input.
LEMMA BranchlessIsSane ==
  ASSUME NEW b, Sane(b), b.next + b.word <= b.in
  PROVE  LET c == Branchless(b) IN
         /\ Sane(c) /\ Kept(b, c) /\ c.at = b.at /\ c.over = b.over /\ c.used = b.used
         /\ c.left >= 8 * c.word - 8 /\ c.loaded = 8 * c.word /\ c.loaded >= c.left + 1
<1> DEFINE c == Branchless(b)
           bytes == (b.left \div 8) % 8
           rest == b.left % 8
           next == b.next + b.word - 1 - bytes
           left == (8 * b.word - 8) + rest
           loaded == 8 * b.word
           beyond == b.beyond \/ b.next + b.word > b.in
<1>1. b \in Buffers
  BY DEF Sane
<1>2. c = [b EXCEPT !.next = next, !.left = left, !.loaded = loaded, !.beyond = beyond]
  BY DEF Branchless, Consumable
<1>3. b.left \in Int /\ b.word \in {4, 8} /\ b.next \in Int /\ b.in \in Nat /\ b.over \in Int /\ b.used \in Int
  BY <1>1 DEF Buffers
<1>4. bytes \in 0..7 /\ rest \in 0..7
  BY <1>3, Eighths
<1>5. b.at # "bad" => b.left = 8 * bytes + rest /\ bytes < b.word
  <2>1. b.at # "bad" => 0 <= b.left /\ b.left <= 8 * b.word - 1
    BY DEF Sane, Fed
  <2>2. b.left = 8 * (b.left \div 8) + rest /\ (0 <= b.left /\ b.left <= 63 => bytes = b.left \div 8) /\ b.left \div 8 \in Int
    BY <1>3, Eighths
  <2> HIDE DEF bytes, rest
  <2> QED BY <1>3, <1>4, <2>1, <2>2
<1> HIDE DEF c, bytes, rest
<1>6. next \in Int /\ left \in Int /\ loaded \in Int /\ beyond = b.beyond /\ next <= b.in
      /\ left >= 8 * b.word - 8 /\ left <= 8 * b.word - 1
  BY <1>3, <1>4 DEF Sane, Buffers
<1>7. b.at # "bad" => 8 * (next + b.over) = b.used + left /\ next >= 0
  BY <1>3, <1>4, <1>5 DEF Sane, Fed
<1> HIDE DEF next, left, beyond
<1>8. beyond \in BOOLEAN
  BY <1>1, <1>6 DEF Buffers
<1>9. /\ c \in Buffers /\ Kept(b, c) /\ c.at = b.at /\ c.over = b.over /\ c.used = b.used /\ c.short = b.short
      /\ c.next = next /\ c.left = left /\ c.loaded = loaded /\ c.beyond = beyond
  <2> HIDE DEF loaded
  <2> QED BY <1>1, <1>2, <1>6, <1>8 DEF Buffers, Kept
<1>10. Holds(c)
  BY <1>6, <1>9 DEF Sane, Holds, Kept
<1>11. Fed(c)
  BY <1>3, <1>6, <1>7, <1>9 DEF Sane, Fed, Kept, Buffers
<1>12. c.left >= 8 * c.word - 8 /\ c.loaded = 8 * c.word /\ c.loaded >= c.left + 1
  BY <1>3, <1>6, <1>9 DEF Kept
<1> QED BY <1>9, <1>10, <1>11, <1>12 DEF Sane, c

LEMMA BytewiseIsSane ==
  ASSUME NEW b, Sane(b)
  PROVE  LET c == Bytewise(b) IN
         /\ Sane(c) /\ Kept(b, c) /\ c.at \in {b.at, "bad"} /\ c.used = b.used
         /\ c.at # "bad" => c.left >= 8 * c.word - 8
<1> DEFINE n == IF b.left < Consumable(b.word) THEN Times(Consumable(b.word) - b.left, 8) ELSE 0
           real == Smaller(n, b.in - b.next)
           over == b.over + n - real
           c == Bytewise(b)
<1>1. b \in Buffers
  BY DEF Sane
<1>2. b.left \in Int /\ b.word \in {4, 8} /\ b.next \in Int /\ b.in \in Nat /\ b.over \in Int /\ b.used \in Int /\ b.loaded \in Int /\ b.next <= b.in
  BY <1>1 DEF Buffers, Sane, Holds
<1>3. /\ n \in Nat /\ b.left + 8 * n >= 8 * b.word - 8
      /\ b.left <= 8 * b.word - 1 => b.left + 8 * n <= 8 * b.word - 1
  BY ONLY <1>2 DEF Consumable, Times
<1> HIDE DEF n
<1>4. real \in Nat /\ real <= n /\ b.next + real <= b.in /\ (real = n \/ b.next + real = b.in)
  BY ONLY <1>2, <1>3 DEF Smaller
<1>5. c = IF over > b.word THEN [b EXCEPT !.at = "bad"]
          ELSE [b EXCEPT !.next = @ + real, !.over = over, !.left = @ + 8 * n, !.loaded = Greater(@, b.left + 8 * n)]
  BY DEF Bytewise, n
<1> HIDE DEF real
<1>6. over \in Int
  BY <1>2, <1>3, <1>4
<1>7. CASE over > b.word
  <2>1. c = [b EXCEPT !.at = "bad"]
    BY <1>5, <1>7
  <2> HIDE DEF c
  <2>2. Sane(c) /\ Kept(b, c) /\ c.at = "bad" /\ c.used = b.used
    BY <2>1, BadIsSane
  <2> QED BY <2>2 DEF c
<1>8. CASE ~(over > b.word)
  <2>1. c = [b EXCEPT !.next = @ + real, !.over = over, !.left = @ + 8 * n, !.loaded = Greater(@, b.left + 8 * n)]
    BY <1>5, <1>8
  <2>2. Greater(b.loaded, b.left + 8 * n) \in Int /\ Greater(b.loaded, b.left + 8 * n) >= b.left + 8 * n
        /\ (b.loaded <= 8 * b.word /\ b.left + 8 * n <= 8 * b.word => Greater(b.loaded, b.left + 8 * n) <= 8 * b.word)
    BY ONLY <1>2, <1>3 DEF Greater
  <2>3. /\ c \in Buffers /\ Kept(b, c) /\ c.at = b.at /\ c.used = b.used /\ c.short = b.short /\ c.beyond = b.beyond
        /\ c.next = b.next + real /\ c.over = over /\ c.left = b.left + 8 * n /\ c.loaded = Greater(b.loaded, b.left + 8 * n)
    <3> HIDE DEF over, c
    <3> DEFINE g == Greater(b.loaded, b.left + 8 * n)
    <3>1. c = [b EXCEPT !.next = b.next + real, !.over = over, !.left = b.left + 8 * n, !.loaded = g]
      BY <1>1, <2>1 DEF Buffers
    <3>2. g \in Int /\ b.next + real \in Int /\ b.left + 8 * n \in Int
      BY <2>2, <1>2, <1>3, <1>4
    <3> HIDE DEF g
    <3> QED BY <1>1, <1>6, <3>1, <3>2 DEF Buffers, Kept, g
  <2> HIDE DEF c
  <2>4. Holds(c)
    BY <1>2, <1>4, <2>3 DEF Sane, Holds, Kept
  <2>5. Fed(c)
    <3> SUFFICES ASSUME b.at # "bad" PROVE Fed(c)
      BY <2>3 DEF Fed
    <3>1. c.left <= 8 * b.word - 1 /\ c.left <= c.loaded /\ c.loaded <= 8 * b.word /\ c.left >= 0
      BY <1>2, <1>3, <2>2, <2>3 DEF Sane, Fed
    <3>2. c.over >= 0 /\ (c.over > 0 => c.next = c.in) /\ c.next >= 0
      BY <1>2, <1>3, <1>4, <2>3 DEF Sane, Fed, Kept
    <3>3. 8 * (c.next + c.over) = c.used + c.left
      <4>1. 8 * (b.next + b.over) = b.used + b.left
        BY DEF Sane, Fed
      <4>2. c.next = b.next + real /\ c.over = b.over + n - real /\ c.used = b.used /\ c.left = b.left + 8 * n
        BY <2>3
      <4> QED BY ONLY <1>2, <1>3, <1>4, <4>1, <4>2
    <3> QED BY <2>3, <3>1, <3>2, <3>3 DEF Sane, Fed, Kept
  <2> QED BY <1>2, <1>3, <2>3, <2>4, <2>5 DEF Sane, c, Kept
<1> QED BY <1>7, <1>8

LEMMA RefillIsSane ==
  ASSUME NEW b, Sane(b)
  PROVE  LET c == Refill(b) IN
         /\ Sane(c) /\ Kept(b, c) /\ c.at \in {b.at, "bad"} /\ c.used = b.used
         /\ c.at # "bad" => c.left >= 8 * c.word - 8
<1>1. CASE b.in - b.next >= b.word
  <2>1. b.next + b.word <= b.in
    BY <1>1 DEF Sane, Buffers
  <2>2. Refill(b) = Branchless(b)
    BY <1>1 DEF Refill
  <2> QED BY <2>1, <2>2, BranchlessIsSane
<1>2. CASE ~(b.in - b.next >= b.word)
  <2>1. Refill(b) = Bytewise(b)
    BY <1>2 DEF Refill
  <2> QED BY <2>1, BytewiseIsSane
<1> QED BY <1>1, <1>2

-----------------------------------------------------------------------------
(* The invariant.                                                            *)

\* What a turn of the fast loop has left when k bits are used and m literals are written.
Turn(b, k, m) ==
  /\ b.over = 0 /\ b.left >= 8 * b.word - 8 - k /\ b.loaded >= 8 * b.word - k /\ b.loaded >= b.left + 1
  /\ b.used <= 8 * (b.in - FastloopMaxBytesRead(b.word) - 1) + k
  /\ b.out <= b.outSize - FastloopMaxBytesWritten(b.word) - 1 + m

\* The flag tells the truth; the tables are those of the block.
Flag(b) == b.staticLoaded => b.tables = "static" /\ b.bits \in 1..11
Coded(b) == b.bits \in 1..11 /\ b.tables = b.block
Phase(b) ==
  /\ b.at \notin {"tables", "bad"} => Flag(b)
  /\ b.at = "lens" => b.i \in 0..NumLens - 1 /\ b.block = "dynamic" /\ ~b.staticLoaded
  /\ b.at = "tables" => (b.staticLoaded => b.block = "static")
  /\ b.at \in {"loop", "fast", "fast2", "fast3", "offset", "generic", "genericOffset"} => Coded(b)
  /\ b.at = "genericOffset" => b.left >= 8 * b.word - 28
  /\ b.at = "fast" => Turn(b, 0, 0)
  /\ b.at = "fast2" => b.word = 8 /\ Turn(b, 11, 1)
  /\ b.at = "fast3" => b.word = 8 /\ Turn(b, 22, 2)
  /\ b.at = "offset" => IF b.word = 8 THEN Turn(b, 42, 2) ELSE Turn(b, 20, 0)
  /\ b.at = "good" => b.used <= 8 * b.in
Inv == Sane(d) /\ Phase(d)

LEMMA MaxBytes ==
  ASSUME NEW w \in {4, 8}
  PROVE  FastloopMaxBytesRead(w) = 2 * w + 9 /\ FastloopMaxBytesWritten(w) = 259 + 5 * w
BY DEF FastloopMaxBytesRead, FastloopMaxBytesWritten, Times, LitlenTableBits, LengthMaxBits, OffsetMaxBits, MaxCodeword

LEMMA InvHolds == Inv => BitsAreThere /\ BuffersHold
BY DEF Inv, Sane, Phase, Holds, Fed, Coded, BitsAreThere, BuffersHold, EndsHold, TablesOfTheBlock

LEMMA InitInv ==
  ASSUME StreamAssumption, Init
  PROVE  Inv
<1>1. PICK s \in Streams : d = Started(s)
  BY DEF Init
<1>2. s.word \in {4, 8} /\ s.in \in Nat /\ s.out \in Nat /\ s.blocks \in Nat
  BY DEF StreamAssumption
<1>3. d \in Buffers
  BY <1>1, <1>2 DEF Started, Buffers, States, Kinds
<1>4. Holds(d) /\ Fed(d) /\ Phase(d)
  BY <1>1, <1>2 DEF Started, Holds, Fed, Phase, Flag
<1> QED BY <1>3, <1>4 DEF Inv, Sane

-----------------------------------------------------------------------------
(* What the operations change besides the bit buffer.                        *)

SameBits(b, c) ==
  /\ c.stream = b.stream /\ c.word = b.word /\ c.in = b.in /\ c.outSize = b.outSize /\ c.at = b.at /\ c.next = b.next
  /\ c.over = b.over /\ c.left = b.left /\ c.loaded = b.loaded /\ c.used = b.used /\ c.short = b.short

LEMMA SameBitsAreSane ==
  ASSUME NEW b, Sane(b), NEW c \in Buffers, SameBits(b, c), ~c.beyond, c.out <= c.outSize, b.at # "bad" => c.out >= 0
  PROVE  Sane(c)
BY DEF Sane, Holds, Fed, SameBits

LEMMA BlocksAreSane ==
  ASSUME NEW b, Sane(b), NEW n \in Int, NEW c, c = [b EXCEPT !.blocks = n]
  PROVE  /\ Sane(c) /\ SameBits(b, c) /\ c.out = b.out /\ c.tables = b.tables /\ c.staticLoaded = b.staticLoaded
         /\ c.bits = b.bits /\ c.block = b.block /\ c.i = b.i
<1>1. b \in Buffers
  BY DEF Sane
<1>2. c \in Buffers
  BY <1>1 DEF Buffers
<1>3. /\ SameBits(b, c) /\ c.out = b.out /\ c.tables = b.tables /\ c.staticLoaded = b.staticLoaded
      /\ c.bits = b.bits /\ c.block = b.block /\ c.i = b.i /\ c.beyond = b.beyond
  BY <1>1 DEF Buffers, SameBits
<1> QED BY <1>2, <1>3, SameBitsAreSane DEF Sane, Holds, Fed, SameBits

LEMMA StaticIsSane ==
  ASSUME NEW b, Sane(b), NEW c, c = [b EXCEPT !.block = "static", !.staticLoaded = TRUE]
  PROVE  /\ Sane(c) /\ SameBits(b, c) /\ c.out = b.out /\ c.tables = b.tables /\ c.bits = b.bits /\ c.i = b.i
         /\ c.block = "static" /\ c.staticLoaded
<1>1. PICK kind \in Kinds, flag \in BOOLEAN : kind = "static" /\ flag = TRUE
  <2>1. "static" \in Kinds /\ TRUE \in BOOLEAN
    BY DEF Kinds
  <2> QED BY <2>1, Zenon
<1>2. c = [b EXCEPT !.block = kind, !.staticLoaded = flag]
  BY <1>1, Zenon
<1>3. b \in Buffers
  BY DEF Sane
<1>4. c \in Buffers
  BY ONLY <1>2, <1>3, kind \in Kinds, flag \in BOOLEAN DEF Buffers
<1>5. /\ SameBits(b, c) /\ c.out = b.out /\ c.tables = b.tables /\ c.bits = b.bits /\ c.i = b.i /\ c.beyond = b.beyond
      /\ c.block = kind /\ c.staticLoaded = flag
  BY ONLY <1>2, <1>3, kind \in Kinds, flag \in BOOLEAN DEF Buffers, SameBits
<1>6. Sane(c)
  BY <1>4, <1>5, SameBitsAreSane DEF Sane, Holds, Fed, SameBits
<1> QED BY <1>1, <1>5, <1>6

LEMMA DynamicIsSane ==
  ASSUME NEW b, Sane(b), NEW c, c = [b EXCEPT !.i = 0, !.block = "dynamic", !.staticLoaded = FALSE]
  PROVE  /\ Sane(c) /\ SameBits(b, c) /\ c.out = b.out /\ c.tables = b.tables /\ c.bits = b.bits /\ c.i = 0
         /\ c.block = "dynamic" /\ ~c.staticLoaded
<1>1. PICK i \in Int, kind \in Kinds, flag \in BOOLEAN : i = 0 /\ kind = "dynamic" /\ flag = FALSE
  <2>1. 0 \in Int /\ "dynamic" \in Kinds /\ FALSE \in BOOLEAN
    BY DEF Kinds
  <2> QED BY <2>1, Zenon
<1>2. c = [b EXCEPT !.i = i, !.block = kind, !.staticLoaded = flag]
  BY <1>1, Zenon
<1>3. b \in Buffers
  BY DEF Sane
<1>4. c \in Buffers
  BY ONLY <1>2, <1>3, i \in Int, kind \in Kinds, flag \in BOOLEAN DEF Buffers
<1>5. /\ SameBits(b, c) /\ c.out = b.out /\ c.tables = b.tables /\ c.bits = b.bits /\ c.i = i /\ c.beyond = b.beyond
      /\ c.block = kind /\ c.staticLoaded = flag
  BY ONLY <1>2, <1>3, i \in Int, kind \in Kinds, flag \in BOOLEAN DEF Buffers, SameBits
<1>6. Sane(c)
  BY <1>4, <1>5, SameBitsAreSane DEF Sane, Holds, Fed, SameBits
<1> QED BY <1>1, <1>5, <1>6

LEMMA LiteralIsSane ==
  ASSUME NEW b, Sane(b), b.out < b.outSize
  PROVE  LET c == Literal(b) IN
         /\ Sane(c) /\ SameBits(b, c) /\ c.out = b.out + 1 /\ c.tables = b.tables /\ c.bits = b.bits
         /\ c.block = b.block /\ c.staticLoaded = b.staticLoaded
<1> DEFINE c == Literal(b)
           y == b.beyond \/ b.out = b.outSize
           x == b.out + 1
<1>1. b \in Buffers
  BY DEF Sane
<1>2. c = [b EXCEPT !.out = x, !.beyond = y]
  BY DEF Literal
<1>3. x \in Int /\ y \in BOOLEAN /\ x <= b.outSize /\ (b.out >= 0 => x >= 0) /\ ~y
  BY <1>1 DEF Buffers, Sane, Holds
<1> HIDE DEF c, x, y
<1>4. c \in Buffers
  BY <1>1, <1>2, <1>3 DEF Buffers
<1>5. /\ SameBits(b, c) /\ c.out = x /\ c.tables = b.tables /\ c.bits = b.bits /\ c.beyond = y
      /\ c.block = b.block /\ c.staticLoaded = b.staticLoaded
  BY <1>1, <1>2, <1>3 DEF Buffers, SameBits
<1>6. Sane(c)
  BY <1>3, <1>4, <1>5, SameBitsAreSane DEF Sane, Fed, SameBits
<1> QED BY <1>5, <1>6 DEF x, c

-----------------------------------------------------------------------------
(* Blocks.                                                                   *)

LEMMA StreamFields ==
  ASSUME StreamAssumption, Inv
  PROVE  d \in Buffers /\ CodeLens \subseteq Nat /\ Extras \subseteq Nat /\ Lengths \subseteq 3..258
BY DEF Inv, Sane, Buffers, StreamAssumption, CodeLens, Extras, Lengths

LEMMA PrecodeLenIsSane ==
  ASSUME NEW b, Sane(b)
  PROVE  LET c == PrecodeLen(b) IN Sane(c) /\ Kept(b, c) /\ c.at \in {b.at, "bad"}
<1> DEFINE r == IF b.left < 3 THEN Refill(b) ELSE b
<1>1. Sane(r) /\ Kept(b, r) /\ r.at \in {b.at, "bad"} /\ (r.at # "bad" => 3 <= r.left)
  <2>1. CASE b.left < 3
    <3>1. r = Refill(b)
      BY <2>1
    <3> HIDE DEF r
    <3>2. Sane(r) /\ Kept(b, r) /\ r.at \in {b.at, "bad"} /\ (r.at # "bad" => r.left >= 8 * r.word - 8)
      BY <3>1, RefillIsSane
    <3>3. r.word \in {4, 8} /\ r.left \in Int
      BY <3>2 DEF Sane, Buffers
    <3> QED BY <3>2, <3>3
  <2>2. CASE ~(b.left < 3)
    BY <2>2 DEF Kept, Sane, Buffers
  <2> QED BY <2>1, <2>2
<1>2. PrecodeLen(b) = Take(r, 3)
  BY DEF PrecodeLen
<1> HIDE DEF r
<1>3. Sane(Take(r, 3)) /\ Kept(r, Take(r, 3)) /\ Take(r, 3).at = r.at
  BY <1>1, TakeIsSane
<1> QED BY <1>1, <1>2, <1>3 DEF Kept

LEMMA LeastNat ==
  ASSUME NEW T \in SUBSET Nat, T # {}
  PROVE  \E m \in T : \A n \in T : m <= n
<1> DEFINE R == OpToRel(<, Nat)
<1>1. \E m \in T : \A n \in T : <<n, m>> \notin R
  <2>1. IsWellFoundedOn(R, Nat)
    BY NatLessThanWellFounded
  <2> HIDE DEF R
  <2> QED BY <2>1, WFMin
<1>2. \A m, n \in Nat : <<n, m>> \in R <=> n < m
  BY DEF OpToRel
<1> HIDE DEF R
<1>3. PICK m \in T : \A n \in T : <<n, m>> \notin R
  BY <1>1
<1>4. \A n \in T : n \in Nat /\ m \in Nat /\ ~(n < m)
  BY <1>2, <1>3
<1> QED BY <1>4

\* There is a function that is defined by what it is one length before.
LEMMA ReadsExist ==
  ASSUME NEW r, NEW count \in Nat
  PROVE  \E g : g = [k \in 0..count |-> IF k = 0 THEN Take(r, 17) ELSE PrecodeLen(g[k - 1])]
<1> DEFINE Reads(n) == \E g : g = [k \in 0..n |-> IF k = 0 THEN Take(r, 17) ELSE PrecodeLen(g[k - 1])]
           Bad == {n \in Nat : ~Reads(n)}
<1>1. Reads(0)
  <2> DEFINE h == [k \in 0..0 |-> Take(r, 17)]
  <2>1. h = [k \in 0..0 |-> IF k = 0 THEN Take(r, 17) ELSE PrecodeLen(h[k - 1])]
    OBVIOUS
  <2> QED BY <2>1
<1>2. ASSUME NEW n \in Nat, Reads(n) PROVE Reads(n + 1)
  <2>1. PICK g : g = [k \in 0..n |-> IF k = 0 THEN Take(r, 17) ELSE PrecodeLen(g[k - 1])]
    BY <1>2
  <2> DEFINE h == [k \in 0..(n + 1) |-> IF k = n + 1 THEN PrecodeLen(g[n]) ELSE g[k]]
  <2>2. \A k \in 0..(n + 1) : h[k] = IF k = 0 THEN Take(r, 17) ELSE PrecodeLen(h[k - 1])
    <3> TAKE k \in 0..(n + 1)
    <3>1. CASE k = 0
      <4>1. g[0] = Take(r, 17)
        BY <2>1
      <4> QED BY <3>1, <4>1
    <3>2. CASE k \in 1..n
      <4>1. g[k] = PrecodeLen(g[k - 1])
        BY <2>1, <3>2
      <4> QED BY <3>2, <4>1
    <3>3. CASE k = n + 1
      BY <3>3
    <3> QED BY <3>1, <3>2, <3>3
  <2>3. h = [k \in 0..(n + 1) |-> h[k]]
    OBVIOUS
  <2> HIDE DEF h
  <2>4. h = [k \in 0..(n + 1) |-> IF k = 0 THEN Take(r, 17) ELSE PrecodeLen(h[k - 1])]
    BY <2>2, <2>3
  <2> QED BY <2>4
<1> HIDE DEF Reads
<1>3. Bad = {}
  <2> SUFFICES ASSUME Bad # {} PROVE FALSE
    OBVIOUS
  <2>1. PICK m \in Bad : \A n \in Bad : m <= n
    BY LeastNat
  <2>2. m # 0
    BY <1>1, <2>1
  <2>3. m - 1 \in Nat /\ m - 1 \notin Bad
    BY <2>1, <2>2
  <2> QED BY <1>2, <2>1, <2>3
<1>4. Reads(count)
  BY <1>3
<1> QED BY <1>4 DEF Reads

LEMMA PrecodeIsSane ==
  ASSUME NEW r, Sane(r), r.at # "bad" => r.left >= 8 * r.word - 8, NEW n \in {4, 19}
  PROVE  LET c == PrecodeLens(r, n) IN Sane(c) /\ Kept(r, c) /\ c.at \in {r.at, "bad"}
<1> DEFINE read == CHOOSE g : g = [k \in 0..n |-> IF k = 0 THEN Take(r, 17) ELSE PrecodeLen(g[k - 1])]
           whole == Take(Refill(Take(r, 20)), 3 * (n - 1))
<1>1. PrecodeLens(r, n) = IF CanConsume(r.word, 3 * 18) THEN whole ELSE read[n]
  BY DEF PrecodeLens
<1>2. r.word \in {4, 8} /\ r.left \in Int
  BY DEF Sane, Buffers
<1>3. r.at # "bad" => 20 <= r.left
  BY <1>2
<1>4. CASE r.word = 8
  <2>1. CanConsume(r.word, 3 * 18)
    BY <1>4 DEF CanConsume, Consumable
  <2> DEFINE a == Take(r, 20)
             b == Refill(a)
  <2>2. Sane(a) /\ Kept(r, a) /\ a.at = r.at
    BY <1>3, TakeIsSane
  <2> HIDE DEF a
  <2>3. Sane(b) /\ Kept(a, b) /\ b.at \in {a.at, "bad"} /\ (b.at # "bad" => b.left >= 8 * b.word - 8)
    BY <2>2, RefillIsSane
  <2>4. whole = Take(b, 3 * (n - 1))
    BY DEF a
  <2> HIDE DEF b, whole
  <2>5. b.word = 8 /\ b.left \in Int /\ 3 * (n - 1) \in Nat /\ 3 * (n - 1) <= 54
    BY <1>4, <2>2, <2>3 DEF Kept, Sane, Buffers
  <2>6. b.at # "bad" => 3 * (n - 1) <= b.left
    BY <2>3, <2>5
  <2> DEFINE m == 3 * (n - 1)
  <2> HIDE DEF m
  <2>7. Sane(Take(b, m)) /\ Kept(b, Take(b, m)) /\ Take(b, m).at = b.at
    BY <2>3, <2>5, <2>6, TakeIsSane DEF m
  <2>8. whole = Take(b, m)
    BY <2>4 DEF m
  <2> HIDE DEF read
  <2>9. PrecodeLens(r, n) = Take(b, m)
    BY <1>1, <2>1, <2>8
  <2> QED BY <2>2, <2>3, <2>7, <2>9 DEF Kept
<1>5. CASE r.word = 4
  <2>1. ~CanConsume(r.word, 3 * 18)
    BY <1>5 DEF CanConsume, Consumable
  <2>2. PrecodeLens(r, n) = read[n]
    BY <1>1, <2>1
  <2>3. read = [k \in 0..n |-> IF k = 0 THEN Take(r, 17) ELSE PrecodeLen(read[k - 1])]
    <3>1. n \in Nat
      OBVIOUS
    <3> QED BY <3>1, ReadsExist
  <2> HIDE DEF read, whole
  <2> DEFINE Good(c) == Sane(c) /\ Kept(r, c) /\ c.at \in {r.at, "bad"}
             Bad == {k \in 0..n : ~Good(read[k])}
  <2>4. Good(read[0])
    <3>1. Sane(Take(r, 17)) /\ Kept(r, Take(r, 17)) /\ Take(r, 17).at = r.at
      BY <1>2, <1>3, TakeIsSane
    <3>2. read[0] = Take(r, 17)
      BY <2>3
    <3> QED BY <3>1, <3>2
  <2>5. ASSUME NEW k \in 1..n, Good(read[k - 1]) PROVE Good(read[k])
    <3>1. read[k] = PrecodeLen(read[k - 1])
      BY <2>3
    <3> DEFINE b == read[k - 1]
    <3> HIDE DEF b
    <3>2. Sane(b) /\ Kept(r, b) /\ b.at \in {r.at, "bad"} /\ read[k] = PrecodeLen(b)
      BY <2>5, <3>1 DEF b
    <3>3. Sane(PrecodeLen(b)) /\ Kept(b, PrecodeLen(b)) /\ PrecodeLen(b).at \in {b.at, "bad"}
      BY <3>2, PrecodeLenIsSane
    <3> QED BY <3>2, <3>3 DEF Kept
  <2> HIDE DEF Good
  <2>6. Bad = {}
    <3> SUFFICES ASSUME Bad # {} PROVE FALSE
      OBVIOUS
    <3>1. PICK m \in Bad : \A k \in Bad : m <= k
      <4>1. Bad \in SUBSET Nat
        OBVIOUS
      <4> HIDE DEF Bad
      <4> QED BY <4>1, LeastNat
    <3>2. m # 0
      BY <2>4, <3>1
    <3>3. m \in 1..n /\ m - 1 \in 0..n /\ m - 1 \notin Bad
      BY <3>1, <3>2
    <3> QED BY <2>5, <3>1, <3>3
  <2>7. Good(read[n])
    BY <2>6
  <2> QED BY <2>2, <2>7 DEF Good
<1> QED BY <1>2, <1>4, <1>5

LEMMA DynamicStep ==
  ASSUME StreamAssumption, NEW r, Sane(r), r.at # "bad" => r.left >= 8 * r.word - 8, Dynamic(r)
  PROVE  Sane(d') /\ Phase(d')
<1>1. PICK n \in {4, 19}, at \in {"lens", "bad"} :
        d' = Goes([PrecodeLens(r, n) EXCEPT !.i = 0, !.block = "dynamic", !.staticLoaded = FALSE], at)
  BY DEF Dynamic
<1> DEFINE p == PrecodeLens(r, n)
           c == [p EXCEPT !.i = 0, !.block = "dynamic", !.staticLoaded = FALSE]
<1>2. Sane(p)
  BY PrecodeIsSane
<1>3. d' = Goes(c, at)
  BY <1>1 DEF p
<1> HIDE DEF p
<1>4. c = [p EXCEPT !.i = 0, !.block = "dynamic", !.staticLoaded = FALSE]
  OBVIOUS
<1> HIDE DEF c
<1>5. Sane(c) /\ c.i = 0 /\ c.block = "dynamic" /\ ~c.staticLoaded
  BY <1>2, <1>4, DynamicIsSane
<1>6. at \in States
  BY DEF States
<1>7. Sane(d') /\ Kept(c, d') /\ d'.at \in {"lens", "bad"}
  BY <1>3, <1>5, <1>6, GoesIsSane
<1>8. NumLens \in Nat \ {0}
  BY DEF StreamAssumption
<1> QED BY <1>5, <1>7, <1>8 DEF Phase, Flag, Kept

LEMMA StaticStep ==
  ASSUME NEW r, Sane(r), r.at # "bad" => r.left >= 8 * r.word - 8,
         d.staticLoaded = r.staticLoaded, Flag(r), Static(r)
  PROVE  Sane(d') /\ Phase(d')
<1> DEFINE p == Take(r, 3)
           c == [p EXCEPT !.block = "static", !.staticLoaded = TRUE]
           at == IF d.staticLoaded THEN "loop" ELSE "tables"
<1>1. Sane(p) /\ Kept(r, p)
  <2>1. r.at # "bad" => 3 <= r.left
    BY DEF Sane, Buffers
  <2> QED BY <2>1, TakeIsSane
<1>2. d' = Goes(c, at)
  BY DEF Static
<1> HIDE DEF p
<1>4. c = [p EXCEPT !.block = "static", !.staticLoaded = TRUE]
  OBVIOUS
<1>5. at \in States
  BY DEF States
<1> HIDE DEF c
<1>6. Sane(c) /\ SameBits(p, c) /\ c.tables = p.tables /\ c.bits = p.bits /\ c.block = "static" /\ c.staticLoaded
  BY <1>1, <1>4, StaticIsSane, ZenonT(30)
<1>7. at = IF d.staticLoaded THEN "loop" ELSE "tables"
  OBVIOUS
<1> HIDE DEF at
<1>8. Sane(d') /\ Kept(c, d') /\ d'.at \in {at, "bad"}
  BY <1>2, <1>5, <1>6, GoesIsSane
<1>9. CASE d'.at = "loop"
  <2>1. d.staticLoaded
    BY <1>7, <1>8, <1>9
  <2>2. r.tables = "static" /\ r.bits \in 1..11
    BY <2>1 DEF Flag
  <2>3. d'.tables = "static" /\ d'.bits \in 1..11 /\ d'.block = "static"
    BY <1>1, <1>6, <1>8, <2>2 DEF Kept
  <2> QED BY <1>8, <1>9, <2>3 DEF Phase, Flag, Coded
<1>10. CASE d'.at \in {"tables", "bad"}
  <2>1. d'.block = "static"
    BY <1>6, <1>8 DEF Kept
  <2> QED BY <1>8, <1>10, <2>1 DEF Phase
<1> QED BY <1>7, <1>8, <1>9, <1>10

LEMMA AlignedUp ==
  ASSUME NEW used \in Int, NEW left \in Int, NEW taken \in Int, 8 * taken = used + left
  PROVE  (used + 8 - 1) \div 8 = taken - (left \div 8)
OBVIOUS

LEMMA StoredStep ==
  ASSUME NEW r, Sane(r), r.at # "bad" => r.left >= 8 * r.word - 8, Flag(r), Stored(r)
  PROVE  Sane(d') /\ Phase(d')
<1> DEFINE b == Take(r, 3)
           start == Rewound(b)
           ok == b.over <= b.left \div 8 /\ b.in - start >= 4
           Fits(len) == ok /\ len <= b.in - (start + 4) /\ len <= b.outSize - b.out
           C(len) == [b EXCEPT !.next = start + 4 + len, !.over = 0, !.left = 0, !.loaded = 0, !.out = @ + len,
                               !.used = 8 * (Times(@, 8) + 4 + len), !.block = "stored"]
<1>1. PICK len \in {0, 1, b.in} : d' = IF ~Fits(len) THEN Goes(b, "bad") ELSE Goes(C(len), "done")
  BY DEF Stored
<1>2. Sane(b) /\ Kept(r, b)
  <2>1. r.at # "bad" => 3 <= r.left
    BY DEF Sane, Buffers
  <2> QED BY <2>1, TakeIsSane
<1> HIDE DEF b
<1>3. /\ b \in Buffers /\ b.next \in Int /\ b.over \in Int /\ b.left \in Int /\ b.used \in Int /\ b.in \in Nat /\ b.out \in Int
      /\ b.outSize \in Nat /\ len \in Nat
  BY <1>1, <1>2 DEF Sane, Buffers
<1>4. "bad" \in States /\ "done" \in States
  BY DEF States
<1>5. CASE ~Fits(len)
  <2>1. d' = Goes(b, "bad")
    BY <1>1, <1>5
  <2>2. Sane(d') /\ d'.at = "bad"
    BY <1>2, <1>4, <2>1, GoesIsSane
  <2> QED BY <2>2 DEF Phase
<1>6. CASE Fits(len)
  <2> DEFINE next == start + 4 + len
             out == b.out + len
             used == 8 * (Times(b.used, 8) + 4 + len)
             c == C(len)
  <2>1. d' = Goes(c, "done")
    BY <1>1, <1>6
  <2>2. c = [b EXCEPT !.next = next, !.over = 0, !.left = 0, !.loaded = 0, !.out = out, !.used = used, !.block = "stored"]
    OBVIOUS
  <2>3. start \in Int /\ start = b.next + b.over - (b.left \div 8)
    BY <1>3 DEF Rewound
  <2> HIDE DEF start
  <2>4. next \in Int /\ out \in Int /\ next <= b.in /\ out <= b.outSize
    BY <1>3, <1>6, <2>3
  <2>5. used \in Int
    BY <1>3 DEF Times
  <2>6. b.at # "bad" => 8 * next = used /\ used >= 0 /\ out >= 0
    <3> SUFFICES ASSUME b.at # "bad" PROVE 8 * next = used /\ used >= 0 /\ out >= 0
      OBVIOUS
    <3>1. 8 * (b.next + b.over) = b.used + b.left /\ b.used >= 0 /\ b.out >= 0
      BY <1>2 DEF Sane, Fed
    <3>2. Times(b.used, 8) = (b.next + b.over) - (b.left \div 8) /\ Times(b.used, 8) >= 0
      <4> DEFINE taken == b.next + b.over
      <4>1. taken \in Int /\ 8 * taken = b.used + b.left
        BY <1>3, <3>1
      <4> HIDE DEF taken
      <4>2. (b.used + 8 - 1) \div 8 = taken - (b.left \div 8)
        BY <1>3, <4>1, AlignedUp
      <4>3. (b.used + 8 - 1) \div 8 >= 0
        BY <1>3, <3>1
      <4> QED BY <4>2, <4>3 DEF Times, taken
    <3> QED BY <1>3, <2>3, <3>1, <3>2
  <2> HIDE DEF c, next, out, used
  <2>7. Sane(c) /\ c.at = b.at /\ c.tables = b.tables /\ c.bits = b.bits /\ c.staticLoaded = b.staticLoaded
    <3>1. PICK zero \in Int, kind \in Kinds : zero = 0 /\ kind = "stored"
      <4>1. 0 \in Int /\ "stored" \in Kinds
        BY DEF Kinds
      <4> QED BY <4>1, Zenon
    <3>2. c = [b EXCEPT !.next = next, !.over = zero, !.left = zero, !.loaded = zero, !.out = out, !.used = used, !.block = kind]
      BY <2>2, <3>1, Zenon
    <3>3. c \in Buffers
      BY ONLY <1>3, <2>4, <2>5, <3>2, zero \in Int, kind \in Kinds DEF Buffers
    <3>4. /\ c.at = b.at /\ c.tables = b.tables /\ c.bits = b.bits /\ c.staticLoaded = b.staticLoaded /\ c.beyond = b.beyond
          /\ c.in = b.in /\ c.outSize = b.outSize /\ c.word = b.word /\ c.short = b.short
          /\ c.next = next /\ c.over = zero /\ c.left = zero /\ c.loaded = zero /\ c.out = out /\ c.used = used
      BY ONLY <1>3, <2>4, <2>5, <3>2, zero \in Int, kind \in Kinds DEF Buffers
    <3>5. Holds(c) /\ Fed(c)
      BY <1>2, <1>3, <2>4, <2>5, <2>6, <3>1, <3>4 DEF Sane, Holds, Fed, Buffers
    <3> QED BY <3>3, <3>4, <3>5 DEF Sane
  <2>8. Sane(d') /\ Kept(c, d') /\ d'.at \in {"done", "bad"}
    BY <1>4, <2>1, <2>7, GoesIsSane
  <2> QED BY <1>2, <2>7, <2>8 DEF Phase, Flag, Kept
<1> QED BY <1>5, <1>6

LEMMA BlockStep ==
  ASSUME StreamAssumption, Inv, Block
  PROVE  Sane(d') /\ Phase(d')
<1> DEFINE n == d.blocks - 1
           c == [d EXCEPT !.blocks = @ - 1]
           r == Refill(c)
<1>1. Sane(d) /\ d.at = "block" /\ Flag(d)
  BY DEF Inv, Phase, Block
<1>2. n \in Int /\ c = [d EXCEPT !.blocks = n]
  BY <1>1 DEF Sane, Buffers
<1>3. Dynamic(r) \/ Stored(r) \/ Static(r)
  BY DEF Block
<1> HIDE DEF c, n
<1>4. Sane(c) /\ SameBits(d, c) /\ c.tables = d.tables /\ c.staticLoaded = d.staticLoaded /\ c.bits = d.bits
  BY <1>1, <1>2, BlocksAreSane
<1>5. Sane(r) /\ Kept(c, r) /\ (r.at # "bad" => r.left >= 8 * r.word - 8)
  BY <1>4, RefillIsSane
<1> HIDE DEF r
<1>6. d.staticLoaded = r.staticLoaded /\ Flag(r)
  BY <1>1, <1>4, <1>5 DEF Kept, Flag
<1> QED BY <1>3, <1>5, <1>6, DynamicStep, StoredStep, StaticStep

LEMMA LensStep ==
  ASSUME StreamAssumption, Inv, Lens
  PROVE  Sane(d') /\ Phase(d')
<1> DEFINE q == IF d.left < 7 + 7 THEN Refill(d) ELSE d
           r == Peek(q, 7)
           After(b, n, to) == Goes([b EXCEPT !.i = @ + n, !.beyond = @ \/ r.i + to > NumLens + LensOverrun],
                                   IF r.i + n < NumLens THEN "lens" ELSE IF r.i + n = NumLens THEN "tables" ELSE "bad")
<1>1. /\ Sane(d) /\ d.at = "lens" /\ d.i \in 0..NumLens - 1 /\ d.block = "dynamic" /\ ~d.staticLoaded /\ NumLens \in Nat
      /\ d.left \in Int /\ d.word \in {4, 8}
  BY DEF Inv, Phase, Lens, StreamAssumption, Sane, Buffers
<1>2. Sane(q) /\ Kept(d, q) /\ (q.at # "bad" => q.left >= 14)
  <2>1. CASE d.left < 7 + 7
    <3>1. q = Refill(d)
      BY <2>1
    <3> HIDE DEF q
    <3>2. Sane(q) /\ Kept(d, q) /\ (q.at # "bad" => q.left >= 8 * q.word - 8)
      BY <1>1, <3>1, RefillIsSane
    <3> QED BY <1>1, <3>2 DEF Kept, Sane, Buffers
  <2>2. CASE ~(d.left < 7 + 7)
    BY <1>1, <2>2 DEF Kept
  <2> QED BY <2>1, <2>2
<1>3. Lens => \E c \in Upto(7, CodeLens) :
          \/ d' = After(Take(r, c), 1, 1)
          \/ \E n \in Runs \cap 3..6 : d' = IF d.i = 0 THEN Goes(r, "bad") ELSE After(Take(Take(r, c), 2), n, 6)
          \/ \E n \in Runs \cap 3..10 : d' = After(Take(Take(r, c), 3), n, 10)
          \/ \E n \in Runs \cap 11..138 : d' = After(Take(Take(r, c), 7), n, n)
  BY DEF Lens
<1> HIDE DEF q
<1>4. Sane(r) /\ Kept(q, r) /\ (r.at # "bad" => r.left >= 14)
  <2>1. q.at # "bad" => 7 <= q.loaded
    BY <1>2 DEF Sane, Fed, Buffers
  <2>2. Sane(r) /\ Kept(q, r) /\ r.at = q.at /\ r.left = q.left
    BY <1>2, <2>1, PeekIsSane
  <2> QED BY <1>2, <2>2
<1>5. r.i = d.i /\ r.block = "dynamic" /\ ~r.staticLoaded
  BY <1>1, <1>2, <1>4 DEF Kept
<1> HIDE DEF r
<1>6. ASSUME NEW b, Sane(b), Kept(r, b), NEW n \in Nat \ {0}, NEW to \in Int, to <= 138, d' = After(b, n, to)
      PROVE  Sane(d') /\ Phase(d')
  <2> DEFINE beyond == r.i + to > NumLens + LensOverrun
             c == [b EXCEPT !.i = @ + n, !.beyond = @ \/ beyond]
             at == IF r.i + n < NumLens THEN "lens" ELSE IF r.i + n = NumLens THEN "tables" ELSE "bad"
  <2>1. d' = Goes(c, at)
    BY <1>6
  <2>2. beyond \in BOOLEAN /\ ~beyond
    BY <1>1, <1>5, <1>6 DEF LensOverrun
  <2>3. b.i \in Int /\ b.i = r.i
    BY <1>6 DEF Sane, Buffers, Kept
  <2> HIDE DEF beyond
  <2>4. Sane(c) /\ SameBits(b, c) /\ c.i = b.i + n /\ c.block = b.block /\ c.staticLoaded = b.staticLoaded
    <3> DEFINE x == b.i + n
               y == b.beyond \/ beyond
    <3>1. c = [b EXCEPT !.i = x, !.beyond = y]
      OBVIOUS
    <3>2. x \in Int /\ y \in BOOLEAN /\ ~y
      BY <1>6, <2>2, <2>3 DEF Sane, Holds
    <3> HIDE DEF c, x, y
    <3>3. b \in Buffers
      BY <1>6 DEF Sane
    <3>4. c \in Buffers
      BY ONLY <3>1, <3>2, <3>3 DEF Buffers
    <3>5. /\ SameBits(b, c) /\ c.i = x /\ c.block = b.block /\ c.staticLoaded = b.staticLoaded
          /\ c.out = b.out /\ c.beyond = y
      BY ONLY <3>1, <3>2, <3>3 DEF Buffers, SameBits
    <3>6. Sane(c)
      BY <1>6, <3>2, <3>4, <3>5, SameBitsAreSane DEF Sane, Holds, Fed, SameBits
    <3> QED BY <3>5, <3>6 DEF x
  <2>5. at \in States
    BY DEF States
  <2>6. at = IF r.i + n < NumLens THEN "lens" ELSE IF r.i + n = NumLens THEN "tables" ELSE "bad"
    OBVIOUS
  <2> HIDE DEF at, c
  <2>7. Sane(d') /\ Kept(c, d') /\ d'.at \in {at, "bad"}
    BY <2>1, <2>4, <2>5, GoesIsSane
  <2>8. d'.i = d.i + n /\ d'.block = "dynamic" /\ ~d'.staticLoaded
    BY <1>5, <1>6, <2>3, <2>4, <2>7 DEF Kept
  <2>9. d'.at = "lens" => d'.i \in 0..NumLens - 1
    BY <1>1, <1>5, <1>6, <2>6, <2>7, <2>8
  <2> QED BY <2>6, <2>7, <2>8, <2>9 DEF Phase, Flag
<1>7. PICK c \in Upto(7, CodeLens) :
          \/ d' = After(Take(r, c), 1, 1)
          \/ \E n \in Runs \cap 3..6 : d' = IF d.i = 0 THEN Goes(r, "bad") ELSE After(Take(Take(r, c), 2), n, 6)
          \/ \E n \in Runs \cap 3..10 : d' = After(Take(Take(r, c), 3), n, 10)
          \/ \E n \in Runs \cap 11..138 : d' = After(Take(Take(r, c), 7), n, n)
  BY <1>3
<1> HIDE DEF After
<1>8. c \in Nat /\ c <= 7
  BY StreamFields DEF Upto
<1> DEFINE t == Take(r, c)
<1>9. Sane(t) /\ Kept(r, t) /\ (t.at # "bad" => t.left >= 7)
  <2>0. r.left \in Int
    BY <1>4 DEF Sane, Buffers
  <2>1. r.at # "bad" => c <= r.left
    BY <1>4, <1>8, <2>0
  <2>2. Sane(t) /\ Kept(r, t) /\ t.at = r.at /\ t.left = r.left - c
    BY <1>4, <1>8, <2>1, TakeIsSane
  <2> QED BY <1>4, <1>8, <2>0, <2>2
<1> HIDE DEF t
<1>10. ASSUME NEW k \in Nat, k <= 7 PROVE Sane(Take(t, k)) /\ Kept(r, Take(t, k))
  <2>0. t.left \in Int
    BY <1>9 DEF Sane, Buffers
  <2>1. t.at # "bad" => k <= t.left
    BY <1>9, <1>10, <2>0
  <2>2. Sane(Take(t, k)) /\ Kept(t, Take(t, k))
    BY <1>9, <1>10, <2>1, TakeIsSane
  <2> QED BY <1>9, <2>2 DEF Kept
<1>11. CASE d' = After(Take(r, c), 1, 1)
  BY <1>6, <1>9, <1>11 DEF t
<1>12. CASE \E n \in Runs \cap 3..6 : d' = IF d.i = 0 THEN Goes(r, "bad") ELSE After(Take(Take(r, c), 2), n, 6)
  <2>1. CASE d' = Goes(r, "bad")
    <3>1. "bad" \in States
      BY DEF States
    <3>2. Sane(d') /\ d'.at = "bad"
      BY <1>4, <2>1, <3>1, GoesIsSane
    <3> QED BY <3>2 DEF Phase
  <2>2. CASE \E n \in Runs \cap 3..6 : d' = After(Take(t, 2), n, 6)
    BY <1>6, <1>10, <2>2
  <2> QED BY <1>12, <2>1, <2>2 DEF t
<1>13. CASE \E n \in Runs \cap 3..10 : d' = After(Take(Take(r, c), 3), n, 10)
  <2>1. \E n \in Runs \cap 3..10 : d' = After(Take(t, 3), n, 10)
    BY <1>13 DEF t
  <2> QED BY <1>6, <1>10, <2>1
<1>14. CASE \E n \in Runs \cap 11..138 : d' = After(Take(Take(r, c), 7), n, n)
  <2>1. \E n \in Runs \cap 11..138 : d' = After(Take(t, 7), n, n)
    BY <1>14 DEF t
  <2> QED BY <1>6, <1>10, <2>1
<1> QED BY <1>7, <1>11, <1>12, <1>13, <1>14

LEMMA TablesStep ==
  ASSUME StreamAssumption, Inv, Tables
  PROVE  Sane(d') /\ Phase(d')
<1>1. Sane(d) /\ d.at = "tables" /\ (d.staticLoaded => d.block = "static") /\ d \in Buffers
  BY DEF Inv, Phase, Tables, Sane
<1>2. "loop" \in States /\ "bad" \in States
  BY DEF States
<1>3. CASE d' = Goes(d, "bad")
  <2>1. Sane(d') /\ d'.at = "bad"
    BY <1>1, <1>2, <1>3, GoesIsSane
  <2> QED BY <2>1 DEF Phase
<1>4. ASSUME NEW bits \in 1..11, d' = Goes([d EXCEPT !.tables = d.block, !.bits = bits, !.i = 0], "loop")
      PROVE  Sane(d') /\ Phase(d')
  <2> DEFINE c == [d EXCEPT !.tables = d.block, !.bits = bits, !.i = 0]
  <2>1. bits \in Int /\ c = [d EXCEPT !.tables = d.block, !.bits = bits, !.i = 0] /\ d' = Goes(c, "loop")
    BY <1>4
  <2> HIDE DEF c
  <2>2. /\ Sane(c) /\ SameBits(d, c) /\ c.tables = d.block /\ c.bits = bits /\ c.block = d.block /\ c.staticLoaded = d.staticLoaded
    <3>1. PICK kind \in Kinds, i \in Int : kind = d.block /\ i = 0
      <4>1. d.block \in Kinds /\ 0 \in Int
        BY <1>1 DEF Buffers
      <4> QED BY <4>1, Zenon
    <3>2. c = [d EXCEPT !.tables = kind, !.bits = bits, !.i = i]
      BY <2>1, <3>1, Zenon
    <3>0. bits \in Int
      BY <1>4
    <3>3. c \in Buffers
      BY ONLY <1>1, <3>0, <3>2, i \in Int, kind \in Kinds DEF Buffers
    <3>4. /\ SameBits(d, c) /\ c.out = d.out /\ c.tables = kind /\ c.bits = bits /\ c.beyond = d.beyond
          /\ c.block = d.block /\ c.staticLoaded = d.staticLoaded
      BY ONLY <1>1, <3>0, <3>2, i \in Int, kind \in Kinds DEF Buffers, SameBits
    <3>5. Sane(c)
      BY <1>1, <3>3, <3>4, SameBitsAreSane DEF Sane, Holds, Fed, SameBits
    <3> QED BY <3>1, <3>4, <3>5
  <2>3. Sane(d') /\ Kept(c, d') /\ d'.at = "loop"
    BY <1>1, <1>2, <2>1, <2>2, GoesIsSane DEF SameBits
  <2> QED BY <1>1, <1>4, <2>2, <2>3 DEF Phase, Flag, Coded, Kept
<1>5. \A bits \in IF d.block = "static" THEN {9} ELSE TableBits : bits \in 1..11
  BY DEF StreamAssumption
<1> QED BY <1>3, <1>4, <1>5 DEF Tables

-----------------------------------------------------------------------------
(* The fast loop.                                                            *)

\* Above the end of the fast loop a turn has room in the input, and in the output.
LEMMA InputLeft ==
  ASSUME NEW b, Sane(b), b.at # "bad", b.next < b.in - Smaller(b.in, FastloopMaxBytesRead(b.word))
  PROVE  /\ b.over = 0 /\ b.next + b.word <= b.in /\ b.used <= 8 * (b.in - FastloopMaxBytesRead(b.word) - 1)
<1>1. /\ b.word \in {4, 8} /\ b.in \in Nat /\ b.next \in Int /\ b.over \in Int /\ b.used \in Int /\ b.left \in Int
      /\ 8 * (b.next + b.over) = b.used + b.left /\ 0 <= b.left /\ b.over >= 0 /\ (b.over > 0 => b.next = b.in) /\ b.next >= 0
  BY DEF Sane, Fed, Buffers
<1>2. FastloopMaxBytesRead(b.word) = 2 * b.word + 9
  BY <1>1, MaxBytes
<1>3. b.next < b.in - Smaller(b.in, 2 * b.word + 9)
  BY <1>2
<1>4. b.next <= b.in - (2 * b.word + 9) - 1
  BY <1>1, <1>3 DEF Smaller
<1> QED BY <1>1, <1>2, <1>4

LEMMA OutputLeft ==
  ASSUME NEW b, Sane(b), b.at # "bad", b.out < b.outSize - Smaller(b.outSize, FastloopMaxBytesWritten(b.word))
  PROVE  b.out <= b.outSize - FastloopMaxBytesWritten(b.word) - 1
<1>1. b.word \in {4, 8} /\ b.outSize \in Nat /\ b.out \in Int /\ b.out >= 0
  BY DEF Sane, Fed, Buffers
<1>2. FastloopMaxBytesWritten(b.word) = 259 + 5 * b.word
  BY <1>1, MaxBytes
<1>3. b.out < b.outSize - Smaller(b.outSize, 259 + 5 * b.word)
  BY <1>2
<1> QED BY <1>1, <1>2, <1>3 DEF Smaller

\* In a turn a word may be read.
LEMMA TurnReads ==
  ASSUME NEW b, Sane(b), b.at # "bad", NEW k \in 0..80, NEW m \in Nat, Turn(b, k, m)
  PROVE  b.next + b.word <= b.in
<1>1. /\ b.word \in {4, 8} /\ b.in \in Nat /\ b.next \in Int /\ b.used \in Int /\ b.left \in Int /\ b.over = 0
      /\ 8 * (b.next + b.over) = b.used + b.left /\ b.left <= 8 * b.word - 1
  BY DEF Sane, Fed, Buffers, Turn
<1>2. b.used <= 8 * (b.in - (2 * b.word + 9) - 1) + k
  BY <1>1, MaxBytes DEF Turn
<1> QED BY ONLY <1>1, <1>2, k \in 0..80

LEMMA TurnFields ==
  ASSUME NEW b, Sane(b), NEW k \in Nat, NEW m \in Nat, Turn(b, k, m)
  PROVE  /\ b.word \in {4, 8} /\ b.in \in Nat /\ b.outSize \in Nat /\ b.left \in Int /\ b.loaded \in Int /\ b.used \in Int /\ b.out \in Int
         /\ b.over = 0 /\ b.left >= 8 * b.word - 8 - k /\ b.loaded >= 8 * b.word - k /\ b.loaded >= b.left + 1
         /\ b.used <= 8 * (b.in - (2 * b.word + 9) - 1) + k
         /\ b.out <= b.outSize - (259 + 5 * b.word) - 1 + m
<1>1. b.word \in {4, 8}
  BY DEF Sane, Buffers
<1>2. FastloopMaxBytesRead(b.word) = 2 * b.word + 9 /\ FastloopMaxBytesWritten(b.word) = 259 + 5 * b.word
  BY <1>1, MaxBytes
<1> QED BY <1>1, <1>2 DEF Turn, Sane, Buffers

\* What is consumed counts for the turn.
LEMMA TurnGoesOn ==
  ASSUME NEW b, Sane(b), NEW k \in Nat, NEW m \in Nat, Turn(b, k, m), NEW c, Sane(c), NEW n \in Nat, NEW j \in Nat, NEW l \in Nat,
         c.word = b.word, c.in = b.in, c.outSize = b.outSize, c.over = b.over,
         c.left = b.left - n, c.loaded = b.loaded - n, c.used = b.used + n, c.out <= b.out + l - m, k + n <= j
  PROVE  Turn(c, j, l)
<1>1. /\ b.word \in {4, 8} /\ b.in \in Nat /\ b.outSize \in Nat /\ b.left \in Int /\ b.loaded \in Int /\ b.used \in Int /\ b.out \in Int
      /\ b.over = 0 /\ b.left >= 8 * b.word - 8 - k /\ b.loaded >= 8 * b.word - k /\ b.loaded >= b.left + 1
      /\ b.used <= 8 * (b.in - (2 * b.word + 9) - 1) + k
      /\ b.out <= b.outSize - (259 + 5 * b.word) - 1 + m
  BY TurnFields
<1>2. c.out \in Int
  BY DEF Sane, Buffers
<1>3. FastloopMaxBytesRead(c.word) = 2 * b.word + 9 /\ FastloopMaxBytesWritten(c.word) = 259 + 5 * b.word
  BY <1>1, MaxBytes
<1> QED BY <1>1, <1>2, <1>3 DEF Turn

LEMMA AgainStep ==
  ASSUME Inv, NEW b, Sane(b), b.at # "bad", b.word = d.word, b.in = d.in, b.outSize = d.outSize, Coded(b), Flag(b),
         b.left >= 8 * b.word - 8, b.loaded = 8 * b.word, b.loaded >= b.left + 1, d' = Again(b)
  PROVE  Sane(d') /\ Phase(d')
<1>1. "fast" \in States /\ "generic" \in States
  BY DEF States
<1>2. CASE b.next < InFastEnd /\ b.out < OutFastEnd
  <2>1. d' = Goes(b, "fast")
    BY <1>2 DEF Again
  <2>2. /\ Sane(d') /\ Kept(b, d') /\ d'.at = "fast" /\ d'.over = b.over /\ d'.left = b.left /\ d'.loaded = b.loaded /\ d'.used = b.used
    BY <1>1, <2>1, GoesIsSane
  <2>3. b.over = 0 /\ b.used <= 8 * (b.in - FastloopMaxBytesRead(b.word) - 1)
    BY <1>2, InputLeft DEF InFastEnd
  <2>4. b.out <= b.outSize - FastloopMaxBytesWritten(b.word) - 1
    BY <1>2, OutputLeft DEF OutFastEnd
  <2>5. b.word \in {4, 8} /\ b.in \in Nat /\ b.outSize \in Nat
    BY DEF Sane, Buffers
  <2>6. Turn(d', 0, 0)
    <3>1. FastloopMaxBytesRead(b.word) \in Int /\ FastloopMaxBytesWritten(b.word) \in Int
      BY <2>5, MaxBytes
    <3> QED BY <2>2, <2>3, <2>4, <2>5, <3>1 DEF Turn, Kept
  <2> QED BY <2>2, <2>6 DEF Phase, Flag, Coded, Kept
<1>3. CASE ~(b.next < InFastEnd /\ b.out < OutFastEnd)
  <2>1. d' = Goes(b, "generic")
    BY <1>3 DEF Again
  <2>2. Sane(d') /\ Kept(b, d') /\ d'.at = "generic"
    BY <1>1, <2>1, GoesIsSane
  <2> QED BY <2>2 DEF Phase, Flag, Coded, Kept
<1> QED BY <1>2, <1>3

LEMMA LoopStep ==
  ASSUME Inv, Loop
  PROVE  Sane(d') /\ Phase(d')
<1>1. Sane(d) /\ d.at = "loop" /\ Coded(d) /\ Flag(d)
  BY DEF Inv, Phase, Loop
<1>2. "fast" \in States /\ "generic" \in States
  BY DEF States
<1>3. d.next \in Int /\ d.out \in Int /\ d.word \in {4, 8} /\ d.in \in Nat /\ d.outSize \in Nat
  BY <1>1 DEF Sane, Buffers
<1>4. InFastEnd \in Int /\ OutFastEnd \in Int
  <2>1. FastloopMaxBytesRead(d.word) \in Int /\ FastloopMaxBytesWritten(d.word) \in Int
    BY <1>3, MaxBytes
  <2> QED BY <1>3, <2>1 DEF InFastEnd, OutFastEnd, Smaller
<1>5. CASE d.next >= InFastEnd \/ d.out >= OutFastEnd
  <2>1. d' = Goes(d, "generic")
    BY <1>5 DEF Loop
  <2>2. Sane(d') /\ Kept(d, d') /\ d'.at = "generic"
    BY <1>1, <1>2, <2>1, GoesIsSane
  <2> QED BY <1>1, <2>2 DEF Phase, Flag, Coded, Kept
<1>6. CASE d.next < InFastEnd /\ d.out < OutFastEnd
  <2>0. d.at # "bad"
    BY <1>1
  <2>1. d.over = 0 /\ d.used <= 8 * (d.in - FastloopMaxBytesRead(d.word) - 1) /\ d.next + d.word <= d.in
    BY <1>1, <1>6, <2>0, InputLeft DEF InFastEnd
  <2>2. d.out <= d.outSize - FastloopMaxBytesWritten(d.word) - 1
    BY <1>1, <1>6, <2>0, OutputLeft DEF OutFastEnd
  <2> DEFINE r == Branchless(d)
             p == Peek(r, d.bits)
  <2>3. /\ Sane(r) /\ Kept(d, r) /\ r.at = d.at /\ r.over = d.over /\ r.used = d.used
        /\ r.left >= 8 * r.word - 8 /\ r.loaded = 8 * r.word /\ r.loaded >= r.left + 1
    BY <1>1, <2>1, BranchlessIsSane
  <2>4. d' = Goes(p, "fast")
    BY <1>3, <1>4, <1>6 DEF Loop
  <2> HIDE DEF r
  <2>5. d.bits \in Nat /\ d.bits <= r.loaded
    BY <1>1, <1>3, <2>3 DEF Coded, Kept
  <2>6. /\ Sane(p) /\ Kept(r, p) /\ p.at = r.at /\ p.over = r.over /\ p.left = r.left /\ p.loaded = r.loaded /\ p.used = r.used
    BY <2>3, <2>5, PeekIsSane
  <2> HIDE DEF p
  <2>7. /\ Sane(d') /\ Kept(p, d') /\ d'.at = "fast" /\ d'.over = p.over /\ d'.left = p.left /\ d'.loaded = p.loaded /\ d'.used = p.used
    BY <1>1, <1>2, <2>3, <2>4, <2>6, GoesIsSane
  <2>8. Kept(d, d')
    BY <2>3, <2>6, <2>7 DEF Kept
  <2>9. Turn(d', 0, 0)
    <3>1. FastloopMaxBytesRead(d.word) \in Int /\ FastloopMaxBytesWritten(d.word) \in Int
      BY <1>3, MaxBytes
    <3>2. d'.left >= 8 * d.word - 8 /\ d'.loaded = 8 * d.word /\ d'.loaded >= d'.left + 1 /\ d'.over = 0 /\ d'.used = d.used
      BY <2>1, <2>3, <2>6, <2>7 DEF Kept
    <3> QED BY <1>3, <2>1, <2>2, <2>8, <3>1, <3>2 DEF Turn, Kept
  <2> QED BY <1>1, <2>7, <2>8, <2>9 DEF Phase, Flag, Coded, Kept
<1> QED BY <1>3, <1>4, <1>5, <1>6

\* x is b after n bits.
Taken(b, x, n) ==
  /\ Sane(x) /\ Kept(b, x) /\ x.at = b.at /\ x.over = b.over
  /\ x.left = b.left - n /\ x.loaded = b.loaded - n /\ x.used = b.used + n

\* An entry of a table takes what its codeword has, and a pointer, and extra bits.
LEMMA EntryTakes ==
  ASSUME StreamAssumption, Inv, NEW b, Sane(b), b.at # "bad", b.bits \in 1..11, 20 <= b.left,
         NEW k \in {0, 5}, NEW extras, extras \subseteq 0..k, NEW x \in MainEntries(b, extras) \cup SubEntries(b, extras)
  PROVE  \E n \in 0..(15 + k) : Taken(b, x, n)
<1>1. CodeLens \subseteq Nat /\ b.left \in Int /\ b.loaded \in Int /\ b.used \in Int /\ b.left <= b.loaded /\ k \in Nat /\ k <= 5
  BY StreamFields DEF Sane, Buffers, Fed
<1>2. CASE x \in MainEntries(b, extras)
  <2>1. PICK c \in Upto(b.bits, CodeLens), e \in extras : x = Take(b, c + e)
    BY <1>2 DEF MainEntries
  <2>2. c \in Nat /\ c <= 11 /\ e \in 0..k
    BY <1>1, <2>1 DEF Upto
  <2> DEFINE n == c + e
  <2>3. n \in 0..(15 + k) /\ n <= 11 + k /\ n \in Nat /\ n <= b.left
    BY <1>1, <2>2
  <2>4. x = Take(b, n)
    BY <2>1
  <2> HIDE DEF n
  <2>5. /\ Sane(x) /\ Kept(b, x) /\ x.at = b.at /\ x.over = b.over
        /\ x.left = b.left - n /\ x.loaded = b.loaded - n /\ x.used = b.used + n
    BY <2>3, <2>4, TakeIsSane
  <2> QED BY <2>3, <2>5 DEF Taken
<1>3. CASE x \in SubEntries(b, extras)
  <2>1. ~(b.bits < LitlenTableBits)
    BY <1>3 DEF SubEntries
  <2>2. b.bits = 11 /\ MaxCodeword - LitlenTableBits = 4
    BY <2>1 DEF LitlenTableBits, MaxCodeword
  <2>3. x \in {Take(Peek(Take(b, b.bits), c), c + e) : c \in Upto(MaxCodeword - LitlenTableBits, CodeLens), e \in extras}
    BY <1>3, <2>1 DEF SubEntries
  <2>4. PICK c \in Upto(MaxCodeword - LitlenTableBits, CodeLens), e \in extras : x = Take(Peek(Take(b, b.bits), c), c + e)
    BY <2>3
  <2>5. c \in Nat /\ c <= 4 /\ e \in 0..k
    BY <1>1, <2>2, <2>4 DEF Upto
  <2> DEFINE t == Take(b, b.bits)
             p == Peek(t, c)
             m == c + e
  <2>6. x = Take(p, m)
    BY <2>4
  <2>7. /\ Sane(t) /\ Kept(b, t) /\ t.at = b.at /\ t.over = b.over
        /\ t.left = b.left - 11 /\ t.loaded = b.loaded - 11 /\ t.used = b.used + 11
    <3>1. b.bits \in Nat /\ b.bits <= b.left
      BY <1>1, <2>2
    <3>2. /\ Sane(t) /\ Kept(b, t) /\ t.at = b.at /\ t.over = b.over
          /\ t.left = b.left - b.bits /\ t.loaded = b.loaded - b.bits /\ t.used = b.used + b.bits
      BY <3>1, TakeIsSane
    <3> QED BY <2>2, <3>2
  <2> HIDE DEF t
  <2>8. /\ Sane(p) /\ Kept(t, p) /\ p.at = t.at /\ p.over = t.over /\ p.left = t.left /\ p.loaded = t.loaded /\ p.used = t.used
    <3>1. c <= t.loaded
      BY <1>1, <2>5, <2>7
    <3> QED BY <2>5, <2>7, <3>1, PeekIsSane
  <2> HIDE DEF p
  <2>9. m \in Nat /\ m <= p.left /\ 11 + m \in 0..(15 + k) /\ m <= 9
    BY <1>1, <2>5, <2>7, <2>8
  <2> HIDE DEF m
  <2>10. /\ Sane(x) /\ Kept(p, x) /\ x.at = p.at /\ x.over = p.over
         /\ x.left = p.left - m /\ x.loaded = p.loaded - m /\ x.used = p.used + m
    BY <2>6, <2>8, <2>9, TakeIsSane
  <2> DEFINE n == 11 + m
  <2>11. /\ Sane(x) /\ Kept(b, x) /\ x.at = b.at /\ x.over = b.over
         /\ x.left = b.left - n /\ x.loaded = b.loaded - n /\ x.used = b.used + n
    <3>1. Kept(b, x) /\ x.at = b.at /\ x.over = b.over
      BY <2>7, <2>8, <2>10 DEF Kept
    <3>2. x.left = b.left - n /\ x.loaded = b.loaded - n /\ x.used = b.used + n
      BY <1>1, <2>7, <2>8, <2>9, <2>10
    <3> QED BY <2>10, <3>1, <3>2
  <2>12. n \in 0..(15 + k)
    BY <2>9
  <2> HIDE DEF n
  <2> QED BY <2>11, <2>12 DEF Taken
<1> QED BY <1>2, <1>3

LEMMA RoomIs == ASSUME d.word \in {4, 8} PROVE RoomForThree <=> d.word = 8
BY DEF RoomForThree, CanConsumeAndThenPreload, Consumable, Preloadable, LitlenTableBits, LengthMaxBits, OffsetTableBits, MaxCodeword

LEMMA NeverScarce == ASSUME NEW b, b.word \in {4, 8} PROVE RefilledIfScarce(b) = b
BY DEF RefilledIfScarce, CanConsumeAndThenPreload, Consumable, Preloadable, LitlenTableBits, LengthMaxBits, OffsetTableBits, MaxCodeword

LEMMA EndsTurnStep ==
  ASSUME Inv, NEW b, Sane(b), b.at # "bad", Kept(d, b), Coded(b), Flag(b), NEW k \in 0..80, NEW m \in 0..2, Turn(b, k, m), b.loaded >= 11,
         d' = EndsTurn(b)
  PROVE  Sane(d') /\ Phase(d')
<1> DEFINE p == Peek(b, d.bits)
           r == Branchless(p)
           l == Literal(r)
<1>1. d' = Again(l)
  BY DEF EndsTurn
<1>2. d.bits \in Nat /\ d.bits <= b.loaded
  BY DEF Coded, Kept, Sane, Buffers
<1>3. /\ b.word \in {4, 8} /\ b.outSize \in Nat /\ b.out \in Int /\ b.out <= b.outSize - (259 + 5 * b.word) - 1 + m
      /\ b.next + b.word <= b.in
  BY TurnFields, TurnReads
<1>4. Sane(p) /\ Kept(b, p) /\ p.at = b.at /\ p.over = b.over /\ p.left = b.left /\ p.loaded = b.loaded /\ p.used = b.used
      /\ p.next = b.next
  <2>1. Sane(p) /\ Kept(b, p) /\ p.at = b.at /\ p.over = b.over /\ p.left = b.left /\ p.loaded = b.loaded /\ p.used = b.used
    BY <1>2, PeekIsSane
  <2> HIDE DEF p
  <2>2. 8 * (p.next + p.over) = p.used + p.left /\ 8 * (b.next + b.over) = b.used + b.left
    BY <2>1 DEF Sane, Fed
  <2>3. b.next \in Int /\ p.next \in Int /\ b.over \in Int /\ b.used \in Int /\ b.left \in Int
    BY <2>1 DEF Sane, Buffers
  <2> QED BY <2>1, <2>2, <2>3
<1> HIDE DEF p
<1>5. /\ Sane(r) /\ Kept(p, r) /\ r.at = p.at /\ r.left >= 8 * r.word - 8 /\ r.loaded = 8 * r.word /\ r.loaded >= r.left + 1
  <2>1. p.next + p.word <= p.in
    BY <1>3, <1>4 DEF Kept
  <2> QED BY <1>4, <2>1, BranchlessIsSane
<1> HIDE DEF r
<1>6. r.out < r.outSize
  BY <1>3, <1>4, <1>5 DEF Kept
<1>7. /\ Sane(l) /\ SameBits(r, l) /\ l.tables = r.tables /\ l.bits = r.bits /\ l.block = r.block /\ l.staticLoaded = r.staticLoaded
  BY <1>5, <1>6, LiteralIsSane
<1> HIDE DEF l
<1>8. /\ l.at # "bad" /\ l.word = d.word /\ l.in = d.in /\ l.outSize = d.outSize /\ Coded(l) /\ Flag(l)
      /\ l.left >= 8 * l.word - 8 /\ l.loaded = 8 * l.word /\ l.loaded >= l.left + 1
  BY <1>4, <1>5, <1>7 DEF Kept, SameBits, Coded, Flag
<1> QED BY <1>1, <1>7, <1>8, AgainStep

LEMMA FastStep ==
  ASSUME StreamAssumption, Inv, Fast
  PROVE  Sane(d') /\ Phase(d')
<1>1. /\ Sane(d) /\ d.at \in {"fast", "fast2", "fast3"} /\ d.at # "bad" /\ Coded(d) /\ Flag(d)
      /\ d.word \in {4, 8} /\ d.bits \in 1..11 /\ d.left \in Int /\ d.loaded \in Int /\ d.used \in Int /\ d.out \in Int
  BY DEF Inv, Phase, Fast, Sane, Buffers, Coded
<1>2. PICK m \in 0..2 : /\ Turn(d, 11 * m, m) /\ (m > 0 => d.word = 8)
                        /\ m = IF d.at = "fast" THEN 0 ELSE IF d.at = "fast2" THEN 1 ELSE 2
  <2>1. CASE d.at = "fast"
    BY <2>1 DEF Inv, Phase
  <2>2. CASE d.at = "fast2"
    BY <2>2 DEF Inv, Phase
  <2>3. CASE d.at = "fast3"
    BY <2>3 DEF Inv, Phase
  <2> QED BY <1>1, <2>1, <2>2, <2>3
<1> DEFINE k == 11 * m
<1>3. k \in Nat /\ m \in Nat /\ k \in 0..22 /\ Turn(d, k, m)
  BY <1>2
<1>4. /\ d.left >= 8 * d.word - 8 - k /\ d.loaded >= 8 * d.word - k /\ 20 <= d.left /\ 31 <= d.loaded
      /\ d.over = 0 /\ d.outSize \in Nat /\ d.out <= d.outSize - (259 + 5 * d.word) - 1 + m
  <2>1. /\ d.left >= 8 * d.word - 8 - k /\ d.loaded >= 8 * d.word - k /\ d.over = 0 /\ d.outSize \in Nat
        /\ d.out <= d.outSize - (259 + 5 * d.word) - 1 + m
    BY <1>1, <1>3, TurnFields
  <2> QED BY <1>1, <1>2, <2>1
<1>5. Extras \subseteq Nat /\ {0} \subseteq 0..0 /\ Upto(5, Extras) \subseteq 0..5
  BY StreamFields DEF Upto
<1>6. ASSUME NEW e \in {0, 5}, NEW extras, extras \subseteq 0..e, NEW x \in MainEntries(d, extras) \cup SubEntries(d, extras)
      PROVE  \E n \in 0..(15 + e) :
           /\ Sane(x) /\ Kept(d, x) /\ x.at = d.at /\ x.over = d.over
           /\ x.left = d.left - n /\ x.loaded = d.loaded - n /\ x.used = d.used + n
           /\ Turn(x, k + n, m) /\ Coded(x) /\ Flag(x)
  <2>0. \E n \in 0..(15 + e) : Taken(d, x, n)
    BY <1>1, <1>4, <1>6, EntryTakes, ZenonT(60)
  <2>1. PICK n \in 0..(15 + e) :
           /\ Sane(x) /\ Kept(d, x) /\ x.at = d.at /\ x.over = d.over
           /\ x.left = d.left - n /\ x.loaded = d.loaded - n /\ x.used = d.used + n
    BY <2>0 DEF Taken
  <2>2. n \in Nat /\ k + n \in Nat /\ k + n <= k + n /\ x.out <= d.out + m - m /\ x.word = d.word /\ x.in = d.in /\ x.outSize = d.outSize
    BY <1>1, <1>3, <1>6, <2>1 DEF Kept
  <2> DEFINE j == k + n
  <2>3. j \in Nat /\ k + n <= j
    BY <2>2
  <2> HIDE DEF j, k
  <2>4. Turn(x, j, m)
    BY <1>1, <1>3, <2>1, <2>2, <2>3, TurnGoesOn
  <2> QED BY <1>1, <2>1, <2>4 DEF j, Kept, Coded, Flag
<1> HIDE DEF k
<1> SUFFICES ASSUME TRUE PROVE Sane(d') /\ Phase(d')
  OBVIOUS
<1>7. ASSUME NEW b \in MainEntries(d, {0}),
             d' = IF RoomForThree /\ d.at # "fast3" THEN Goes(Literal(Peek(b, d.bits)), IF d.at = "fast" THEN "fast2" ELSE "fast3")
                  ELSE EndsTurn(b)
      PROVE  Sane(d') /\ Phase(d')
  <2>1. PICK n \in 0..15 :
           /\ Sane(b) /\ Kept(d, b) /\ b.at = d.at /\ b.over = d.over
           /\ b.left = d.left - n /\ b.loaded = d.loaded - n /\ b.used = d.used + n
           /\ Turn(b, k + n, m) /\ Coded(b) /\ Flag(b)
    <3>1. b \in MainEntries(d, {0}) \cup SubEntries(d, {0})
      BY <1>7
    <3> QED BY <1>5, <1>6, <3>1
  <2>2. CASE ~(RoomForThree /\ d.at # "fast3")
    <3>1. d' = EndsTurn(b)
      BY <1>7, <2>2
    <3> DEFINE j == k + n
    <3>2. j \in 0..80 /\ Turn(b, j, m)
      BY <1>3, <2>1
    <3> HIDE DEF j
    <3>3. b.loaded >= 11 /\ b.at # "bad"
      BY <1>1, <1>4, <2>1
    <3> QED BY <2>1, <3>1, <3>2, <3>3, EndsTurnStep
  <2>3. CASE RoomForThree /\ d.at # "fast3"
    <3>1. d.word = 8 /\ m \in 0..1
      BY <1>1, <1>2, <2>3, RoomIs
    <3>2. PICK n0 \in 0..11 :
           /\ b.left = d.left - n0 /\ b.loaded = d.loaded - n0 /\ b.used = d.used + n0
      <4>1. PICK c \in Upto(d.bits, CodeLens), e \in {0} : b = Take(d, c + e)
        BY <1>7 DEF MainEntries
      <4>2. c \in Nat /\ c <= 11 /\ c <= d.left
        BY <1>1, <1>4, <4>1, StreamFields DEF Upto
      <4>3. b = Take(d, c)
        BY <4>1, <4>2
      <4>4. b.left = d.left - c /\ b.loaded = d.loaded - c /\ b.used = d.used + c
        BY <1>1, <4>2, <4>3, TakeIsSane
      <4> QED BY <4>2, <4>4
    <3> DEFINE p == Peek(b, d.bits)
               l == Literal(p)
               at == IF d.at = "fast" THEN "fast2" ELSE "fast3"
    <3>3. /\ Sane(p) /\ Kept(b, p) /\ p.at = b.at /\ p.over = b.over /\ p.left = b.left /\ p.loaded = b.loaded /\ p.used = b.used
      <4>1. d.bits \in Nat /\ d.bits <= b.loaded
        BY <1>1, <1>4, <2>1
      <4> QED BY <2>1, <4>1, PeekIsSane
    <3>4. d' = Goes(l, at)
      BY <1>7, <2>3
    <3> HIDE DEF p
    <3>5. p.out = d.out /\ p.outSize = d.outSize /\ p.out < p.outSize
      BY <1>1, <1>3, <1>4, <2>1, <3>3 DEF Kept
    <3>6. /\ Sane(l) /\ SameBits(p, l) /\ l.out = p.out + 1 /\ l.tables = p.tables /\ l.bits = p.bits
          /\ l.block = p.block /\ l.staticLoaded = p.staticLoaded
      BY <3>3, <3>5, LiteralIsSane
    <3>7. at \in States /\ at = IF d.at = "fast" THEN "fast2" ELSE "fast3"
      BY DEF States
    <3> HIDE DEF l, at
    <3>8. /\ Sane(d') /\ Kept(l, d') /\ d'.at = at /\ d'.over = l.over /\ d'.left = l.left /\ d'.loaded = l.loaded /\ d'.used = l.used
      BY <1>1, <2>1, <3>3, <3>4, <3>6, <3>7, GoesIsSane DEF SameBits
    <3>9. /\ d'.word = d.word /\ d'.in = d.in /\ d'.outSize = d.outSize /\ d'.over = d.over
          /\ d'.left = d.left - n0 /\ d'.loaded = d.loaded - n0 /\ d'.used = d.used + n0 /\ d'.out = d.out + 1
          /\ Coded(d') /\ Flag(d')
      <4>1. d'.out = d.out + 1
        BY <3>5, <3>6, <3>8 DEF Kept
      <4> QED BY <2>1, <3>2, <3>3, <3>6, <3>8, <4>1 DEF Kept, SameBits, Coded, Flag
    <3> DEFINE j == 11 * (m + 1)
               i == m + 1
    <3>10. j \in Nat /\ i \in Nat /\ n0 \in Nat /\ k + n0 <= j /\ d'.out <= d.out + i - m
      BY <1>1, <3>1, <3>2, <3>9 DEF k
    <3> HIDE DEF j, i
    <3>11. Turn(d', j, i)
      BY <1>1, <1>3, <3>8, <3>9, <3>10, TurnGoesOn
    <3>12. CASE d.at = "fast"
      <4>1. j = 11 /\ i = 1
        BY <1>2, <3>12 DEF j, i
      <4> QED BY <3>1, <3>7, <3>8, <3>9, <3>11, <3>12, <4>1 DEF Phase
    <3>13. CASE d.at = "fast2"
      <4>1. j = 22 /\ i = 2
        BY <1>2, <3>13 DEF j, i
      <4> QED BY <3>1, <3>7, <3>8, <3>9, <3>11, <3>13, <4>1 DEF Phase
    <3> QED BY <1>1, <2>3, <3>12, <3>13
  <2> QED BY <2>2, <2>3
<1>8. ASSUME NEW b \in SubEntries(d, {0}), d' = EndsTurn(RefilledIfScarce(b))
      PROVE  Sane(d') /\ Phase(d')
  <2>1. PICK n \in 0..15 :
           /\ Sane(b) /\ Kept(d, b) /\ b.at = d.at /\ b.over = d.over
           /\ b.left = d.left - n /\ b.loaded = d.loaded - n /\ b.used = d.used + n
           /\ Turn(b, k + n, m) /\ Coded(b) /\ Flag(b)
    <3>1. b \in MainEntries(d, {0}) \cup SubEntries(d, {0})
      BY <1>8
    <3> QED BY <1>5, <1>6, <3>1
  <2>2. d' = EndsTurn(b)
    BY <1>1, <1>8, <2>1, NeverScarce DEF Kept
  <2> DEFINE j == k + n
  <2>3. j \in 0..80 /\ Turn(b, j, m)
    BY <1>3, <2>1
  <2> HIDE DEF j
  <2>4. b.loaded >= 11 /\ b.at # "bad"
    BY <1>1, <1>4, <2>1
  <2> QED BY <2>1, <2>2, <2>3, <2>4, EndsTurnStep
<1>9. ASSUME NEW b \in MainEntries(d, {0}) \cup SubEntries(d, {0}), d' = Goes(b, "done")
      PROVE  Sane(d') /\ Phase(d')
  <2>1. Sane(b) /\ b.at = d.at /\ Flag(b)
    BY <1>5, <1>6, <1>9
  <2>2. "done" \in States
    BY DEF States
  <2>3. Sane(d') /\ Kept(b, d') /\ d'.at = "done"
    BY <1>1, <1>9, <2>1, <2>2, GoesIsSane
  <2> QED BY <2>1, <2>3 DEF Phase, Flag, Kept
<1>10. ASSUME NEW b \in MainEntries(d, Upto(5, Extras)) \cup SubEntries(d, Upto(5, Extras)), d' = Goes(b, "offset")
       PROVE  Sane(d') /\ Phase(d')
  <2>1. PICK n \in 0..20 :
           /\ Sane(b) /\ Kept(d, b) /\ b.at = d.at /\ b.over = d.over
           /\ b.left = d.left - n /\ b.loaded = d.loaded - n /\ b.used = d.used + n /\ Coded(b) /\ Flag(b)
    BY <1>5, <1>6, <1>10
  <2>2. "offset" \in States
    BY DEF States
  <2>3. /\ Sane(d') /\ Kept(b, d') /\ d'.at = "offset" /\ d'.over = b.over /\ d'.left = b.left /\ d'.loaded = b.loaded /\ d'.used = b.used
    BY <1>1, <1>10, <2>1, <2>2, GoesIsSane
  <2>4. /\ d'.word = d.word /\ d'.in = d.in /\ d'.outSize = d.outSize /\ d'.over = d.over /\ d'.out = d.out
        /\ d'.left = d.left - n /\ d'.loaded = d.loaded - n /\ d'.used = d.used + n /\ Coded(d') /\ Flag(d')
    BY <2>1, <2>3 DEF Kept, Coded, Flag
  <2>5. CASE d.word = 8
    <3>1. n \in Nat /\ 42 \in Nat /\ 2 \in Nat /\ k + n <= 42 /\ d'.out <= d.out + 2 - m
      BY <1>1, <1>3, <2>1, <2>4
    <3>2. Turn(d', 42, 2)
      BY <1>1, <1>3, <2>3, <2>4, <3>1, TurnGoesOn
    <3> QED BY <2>3, <2>4, <2>5, <3>2 DEF Phase
  <2>6. CASE d.word = 4
    <3>0. m = 0 /\ k = 0
      BY <1>2, <2>6 DEF k
    <3>1. n \in Nat /\ 20 \in Nat /\ 0 \in Nat /\ k + n <= 20 /\ d'.out <= d.out + 0 - m
      BY <1>1, <2>1, <2>4, <3>0
    <3>2. Turn(d', 20, 0)
      BY <1>1, <1>3, <2>3, <2>4, <3>1, TurnGoesOn
    <3> QED BY <2>3, <2>4, <2>6, <3>2 DEF Phase
  <2> QED BY <1>1, <2>5, <2>6
<1>11. ASSUME NEW x \in SubEntries(d, Upto(5, Extras)) PROVE RefilledIfScarce(x) = x
  <2>1. Kept(d, x)
    BY <1>5, <1>6
  <2> QED BY <1>1, <2>1, NeverScarce DEF Kept
<1>12. \/ \E b \in MainEntries(d, {0}) :
            d' = IF RoomForThree /\ d.at # "fast3" THEN Goes(Literal(Peek(b, d.bits)), IF d.at = "fast" THEN "fast2" ELSE "fast3")
                 ELSE EndsTurn(b)
       \/ \E b \in SubEntries(d, {0}) : d' = EndsTurn(RefilledIfScarce(b))
       \/ \E b \in MainEntries(d, {0}) \cup SubEntries(d, {0}) : d' = Goes(b, "done")
       \/ \E b \in MainEntries(d, Upto(5, Extras)) \cup {RefilledIfScarce(x) : x \in SubEntries(d, Upto(5, Extras))} : d' = Goes(b, "offset")
  BY Zenon DEF Fast
<1>13. ASSUME NEW b \in MainEntries(d, Upto(5, Extras)) \cup {RefilledIfScarce(x) : x \in SubEntries(d, Upto(5, Extras))}
       PROVE  b \in MainEntries(d, Upto(5, Extras)) \cup SubEntries(d, Upto(5, Extras))
  BY <1>11, <1>13
<1> QED BY <1>7, <1>8, <1>9, <1>10, <1>12, <1>13

\* The words stored for a match end less than five words behind it.
LEMMA CopyFits ==
  ASSUME NEW w \in {4, 8}, NEW offset \in {1, w - 1, w}, NEW length \in 3..258
  PROVE  CopyEnd(offset, length, w) <= 257 + 5 * w /\ CopyEnd(offset, length, w) \in Int
<1>1. CASE w = 4
  <2>1. CASE offset = 4
    BY <1>1, <2>1 DEF CopyEnd, Stores, Stride, Times
  <2>2. CASE offset = 1
    BY <1>1, <2>2 DEF CopyEnd, Stores, Stride, Times
  <2>3. CASE offset = 3
    BY <1>1, <2>3 DEF CopyEnd, Stores, Stride, Times, Greater
  <2> QED BY <1>1, <2>1, <2>2, <2>3
<1>2. CASE w = 8
  <2>1. CASE offset = 8
    BY <1>2, <2>1 DEF CopyEnd, Stores, Stride, Times
  <2>2. CASE offset = 1
    BY <1>2, <2>2 DEF CopyEnd, Stores, Stride, Times
  <2>3. CASE offset = 7
    BY <1>2, <2>3 DEF CopyEnd, Stores, Stride, Times, Greater
  <2> QED BY <1>2, <2>1, <2>2, <2>3
<1> QED BY <1>1, <1>2

LEMMA OffsetConstants ==
  /\ LitlenTableBits = 11 /\ OffsetTableBits = 8 /\ OffsetMaxBits = 28 /\ OffsetMaxFastBits = 21 /\ LengthMaxBits = 20
  /\ MaxCodeword - OffsetTableBits = 7
BY DEF LitlenTableBits, OffsetTableBits, OffsetMaxBits, OffsetMaxFastBits, LengthMaxBits, MaxCodeword

\* Where a length may have taken half of the buffer, there are bits for an offset still, or a word
\* is read for them.
LEMMA FastOffsetGives ==
  ASSUME NEW b, Sane(b), b.at # "bad", NEW k \in 0..42, NEW m \in 0..2, Turn(b, k, m), b.word = 4 => k <= 20, NEW sub \in BOOLEAN
  PROVE  LET r == FastOffset(b, sub) IN
         /\ Sane(r) /\ Kept(b, r) /\ r.at = b.at /\ r.over = 0 /\ r.used = b.used + (IF sub THEN 8 ELSE 0)
         /\ r.loaded >= r.left + 1
         /\ r.word = 8 => r.left >= IF sub THEN 30 ELSE 31
         /\ r.word = 4 => r.left >= 24 /\ r.loaded = 32
<1> DEFINE f == Branchless(b)
           Gives(r) == /\ Sane(r) /\ Kept(b, r) /\ r.at = b.at /\ r.over = 0 /\ r.used = b.used + (IF sub THEN 8 ELSE 0)
                       /\ r.loaded >= r.left + 1
                       /\ r.word = 8 => r.left >= IF sub THEN 30 ELSE 31
                       /\ r.word = 4 => r.left >= 24 /\ r.loaded = 32
<1>1. /\ b.word \in {4, 8} /\ b.left \in Int /\ b.loaded \in Int /\ b.used \in Int /\ b.in \in Nat /\ b.out \in Int /\ b.outSize \in Nat
      /\ b.left >= 8 * b.word - 8 - k /\ b.loaded >= 8 * b.word - k /\ b.loaded >= b.left + 1 /\ b.over = 0
  BY TurnFields
<1>2. b.next + b.word <= b.in
  <2>1. k \in 0..80 /\ m \in Nat
    OBVIOUS
  <2> QED BY <2>1, TurnReads
<1>3. /\ Sane(f) /\ Kept(b, f) /\ f.at = b.at /\ f.over = 0 /\ f.used = b.used
      /\ f.left >= 8 * f.word - 8 /\ f.loaded = 8 * f.word /\ f.loaded >= f.left + 1
  BY <1>1, <1>2, BranchlessIsSane
<1>4. f.word = b.word /\ f.left \in Int /\ f.loaded \in Int /\ f.used \in Int
  BY <1>3 DEF Kept, Sane, Buffers
<1> HIDE DEF f
<1>5. CASE b.word = 8
  <2> DEFINE need == (IF sub THEN OffsetMaxBits ELSE OffsetMaxFastBits) + LitlenTableBits - 1
             r == IF b.left < need THEN f ELSE b
  <2>1. CanConsumeAndThenPreload(b.word, OffsetMaxBits, LitlenTableBits)
    BY <1>5, OffsetConstants DEF CanConsumeAndThenPreload, Consumable, Preloadable
  <2>2. FastOffset(b, sub) = IF sub THEN Take(r, OffsetTableBits) ELSE r
    BY <2>1 DEF FastOffset, f
  <2>3. need = IF sub THEN 38 ELSE 31
    BY OffsetConstants
  <2> HIDE DEF need
  <2>4. /\ Sane(r) /\ Kept(b, r) /\ r.at = b.at /\ r.over = 0 /\ r.used = b.used /\ r.loaded >= r.left + 1
        /\ r.left >= need /\ r.left \in Int /\ r.loaded \in Int
    <3>1. CASE b.left < need
      BY <1>3, <1>4, <1>5, <2>3, <3>1
    <3>2. CASE ~(b.left < need)
      BY <1>1, <2>3, <3>2 DEF Kept
    <3> QED BY <3>1, <3>2
  <2> HIDE DEF r
  <2>5. CASE ~sub
    BY <1>5, <2>2, <2>3, <2>4, <2>5, <1>1 DEF Kept
  <2>6. CASE sub
    <3> DEFINE t == Take(r, OffsetTableBits)
    <3>1. OffsetTableBits = 8 /\ OffsetTableBits \in Nat /\ OffsetTableBits <= r.left
      BY <2>3, <2>4, <2>6, OffsetConstants
    <3>2. /\ Sane(t) /\ Kept(r, t) /\ t.at = r.at /\ t.over = r.over
          /\ t.left = r.left - OffsetTableBits /\ t.loaded = r.loaded - OffsetTableBits /\ t.used = r.used + OffsetTableBits
      BY <2>4, <3>1, TakeIsSane
    <3>3. FastOffset(b, sub) = t
      BY <2>2, <2>6
    <3> HIDE DEF t
    <3>4. Kept(b, t) /\ t.word = 8
      BY <1>5, <2>4, <3>2 DEF Kept
    <3>5. t.over = 0 /\ t.used = b.used + 8 /\ t.loaded >= t.left + 1 /\ t.left >= 30 /\ t.at = b.at
      BY <2>3, <2>4, <2>6, <3>1, <3>2
    <3>6. Gives(t)
      BY <2>6, <3>2, <3>4, <3>5
    <3> HIDE DEF Gives
    <3>7. Gives(FastOffset(b, sub))
      BY <3>3, <3>6
    <3> QED BY <3>7 DEF Gives
  <2> QED BY <2>5, <2>6
<1>6. CASE b.word = 4
  <2>1. ~CanConsumeAndThenPreload(b.word, OffsetMaxBits, LitlenTableBits)
    BY <1>6, OffsetConstants DEF CanConsumeAndThenPreload, Consumable, Preloadable
  <2>2. FastOffset(b, sub) = IF sub THEN Branchless(Take(f, OffsetTableBits)) ELSE f
    BY <2>1 DEF FastOffset, f
  <2>3. CASE ~sub
    BY <1>1, <1>3, <1>4, <1>6, <2>2, <2>3
  <2>4. CASE sub
    <3> DEFINE t == Take(f, OffsetTableBits)
               g == Branchless(t)
    <3>1. OffsetTableBits = 8 /\ OffsetTableBits \in Nat /\ OffsetTableBits <= f.left
      BY <1>3, <1>4, <1>6, OffsetConstants
    <3>2. /\ Sane(t) /\ Kept(f, t) /\ t.at = f.at /\ t.over = f.over
          /\ t.left = f.left - OffsetTableBits /\ t.loaded = f.loaded - OffsetTableBits /\ t.used = f.used + OffsetTableBits
      BY <1>3, <3>1, TakeIsSane
    <3> HIDE DEF t
    <3>3. Turn(t, k + 8, m)
      <4>1. t.word = b.word /\ t.in = b.in /\ t.outSize = b.outSize /\ t.out = b.out
        BY <1>3, <3>2 DEF Kept
      <4>2. t.left = f.left - 8 /\ t.loaded = f.loaded - 8 /\ t.used = b.used + 8 /\ t.over = 0
        BY <1>3, <3>1, <3>2
      <4>3. FastloopMaxBytesRead(4) = 17 /\ FastloopMaxBytesWritten(4) = 279
        BY MaxBytes
      <4>4. b.used <= 8 * (b.in - 17 - 1) + k /\ b.out <= b.outSize - 279 - 1 + m
        BY <1>6, <4>3 DEF Turn
      <4>5. f.left >= 24 /\ f.loaded = 32 /\ f.loaded >= f.left + 1
        BY <1>3, <1>4, <1>6
      <4> QED BY <1>1, <1>4, <1>6, <4>1, <4>2, <4>3, <4>4, <4>5 DEF Turn
    <3>4. t.next + t.word <= t.in
      <4> DEFINE j == k + 8
      <4>1. j \in 0..80 /\ m \in Nat /\ t.at # "bad" /\ Turn(t, j, m)
        BY <1>3, <3>2, <3>3
      <4> HIDE DEF j
      <4> QED BY <3>2, <4>1, TurnReads
    <3>5. /\ Sane(g) /\ Kept(t, g) /\ g.at = t.at /\ g.over = t.over /\ g.used = t.used
          /\ g.left >= 8 * g.word - 8 /\ g.loaded = 8 * g.word /\ g.loaded >= g.left + 1
      BY <3>2, <3>4, BranchlessIsSane
    <3>6. FastOffset(b, sub) = g
      BY <2>2, <2>4 DEF t
    <3> HIDE DEF g
    <3>7. Kept(b, g) /\ g.word = 4 /\ g.at = b.at /\ g.over = 0 /\ g.used = b.used + 8
      BY <1>3, <1>6, <3>1, <3>2, <3>5 DEF Kept
    <3>8. g.left \in Int /\ g.loaded \in Int
      BY <3>5 DEF Sane, Buffers
    <3>9. g.left >= 24 /\ g.loaded = 32 /\ g.loaded >= g.left + 1
      BY <3>5, <3>7, <3>8
    <3>10. Gives(g)
      BY <2>4, <3>5, <3>7, <3>9
    <3> HIDE DEF Gives
    <3>11. Gives(FastOffset(b, sub))
      BY <3>6, <3>10
    <3> QED BY <3>11 DEF Gives
  <2> QED BY <2>3, <2>4
<1> QED BY <1>1, <1>5, <1>6

LEMMA NoPreload ==
  ASSUME NEW w \in {4, 8}
  PROVE  CanConsumeAndThenPreload(w, Greater(OffsetMaxBits - OffsetTableBits, OffsetMaxFastBits), LitlenTableBits)
BY OffsetConstants DEF CanConsumeAndThenPreload, Consumable, Preloadable, Greater

LEMMA OffsetLensFit ==
  ASSUME StreamAssumption, Inv, NEW sub \in BOOLEAN, NEW c \in OffsetLens(sub), NEW e \in Upto(13, Extras)
  PROVE  c \in Nat /\ c <= 8 /\ c + e \in Nat /\ c + e <= IF sub THEN 20 ELSE 21
<1>1. CodeLens \subseteq Nat /\ Extras \subseteq Nat
  BY StreamFields
<1>2. c \in Nat /\ (sub => c <= 7) /\ (~sub => c <= 8)
  BY <1>1, OffsetConstants DEF OffsetLens, Upto
<1>3. e \in Nat /\ e <= 13
  BY <1>1 DEF Upto
<1> QED BY <1>2, <1>3

\* Only the output differs.
Written(b, c) ==
  /\ Sane(c) /\ SameBits(b, c) /\ c.tables = b.tables /\ c.bits = b.bits
  /\ c.block = b.block /\ c.staticLoaded = b.staticLoaded

LEMMA MatchIsSane ==
  ASSUME NEW b, Sane(b), b.at # "bad", NEW offset \in {1, b.word - 1, b.word}, NEW length \in 3..258,
         b.out + 258 + 5 * b.word <= b.outSize
  PROVE  Written(b, Match(b, offset, length))
<1> DEFINE c == Match(b, offset, length)
           x == b.out + length
           y == b.beyond \/ b.out + CopyEnd(offset, length, b.word) > b.outSize
<1>1. b \in Buffers /\ b.word \in {4, 8} /\ b.out \in Int /\ b.outSize \in Nat /\ b.out >= 0
  BY DEF Sane, Buffers, Fed
<1>2. c = [b EXCEPT !.out = x, !.beyond = y]
  BY DEF Match
<1>3. CopyEnd(offset, length, b.word) <= 257 + 5 * b.word /\ CopyEnd(offset, length, b.word) \in Int
  BY <1>1, CopyFits
<1>4. x \in Int /\ y \in BOOLEAN /\ x <= b.outSize /\ x >= 0 /\ ~y
  BY <1>1, <1>3 DEF Sane, Holds
<1> HIDE DEF c, x, y
<1>5. c \in Buffers
  BY ONLY <1>1, <1>2, <1>4 DEF Buffers
<1>6. /\ SameBits(b, c) /\ c.out = x /\ c.tables = b.tables /\ c.bits = b.bits /\ c.beyond = y
      /\ c.block = b.block /\ c.staticLoaded = b.staticLoaded
  BY ONLY <1>1, <1>2, <1>4 DEF Buffers, SameBits
<1>7. Sane(c)
  BY <1>4, <1>5, <1>6, SameBitsAreSane DEF SameBits
<1> QED BY <1>6, <1>7 DEF c, Written

\* The offset is consumed: there is room for the match and for what is read behind it.
Ready(b, m) ==
  /\ Sane(b) /\ b.at # "bad" /\ Kept(d, b) /\ Coded(b) /\ Flag(b) /\ b.over = 0 /\ b.loaded >= 11
  /\ b.used <= 8 * (b.in - (2 * b.word + 9) - 1) + 71 /\ b.out <= b.outSize - (259 + 5 * b.word) - 1 + m

\* A match is copied where there is room for it, in the middle of a turn.
LEMMA MatchStep ==
  ASSUME Inv, NEW b, NEW m \in 0..2, Ready(b, m),
         NEW offset \in {1, b.word - 1, b.word}, NEW length \in 3..258,
         d' = Again(Match(Branchless(Peek(b, d.bits)), offset, length))
  PROVE  Sane(d') /\ Phase(d')
<1> DEFINE p == Peek(b, d.bits)
           t == Branchless(p)
           c == Match(t, offset, length)
<1>0. /\ Sane(b) /\ b.at # "bad" /\ Kept(d, b) /\ Coded(b) /\ Flag(b) /\ b.over = 0 /\ b.loaded >= 11
      /\ b.used <= 8 * (b.in - (2 * b.word + 9) - 1) + 71 /\ b.out <= b.outSize - (259 + 5 * b.word) - 1 + m
  BY DEF Ready
<1>1. /\ b.word \in {4, 8} /\ b.in \in Nat /\ b.outSize \in Nat /\ b.out \in Int /\ b.used \in Int /\ b.left \in Int /\ b.next \in Int
      /\ 8 * (b.next + b.over) = b.used + b.left /\ b.left <= 8 * b.word - 1
  BY <1>0 DEF Sane, Buffers, Fed
<1>2. d.bits \in Nat /\ d.bits <= b.loaded
  BY <1>0 DEF Coded, Kept, Sane, Buffers
<1>3. /\ Sane(p) /\ Kept(b, p) /\ p.at = b.at /\ p.over = 0 /\ p.left = b.left /\ p.used = b.used
  BY <1>0, <1>2, PeekIsSane
<1>4. d' = Again(c)
  OBVIOUS
<1> HIDE DEF p
<1>5. p.next + p.word <= p.in
  <2>1. 8 * (p.next + p.over) = p.used + p.left /\ p.next \in Int /\ p.word = b.word /\ p.in = b.in
    BY <1>0, <1>3 DEF Sane, Fed, Buffers, Kept
  <2>2. p.next \in Int /\ p.used \in Int /\ p.left \in Int /\ 8 * p.next = p.used + p.left
    BY <1>1, <1>3, <2>1
  <2>3. p.used <= 8 * (p.in - (2 * p.word + 9) - 1) + 71 /\ p.left <= 8 * p.word - 1
    BY <1>0, <1>1, <1>3, <2>1
  <2>4. p.word \in {4, 8} /\ p.in \in Nat
    BY <1>1, <2>1
  <2> QED BY ONLY <2>2, <2>3, <2>4
<1>6. /\ Sane(t) /\ Kept(p, t) /\ t.at = p.at
      /\ t.left >= 8 * t.word - 8 /\ t.loaded = 8 * t.word /\ t.loaded >= t.left + 1
  BY <1>3, <1>5, BranchlessIsSane
<1> HIDE DEF t
<1>7. Kept(d, t) /\ t.at # "bad" /\ Kept(b, t)
  BY <1>0, <1>3, <1>6 DEF Kept
<1>8. offset \in {1, t.word - 1, t.word} /\ t.out + 258 + 5 * t.word <= t.outSize
  BY <1>0, <1>1, <1>7 DEF Kept
<1>a. Sane(t)
  BY <1>6
<1>b. t.at # "bad"
  BY <1>7
<1>c. Written(t, c)
  BY <1>a, <1>b, <1>8, MatchIsSane, ZenonT(60)
<1> HIDE DEF c
<1>9. /\ Sane(c) /\ SameBits(t, c) /\ c.tables = t.tables /\ c.bits = t.bits /\ c.block = t.block /\ c.staticLoaded = t.staticLoaded
  BY <1>c DEF Written
<1>10. Coded(c) /\ Flag(c)
  BY <1>0, <1>7, <1>9 DEF Kept, Coded, Flag
<1>d. SameBits(t, c)
  BY <1>9
<1>e. c.at = t.at /\ c.word = t.word /\ c.in = t.in /\ c.outSize = t.outSize /\ c.left = t.left /\ c.loaded = t.loaded
  BY <1>d DEF SameBits
<1>f. t.word = d.word /\ t.in = d.in /\ t.outSize = d.outSize
  BY <1>7 DEF Kept
<1>11. /\ c.at # "bad" /\ c.word = d.word /\ c.in = d.in /\ c.outSize = d.outSize
       /\ c.left >= 8 * c.word - 8 /\ c.loaded = 8 * c.word /\ c.loaded >= c.left + 1
  BY <1>6, <1>7, <1>e, <1>f
<1> QED BY <1>4, <1>9, <1>10, <1>11, AgainStep

LEMMA OffsetStep ==
  ASSUME StreamAssumption, Inv, Offset
  PROVE  Sane(d') /\ Phase(d')
<1>1. /\ Sane(d) /\ d.at = "offset" /\ d.at # "bad" /\ Coded(d) /\ Flag(d) /\ d.word \in {4, 8}
  BY DEF Inv, Phase, Offset, Sane, Buffers
<1>2. PICK k \in {20, 42}, m \in 0..2 : Turn(d, k, m) /\ (d.word = 4 => k = 20 /\ m = 0)
  <2>1. CASE d.word = 8
    <3>1. Turn(d, 42, 2)
      BY <1>1, <2>1 DEF Inv, Phase
    <3> QED BY <2>1, <3>1
  <2>2. CASE d.word = 4
    <3>1. Turn(d, 20, 0)
      BY <1>1, <2>2 DEF Inv, Phase
    <3> QED BY <2>2, <3>1
  <2> QED BY <1>1, <2>1, <2>2
<1>3. k \in Nat /\ m \in Nat /\ k \in 0..42
  OBVIOUS
<1>4. /\ d.in \in Nat /\ d.outSize \in Nat /\ d.left \in Int /\ d.loaded \in Int /\ d.used \in Int /\ d.out \in Int /\ d.over = 0
      /\ d.loaded >= 8 * d.word - k
      /\ d.used <= 8 * (d.in - (2 * d.word + 9) - 1) + k /\ d.out <= d.outSize - (259 + 5 * d.word) - 1 + m
  BY <1>1, <1>2, <1>3, TurnFields
<1> DEFINE q == Peek(d, OffsetTableBits)
<1>5. /\ Sane(q) /\ Kept(d, q) /\ q.at = d.at /\ q.over = d.over /\ q.left = d.left /\ q.loaded = d.loaded /\ q.used = d.used
  <2>1. OffsetTableBits \in Nat /\ OffsetTableBits <= d.loaded
    BY <1>1, <1>2, <1>4, OffsetConstants
  <2> QED BY <1>1, <2>1, PeekIsSane
<1>6. PICK sub \in BOOLEAN, c \in CodeLens, e \in Upto(13, Extras), length \in Lengths :
       /\ c \in OffsetLens(sub)
       /\ LET r == FastOffset(q, sub)
              b == Take(IF sub THEN Peek(r, c) ELSE r, c + e)
          IN \/ d' = Goes(b, "bad")
             \/ \E offset \in {o \in {1, d.word - 1, d.word} : o <= d.out} :
                  LET s == IF ~CanConsumeAndThenPreload(b.word, Greater(OffsetMaxBits - OffsetTableBits, OffsetMaxFastBits), LitlenTableBits)
                                /\ b.left < LitlenTableBits - 1 THEN Branchless(b) ELSE b
                  IN d' = Again(Match(Branchless(Peek(s, d.bits)), offset, length))
  BY Zenon DEF Offset
<1> DEFINE r == FastOffset(q, sub)
           x == IF sub THEN Peek(r, c) ELSE r
           n == c + e
           b == Take(x, n)
           S == IF ~CanConsumeAndThenPreload(b.word, Greater(OffsetMaxBits - OffsetTableBits, OffsetMaxFastBits), LitlenTableBits)
                   /\ b.left < LitlenTableBits - 1 THEN Branchless(b) ELSE b
<1>7. \/ d' = Goes(b, "bad")
      \/ \E offset \in {o \in {1, d.word - 1, d.word} : o <= d.out} :
           d' = Again(Match(Branchless(Peek(S, d.bits)), offset, length))
  BY <1>6, Zenon
<1> HIDE DEF q
<1>8. /\ Sane(r) /\ Kept(q, r) /\ r.at = q.at /\ r.over = 0 /\ r.used = q.used + (IF sub THEN 8 ELSE 0)
      /\ r.loaded >= r.left + 1
      /\ r.word = 8 => r.left >= IF sub THEN 30 ELSE 31
      /\ r.word = 4 => r.left >= 24 /\ r.loaded = 32
  <2>1. q.at # "bad" /\ (q.word = 4 => k <= 20)
    BY <1>1, <1>2, <1>5 DEF Kept
  <2>2. Turn(q, k, m)
    BY <1>2, <1>5 DEF Turn, Kept
  <2> QED BY <1>3, <1>5, <2>1, <2>2, FastOffsetGives
<1>9. r.word = d.word /\ r.left \in Int /\ r.loaded \in Int /\ r.used \in Int
  BY <1>5, <1>8 DEF Kept, Sane, Buffers
<1> HIDE DEF r
<1>10. c \in Nat /\ c <= 8 /\ n \in Nat /\ n <= IF sub THEN 20 ELSE 21
  BY <1>6, OffsetLensFit
<1> HIDE DEF n
<1>11. /\ Sane(x) /\ Kept(r, x) /\ x.at = r.at /\ x.over = r.over /\ x.left = r.left /\ x.loaded = r.loaded /\ x.used = r.used
  <2>1. CASE sub
    <3>1. c <= r.loaded
      BY <1>1, <1>8, <1>9, <1>10, <2>1
    <3>2. x = Peek(r, c)
      BY <2>1
    <3> QED BY <1>8, <1>10, <3>1, <3>2, PeekIsSane
  <2>2. CASE ~sub
    BY <1>8, <2>2 DEF Kept
  <2> QED BY <2>1, <2>2
<1> HIDE DEF x
<1>12. /\ Sane(b) /\ Kept(x, b) /\ b.at = x.at /\ b.over = x.over
       /\ b.left = x.left - n /\ b.loaded = x.loaded - n /\ b.used = x.used + n
  <2>1. n <= x.left
    BY <1>1, <1>8, <1>9, <1>10, <1>11
  <2> QED BY <1>10, <1>11, <2>1, TakeIsSane
<1>13. Kept(d, b) /\ b.at # "bad" /\ b.over = 0
  BY <1>1, <1>5, <1>8, <1>11, <1>12 DEF Kept
<1>14. S = b
  <2>1. b.word \in {4, 8}
    BY <1>1, <1>13 DEF Kept
  <2> QED BY <2>1, NoPreload
<1>15. CASE d' = Goes(b, "bad")
  <2>1. "bad" \in States
    BY DEF States
  <2> HIDE DEF b
  <2>2. Sane(d') /\ d'.at = "bad"
    BY <1>12, <1>15, <2>1, GoesIsSane
  <2> QED BY <2>2 DEF Phase
<1>16. ASSUME NEW offset \in {o \in {1, d.word - 1, d.word} : o <= d.out},
              d' = Again(Match(Branchless(Peek(S, d.bits)), offset, length))
       PROVE  Sane(d') /\ Phase(d')
  <2>1. d' = Again(Match(Branchless(Peek(b, d.bits)), offset, length))
    BY <1>14, <1>16
  <2> HIDE DEF b
  <2>2. length \in 3..258 /\ offset \in {1, b.word - 1, b.word}
    BY <1>13, StreamFields DEF Kept
  <2>3. /\ b.loaded >= 11 /\ Coded(b) /\ Flag(b) /\ (b.word = 4 => m = 0)
    <3>1. b.loaded = r.loaded - n
      BY <1>11, <1>12
    <3>2. b.loaded >= 11
      BY <1>1, <1>8, <1>9, <1>10, <3>1
    <3> QED BY <1>1, <1>2, <1>13, <3>2 DEF Kept, Coded, Flag
  <2>4. b.used <= 8 * (b.in - (2 * b.word + 9) - 1) + 71 /\ b.out <= b.outSize - (259 + 5 * b.word) - 1 + m
    <3>1. b.used <= d.used + 28
      BY <1>4, <1>5, <1>8, <1>10, <1>11, <1>12
    <3>2. b.in = d.in /\ b.word = d.word /\ b.out = d.out /\ b.outSize = d.outSize /\ b.used \in Int
      BY <1>12, <1>13 DEF Kept, Sane, Buffers
    <3> QED BY <1>1, <1>4, <3>1, <3>2
  <2>5. Ready(b, m)
    BY <1>12, <1>13, <2>3, <2>4 DEF Ready
  <2> QED BY <2>1, <2>2, <2>5, MatchStep, ZenonT(60)
<1> HIDE DEF b, S
<1> QED BY <1>7, <1>15, <1>16

-----------------------------------------------------------------------------
(* The generic loop, and the end.                                            *)

LEMMA GenericStep ==
  ASSUME StreamAssumption, Inv, Generic
  PROVE  Sane(d') /\ Phase(d')
<1> DEFINE f == Refill(d)
           r == Peek(f, d.bits)
<1>1. Sane(d) /\ d.at = "generic" /\ Coded(d) /\ Flag(d) /\ d.bits \in 1..11 /\ d.word \in {4, 8}
  BY DEF Inv, Phase, Generic, Coded, Sane, Buffers
<1>2. IF r.at = "bad" THEN d' = r
      ELSE \/ \E b \in MainEntries(r, {0}) \cup SubEntries(r, {0}) :
                \/ d' = IF b.out = b.outSize THEN Goes(b, "bad") ELSE Literal(b)
                \/ d' = Goes(b, "done")
           \/ \E b \in MainEntries(r, Upto(5, Extras)) \cup SubEntries(r, Upto(5, Extras)) : d' = Goes(b, "genericOffset")
  BY Zenon DEF Generic
<1>3. Sane(f) /\ Kept(d, f) /\ f.at \in {d.at, "bad"} /\ (f.at # "bad" => f.left >= 8 * f.word - 8)
  BY <1>1, RefillIsSane
<1> HIDE DEF f
<1>4. f.at # "bad" => f.left >= 24 /\ f.left <= f.loaded /\ f.left \in Int /\ f.loaded \in Int
  BY <1>1, <1>3 DEF Kept, Sane, Fed, Buffers
<1>5. Sane(r) /\ Kept(f, r) /\ r.at = f.at /\ r.left = f.left
  <2>1. d.bits \in Nat /\ (f.at # "bad" => d.bits <= f.loaded)
    BY <1>1, <1>4
  <2> QED BY <1>3, <2>1, PeekIsSane
<1> HIDE DEF r
<1>6. CASE r.at = "bad"
  BY <1>2, <1>5, <1>6 DEF Phase
<1>7. CASE r.at # "bad"
  <2>1. /\ r.at = "generic" /\ Kept(d, r) /\ Coded(r) /\ Flag(r) /\ r.bits \in 1..11 /\ 20 <= r.left /\ r.left >= 8 * r.word - 8
        /\ r.left \in Int /\ r.word \in {4, 8}
    BY <1>1, <1>3, <1>4, <1>5, <1>7 DEF Kept, Coded, Flag
  <2>2. Extras \subseteq Nat /\ {0} \subseteq 0..0 /\ Upto(5, Extras) \subseteq 0..5
    BY StreamFields DEF Upto
  <2>3. ASSUME NEW e \in {0, 5}, NEW extras, extras \subseteq 0..e, NEW x \in MainEntries(r, extras) \cup SubEntries(r, extras)
        PROVE  Sane(x) /\ Kept(r, x) /\ x.at = "generic" /\ x.left >= 8 * x.word - 28 /\ Coded(x) /\ Flag(x)
    <3>1. \E n \in 0..(15 + e) : Taken(r, x, n)
      BY <1>5, <1>7, <2>1, <2>3, EntryTakes, ZenonT(60)
    <3>2. PICK n \in 0..20 : Sane(x) /\ Kept(r, x) /\ x.at = r.at /\ x.left = r.left - n
      BY <2>3, <3>1 DEF Taken
    <3> QED BY <2>1, <3>2 DEF Kept, Coded, Flag
  <2>4. "bad" \in States /\ "done" \in States /\ "genericOffset" \in States
    BY DEF States
  <2>5. ASSUME NEW b \in MainEntries(r, {0}) \cup SubEntries(r, {0})
        PROVE  Sane(b) /\ Kept(r, b) /\ b.at = "generic" /\ Coded(b) /\ Flag(b)
    BY <2>2, <2>3, <2>5
  <2>6. ASSUME NEW b \in MainEntries(r, {0}) \cup SubEntries(r, {0}), d' = IF b.out = b.outSize THEN Goes(b, "bad") ELSE Literal(b)
        PROVE  Sane(d') /\ Phase(d')
    <3>1. CASE b.out = b.outSize
      <4>1. d' = Goes(b, "bad")
        BY <2>6, <3>1
      <4>2. Sane(d') /\ d'.at = "bad"
        BY <2>4, <2>5, <4>1, GoesIsSane
      <4> QED BY <4>2 DEF Phase
    <3>2. CASE b.out # b.outSize
      <4>1. d' = Literal(b)
        BY <2>6, <3>2
      <4>2. b.out < b.outSize
        BY <2>5, <3>2 DEF Sane, Holds, Buffers
      <4>3. /\ Sane(d') /\ SameBits(b, d') /\ d'.tables = b.tables /\ d'.bits = b.bits
            /\ d'.block = b.block /\ d'.staticLoaded = b.staticLoaded
        BY <2>5, <4>1, <4>2, LiteralIsSane
      <4> QED BY <2>5, <4>3 DEF Phase, Flag, Coded, SameBits
    <3> QED BY <3>1, <3>2
  <2>7. ASSUME NEW b \in MainEntries(r, {0}) \cup SubEntries(r, {0}), d' = Goes(b, "done")
        PROVE  Sane(d') /\ Phase(d')
    <3>1. Sane(d') /\ Kept(b, d') /\ d'.at = "done"
      BY <2>4, <2>5, <2>7, GoesIsSane
    <3> QED BY <2>5, <3>1 DEF Phase, Flag, Kept
  <2>8. ASSUME NEW b \in MainEntries(r, Upto(5, Extras)) \cup SubEntries(r, Upto(5, Extras)), d' = Goes(b, "genericOffset")
        PROVE  Sane(d') /\ Phase(d')
    <3>1. Sane(b) /\ Kept(r, b) /\ b.at = "generic" /\ b.left >= 8 * b.word - 28 /\ Coded(b) /\ Flag(b)
      BY <2>2, <2>3, <2>8
    <3>2. Sane(d') /\ Kept(b, d') /\ d'.at = "genericOffset" /\ d'.left = b.left
      BY <2>4, <2>8, <3>1, GoesIsSane
    <3> QED BY <3>1, <3>2 DEF Phase, Flag, Coded, Kept
  <2> QED BY <1>2, <1>7, <2>6, <2>7, <2>8
<1> QED BY <1>6, <1>7

LEMMA GenericConstants ==
  ASSUME NEW w \in {4, 8}
  PROVE  (CanConsume(w, LengthMaxBits + OffsetMaxBits) <=> w = 8) /\ (CanConsume(w, OffsetMaxBits) <=> w = 8)
BY OffsetConstants DEF CanConsume, Consumable

LEMMA GenericOffsetStep ==
  ASSUME StreamAssumption, Inv, GenericOffset
  PROVE  Sane(d') /\ Phase(d')
<1>1. /\ Sane(d) /\ d.at = "genericOffset" /\ Coded(d) /\ Flag(d) /\ d.word \in {4, 8} /\ d.left >= 8 * d.word - 28
      /\ d.left \in Int /\ d.loaded \in Int /\ d.left <= d.loaded
  BY DEF Inv, Phase, GenericOffset, Sane, Buffers, Fed
<1> DEFINE f == IF CanConsume(d.word, LengthMaxBits + OffsetMaxBits) THEN d ELSE Refill(d)
           q == Peek(f, OffsetTableBits)
           t == Take(q, OffsetTableBits)
           P(c) == Peek(t, c)
           R(sub, c) == IF ~sub THEN q ELSE IF CanConsume(d.word, OffsetMaxBits) THEN P(c) ELSE Refill(P(c))
           B(sub, c, e) == Take(R(sub, c), c + e)
<1>2. PICK sub \in BOOLEAN, c \in CodeLens, e \in Upto(13, Extras), length \in Lengths :
        /\ c \in OffsetLens(sub)
        /\ \/ d' = Goes(B(sub, c, e), "bad")
           \/ d.out > 0 /\ length <= d.outSize - d.out /\ d' = Goes([B(sub, c, e) EXCEPT !.out = @ + length], "generic")
  BY Zenon DEF GenericOffset
<1> DEFINE p == P(c)
           r == R(sub, c)
           n == c + e
           b == B(sub, c, e)
<1>3. c \in Nat /\ c <= 8 /\ n \in Nat /\ n <= (IF sub THEN 20 ELSE 21) /\ length \in Nat
  BY <1>2, OffsetLensFit, StreamFields
<1>4. b = Take(r, n) /\ r = IF ~sub THEN q ELSE IF CanConsume(d.word, OffsetMaxBits) THEN p ELSE Refill(p)
  OBVIOUS
<1>5. d' = Goes(b, "bad") \/ (length <= d.outSize - d.out /\ d' = Goes([b EXCEPT !.out = @ + length], "generic"))
  BY <1>2
<1> HIDE DEF n, b, r
<1>6. Sane(f) /\ Kept(d, f) /\ f.at \in {d.at, "bad"} /\ (f.at # "bad" => f.left >= 24)
  <2>1. CASE d.word = 8
    BY <1>1, <2>1, GenericConstants DEF Kept
  <2>2. CASE d.word = 4
    <3>1. f = Refill(d)
      BY <1>1, <2>2, GenericConstants
    <3> HIDE DEF f
    <3>2. Sane(f) /\ Kept(d, f) /\ f.at \in {d.at, "bad"} /\ (f.at # "bad" => f.left >= 8 * f.word - 8)
      BY <1>1, <3>1, RefillIsSane
    <3> QED BY <2>2, <3>2 DEF Kept
  <2> QED BY <1>1, <2>1, <2>2
<1>7. (f.at # "bad" /\ d.word = 8) => f.left >= 36
  BY <1>1, GenericConstants
<1> HIDE DEF f
<1>8. /\ Sane(q) /\ Kept(f, q) /\ q.at = f.at /\ q.left = f.left
  <2>1. OffsetTableBits \in Nat /\ (f.at # "bad" => OffsetTableBits <= f.loaded)
    BY <1>6, OffsetConstants DEF Sane, Fed, Buffers
  <2> QED BY <1>6, <2>1, PeekIsSane
<1> HIDE DEF q
<1>9. Kept(d, q) /\ q.left \in Int /\ (q.at # "bad" => q.left >= 24) /\ q.at \in {"genericOffset", "bad"}
      /\ ((q.at # "bad" /\ d.word = 8) => q.left >= 36)
  BY <1>1, <1>6, <1>7, <1>8 DEF Kept, Sane, Buffers
<1>10. Sane(t) /\ Kept(q, t) /\ t.at = q.at /\ t.left = q.left - 8
  <2>1. OffsetTableBits \in Nat /\ OffsetTableBits = 8 /\ (q.at # "bad" => OffsetTableBits <= q.left)
    BY <1>9, OffsetConstants
  <2>2. Sane(t) /\ Kept(q, t) /\ t.at = q.at /\ t.left = q.left - OffsetTableBits
    BY <1>8, <2>1, TakeIsSane
  <2> QED BY <2>1, <2>2
<1> HIDE DEF t
<1>11. Sane(p) /\ Kept(t, p) /\ p.at = t.at /\ p.left = t.left
  <2>1. t.at # "bad" => c <= t.loaded
    BY <1>3, <1>9, <1>10 DEF Sane, Fed, Buffers
  <2> QED BY <1>3, <1>10, <2>1, PeekIsSane
<1> HIDE DEF p, P
<1>12. Sane(r) /\ Kept(d, r) /\ r.at \in {"genericOffset", "bad"} /\ (r.at # "bad" => n <= r.left)
  <2>1. CASE ~sub
    BY <1>3, <1>4, <1>8, <1>9, <2>1
  <2>2. CASE sub /\ d.word = 8
    <3>1. r = p
      BY <1>1, <1>4, <2>2, GenericConstants
    <3>2. r.at # "bad" => n <= r.left
      BY <1>3, <1>9, <1>10, <1>11, <2>2, <3>1
    <3> QED BY <1>9, <1>10, <1>11, <3>1, <3>2 DEF Kept
  <2>3. CASE sub /\ d.word = 4
    <3>1. r = Refill(p)
      BY <1>1, <1>4, <2>3, GenericConstants
    <3>2. Sane(r) /\ Kept(p, r) /\ r.at \in {p.at, "bad"} /\ (r.at # "bad" => r.left >= 8 * r.word - 8)
      BY <1>11, <3>1, RefillIsSane
    <3>3. Kept(d, r) /\ r.left \in Int
      BY <1>9, <1>10, <1>11, <3>2 DEF Kept, Sane, Buffers
    <3>4. r.at # "bad" => n <= r.left
      BY <1>3, <2>3, <3>2, <3>3 DEF Kept
    <3> QED BY <1>9, <1>10, <1>11, <3>2, <3>3, <3>4
  <2> QED BY <1>1, <2>1, <2>2, <2>3
<1>13. Sane(b) /\ Kept(d, b) /\ b.at \in {"genericOffset", "bad"}
  <2>1. Sane(b) /\ Kept(r, b) /\ b.at = r.at
    BY <1>3, <1>4, <1>12, TakeIsSane
  <2> QED BY <1>12, <2>1 DEF Kept
<1>14. "bad" \in States /\ "generic" \in States
  BY DEF States
<1>15. CASE d' = Goes(b, "bad")
  <2>1. Sane(d') /\ d'.at = "bad"
    BY <1>13, <1>14, <1>15, GoesIsSane
  <2> QED BY <2>1 DEF Phase
<1>16. CASE length <= d.outSize - d.out /\ d' = Goes([b EXCEPT !.out = @ + length], "generic")
  <2> DEFINE out == b.out + length
             c1 == [b EXCEPT !.out = @ + length]
  <2>1. d' = Goes(c1, "generic") /\ c1 = [b EXCEPT !.out = out]
    BY <1>16
  <2>2. out \in Int /\ out <= b.outSize /\ (b.at # "bad" => out >= 0) /\ b \in Buffers
    <3>1. b.out \in Int /\ b.outSize \in Nat /\ b.out = d.out /\ b.outSize = d.outSize /\ (b.at # "bad" => b.out >= 0) /\ b \in Buffers
      BY <1>13 DEF Kept, Sane, Buffers, Fed
    <3> QED BY <1>3, <1>16, <3>1
  <2> HIDE DEF c1, out
  <2>3. c1 \in Buffers
    BY ONLY <2>1, <2>2 DEF Buffers
  <2>4. /\ SameBits(b, c1) /\ c1.out = out /\ c1.tables = b.tables /\ c1.bits = b.bits /\ c1.beyond = b.beyond
        /\ c1.block = b.block /\ c1.staticLoaded = b.staticLoaded
    BY ONLY <2>1, <2>2 DEF Buffers, SameBits
  <2>5. Sane(c1)
    BY <1>13, <2>2, <2>3, <2>4, SameBitsAreSane DEF SameBits, Sane, Holds
  <2>6. Sane(d') /\ Kept(c1, d') /\ d'.at \in {"generic", "bad"}
    BY <1>14, <2>1, <2>5, GoesIsSane
  <2>7. Coded(d') /\ Flag(d')
    BY <1>1, <1>13, <2>4, <2>6 DEF Kept, Coded, Flag
  <2> QED BY <2>6, <2>7 DEF Phase
<1> QED BY <1>5, <1>15, <1>16

LEMMA DoneStep ==
  ASSUME Inv, Done
  PROVE  Sane(d') /\ Phase(d')
<1>1. Sane(d) /\ d \in Buffers /\ d.at = "done" /\ Flag(d)
  BY DEF Inv, Phase, Done, Sane
<1>2. "block" \in States /\ "bad" \in States /\ "good" \in States
  BY DEF States
<1>3. CASE d' = [d EXCEPT !.at = "block"]
  <2>1. PICK at \in States : at = "block"
    BY <1>2, Zenon
  <2>2. d' = [d EXCEPT !.at = at]
    BY <1>3, <2>1, Zenon
  <2>3. Sane([d EXCEPT !.at = at]) /\ Kept(d, [d EXCEPT !.at = at]) /\ [d EXCEPT !.at = at].at = at
    BY <1>1, AtIsSane
  <2>4. Sane(d') /\ Kept(d, d') /\ d'.at = "block"
    BY <2>1, <2>2, <2>3
  <2> QED BY <1>1, <2>4 DEF Phase, Flag, Kept
<1>4. CASE d.over > d.left \div 8 /\ d' = Goes(d, "bad")
  <2>1. Sane(d') /\ d'.at = "bad"
    BY <1>1, <1>2, <1>4, GoesIsSane
  <2> QED BY <2>1 DEF Phase
<1>5. CASE d.out # d.outSize /\ d' = Goes(d, "bad")
  <2>1. Sane(d') /\ d'.at = "bad"
    BY <1>1, <1>2, <1>5, GoesIsSane
  <2> QED BY <2>1 DEF Phase
<1>6. CASE ~(d.over > d.left \div 8) /\ d' = Goes([d EXCEPT !.next = Rewound(d), !.over = 0, !.left = @ % 8], "good")
  <2> DEFINE next == Rewound(d)
             left == d.left % 8
             c == [d EXCEPT !.next = Rewound(d), !.over = 0, !.left = @ % 8]
  <2>1. d' = Goes(c, "good")
    BY <1>6
  <2>2. /\ d.next \in Int /\ d.over \in Int /\ d.left \in Int /\ d.used \in Int /\ d.in \in Nat /\ d.loaded \in Int /\ d.word \in {4, 8}
        /\ 8 * (d.next + d.over) = d.used + d.left /\ 0 <= d.left /\ d.left <= d.loaded /\ d.used >= 0 /\ d.next <= d.in
        /\ d.loaded <= 8 * d.word
    BY <1>1 DEF Sane, Fed, Holds, Buffers
  <2>3. /\ d.left \div 8 \in Int /\ left \in 0..7 /\ d.left = 8 * (d.left \div 8) + left
    BY <2>2, Eighths
  <2>4. next = d.next - ((d.left \div 8) - d.over)
    BY DEF Rewound
  <2> HIDE DEF next, left
  <2>5. /\ next \in Int /\ next <= d.in /\ 8 * next = d.used + left /\ next >= 0 /\ d.used <= 8 * d.in
        /\ left \in Int /\ left <= d.loaded /\ left <= 8 * d.word - 1 /\ 0 <= left
    <3> DEFINE bytes == d.left \div 8
    <3>1. ~(d.over > bytes)
      BY <1>6
    <3>2. bytes \in Int /\ left \in 0..7 /\ d.left = 8 * bytes + left /\ next = d.next - (bytes - d.over)
      BY <2>3, <2>4
    <3> HIDE DEF bytes
    <3>3. next \in Int /\ left \in Int /\ d.over <= bytes /\ bytes >= 0
      BY ONLY <2>2, <3>1, <3>2
    <3>4. next <= d.in
      BY ONLY <2>2, <3>2, <3>3
    <3>5. 8 * next = d.used + left
      BY ONLY <2>2, <3>2, <3>3
    <3>6. next >= 0 /\ d.used <= 8 * d.in
      BY ONLY <2>2, <3>2, <3>3, <3>4, <3>5
    <3>7. left <= d.loaded /\ left <= 8 * d.word - 1 /\ 0 <= left
      BY ONLY <2>2, <3>2, <3>3
    <3> QED BY <3>3, <3>4, <3>5, <3>6, <3>7
  <2>6. PICK zero \in Int : zero = 0
    OBVIOUS
  <2>7. c = [d EXCEPT !.next = next, !.over = zero, !.left = left]
    BY <2>6, Zenon DEF next, left
  <2> HIDE DEF c
  <2>8. c \in Buffers
    BY ONLY <1>1, <2>5, <2>7, zero \in Int DEF Buffers
  <2>9. /\ c.at = d.at /\ c.tables = d.tables /\ c.bits = d.bits /\ c.staticLoaded = d.staticLoaded /\ c.beyond = d.beyond
        /\ c.in = d.in /\ c.outSize = d.outSize /\ c.word = d.word /\ c.short = d.short /\ c.loaded = d.loaded
        /\ c.next = next /\ c.over = zero /\ c.left = left /\ c.out = d.out /\ c.used = d.used
    BY ONLY <1>1, <2>5, <2>7, zero \in Int DEF Buffers
  <2>10. Sane(c)
    BY <1>1, <2>2, <2>5, <2>6, <2>8, <2>9 DEF Sane, Holds, Fed
  <2>11. Sane(d') /\ Kept(c, d') /\ d'.at = "good" /\ d'.used = c.used
    BY <1>1, <1>2, <2>1, <2>9, <2>10, GoesIsSane
  <2> QED BY <1>1, <2>5, <2>9, <2>11 DEF Phase, Flag, Kept
<1> QED BY <1>3, <1>4, <1>5, <1>6 DEF Done

-----------------------------------------------------------------------------
(* The theorems.                                                             *)

LEMMA StepInv ==
  ASSUME StreamAssumption, Inv, [Next]_d
  PROVE  Inv'
<1>1. CASE Next
  <2>1. Sane(d') /\ Phase(d')
    BY <1>1, BlockStep, LensStep, TablesStep, LoopStep, FastStep, OffsetStep, GenericStep, GenericOffsetStep, DoneStep DEF Next
  <2> QED BY <2>1 DEF Inv
<1>2. CASE UNCHANGED d
  BY <1>2 DEF Inv
<1> QED BY <1>1, <1>2

THEOREM InvAlways ==
  ASSUME StreamAssumption
  PROVE  Spec => []Inv
<1>1. Init => Inv
  BY InitInv
<1>2. Inv /\ [Next]_d => Inv'
  BY StepInv
<1> QED BY <1>1, <1>2, PTL DEF Spec

\* For every stream, on 32 and on 64 bits: no lookup and no codeword takes bits that are not in the
\* buffer, and the bytes taken are the bits used and those left (CAN_CONSUME_AND_THEN_PRELOAD).
THEOREM BitsAreAlwaysThere ==
  ASSUME StreamAssumption
  PROVE  Spec => []BitsAreThere
BY InvAlways, InvHolds, PTL

\* No word is read behind the input and none is stored behind the output, by a fast loop that looks
\* at the ends once a turn; runs of lengths stay in their array (FASTLOOP_MAX_BYTES_WRITTEN and _READ);
\* and symbols are decoded with the tables of their block, although those of a static block are kept
\* for the next one (static_codes_loaded).
THEOREM BuffersAlwaysHold ==
  ASSUME StreamAssumption
  PROVE  Spec => []BuffersHold
BY InvAlways, InvHolds, PTL
=============================================================================
