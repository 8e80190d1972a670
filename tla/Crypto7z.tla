------------------------------ MODULE Crypto7z ------------------------------
(* Keys, ciphers and checksums of the 7z engine: the SHA-256 stream and the  *)
(* keys that come from it (sha256_kdf.c), the chain of AES-CBC blocks        *)
(* (aes256_cbc.c) and the CRC that is taken twelve bytes at a time           *)
(* (7zCrc.c, 7zCrcOpt.c).  What is done to one block is one function here.   *)
EXTENDS Integers, Sequences, TLC
LOCAL INSTANCE SequencesExt

CONSTANTS
  BlockSize,      \* bytes of a block of the hash: 64
  BitLenSize,        \* bytes of the length at its end: 8
  KeySize,        \* bytes of a key: 32
  BatchCycles,    \* cycles of a batch: 64
  CacheCapacity,  \* keys in the cache: 64
  MaxPwdLen,      \* bytes of a password that is cached, 256 at most
  Threads         \* who derives keys

-----------------------------------------------------------------------------
(* SHA-256: blocks are transformed as they fill.                             *)

Sha256Init == [blocks |-> <<>>, buffer |-> <<>>]
\* The bytes in the buffer are count & 0x3F.
Chopped(bytes) == [k \in 1..Len(bytes) \div BlockSize |-> SubSeq(bytes, ((k - 1) * BlockSize) + 1, k * BlockSize)]
Rest(bytes) == SubSeq(bytes, ((Len(bytes) \div BlockSize) * BlockSize) + 1, Len(bytes))
Sha256Update(ctx, data) ==
  LET needed == BlockSize - Len(ctx.buffer)
      tail == SubSeq(data, needed + 1, Len(data))
  IN IF ctx.buffer = <<>> THEN [blocks |-> ctx.blocks \o Chopped(data), buffer |-> Rest(data)]
     ELSE IF Len(data) < needed THEN [ctx EXCEPT !.buffer = @ \o data]
     ELSE [blocks |-> Append(ctx.blocks, ctx.buffer \o SubSeq(data, 1, needed)) \o Chopped(tail), buffer |-> Rest(tail)]
Zeros(n) == [i \in 1..n |-> 0]
\* count * 8, in BitLenSize bytes, the highest first.
BitLength(ctx) ==
  LET bits == 8 * ((Len(ctx.blocks) * BlockSize) + Len(ctx.buffer)) IN [i \in 1..BitLenSize |-> (bits \div 256^(BitLenSize - i)) % 256]
Sha256Final(ctx) ==
  LET marked == Append(ctx.buffer, 128)
      room == BlockSize - BitLenSize
      full == [blocks |-> Append(ctx.blocks, marked \o Zeros(BlockSize - Len(marked))), buffer |-> <<>>]
      last == IF Len(marked) > room THEN full ELSE [ctx EXCEPT !.buffer = marked]
  IN Append(last.blocks, last.buffer \o Zeros(room - Len(last.buffer)) \o BitLength(ctx))

-----------------------------------------------------------------------------
(* sha256_7z_derive_key.                                                     *)

\* What is asked for: password, salt, and the power of two of the cycles, 63 for no hash at all.
RawKey(q) ==
  LET all == q.salt \o q.pwd
  IN [i \in 1..KeySize |-> IF i <= Len(all) THEN all[i] ELSE 0]
Counter(i) == [k \in 1..8 |-> IF k = 1 THEN i ELSE 0]
Chunk(q, i) == q.salt \o q.pwd \o Counter(i)
Chunks(q, n) == FoldLeft(LAMBDA s, i : s \o Chunk(q, i - 1), <<>>, [i \in 1..n |-> i])
\* One piece after the other, when there is no memory for a batch.
HashedBySteps(q) ==
  Sha256Final(FoldLeft(LAMBDA c, i : Sha256Update(Sha256Update(Sha256Update(c, q.salt), q.pwd), Counter(i - 1)),
                       Sha256Init, [i \in 1..2^q.power |-> i]))
\* Batches, the counters of each written into the same buffer; what is left goes chunk by chunk.
HashedByBatches(q) ==
  LET cycles == 2^q.power
      batches == cycles \div BatchCycles
      Batch(b) == FoldLeft(LAMBDA s, k : s \o Chunk(q, (b * BatchCycles) + k - 1), <<>>, [k \in 1..BatchCycles |-> k])
      whole == FoldLeft(LAMBDA c, b : Sha256Update(c, Batch(b - 1)), Sha256Init, [b \in 1..batches |-> b])
      left == [k \in 1..cycles % BatchCycles |-> (batches * BatchCycles) + k - 1]
  IN Sha256Final(FoldLeft(LAMBDA c, i : Sha256Update(c, Chunk(q, i)), whole, left))

\* Threads share the ring of keys and its mutex; a thread that has no memory for a batch goes step by step.
Unlocked == 0
NoKeys == [kind |-> "keys", entries |-> [k \in 0..CacheCapacity - 1 |-> <<>>], next |-> 0, mutex |-> Unlocked,
           threads |-> [t \in Threads |-> <<>>], keys |-> <<>>, asked |-> <<>>]
\* A mutant: the ring is read and written without the mutex.
MayLockAlways(c) == TRUE
MayLock(c) == c.mutex = Unlocked
Cached(q) == Len(q.pwd) <= MaxPwdLen
Same(e, q) == e # <<>> /\ e.q = q
KdfCacheLookup(c, q) == {k \in DOMAIN c.entries : Cached(q) /\ Same(c.entries[k], q)}
Answered(c, t, q, key) == [c EXCEPT !.threads[t] = <<>>, !.keys = Append(@, key), !.asked = Append(@, q)]

\* Thread t asks for a key; one that is found is copied before the mutex is given up.
Lookup(c, t, q) ==
  LET found == KdfCacheLookup(c, q)
  IN IF q.power = 63 THEN Answered(c, t, q, RawKey(q))
     ELSE IF found # {} THEN Answered(c, t, q, c.entries[CHOOSE k \in found : \A j \in found : k <= j].key)
     ELSE [c EXCEPT !.threads[t] = [at |-> "derive", q |-> q]]
\* It computes the key, the mutex free for others meanwhile.
Derive(c, t, memory) ==
  LET q == c.threads[t].q
  IN [c EXCEPT !.threads[t] = [at |-> "store", q |-> q, key |-> IF memory THEN HashedByBatches(q) ELSE HashedBySteps(q)]]
\* kdf_cache_store, with the mutex: the oldest entry is for q from now on, its key still that of another;
TakeEntry(c, t) ==
  [c EXCEPT !.mutex = t, !.next = (@ + 1) % CacheCapacity, !.threads[t] = [at |-> "write", slot |-> c.next] @@ @,
            !.entries[c.next] = [q |-> c.threads[t].q, key |-> IF @ = <<>> THEN Zeros(KeySize) ELSE @.key]]
\* then its key is written.
WriteKey(c, t) ==
  LET s == c.threads[t]
  IN [Answered(c, t, s.q, s.key) EXCEPT !.mutex = Unlocked, !.entries[s.slot].key = s.key]

\* What the 7z format says: the hash of all chunks, one behind the other.
KeyOf(q) ==
  LET bytes == Append(Chunks(q, 2^q.power), 128)
      ctx == [blocks |-> <<>>, buffer |-> SubSeq(bytes, 1, Len(bytes) - 1)]    \* for its length
      padded == bytes \o Zeros((BlockSize - BitLenSize - Len(bytes)) % BlockSize) \o BitLength(ctx)
  IN IF q.power = 63 THEN RawKey(q) ELSE Chopped(padded)

-----------------------------------------------------------------------------
(* Values of bits: sets of the places that are 1.                            *)

Xor(a, b) == (a \ b) \cup (b \ a)
Shr(a, n) == {i - n : i \in {j \in a : j >= n}}
Shl(a, n) == {i + n : i \in a}
Low(a, n) == {i \in a : i < n}

(* AES-CBC.  What AES does to a block is not looked into: D(c) has one atom. *)

Decrypted(c) == {<<"D", c>>}
\* A mutant: the block is read again when it is in dst already.
CbcStepInPlace(s, b) ==
  LET pt == Xor(Decrypted(s.mem[s.src + b]), s.iv)
  IN [s EXCEPT !.mem[s.dst + b] = pt, !.iv = IF s.src = s.dst THEN pt ELSE s.mem[s.src + b]]
\* aes256_cbc_decrypt: src and dst are places in one memory, they may be the same.
CbcStep(s, b) == [s EXCEPT !.mem[s.dst + b] = Xor(Decrypted(s.mem[s.src + b]), s.iv), !.iv = s.mem[s.src + b]]
CbcDecrypt(s, blocks) == FoldLeft(LAMBDA t, b : CbcStep(t, b - 1), s, [b \in 1..blocks |-> b])

(* CRC, with bytes of so many bits, four of them in a value.                 *)

\* CrcGenerateTable: r is shifted out bit by bit.
Shifted(r, bits, poly) == FoldLeft(LAMBDA x, j : Xor(Shr(x, 1), IF 0 \in x THEN poly ELSE {}), r, [j \in 1..bits |-> j])
CrcTables(n, bits, poly) ==
  LET first == [i \in SUBSET (0..bits - 1) |-> Shifted(i, bits, poly)]
      table[k \in 0..n - 1] ==
        IF k = 0 THEN first ELSE LET before == table[k - 1] IN [i \in DOMAIN first |-> Xor(first[Low(before[i], bits)], Shr(before[i], bits))]
  IN [k \in 0..n - 1 |-> table[k]]
CrcUpdateByte(v, b, bits, t) == Xor(t[0][Low(Xor(v, b), bits)], Shr(v, bits))
\* Q: the four bytes of a word, each by its table.
Sliced(n, d, bits, t) ==
  FoldLeft(LAMBDA x, k : Xor(x, t[(n * 4) + 3 - (k - 1)][Low(Shr(d, bits * (k - 1)), bits)]), {}, <<1, 2, 3, 4>>)
Word(p, at, bits) == UNION {Shl(p[at + k - 1], bits * (k - 1)) : k \in 1..4}
\* CrcUpdateT12: bytes up to a place that is aligned, twelve bytes at once, and the bytes left.
CrcUpdateT(v, p, misaligned, bits, t) ==
  LET first == IF misaligned > Len(p) THEN Len(p) ELSE misaligned
      turns == (Len(p) - first) \div 12
      Bytes(x, from, to) == FoldLeft(LAMBDA y, i : CrcUpdateByte(y, p[from + i - 1], bits, t), x, [i \in 1..to - from + 1 |-> i])
      Turn(x, at) ==
        Xor(Xor(Sliced(1, Word(p, at + 4, bits), bits, t), Sliced(0, Word(p, at + 8, bits), bits, t)),
            Sliced(2, Xor(x, Word(p, at, bits)), bits, t))
      sliced == FoldLeft(LAMBDA x, k : Turn(x, first + 1 + (12 * (k - 1))), Bytes(v, 1, first), [k \in 1..turns |-> k])
  IN Bytes(sliced, first + (12 * turns) + 1, Len(p))
\* The remainder of the division, bit by bit: r[k] after k of them, a byte coming in before its first.
CrcOf(v, p, bits, poly) ==
  LET r[k \in 0..Len(p) * bits] ==
        LET x == IF (k - 1) % bits = 0 THEN Xor(r[k - 1], p[((k - 1) \div bits) + 1]) ELSE r[k - 1]
        IN IF k = 0 THEN v ELSE Xor(Shr(x, 1), IF 0 \in x THEN poly ELSE {})
  IN r[Len(p) * bits]
=============================================================================
