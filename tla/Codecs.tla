-------------------------------- MODULE Codecs --------------------------------
(* The codecs below the two engines, side by side: PPMd's model, the         *)
(* decoders of LZMA, LZMA2 and DEFLATE, the compressor that comes with the   *)
(* last, and jobs of the smaller ones - decode tables, Huffman codes, copies *)
(* of matches, filters, keys, cipher blocks and checksums.  A behaviour is   *)
(* one of them at work; the others are idle.                                 *)
EXTENDS Deflate, Sequences, FiniteSets

CONSTANTS
  NumSymbols, UnitSize, Indx2Units, MaxFreq, MaxOrder, Size, GlueCount, LimitNU, SingleMax, HiSymbol,   \* Ppmd7
  NewBinEsc, ExpEscape, Texts,
  ByteBits, CodeBytes, ModelBits, MoveBits, LowBits, HighBits, SlotBits, AlignBits, EndSlot, InputMax, LclpMax, LookSizes, CipherBlock,   \* LzmaStreams
  LzmaInputs,  \* its Streams
  BlockSize, BitLenSize, KeySize, BatchCycles, CacheCapacity, MaxPwdLen, Threads,     \* Crypto7z
  StoredMax, Window, HashSize, MinBlock, SoftMax, FastSoftMax, SeqStore, FastSeqStore,         \* DeflateCompress
  MaxMatch, MatchCacheLength, ObservationsPerCheck, ShortBlock, RecalcAfter, Inputs,
  Jobs,        \* jobs of the smaller codecs: sets of one kind each
  Requests,    \* keys that may be asked for
  MaxKeys      \* how many are asked for

VARIABLES p, text, at, stream, decoder, consumed, output, verdict, z, job

ppmd == <<p, text, at>>
lzma == <<stream, decoder, consumed, output, verdict>>

P == INSTANCE Ppmd7
L == INSTANCE LzmaStreams WITH Streams <- LzmaInputs, s <- stream, d <- decoder, read <- consumed, out <- output, result <- verdict
E == INSTANCE DeflateCompress
H == INSTANCE HuffmanTable
F == INSTANCE Filters
K == INSTANCE Crypto7z

ASSUME ModelGeometry == P!Geometry
ASSUME DecompressorStreams == StreamAssumption
ASSUME CompressorParameters == E!BuildtimeParameters /\ E!WindowAssumption

NoJob == [kind |-> "none"]
PpmdIdle == p = P!RestartModel(P!Unset, P!Unset) /\ text = <<>> /\ at = 0
LzmaIdle == /\ stream = [codec |-> "LZMA", by |-> "none", bytes |-> <<>>, outSize |-> 0, text |-> <<>>]
            /\ decoder = [stray |-> FALSE] /\ consumed = 0 /\ output = <<>> /\ verdict = "none"

-----------------------------------------------------------------------------
(* Jobs that take steps.                                                     *)

Bcj2Step == job.kind = "bcj2" /\ F!Bcj2Running(job) /\ job' \in F!Bcj2Dec_Decode(job)
\* Threads derive keys at the same time: each looks one up, derives it without the mutex, with or without
\* memory for a batch, and stores it.
Working(t) == job.threads[t] # <<>>
LookupKey(t) ==
  /\ ~Working(t) /\ Len(job.keys) + Cardinality({u \in Threads : Working(u)}) < MaxKeys
  /\ \E q \in Requests : (q.power = 63 \/ ~K!Cached(q) \/ K!MayLock(job)) /\ job' = K!Lookup(job, t, q)
DeriveKey(t) == Working(t) /\ job.threads[t].at = "derive" /\ \E memory \in BOOLEAN : job' = K!Derive(job, t, memory)
StoreKey(t) ==
  /\ Working(t) /\ job.threads[t].at = "store"
  /\ \/ K!Cached(job.threads[t].q) /\ K!MayLock(job) /\ job' = K!TakeEntry(job, t)
     \/ ~K!Cached(job.threads[t].q) /\ job' = K!Answered(job, t, job.threads[t].q, job.threads[t].key)
WriteKey(t) == Working(t) /\ job.threads[t].at = "write" /\ job' = K!WriteKey(job, t)
Keys == job.kind = "keys" /\ \E t \in Threads : LookupKey(t) \/ DeriveKey(t) \/ StoreKey(t) \/ WriteKey(t)
\* Some more blocks of a ciphered stream.
CbcPiece ==
  /\ job.kind = "cbc" /\ job.done < job.blocks
  /\ \E n \in 1..job.blocks - job.done :
       job' = [K!CbcDecrypt(job, n) EXCEPT !.src = @ + n, !.dst = @ + n, !.done = @ + n]

CodecsInit ==
  \/ P!Init /\ LzmaIdle /\ d = None /\ z = E!Idle /\ job = NoJob
  \/ PpmdIdle /\ L!Init /\ d = None /\ z = E!Idle /\ job = NoJob
  \/ PpmdIdle /\ LzmaIdle /\ Init /\ z = E!Idle /\ job = NoJob
  \/ PpmdIdle /\ LzmaIdle /\ d = None /\ E!Init /\ job = NoJob
  \/ PpmdIdle /\ LzmaIdle /\ d = None /\ z = E!Idle /\ \E jobs \in Jobs : job \in jobs
CodecsNext ==
  \/ P!Decode /\ UNCHANGED <<lzma, d, z, job>>
  \/ L!Next /\ UNCHANGED <<ppmd, d, z, job>>
  \/ Next /\ UNCHANGED <<ppmd, lzma, z, job>>
  \/ E!Next /\ UNCHANGED <<ppmd, lzma, d, job>>
  \/ (Bcj2Step \/ Keys \/ CbcPiece) /\ UNCHANGED <<ppmd, lzma, d, z>>
CodecsSpec == CodecsInit /\ [][CodecsNext]_<<ppmd, lzma, d, z, job>>

-----------------------------------------------------------------------------
(* Properties.                                                               *)

\* What every context must keep for the decoder's unbounded searches to end and for its divisions
\* to have a share for every symbol: its states lead to something, its symbols are in its suffix,
\* and no frequency falls to 0 (Ppmd7_CreateSuccessors, Ppmd7_UpdateModel, Ppmd7_Rescale).
ContextsHold == P!SuccessorsHold /\ P!SuffixHasTheSymbols /\ P!EveryShareIsPositive

\* The memory is tiled by what the model owns and what is free (see Ppmd7).
MemoryIsTiled == P!MemoryIsTiled

\* LZMA and LZMA2 (see LzmaStreams): what was encoded comes out as it was, in whatever pieces its bytes
\* come and wherever the output stops (LzmaDec_DecodeToDic, Lzma2Dec_DecodeToDic, SzDecodeLzma);
DecodesAsWritten == L!DecodesAsWritten
\* any bytes at all decode as if they had come in one piece (tempBuf and remainLen of CLzmaDec);
PiecesMakeNoDifference == L!PiecesMakeNoDifference
\* and nothing is used before it was set, or beyond the dictionary (checkDicSize, kBadRepCode, needInitLevel).
ReadsOnlyWhatIsSet == L!ReadsOnlyWhatIsSet

\* The compressor writes what a decompressor reads, in as many bits as it reckoned, and never behind
\* the end of its output (deflate_flush_block, libdeflate_deflate_compress_bound).
CompressedIsRead == E!CompressedIsRead

\* Its matches are real while its window slides, none is overlooked that the search has time for, and
\* its stores and blocks keep their bounds (hc_, ht_ and bt_matchfinder.h, the loops over blocks).
MatchesHold == E!MatchesHold

\* BCJ2 asks once about every branch of its output that is not in an operand, counts every byte of
\* it in ip, and calls no stream finished that did not fill it (Bcj2Dec_Decode, SzFolder_Decode2).
Bcj2AsksAboutBranches ==
  job.kind = "bcj2" =>
    LET Branch(i) == F!IsBranch(IF i = 1 THEN "other" ELSE job.out[i - 1], job.out[i])
    IN /\ job.at \in {"loop", "ask", "MAIN"} => job.ip = Len(job.out)
       /\ \A i \in job.asked : Branch(i)
       /\ \A i \in DOMAIN job.out : Branch(i) => i \in job.asked \/ \E a \in job.addresses : i \in a[1] + 1..a[2]
       /\ F!Bcj2Finished(job) => Len(job.out) = job.size

\* What an archiver has made absolute becomes relative again, whatever overlaps and overflows:
\* operands that look like opcodes, addresses that wrap around, data shorter than the distance;
\* and BCJ2 looks at the branches an archiver has looked at.
FiltersUndo ==
  /\ job.kind = "delta" =>
       LET state == F!Delta_Init(job.delta) IN F!Delta_Decode(state, F!Delta_Encode(state, job.data)) = job.data
  /\ job.kind = "arm64" => F!BranchConv_ARM64(F!BranchConv_ARM64(job.word, job.pc, TRUE), job.pc, FALSE) = job.word
  /\ job.kind = "arm" => F!BranchConv_ARM(F!BranchConv_ARM(job.word, job.pc, TRUE), job.pc, FALSE) = job.word
  /\ job.kind = "ppc" => F!BranchConv_PPC(F!BranchConv_PPC(job.word, job.pc, TRUE), job.pc, FALSE) = job.word
  /\ job.kind = "sparc" => F!BranchConv_SPARC(F!BranchConv_SPARC(job.word, job.pc, TRUE), job.pc, FALSE) = job.word
  /\ job.kind = "armt" => F!BranchConv_ARMT(F!BranchConv_ARMT(job.halves, TRUE), FALSE) = job.halves
  /\ job.kind = "ia64" => F!BranchConv_IA64(F!BranchConv_IA64(job.bundle, job.pc, TRUE), job.pc, FALSE) = job.bundle
  /\ job.kind = "x86" => F!BranchConvSt_X86(F!BranchConvSt_X86(job.bytes, TRUE), FALSE) = job.bytes
  /\ Bcj2AsksAboutBranches

\* A Huffman code for these frequencies: it decodes, with codewords as a decoder numbers them; no rarer
\* symbol has a shorter one; and where the limit cannot bind, none costs less.
IsHuffmanCode(freqs, maxLen, code) ==
  LET used == DOMAIN freqs
  IN /\ used \subseteq DOMAIN code.lens
     /\ \A s \in DOMAIN code.lens :
          code.lens[s] \in 1..maxLen /\ code.codewords[s] = H!Reversed(H!CodewordOf(code.lens, s), code.lens[s])
     /\ E!KraftOf(code.lens, maxLen) = 2^maxLen
     /\ \A r, s \in used : freqs[r] < freqs[s] => code.lens[r] >= code.lens[s]
     /\ Cardinality(used) \in 2..maxLen + 1 => E!CostOf(freqs, code.lens) = E!Merged(job.weights)

\* What is computed in a fast way is what its definition says.  A key is the one of the password,
\* salt and cycles it was asked for: from the cache, in batches or step by step, while other threads
\* overwrite the cache.  Blocks are
\* deciphered in place, call by call.  Twelve bytes at once have the CRC that bits have.  Tables
\* decode the code they are built from; codes are those of Huffman.  Words copied for a match are its bytes.
FastPathsAgree ==
  /\ job.kind = "keys" => \A k \in DOMAIN job.keys : job.keys[k] = K!KeyOf(job.asked[k])
  /\ job.kind = "cbc" => \A b \in 1..job.done :
       job.mem[(job.dst - job.done) + b - 1] = K!Xor(K!Decrypted(job.cipher[b]), IF b = 1 THEN job.first ELSE job.cipher[b - 1])
  /\ job.kind = "crc" =>
       K!CrcUpdateT(job.v, job.bytes, job.misaligned, job.bits, K!CrcTables(12, job.bits, job.poly)) = K!CrcOf(job.v, job.bytes, job.bits, job.poly)
  /\ job.kind = "code" => H!DecodesTheCode(job.lens, job.tableBits, job.maxLen, job.dynamic)
  /\ job.kind = "huffman" => IsHuffmanCode(job.freqs, job.maxLen, E!deflate_make_huffman_code(job.numSyms, job.maxLen, job.freqs))
  /\ job.kind = "copy" => CopyIsBytewise(job.offset, job.length, job.word)
=============================================================================
