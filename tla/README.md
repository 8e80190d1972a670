# WatchPicture: specifications and proofs

WatchPicture is an Android viewer for packs of pictures: folders, ZIP and 7z
archives, encrypted ones included. Its entries are extracted on demand, by
native C engines or Java libraries, kept in two bounded disk caches, and shown
through the Coil image loader. This directory holds

- TLA+ models of the parts of the app in which threads and coroutines meet, and
  of the two native engines: their containers, their decoders and the handles
  through which the app uses them,
- TLC configurations that check them on small instances,
- proofs, checked by TLAPS, of theorems about the archive disk cache and its
  leases, the 7z sessions, the sweep queue, the sweep, the native 7z handle, the
  tables and folders of a 7z archive, the native ZIP session and the DEFLATE
  decompressor, and
- `PROJECT.json`, which says for each definition which lines of the source it
  models, for each of the main hazards of the code which property watches over
  it, and for each property which change of the code would violate it.

Paths of Kotlin files below are relative to
`src/app/src/main/java/com/watchpicture/app/`, those of C files to
`src/app/src/main/cpp/`.

## 1. The system and its parts

### The app

| Part (source) | State | Operations | What makes it correct | Model |
|---|---|---|---|---|
| Archive disk cache (`archive/ArchiveDiskCache.kt`) | the directory, a size counter, 64 stripe locks, a global lock | `get`, `putDirect`, `putDirectSuspend`, `trimToSize`, `clearEncrypted`, `clearAll` | the counter covers the directory; the directory keeps to its budget; one writer commits a key; no temporary file is left; locks are given back | `ArchiveDiskCache` |
| File leases (`archive/CacheFileLeases.kt`) | reference counts by path | `acquire`, `close`, `isLeased` | counts are balanced; a leased file is not deleted | `ArchiveDiskCache` |
| Image fetcher (`coil/*.kt`) | none of its own | lease, verify, read, close twice; pause the sweep | a file is readable until its lease is closed | `ArchiveDiskCache`, `BatchThumbnailSweep` (in part) |
| 7z sessions (`archive/SevenZSessionManager.kt`) | a registry of sessions, each with a lock, a native and a Java handle | extraction, thumbnails, password checks, listing, prewarming, close, reaping, purge | a handle in use is open; a registered session may be used; every call ends | `SevenZSession` |
| Thumbnail sweep queue (`ui/viewmodel/ThumbnailSweepQueue.kt`) | `running`, `pending`, `currentJob` | `trigger`, `clear`, the drain coroutine | it coalesces requests and never gets stuck | `ThumbnailSweepQueue`, which implements `CoalescingQueue` |
| Extraction coordinator (`archive/ArchiveExtractionCoordinator.kt`) | pause counter, active sweep, locks per archive, delayed purges | sweep, interactive extraction, prefetch, purge | pauses end with their requests; the sweep ends; progress reaches the total | `BatchThumbnailSweep` (sweep and pauses) |
| Parallel batch (`archive/ParallelBatch.kt`) | a cursor | one call | all workers have ended when it returns | `BatchThumbnailSweep` |
| Power and thermal manager (`archive/PowerThermalManager.kt`) | a flag | listeners | (environment of the sweep) | `BatchThumbnailSweep` |
| Native ZIP session (`archive/NativeZip.kt`) | a handle, the lock of its life | open, extract to a file or a buffer, close | the handle outlives the calls that use it | `NativeZip` |

### The native engines

| Part (source) | State | Operations | What makes it correct | Model |
|---|---|---|---|---|
| 7z handle (`native7z_jni.cpp`, `7z/7zArcIn.c`: `SzArEx_Extract…`, `7z/7zDec.c`: `SzFolderDecoder_…`, `7z/7zStream.c`, `7z/7zFile.c`) | the block last decoded, an incremental decoder, the look-ahead stream, one derived key | open, extract to memory or a file, purge, close | an answer does not depend on earlier calls; a block is decoded once; every call ends | `Native7z`, which implements `ArchiveReads` |
| 7z header (`7z/7zArcIn.c`) | the tables of an open archive | open | what a writer meant is what is read; each file lies in its block | `Header7z`, `Archive7z` |
| Folders (`7z/7zDec.c`) | none | check a coder graph, decode it | the recipe follows the bonds of the graph | `SzFolder` |
| LZMA, LZMA2 (`7z/LzmaDec.c`, `7z/Lzma2Dec.c`) | range coder, probabilities, dictionary, bytes kept back | decode to a limit, from pieces | output does not depend on how input and output are cut; nothing unset is read | `LzmaDec`, `Lzma2Dec`, `LzmaStreams` |
| PPMd (`7z/Ppmd7.c`, `7z/Ppmd7Dec.c`) | a heap of its own with contexts and text | one symbol | blocks tile the heap; contexts stay consistent | `Ppmd7` |
| DEFLATE (`zip_engine/lib/deflate_decompress.c`, `decompress_template.h`) | bit buffer, decode tables | decompress | bits are loaded before they are taken; no buffer is overrun | `HuffmanTable`, `Deflate` |
| DEFLATE compressor (`zip_engine/lib/deflate_compress.c`, `hc_`, `ht_`, `bt_matchfinder.h`, `matchfinder_common.h`) | tables of positions, costs, an output stream | compress at a level | what comes out is the input again, within the bound; matches are real | `HuffmanCode`, `DeflateBlock`, `Matchfinder`, `DeflateCompress` |
| Filters (`7z/Delta.c`, `Bra*.c`, `Bcj2.c`) | a few bytes or flags | convert a block | what the archiver did is undone | `Filters` |
| Keys, cipher, checksum (`sha256_kdf.c`, `7z/aes256_cbc.c`, `7zCrc.c`, `7zCrcOpt.c`) | a ring of keys | derive, decrypt, sum | the fast path gives what the plain definition gives | `Crypto7z` |
| ZIP container (`nativezip_jni.cpp`) | the mapping and the table of entries | open, list, extract, close | every read lies in the file; what a writer made is found | `ZipFile`, `NativeZip` |

### Not modelled

| Part | Why |
|---|---|
| Thumbnail disk cache (`archive/ThumbnailDiskCache.kt`), memory file pipeline (`MemFdPipeline.kt`), password store (`security/SessionPasswordStore.kt`), handle pool and ZIP manager (`ArchiveHandlePool.kt`, `ZipArchiveManager.kt`), key cache (`SevenZKeyCache.kt`), view models, resolver, video launcher, the rest of the coordinator | planned, section 6 |
| Order and names (`NaturalOrderComparator.kt` …) | pure functions of strings; planned last |
| Password book, preferences, export, updates, SAF, `LibArchiveExtractor.kt` | one transaction, request or pass over an external library each: input and output |
| Screens and wiring | rendering; where a screen calls a modelled part, the call is an action there |
| The other formats of `zip_engine/lib` (gzip, zlib, adler32, crc32) | not built: `CMakeLists.txt:71-73` compiles `deflate_decompress.c` and `utils.c` only. The compressor is not built either; it is modelled because it is the reference writer for what the decompressor reads |
| `CpuArch.c`, hardware paths of AES, SHA and CRC, the RISC-V filter | they ask for or need a processor; the plain paths are modelled |
| One block of AES and of SHA-256, PPMd's range coder and binary estimates, names and times of the 7z header | a function of data that no property here is about; the function is left abstract |
| The zlib fallback (`nativezip_jni.cpp:155-219`), `SzDecodePpmd`'s byte reader (`7zDec.c:82-162`) | an alternative to, or a thin shell of, what is modelled |

### How they interact

A tile or the viewer asks the *image fetcher*; it pauses the
background sweep, asks the *coordinator*, which takes the archive's lock and lets
the *session manager* (7z) or the *ZIP manager* stream entries into a *disk
cache*; the fetcher then leases the file, verifies that it is still there and
hands it to Coil, which closes it, sometimes twice. Opening a grid triggers the
*sweep queue*, whose drain coroutine runs the coordinator's batch sweep; leaving
the grid clears the queue, cancels the sweep and schedules a purge of the native
solid block. Low memory, the settings screen and the start of the app trim or
clear the caches at any moment.

Below, a session owns a native handle, a pointer that Kotlin keeps as a number.
The 7z handle has a mutex of its own and answers one call at a time; it keeps
the block of the last file, a decoder that has made a first part of it, the
place in the packed stream that decoder has reached, and the last key. The ZIP
handle has no lock; `NativeZipSession.lifecycleLock` orders its calls and its
close. Both hand out direct buffers that point into memory of the handle. A 7z
block is decoded by a chain of codecs (`SzFolder`), each of which reads from a
look-ahead stream whose pieces end anywhere.

### What is hard about it

Decisions taken under one lock and acted on under another
(trim plans and leases, rename and accounting, session lookup and session lock);
coroutines cancelled between two steps; counters moved by several workers;
callbacks that arrive out of order; the process dying at any point with only the
directory left; in the engines, state kept between calls that an error leaves
half way, input cut in the middle of a symbol and output in the middle of a
match, a heap that moves contexts about, loops that test their bounds once for
several symbols, and numbers in files that say anything at all. `PROJECT.json`
lists the main hazards at their lines; section 5 has further ones that no
property covers.

## 2. Modules

| Module | Content | Extends or instantiates |
|---|---|---|
| `ArchiveDiskCache` | the disk cache, the leases and their readers | |
| `SevenZSession` | the sessions of one 7z archive | |
| `CoalescingQueue` | abstract: one scan at most, requests merged, scans end | |
| `ThumbnailSweepQueue` | the queue, its drain coroutines and their completion handler | implements `CoalescingQueue` |
| `BatchThumbnailSweep` | the sweep, its workers, the pause counter, cancellation, heat | |
| `ArchiveReads` | abstract: requests to an open archive, each answered on its own | |
| `Native7z` | the 7z handle and its incremental decoder | implements `ArchiveReads` |
| `Header7z` | the readers of the 7z header, over bytes | |
| `SzFolder` | coder graphs: the check and the recipe | |
| `Archive7z` | `SzArEx_Open`, extraction by the tables, close | `Header7z`, `SzFolder` |
| `LzmaDec`, `Lzma2Dec` | the decoders, as operators on their state | `Lzma2Dec` uses `LzmaDec` |
| `LzmaStreams` | the three ways the app drives them | `Lzma2Dec` |
| `Ppmd7` | PPMd's model and heap | |
| `HuffmanTable`, `Deflate` | decode tables; the decompressor | |
| `HuffmanCode` | Huffman codes of limited length, built from frequencies | |
| `DeflateBlock` | a block as bits: headers, symbols, the output stream; and what RFC 1951 reads | `HuffmanCode` |
| `Matchfinder` | the three match finders | |
| `DeflateCompress` | the five ways to divide an input into literals and matches | `DeflateBlock`, `Matchfinder` |
| `Filters`, `Crypto7z` | filters; keys, cipher chain, CRC | |
| `Codecs` | PPMd, LZMA, both directions of DEFLATE and the small codecs as one system | `LzmaStreams` and those from `Ppmd7` on |
| `ZipFile`, `NativeZip` | the ZIP container; its session and threads | `NativeZip` uses `ZipFile` |
| `…Proofs` | theorems for all constants | the module they are named after |
| `MC…` | instances for TLC; those of the decoders hold the writers and encoders whose archives and streams are read | |

Actions carry the names of the functions they model. Where a function takes
several steps that others may come between, each step is an action, and `pc`
says which is next. Operators described as *Mutant* at their head are the same
step with a plausible mistake in it; they occur in no specification, and
`PROJECT.json` names the property that each one would violate.

### ArchiveDiskCache

`files` is the directory and `Bytes[S]` the length of a set of files, so
`file.length()` of a deleted file is 0 as in Java. One action stands for the
code between two lock or file operations: `Lookup` is the test outside all
locks, `LockAndRecheck` and `Rename` take the stripe lock, `Measure`,
`getOrInitSize` and `Account` are the three steps from rename to accounting.
`TrimScan` plans with the leases it sees, and `Delete` removes one victim
without looking at them again. `Crash` loses memory and keeps the directory.

Abstractions: the directory is listed in one step; `lastModified` is kept as an
order (`older`) that is renewed when the code sets it and at the rename, without
ties within a millisecond; files are deleted in any order; the digest, the
suffixes and fallback names of a key are the key. `kept` and `raced` are history
variables that no action reads.

### SevenZSession

One key of the registry (`mapped`), session objects with the fields that other
threads change, and per process the handle in its local variable (`using`). A
handle closed under its user becomes `"torn"`, one that its session lost sight of
`"astray"`. Entries, cursors and decoded bytes are abstracted to the outcomes
they lead to: found or not, success, failure, exception. `sess`, `victim` and
`then` are what the code keeps on its stack. Closing in a launched coroutine is a
process of its own, or one of the callers; objects nothing refers to are garbage,
and their names are used again, so `Sessions` bounds only those alive at once.

### ThumbnailSweepQueue and CoalescingQueue

`trigger` and `clear` are the two operations under the lock; what they do after
it (`launchDrain`, `Register`, `Start`, `Cancel`) are steps of their own, as is
`invokeOnCompletion` (`Completed`). A block is the list of images it captured.
`BlockCancelled` also stands for the sweep being cancelled from outside the
queue (`cancelBackgroundSweep`). The next block of a cancelled drain throws at
its first suspension, so it never counts as a scan. The refinement maps
`scanning` to `running` and `again` to `pending`: that is the contract at
`ThumbnailSweepQueue.kt:11-21`.

### BatchThumbnailSweep

One pack, one sweep at a time (the queue sees to that), `Workers` coroutines for
ZIP archives and folders and one for a solid archive, requests that pause the
sweep and may cache a thumbnail themselves. `Take` is the shared cursor, `Poll`
the loop that waits for the pauses to end, `Decode`, `Count` and `Report` the body
of one item. `EndSweep` is the end of both kinds of sweep with their `finally`.
Thumbnails, once made, stay cached; the delays between items are left out.

### Native7z and ArchiveReads

The handle of `native7z_jni.cpp` (`NativeArchive`) with what `SzArEx_ExtractIncremental`
keeps in it: `outBuffer` and `blockIndex` (the block), `dec` (`CSzFolderDecoder`),
`look` and `filePos` (the look-ahead stream and the place in the file), `keyCache`.
The archive is a file of cells; a cell of a block needs a given number of packed
cells, and comes out `"right"` only from the right ones, in order, under the
right key; otherwise it is `"wrong"`, or `"raw"` when nothing wrote it. One
action is one turn of the decoding loop, the check of a CRC, one `write()` of the
delivery. Looks into the stream may be short, reads and allocations may fail
(`fault`). Blocks that cannot be continued, and all of them in a handle without a
decoder, are decoded whole (`DecodeWhole`). The codec notices the damage of a
compressed block; that of a stored one shows only in a CRC, so `FileAssumption` asks
for a CRC of the files it reaches: nothing in the code could tell otherwise. What a
handle promises is `ArchiveReads`: a request is answered with the bytes of its
file, or with an error that this request has a reason for. Nothing an earlier
request did may show.

### Header7z, SzFolder and Archive7z

Every reader of `7zArcIn.c` is an operator from a cursor to a cursor
(`[ok, sd, v]`: is all well, the bytes left, the value read); one that is not ok
stays so, like `RINOK`. Names, times and attributes are skipped in the way the
reader skips them. 64-bit sums wrap at `Word`, 32-bit limits are `Limit32`, both
scaled. (The size in bytes of a bit vector, `(n + 7) >> 3`, is not wrapped to
`UInt32`, which changes nothing below 2^32 - 7 entries.) A loop of the reader is a
recursive function of the number of its turns. Where the code counts down `n` items, or
goes on until an id or the end, the model takes as many turns as there may be with the
bytes left (`Turns`): each takes one byte at least, or two, and the theorems of section 4
show that the bound never cuts a loop that succeeds. In `SzFolder` data are terms (`<<m, s>>` is what method `m` makes of
`s`), so the recipe of `SzFolder_Decode2` can be compared with what the bonds of
the graph mean. `Archive7z` opens a file whose header is plain or itself packed,
then extracts and closes.

### LzmaDec, Lzma2Dec and LzmaStreams

The decoders are operators on their whole state: range and code, probabilities,
`reps`, `state`, dictionary position, `remainLen`, `tempBuf`. Formulas are those
of the code, widths are constants: a byte has 4 bits, a probability 5, a position
slot 3, the code 3 bytes, and the trees of lengths and distances are as small as
still lets every branch of a symbol be taken.
`LzmaStreams` reads a stream in the three ways of `7zDec.c`: a folder at once,
in steps to any target, and through a dictionary that wraps. The sizes of looks
are arbitrary; the targets of the steps may change between turns, which is more
than the callers do. The streams come from an encoder in `MCLzmaStreams`.

### Ppmd7, the DEFLATE modules, Filters, Crypto7z and Codecs

`Ppmd7` is the model and the heap without the range coder: any symbol of a
context may be coded or escaped from. Contexts and vectors have addresses; the
free lists, `GlueFreeBlocks`, `SplitBlock`, shrinking and growing of vectors,
successors that point into the text until a context is made of them, rescaling
and the restart are those of the code. Blocks are glued as the code does it, by the
first 16 bits of the unit behind a block (`Stamp`): 0 in a listed block, `NumStats` of a
context and `Symbol` and `Freq` of a vector's first state in a unit in use, the guard
at `LoUnit`, and no more units than `NU` can hold (`LimitNU`, 0x10000 in the code). Which
blocks are listed plays no part in it, except that a unit which belongs to nobody is
taken to look free. `MemoryIsTiled` is violated without the guard, and without the
limit. `Deflate` takes any symbols: of a symbol
only its code bits, extra bits and bytes of output matter, which is what the
bounds of the fast loop are about. `HuffmanTable` builds the decode tables and is
compared with the code they stand for.

`DeflateCompress` follows `libdeflate_deflate_compress` one turn of a loop at a
time: the stored, the fastest, the greedy, the two lazy and the near-optimal way,
each with its match finder, its test for the end of a block, and
`deflate_flush_block`. Windows, blocks, stores and match lengths are constants,
scaled down; bits, codes and costs are those of the code. A link of a chain that
was never set has a value of its own, since the code does not initialize it. Sums
that estimate the minimum match length look at a block, not at its first
4096 bytes, because blocks are shorter here. `Inflate` in `DeflateBlock` is the
format's own reading of the bits.

`Filters` and most of `Crypto7z` are functions,
each compared with its plain definition, or with its inverse. A filter is given its
whole block at once: that is how `7zDec.c:801-802` and 989-990 call the branch
converters and delta, so the state they could keep between pieces (`Bra86.c`: the mask,
`Delta.c`: the history) is only ever their initial one. BCJ2 does stop and go on,
when a stream or the output ends.
Keys are derived by threads that share the ring of keys and its mutex: `LookupKey`
(`kdf_cache_lookup` under the mutex), `DeriveKey` (the hash, without it), `StoreKey` and
`WriteKey` (`kdf_cache_store` under it, with the key still to be copied in between). So
two threads may miss and store the same key, or overwrite each other's. `Codecs` puts
all of them side by side: each behaviour is one of them at work.

### ZipFile and NativeZip

A file is a size and the records at their positions; every operator of
`ZipFile` also yields the ranges of bytes that it read. `NativeZip` is the
session: `Open` maps and parses, threads extract to files (emptying, reading,
`writeAll` turn by turn, closing, removing) or to direct buffers, and one of them
closes. Every call holds `lifecycleLock`. The mapping may fail, `write()` may
do less than asked, be interrupted or fail, `close()` may fail. `nativeGetEntries`
answers with a table, with null - then the handle is closed - or by an exception, after
which it stays mapped (section 5). Inflating succeeds
or fails as the sizes say; `Deflate` is about the rest.

## 3. Runs

| Run | Checks | Instance | Distinct states |
|---|---|---|---|
| `cache_app` | `TypeOK`, `SizeNeverUndercounts`, `BudgetAtRest`, `ReadersKeepTheirFile`, `LeasesMatchHandles`, `CommitsAreClean` | 2 fetchers, 1 maintainer, 2 keys on 2 stripes, `trimToSize` and `clearAll`, crashes | 445,000 |
| `cache_live` | `GlobalLockReleased` | 1 fetcher, 1 maintainer, all operations, fairness | 18,000 |
| `sevenz` | `UsedHandleIsOpen`, `RegisteredIsLive` | 2 callers, 2 passwords, 4 sessions, all calls | 907,000 |
| `sevenz_live` | `CallsEnd` | 2 callers, 1 password, the calls with retries and fallbacks, fairness | 95,000 |
| `sweep_queue` | `ScanIsRegistered`, `BusyHasScan`, `Coalesces` (refinement) | 2 callers, 2 lists, 3 coroutines, fairness | 56,000 |
| `sweep_list` | `ListScanned`: violated | the main thread alone | |
| `batch_sweep` | `NoPauseForNobody`, `SessionOutlivesBuffers`, `SolidProgressCompletes`, `SweepsEnd` | 2 workers, 2 entries, 2 requests, fairness | 623,000 |
| `native7z` | `StreamFollowsDecoder`, `NoRework`, `EveryCallReturns`, `ServesEveryFile` (refinement) | 4 blocks and 10 files in 16 cells: one cut short, two behind the cipher under different keys, of which one is stored and damaged, one filtered; windows of 2 cells, fairness | 13,000 |
| `archive7z` | `FilesTileFolders`, `PassesAgree`, `OpensAsWritten`, `DecodesAsBonded` | 6 headers, each whole, with any one byte changed, or cut off; coder graphs | 36,000 |
| `codecs` | `MemoryIsTiled`, `ContextsHold`, `DecodesAsWritten`, `PiecesMakeNoDifference`, `ReadsOnlyWhatIsSet`, `BitsAreThere`, `BuffersHold`, `FiltersUndo`, `FastPathsAgree`, `CompressedIsRead`, `MatchesHold` | PPMd: 531 texts of up to 141 symbols in 360 bytes, of which 21 units; LZMA and LZMA2: 10 streams, each whole, with a byte changed, or cut off, looks of 1 or 3 bytes or all that is left; DEFLATE: 64 and 32 bit words; the compressor: 12 inputs at all 13 levels, and outputs too small; keys: 2 threads, 4 requests out of 8, a ring of 2; jobs of the others | 657,000 |
| `nativezip` | `ReadsStayInside`, `ReadsWhatWasWritten`, `FileIsWholeOrGone`, `HandleOutlivesCalls` | 6 archives, 2 of them with any one number changed or cut off; 2 threads | 676,000 |
| `nativezip_comment` | `FakesAreRejected`: violated | archives with a signature in the comment that states a comment of its own, shorter than, as long as, or longer than what is left | |

Why these bounds are enough to be interesting. In the cache, either file fits in
the budget and both do not, so every second write trims; one fetcher can write
while another reads and a maintainer sweeps; the two keys lie on two stripes, and
both fetchers may choose the same key, which covers contention on one. Only one
of them is encrypted, so `clearEncrypted` spares the other. For the sessions, two
callers are a user and a closer, two passwords force a replacement, and with four
names no call ever waits for one. Three coroutines let an ending
drain, its successor and one being launched exist together. Two workers and two
entries are the least that count in one order and report in the other.

In the 7z handle the first block has three files and a window of two cells, so a
file ends inside a window, at its end, and behind the damage; the two ciphered
blocks differ in their key, so the cached one must be replaced; the last blocks of
cipher are padded. The headers have every section of the format at least once;
one-byte changes and cuts reach the error paths. The encoded streams contain every
kind of symbol, an end mark, matches that overlap themselves and that reach
across the end of a wrapping dictionary, every reset of LZMA2, plain chunks, and a
distance before the beginning. PPMd's heap is so small that its texts restart
the model, glue free blocks - up to `LimitNU` 4 units, and with used ones behind them - and
fail to get units in the middle of an update;
`MaxFreq` 16 lets rescaling happen. DEFLATE's streams give the fast loop room
for several turns, one turn, or none. Where the code takes any number, they take a
few of its range: offsets of 1, a word less one and a word (one for each way to copy),
stored blocks of 0, 1 and all bytes that are left, 4 and 19 lengths of the precode. The compressor's inputs, of up to 90 bytes
with a window of 32 and blocks of 8 to 50, make the tables slide, blocks
end early and rewind, stores fill and hashes collide; the output may have any room
down to a byte less than is needed. The archives of `nativezip` cover a comment
that contains a signature whose own comment does not fit, ZIP64 records with and without escapes, bytes in
front, extra fields that differ between the two headers, directories, encrypted
entries and unknown methods.

All constants are small sets; only the requests of
`BatchThumbnailSweep`, each made once, the interruptions of `write()` (`Interrupts`)
and the lengths of texts and streams bound the length of a behaviour.

Deadlock is checked in every run but `sweep_list`, where the screen has gone and
nothing is left to do, and `codecs`, `nativezip` and `nativezip_comment`, where a stream,
a job or a session comes to its end.

### Fairness

Processes and coroutines that can go on do go on (weak fairness per process, on
the steps *after* a call has begun); nobody has to make a call, so no property
rests on new calls. Beyond that,

- `SevenZSession` assumes that a caller waiting for a session's lock gets it when
  it becomes free again and again (strong fairness): kotlinx's `Mutex` queues its
  waiters in order;
- `ThumbnailSweepQueue` assumes that a scan ends. `SweepsEnd` is what discharges
  this for the sweep;
- `BatchThumbnailSweep` assumes that requests are answered and decoding ends; a
  paused worker polls every 80 ms, and finitely many requests pause it, so weak
  fairness is enough. With an unending supply of requests the sweep may indeed
  wait for ever, which is what the code intends;
- `Native7z` assumes weak fairness of `Work`, the steps of a call under way on its
  thread. That a call returns is then the doing of the code: each turn of the
  decoding loop consumes, produces or gives up.

## 4. Proofs

`ArchiveDiskCacheProofs` proves, for every number of fetchers, maintainers, keys
and stripes and for all lengths,

- `Inductive`: `Spec => []IInv`, and from it `TypeCorrect`: `Spec => []TypeOK`;
- `NeverUndercounts`: `AppOps => (Spec => []SizeNeverUndercounts)`;
- `RespectsBudget`: `AppOps => (Spec => []BudgetAtRest)`;
- `PlanReachesBudget`: what `planLruTrim` leaves fits the budget, or nothing
  evictable is left.

The assumptions are those the module names: processes are disjoint, stripes are
total, lengths are additive and positive. `TypeOK` is not inductive, because
`trimToSize` subtracts what it freed from the counter: that the counter stays at
least 0 needs `TrimCoversFiles` (during a trim the counter holds the files left
and the bytes freed), which needs that nobody else moves the counter meanwhile
(`SweepsHoldGlobalLock`, and `CounterReady`: whoever accounts finds the counter
initialised), and that a file renamed meanwhile is still to be added
(`PendingHoldStripe`, `AddedCoversFile`). `IInv` is their conjunction, and each
part has its lemma. `BInv` adds what a finished sweep leaves behind
(`TrimReachesBudget`, `ClearLeavesLeased`, `CounterAtRest`) and the fact that
recency is a strict order of the files present, on which the plan rests.

`AppOps` says that `clearEncrypted` is not among the operations. The app never
calls it; with it, both properties fail, because it subtracts the length of a
file that was renamed but is not accounted for yet, and the counter then
stays below the directory.

The second part of the module, on leases, goes on from there, for every maintenance operation:

- `ReadersAreSafe` (`ReadersKeepTheirFile`) and `LeasesAreBalanced`
  (`LeasesMatchHandles`), both from `LeasesAreCounted`: `Spec => []LInv`. To say that
  a key is leased while somebody has a handle is not inductive: a release only keeps
  it if the counter is the *number* of handles (`CountsAreExact`, with the
  cardinality theorems of the library), and that a handle is open exactly from its
  acquisition to its first close (`HandlesAreHeld`). All but four kinds of step leave the
  leases alone and pick no leased file as victim (`QuietSteps`).
- `WritersCommitCleanly` (`CommitsAreClean`): two writers between rename and
  accounting hold the stripes of their keys (`PendingHoldStripe`), and each temporary
  file belongs to somebody who is writing or renaming it (`TmpHasWriter`).

`SevenZSessionProofs` proves, for every number of callers, passwords and sessions,
`UsedHandlesAreOpen` (`UsedHandleIsOpen`) and `RegisteredSessionsAreLive`
(`RegisteredIsLive`), from `SessionInvariant`: `Spec => []IInv`. The invariant says
what the code only shows by its nesting: which method may be at which place
(`CallsInPlace`) and has a session there (`SessionsInHand`), that whoever is inside
`withLock` holds the lock of the session in its hand (`LockIsHeld`), and that a
session about to be closed has left the registry (`VictimsAreUnregistered`). The proof
separates what a step does to its own locals (`InPlaceStep`, `InHandStep`), to those
of the others (`LocalStep`) and to the objects (`ChangesStep`: there are six ways); then it is
enough to see that handles are torn only by the holder of the lock, or of a session
whose lock is free (`TearsStep`), and that marks are set on victims only
(`FieldsStep`). Names of garbage objects being used again is part of it. The only
assumption is that `None` is none of the names.

`ThumbnailSweepQueueProofs` proves, for every number of callers, lists and
coroutines, `ScanRegistered` and `NeverStuck` (the
invariants of `sweep_queue`), `OnlyOneScan`, type correctness (`QueueTypes`), and `CoalescesSafely`:
initial states of the queue
are initial states of `CoalescingQueue`, and its steps are steps of it or
stutter. The invariants are not inductive. Between `trigger` and the
registration the queue is busy while no scan is registered, so the invariant
has to say that only one caller is there (`OnePreparation`) and that nobody else
knows of its coroutine (`FreshCoroutine`), that an idle queue has neither
(`IdleIsQuiet`), that every coroutine that may still scan is the registered one
or about to be (`LiveIsKnown`), and that a busy queue has one or the other
(`BusyIsKnown`, `RegisteredExists`). `QueueInvariant` is `Spec => []IInv` for their
conjunction.

`BatchThumbnailSweepProofs` proves, for all finite sets of images, workers and
requests, `PausesHaveOwners` (`NoPauseForNobody`: each step that raises the
counter adds a request, and one that takes a request away lowers the counter
unless it was reset), `BuffersAreValid` (`SessionOutlivesBuffers`: a worker that has
work belongs to a sweep that runs with its session open), `SolidSweepsShowTheirEnd`
(`SolidProgressCompletes`: a lone worker shows what it has just counted, and at the
end every image is counted) and `SweepTypes`
(type correctness: what is counted and shown is at most `Total`). The last two need an account
of the images: those cached before, counted, still to do, and in the hands of a
worker are together at most `Total` (`Accounted`), which in turn needs that
workers work only while the sweep runs (`WorkInv`). That the sets are finite is
`FiniteAssumption`.

`Native7zProofs` proves, for every archive, every size of block, window and cipher
buffer, and every history of extractions, errors, purges and reopenings of a handle,

- `HandleInvariant`: `Spec => []IInv`, where `IInv` is `TypeOK`, `KeyKnown` (the key
  remembered is the one its salt and cycles lead to), `Follows` (a decoder that is to
  be continued has decoded a prefix of the block it points at, right up to the damage,
  and `Position`: its next packed cell is the next that the look-ahead stream, or the
  cipher stream behind it, gives) and `InCall` (what each stage of a call can rely on,
  up to the reply);
- `StreamStaysInStep` (`StreamFollowsDecoder`) and `NothingIsReworked` (`NoRework`, an
  action property: a decoder that has begun the folder asked for is always resumed);
- `EveryFileIsServed`: `Spec => ServesEveryFile`, the refinement of `ArchiveReads`. A
  call is asked for in the step that begins it and answered in the one that leads to
  `"reply"`; everything in between maps to an `Answer` that still gives no reply, purges and
  reopenings to stutters (`StepServes`).

The heart of it is what a look at the stream gives, however short reads are
(`LookExactGives`, `AesLookGives`): the next packed cells, at least one while there is
one, and the stream behind those that are then used. With the cipher that rests on whole
blocks being read while whole blocks are left (`WholeBlocks`). A turn of the loop
(`CopyKeeps`, `LzmaKeeps`) then advances the prefix, or ends the call with an error
that is a fault or comes from the damage of the folder (`DamageIsHopeless`). The
assumptions are those the module names: sizes are positive and the cipher buffer is whole
blocks (`SizeAssumption`); packed streams lie in the file, are padded behind the
cipher, and give out no earlier than the damage (`FolderAssumption`); files lie in their
folders, as `FilesAreTiled` of `Archive7zProofs` proves of any archive that opens, and damage that no codec
notices meets a CRC (`FileAssumption`). TLC checks that
the instance of `native7z` satisfies them.

`Archive7zProofs` proves, for any bytes in the header of a file and anything packed
streams may unpack to (`FilesAssumption`: they are bytes), at any scale of the 32 and 64 bit
numbers (`HeaderAssumption`), and every sequence of openings, extractions and closings,

- `FilesAreTiled` (`FilesTileFolders`): in an archive that opens, every file lies in its
  folder, next to the one before it;
- `PassesDoAgree` (`PassesAgree`): whatever the header is, the second reading of it finds what
  the first has counted; and
- `FoldersDecodeAsBonded` (`DecodesAsBonded`): a folder that decodes holds what its
  bonds say. Left out are ciphered folders of three coders that `SzFolder_Decode2` has no recipe
  for (`HasRecipe`, section 5), unless they have a checksum, which is taken to find every
  difference;

all from `ArchiveIsGood`: `Spec => []IInv`. None of the three is inductive, for they say
nothing of where the tables come from. `IInv` says that an open archive is one that
`SzArEx_Open` may have left (`GoodArchive`): its folders were scanned from the very bytes that are
kept of them (`Folders`), there is a 64 bit size for each of their coders (`GoodFolders`),
the counts of streams are one per folder and can be read again, the digests
suffice for all that have one (`GoodSubStreams`), and the layout is what the loop
of `SzReadHeader2` makes of these (`IsLaid`). It also says that a closed archive
has no decoded folder left, so that a term always belongs to the tables that are there.

The argument has four parts.

1. *Reading.* A cursor that has passed another has only moved on (`Passed`), and
   each reader has a lemma with what it returns if it succeeds (`NumberIs`, `FolderItemIs`,
   `UnpackInfoIs`, `SubStreamsInfoIs`, up to `HeaderIs` and `OpenIs`). For loops there
   are `ReadingsAre` and `RanIs` (n readings, or failure) and `LoopRuns`. An
   induction over turns is done on a set: what holds at 0, and at k + 1 when at k, holds
   at all (`Upwards`).
2. *Layout.* Entry by entry (`EntryEndLaid`, `EnterOneLaid`), positions rise, every
   entry of a folder but the last ends before the folder does, and the last at its end
   (`Laid`); this needs the code's checks that the 64 bit sums did not wrap (`PlusIs`,
   `MinusIs`). An entry that is in no folder never lies between those of one
   (`Apart`). And digests given out stay within what the entered
   folders brought (`Dealt`, `DigestDealt`).
3. *The same bytes, twice.* Where the first reading had more bytes behind it than the
   second, both read the same (`Ahead`): numbers, bonds, and the coders that are
   scanned by `ReadUnpackInfo` and read by `SzGetNextFolderItem` (`CoderAhead`, `FolderReadAgain`).
   The scan is the laxer one, hence "if it succeeds".
4. *Recipes.* `Meaning` is computed stream by stream (`MeaningIs`); for every
   graph that has a recipe - one method, a method and a filter, a cipher in front of
   either, BCJ2 - it is the term that `SzFolder_Decode2` builds (`OneCoderMeans` to
   `FourCodersMean`, `DecodedIs`).

`NativeZipProofs` proves, for any number of threads, any files and any bound of
`write()`,

- `HandlesOutliveCalls` (`HandleOutlivesCalls`): whoever is at work holds the lock
  (`CallsHoldLock`), so a call that begins or closes finds nobody at work; hence the
  session is open, and mapped, as long as one is (`WorkersNeedSession`,
  `OpenIsMapped`, `ClosedIsEmpty`);
- `FilesAreWholeOrGone` (`FileIsWholeOrGone`): `Progress` says what the destination
  of a call holds at each step, after a short write the first bytes of the
  source (`PiecesJoin`), at the end all of them;
- `ReadsAreInside` (`ReadsStayInside`): whatever numbers a file claims, the search for the end
  record (`EocdInside`), the ZIP64 records (`DirectoryInside`), the walk over the
  directory (`DirectoryIsSound`) and the extraction of an entry (`PayloadInside`) read
  only bytes of the file. The walk is a recursive function of the number of records;
  that there is such a function (`StepsExist`), and that `Sound` holds after any number of them,
  is shown by the least number for which it fails (`LeastNat`), since the induction
  theorems of the library take an operator that the provers cannot supply. One record
  goes from `Sound` to `Sound` (`RecordIsSound`), and ZIP64 extra fields leave
  unsigned numbers unsigned (`ExtraKeepsSized`).

It assumes that `None` is no thread, that `write()` is asked for at least one
byte, that a comment's limit is a natural number (`LimitAssumption`), and that the numbers in the
records of a file are unsigned (`FileAssumption`), as `readLe16`, `readLe32` and `readLe64` make
them. Nothing is assumed of where they point.

`DeflateProofs` proves of the decompressor, for every stream, sizes of input and output and
symbols that come in it, on 32 and on 64 bits,

- `BitsAreAlwaysThere` (`BitsAreThere`): no lookup and no codeword takes bits that the
  bit buffer has not loaded, and the bytes taken are the bits used and those left;
- `BuffersAlwaysHold` (`BuffersHold`): no word is read behind the input, none
  stored behind the output, runs of codeword lengths stay in their array, and symbols are
  decoded with the tables of their block.

The invariant says of each state how many bits are there (`Sane`, with `Fed` for the
account of bytes and bits), and of the states of the fast loop, which looks at the
ends once a turn, how many bits a turn has used since and how many literals it has
written (`Turn`, with `Flag` and `Coded` for the tables): with the most that is left to use and to write, that is
what `FASTLOOP_MAX_BYTES_READ` and `FASTLOOP_MAX_BYTES_WRITTEN` allow for. Each refill
has a lemma with what is in the buffer behind it (`BranchlessIsSane`, `RefillIsSane`), and each
taking needs as much in front of it. What a match stores at most is `CopyFits`. The
loop over the precode's lengths is a recursive function; that there is one, and that the buffer
is sane after every length, is shown by the least number for which it fails. It assumes (`StreamAssumption`) that a word has 4 or 8
bytes, that a table has at most 11 bits, and what a match's length may be; TLC evaluates this for the streams of `Codecs`, whose steps of
`d` are those of `Deflate`.

Only model-checked: what the decoders and the compressors of the
engines compute, and their bounds, and that archives are read as they were
written (`OpensAsWritten` for 7z, `ReadsWhatWasWritten` for ZIP), whose hypothesis is
the writer of the instance, a list of files that meant something. Most of it is beyond the prover: the
readers and decoders are recursive, and what they yield for every input is an
induction over data; several of their modules therefore use `RECURSIVE`
operators freely. Liveness (`GlobalLockReleased`, `CallsEnd`, `SweepsEnd`,
`EveryCallReturns`) and the fairness part of `Coalesces` stay with TLC: the prover
has no rules for `ENABLED`.

## 5. What the models showed

Two disagreements between the code and its comments have a run:

- **The scan of a new list may use the old one** (`sweep_list`). The block that runs
  again has captured the list at the time it was triggered
  (`ui/viewmodel/ThumbnailSweepQueue.kt`, `ui/screen/ThumbnailGridScreen.kt:170`).
- **A signature inside a comment may be taken for the end record**
  (`nativezip_comment`). The search, from the end of the file, stops at the first
  signature whose comment fits behind it. `nativezip_jni.cpp:241` says that this
  rejects the fake ones in a comment; it rejects those that state too long a comment,
  and takes those that state one that fits. `ReadsWhatWasWritten` is about the archives
  without such a one.

The models of the app have further steps that break what a comment promises; no
run is spent on them:

- A leased file may be deleted (`CacheFileLeases.kt:18` against
  `ArchiveDiskCache.kt:274-280`): the trim reads the leases when it plans, and a
  reader that leases and verifies a file after that loses it. `ReadersKeepTheirFile`
  says that this window is the only one.
- A file may be counted twice (`ArchiveDiskCache.kt:163-167`): a first size
  listing between rename and accounting includes the file, which is then added
  again. The counter is too large until the next trim.
- A closed session may be opened again (`SevenZSessionManager.kt:192` against the
  comment at 844): a call that looked the session up before opens it anew when
  it gets the lock, although it is in no registry any more.
- A purge may race with a use (`SevenZSessionManager.kt:916` against 898): it locks
  the session its first look found and purges the one its second look found.
- The progress chip may stop short of the total
  (`ArchiveExtractionCoordinator.kt:646` against 657): two workers report in the
  other order than they counted.
- `cancelBackgroundSweep` sets the pause counter to 0 while requests are under
  way, and their end takes away the pauses of later ones, although
  `ArchiveExtractionCoordinator.kt:88` promises a pause until all have finished.

Remarks. A file that was just hit may be evicted, since
touching it takes a stripe lock that the trim does not know of. A
trigger after `clear` and before the cancelled scan has ended is lost. A session
registered between the two steps of `closeAll` is dropped without being closed.
Calls that open a session without its lock may leak one of two handles.

Of the engines:

- `nativezip_jni.cpp:353` reserves as many entries as a record claims before any
  is read; the bound above it is 2^31 - 2, not the size of the directory.
- A path string is logged after it was released (`nativezip_jni.cpp:655`, then 659,
  669, 676 and 682).
- `NativeZip.kt:36` allows several threads to extract through one handle at a time;
  `lifecycleLock` admits one.
- When `nativeGetEntries` throws, the handle opened before is never closed
  (`NativeZip.kt:177-187` and 199-210).
- An entry whose uncompressed size is stated as 0 is accepted without being
  inflated. That no CRC of a ZIP entry is compared is meant so (`NativeZip.kt:34`).
- `CheckSupportedFolder` accepts filters behind the cipher which
  the path for the cipher does not apply (`7zDec.c:565` and 769-805); its bonds are
  not validated (561-564). `DecodesAsBonded` is about the other graphs.
- `deflate_compress.c:3146` says that the count of literals should not become
  negative. It does when a block consists of matches and is cut back to where it
  was last checked, since the last match seen there reaches beyond that place.
- A folder without files may have a size (`7zArcIn.c:1357`); no file then lies in it.

Hazards of the code that no property covers: threads of the decompression pool
blocked in `runBlocking` (`SevenZSessionManager.kt:866`); an empty file that makes
the handle forget its block (`7zArcIn.c:1647`); the file offset shared by
duplicated descriptors (`native7z_jni.cpp:228`); decode tables and code lengths
of DEFLATE that share memory (`decompress_template.h:331`); and, in parts not
modelled yet, the asynchronous flush of thumbnails outside their locks
(`ThumbnailDiskCache.kt:414`), a pool of memory files that evicts one entry per
insertion (`MemFdPipeline.kt:66`), aliases claimed by two packs and reads without
the lock (`SessionPasswordStore.kt:79` and 54), handles evicted under streams still
read (`ArchiveHandlePool.kt:112`), purges that drop each other's registration and
prefetches that overtake requests (`ArchiveExtractionCoordinator.kt:126` and 704),
keys stored after they were to be forgotten (`SevenZKeyCache.kt:125`), and lists
of images that arrive after another pack was opened (`ViewerViewModel.kt:60`).

## 6. Plan

Done, in this order: `ArchiveDiskCache` with its proofs, `SevenZSession`,
`ThumbnailSweepQueue` with `CoalescingQueue`, `BatchThumbnailSweep`, and the proofs
about the last two; then the engines: `Native7z` with `ArchiveReads`, the 7z header,
LZMA, the ZIP container and session, and the codecs.

To come:

1. `ArchiveLocks`: the rest of the coordinator, with the lock per archive, prefetch
   that yields to interactive requests, and the delayed purge.
2. `ThumbnailDiskCache`: stripe locks with an asynchronous flush outside them, and
   an abstract *bounded cache* that both disk caches should implement up to the
   exceptions of section 5.
3. `SessionPasswordStore` with the key caches it clears: the consistency of the
   four maps as an inductive invariant, proved.
4. `MemFdPipeline` and `ArchiveHandlePool`: pools that evict under their readers.
5. `PackListMerge` and `ViewerLoads`: results that arrive late.
6. `NaturalOrder`: the comparator against a reference order over short names.
7. The resolver and the video launcher: temporary copies, their promotion and their
   trimming; the password book.

Theorems to come: tables and memory of the other codecs as far as they do not rest on
recursion; the password store's invariant.

## 7. How to run

    tlc -workers 2 -config ArchiveDiskCache_app.cfg MCArchiveDiskCache.tla
    tlc -workers 2 -config Native7z.cfg MCNative7z.tla
    tlc -workers 2 -config Archive7z.cfg MCArchive7z.tla
    tlc -workers 2 -config Codecs.cfg MCCodecs.tla
    tlc -workers 2 -config NativeZip.cfg MCNativeZip.tla
    tlc -workers 2 -config NativeZip_comment.cfg MCNativeZip.tla
    tlapm ArchiveDiskCacheProofs.tla
    tlapm SevenZSessionProofs.tla
    tlapm Native7zProofs.tla
    tlapm ThumbnailSweepQueueProofs.tla
    tlapm BatchThumbnailSweepProofs.tla
    tlapm NativeZipProofs.tla
    tlapm DeflateProofs.tla
    tlapm Archive7zProofs.tla

Each run of `PROJECT.json` names its module, its `.cfg` and what to expect; no run
takes more than a few minutes on two cores. The proofs of `Archive7zProofs` take about
a quarter of an hour, the others a few minutes each.
