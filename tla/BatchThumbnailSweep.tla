------------------------- MODULE BatchThumbnailSweep -------------------------
(***************************************************************************)
(* The thumbnail sweep of a pack (startBatchThumbnailSweep with            *)
(* ParallelBatch.kt) and the foreground requests that pause it.  A request *)
(* is abstracted to its pause and its answer; thumbnails stay cached here. *)
(* Cached entries and direct buffers are told apart by the native session. *)
(***************************************************************************)
EXTENDS Naturals, FiniteSets

CONSTANTS
    Entries,    \* images of the pack
    Requests,   \* foreground requests, each made once (bounds them)
    Workers,    \* coroutines of a parallel batch
    None

ASSUME NoneAssumption == None \notin Entries \cup Requests \cup Workers
ASSUME FiniteAssumption ==
    IsFiniteSet(Entries) /\ IsFiniteSet(Requests) /\ IsFiniteSet(Workers)

VARIABLES
    is7z,               \* the pack is a solid archive
    throttled,          \* PowerThermalManager.isThrottled
    sweepPauseCounter,
    thumbs,             \* entries in ThumbnailDiskCache
    pc,                 \* the requests
    sweep, cancelled,   \* the sweep, and whether its job was cancelled
    activeSweepJob,     \* it is registered
    session,            \* its native session: "none", "open", "closed"
    wpc, item, mine,    \* its workers, their item and the count they report
    todo, cachedBase, completed,
    chip                \* the progress shown last

workers  == <<wpc, item, mine, completed, todo>>
sweeping == <<sweep, cancelled, activeSweepJob, session, cachedBase, workers, chip>>
vars     == <<is7z, throttled, sweepPauseCounter, thumbs, pc, sweeping>>

Total == Cardinality(Entries)

\* One coroutine sweeps a solid archive, several the others.
Active == IF is7z THEN {CHOOSE w \in Workers : TRUE} ELSE Workers

Init ==
    /\ is7z \in BOOLEAN
    /\ throttled = FALSE
    /\ sweepPauseCounter = 0
    /\ thumbs = {}
    /\ pc = [r \in Requests |-> "new"]
    /\ sweep = "off" /\ cancelled = FALSE /\ activeSweepJob = FALSE
    /\ session = "none"
    /\ wpc = [w \in Workers |-> "end"]
    /\ item = [w \in Workers |-> None]
    /\ mine = [w \in Workers |-> 0]
    /\ todo = {} /\ cachedBase = 0 /\ completed = 0 /\ chip = 0

-----------------------------------------------------------------------------
(* Foreground requests: extractHighPriority, extractThumbnailDirectResult,   *)
(* the tiles of other packs (ZipImageFetcher) and the viewer.                *)

At(r, l) == pc' = [pc EXCEPT ![r] = l]

pauseBackgroundSweep(r) ==
    /\ pc[r] = "new"
    /\ sweepPauseCounter' = sweepPauseCounter + 1
    /\ At(r, "asking")
    /\ UNCHANGED <<is7z, throttled, thumbs, sweeping>>

\* The request is answered, perhaps with a new thumbnail, or fails.
Answer(r) ==
    /\ pc[r] = "asking"
    /\ \E s \in {{}} \cup {{e} : e \in Entries} : thumbs' = thumbs \cup s
    /\ At(r, "finally")
    /\ UNCHANGED <<is7z, throttled, sweepPauseCounter, sweeping>>

\* Mutant: a request that fails or is cancelled does not resume the sweep.
resumeUnlessFailed(r) ==
    /\ pc[r] = "finally"
    /\ \/ UNCHANGED sweepPauseCounter
       \/ sweepPauseCounter' = IF sweepPauseCounter > 0 THEN sweepPauseCounter - 1 ELSE 0
    /\ At(r, "done")
    /\ UNCHANGED <<is7z, throttled, thumbs, sweeping>>

\* The finally block of every request.
resumeBackgroundSweep(r) ==
    /\ pc[r] = "finally"
    /\ sweepPauseCounter' = IF sweepPauseCounter > 0 THEN sweepPauseCounter - 1 ELSE 0
    /\ At(r, "done")
    /\ UNCHANGED <<is7z, throttled, thumbs, sweeping>>

-----------------------------------------------------------------------------
(* startBatchThumbnailSweep *)

\* The sweep registers itself and looks for entries without a thumbnail.
startBatchThumbnailSweep ==
    /\ sweep \in {"off", "over", "stopped"}
    /\ ~throttled
    /\ sweep' = "filter"
    /\ cancelled' = FALSE
    /\ activeSweepJob' = TRUE
    /\ UNCHANGED <<is7z, throttled, sweepPauseCounter, thumbs, pc, session,
                   cachedBase, workers, chip>>

\* A sweep that has nothing to do ends; the others begin, those of a ZIP
\* archive perhaps with a native session.
Filter ==
    /\ sweep = "filter"
    /\ IF Entries \subseteq thumbs
       THEN /\ sweep' = "off"
            /\ activeSweepJob' = FALSE
            /\ UNCHANGED <<session, cachedBase, workers>>
       ELSE /\ sweep' = "running"
            /\ todo' = Entries \ thumbs
            /\ cachedBase' = Cardinality(thumbs)
            /\ completed' = 0
            /\ wpc' = [w \in Workers |-> IF w \in Active THEN "take" ELSE "end"]
            /\ session' \in IF is7z THEN {"none"} ELSE {"none", "open"}
            /\ UNCHANGED <<item, mine, activeSweepJob>>
    /\ UNCHANGED <<is7z, throttled, sweepPauseCounter, thumbs, pc, cancelled,
                   chip>>

WorkerAt(w, l) == wpc' = [wpc EXCEPT ![w] = l]

\* A worker takes the next item of the shared cursor, or ends; a throttled
\* phone ends a solid sweep, and skips the item of the others.
Take(w) ==
    /\ sweep = "running" /\ wpc[w] = "take"
    /\ \/ /\ todo = {} \/ cancelled \/ (is7z /\ throttled)
          /\ WorkerAt(w, "end")
          /\ UNCHANGED <<item, todo>>
       \/ /\ ~cancelled
          /\ \E e \in todo :
                /\ todo' = todo \ {e}
                /\ IF throttled
                   THEN ~is7z /\ UNCHANGED <<wpc, item>>
                   ELSE WorkerAt(w, "poll") /\ item' = [item EXCEPT ![w] = e]
    /\ UNCHANGED <<is7z, throttled, sweepPauseCounter, thumbs, pc, sweep,
                   cancelled, activeSweepJob, session, cachedBase, mine, completed, chip>>

\* The worker polls until nobody pauses the sweep.
Poll(w) ==
    /\ wpc[w] = "poll"
    /\ sweepPauseCounter = 0 \/ cancelled
    /\ WorkerAt(w, IF cancelled THEN "end" ELSE "decode")
    /\ UNCHANGED <<is7z, throttled, sweepPauseCounter, thumbs, pc, sweep,
                   cancelled, activeSweepJob, session, cachedBase, item, mine, completed,
                   todo, chip>>

\* The thumbnail is made, or was there already, or the extraction fails, which
\* counts for a solid archive and for a missing file of a folder; a
\* cancelled worker may end here.
Decode(w) ==
    /\ wpc[w] = "decode"
    /\ \/ thumbs' = thumbs \cup {item[w]} /\ WorkerAt(w, "count")
       \/ UNCHANGED thumbs /\ WorkerAt(w, "count")
       \/ UNCHANGED thumbs /\ ~is7z /\ WorkerAt(w, "take")
       \/ UNCHANGED thumbs /\ cancelled /\ WorkerAt(w, "end")
    /\ UNCHANGED <<is7z, throttled, sweepPauseCounter, pc, sweep, cancelled,
                   activeSweepJob, session, cachedBase, item, mine, completed, todo, chip>>

Count(w) ==
    /\ wpc[w] = "count"
    /\ completed' = completed + 1
    /\ mine' = [mine EXCEPT ![w] = cachedBase + completed']
    /\ WorkerAt(w, "report")
    /\ UNCHANGED <<is7z, throttled, sweepPauseCounter, thumbs, pc, sweep,
                   cancelled, activeSweepJob, session, cachedBase, item, todo, chip>>

\* onProgress, in another step than the count.
Report(w) ==
    /\ wpc[w] = "report"
    /\ chip' = mine[w]
    /\ WorkerAt(w, "take")
    /\ item' = [item EXCEPT ![w] = None]
    /\ mine' = [mine EXCEPT ![w] = 0]
    /\ UNCHANGED <<is7z, throttled, sweepPauseCounter, thumbs, pc, sweep,
                   cancelled, activeSweepJob, session, cachedBase, completed, todo>>

\* Mutant: a cancelled batch does not wait for its workers.
JoinUnlessCancelled ==
    /\ sweep = "running"
    /\ cancelled \/ \A w \in Workers : wpc[w] = "end"
    /\ sweep' = "final"
    /\ UNCHANGED <<is7z, throttled, sweepPauseCounter, thumbs, pc, cancelled,
                   activeSweepJob, session, cachedBase, workers, chip>>

\* runParallelBatch returns, or throws, when all workers have ended.
Join ==
    /\ sweep = "running"
    /\ \A w \in Workers : wpc[w] = "end"
    /\ sweep' = "final"
    /\ UNCHANGED <<is7z, throttled, sweepPauseCounter, thumbs, pc, cancelled,
                   activeSweepJob, session, cachedBase, workers, chip>>

\* What the end of the sweep compares with the total: a ZIP sweep leaves out
\* the entries that were cached before.
Counted == IF is7z THEN cachedBase + completed ELSE completed

EndSweep(l, c) ==
    /\ sweep = "final"
    /\ sweep' = l
    /\ chip' = c
    /\ activeSweepJob' = FALSE
    /\ session' = IF session = "open" THEN "closed" ELSE session
    /\ item' = [w \in Workers |-> None]
    /\ mine' = [w \in Workers |-> 0]
    /\ todo' = {} /\ cachedBase' = 0 /\ completed' = 0
    /\ UNCHANGED <<is7z, throttled, sweepPauseCounter, thumbs, pc, cancelled,
                   wpc>>

\* Mutant: there is no final report for entries that were not counted.
FinalWithoutReport ==
    \/ ~cancelled /\ EndSweep("over", chip)
    \/ cancelled /\ EndSweep("stopped", chip)

\* The last report, which a cancelled ZIP sweep never makes, and a cancelled
\* solid sweep only if it left its loop by itself; the session is closed.
Final ==
    \/ /\ Counted < Total /\ ~throttled
       /\ \/ ~cancelled /\ EndSweep("over", Total)
          \/ cancelled /\ is7z /\ EndSweep("stopped", Total)
    \/ Counted >= Total /\ ~cancelled /\ EndSweep("over", chip)
    \/ (cancelled \/ (Counted < Total /\ throttled)) /\ EndSweep("stopped", chip)

\* A grid goes away: nobody pauses any more, and the registered sweep ends.
cancelBackgroundSweep ==
    /\ sweepPauseCounter' = 0
    /\ cancelled' = (cancelled \/ activeSweepJob)
    /\ activeSweepJob' = FALSE
    /\ UNCHANGED <<is7z, throttled, thumbs, pc,
                   sweep, session, cachedBase, workers, chip>>

\* The phone gets hot, or cools down.
Throttle ==
    /\ throttled' = ~throttled
    /\ UNCHANGED <<is7z, sweepPauseCounter, thumbs, pc, sweeping>>

-----------------------------------------------------------------------------

Proceed(r) == Answer(r) \/ resumeBackgroundSweep(r)
Work(w)    == Take(w) \/ Poll(w) \/ Decode(w) \/ Count(w) \/ Report(w)

Next ==
    \/ \E r \in Requests : pauseBackgroundSweep(r) \/ Proceed(r)
    \/ startBatchThumbnailSweep \/ Filter \/ Join \/ Final
    \/ \E w \in Workers : Work(w)
    \/ cancelBackgroundSweep \/ Throttle

Spec == Init /\ [][Next]_vars

\* Requests are answered, coroutines go on, and decoding ends; a paused worker
\* polls every 80 ms, and there are finitely many requests.
Fairness ==
    /\ \A r \in Requests : WF_vars(Proceed(r))
    /\ \A w \in Workers : WF_vars(Work(w))
    /\ WF_vars(Filter) /\ WF_vars(Join) /\ WF_vars(Final)

FairSpec == Spec /\ Fairness

-----------------------------------------------------------------------------
(* Properties *)

\* The type invariant of the requests and the sweep.
TypeOK ==
    /\ is7z \in BOOLEAN /\ throttled \in BOOLEAN
    /\ sweepPauseCounter \in Nat
    /\ thumbs \subseteq Entries
    /\ pc \in [Requests -> {"new", "asking", "finally", "done"}]
    /\ sweep \in {"off", "filter", "running", "final", "over", "stopped"}
    /\ cancelled \in BOOLEAN /\ activeSweepJob \in BOOLEAN
    /\ session \in {"none", "open", "closed"}
    /\ wpc \in [Workers -> {"take", "poll", "decode", "count", "report", "end"}]
    /\ item \in [Workers -> Entries \cup {None}]
    /\ mine \in [Workers -> 0..Total]
    /\ todo \subseteq Entries /\ cachedBase \in 0..Total /\ completed \in 0..Total
    /\ chip \in 0..Total

Asking == {r \in Requests : pc[r] \in {"asking", "finally"}}

\* The sweep is never paused on behalf of nobody: whatever requests fail, are
\* cancelled or forgotten by cancelBackgroundSweep, there are at least as many
\* of them as the counter says, so the sweep goes on when they are gone.
NoPauseForNobody == sweepPauseCounter <= Cardinality(Asking)

\* The native session of a ZIP sweep is open while a worker decodes from its
\* buffers, a cancelled sweep's too: the batch joins its workers first.
SessionOutlivesBuffers == (\E w \in Workers : wpc[w] = "decode") => session # "closed"

\* The sweep of a solid archive that ran to its end has shown its last entry.
SolidProgressCompletes == is7z /\ sweep = "over" => chip = Total

\* A sweep comes to its end when the requests that pause it do: no pause and
\* no worker outlives what it is there for.
SweepsEnd == sweep = "running" ~> sweep # "running"

=============================================================================
