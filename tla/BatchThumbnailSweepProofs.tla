---------------------- MODULE BatchThumbnailSweepProofs ----------------------
(***************************************************************************)
(* What holds of BatchThumbnailSweep for every number of entries, workers  *)
(* and requests: pauses have owners, and the native session is open while  *)
(* its buffers are read.                                                   *)
(***************************************************************************)
EXTENDS BatchThumbnailSweep, FiniteSetTheorems, TLAPS

-----------------------------------------------------------------------------
(* Pauses *)

RequestPcs == {"new", "asking", "finally", "done"}

\* Requests and the counter, without the sweep that reads it.
PauseInv ==
    /\ sweepPauseCounter \in Nat
    /\ pc \in [Requests -> RequestPcs]
    /\ NoPauseForNobody

\* The requests under way are finitely many.
LEMMA AskingFinite == IsFiniteSet(Asking) /\ Cardinality(Asking) \in Nat
<1>1. Asking \subseteq Requests
  BY DEF Asking
<1> QED
  BY <1>1, FiniteAssumption, FS_Subset, FS_CardinalityType

\* A request that begins adds itself and its pause.
LEMMA PauseStep ==
    ASSUME PauseInv, NEW r \in Requests, pauseBackgroundSweep(r)
    PROVE  PauseInv'
<1> USE DEF PauseInv, RequestPcs, pauseBackgroundSweep, At
<1>1. Asking' = Asking \cup {r} /\ r \notin Asking
  BY DEF Asking
<1>2. Cardinality(Asking') = Cardinality(Asking) + 1
  BY <1>1, AskingFinite, FS_AddElement
<1>3. NoPauseForNobody'
  BY <1>2, AskingFinite DEF NoPauseForNobody
<1> QED
  BY <1>3

\* The answer to a request leaves its pause alone.
LEMMA AnswerStep ==
    ASSUME PauseInv, NEW r \in Requests, Answer(r)
    PROVE  PauseInv'
<1> USE DEF PauseInv, RequestPcs, Answer, At
<1>1. Asking' = Asking
  BY DEF Asking
<1>2. NoPauseForNobody'
  BY <1>1 DEF NoPauseForNobody
<1> QED
  BY <1>2

\* A request that ends takes a pause away, if there is one left.
LEMMA ResumeStep ==
    ASSUME PauseInv, NEW r \in Requests, resumeBackgroundSweep(r)
    PROVE  PauseInv'
<1> USE DEF PauseInv, RequestPcs, resumeBackgroundSweep, At
<1>1. Asking' = Asking \ {r} /\ r \in Asking
  BY DEF Asking
<1>2. Cardinality(Asking') = Cardinality(Asking) - 1
  BY <1>1, AskingFinite, FS_RemoveElement
<1>3. Cardinality(Asking) > 0
  BY <1>1, AskingFinite, FS_EmptySet
<1>4. NoPauseForNobody'
  BY <1>2, <1>3, AskingFinite DEF NoPauseForNobody
<1> QED
  BY <1>4

\* cancelBackgroundSweep forgets all pauses.
LEMMA CancelStep ==
    ASSUME PauseInv, cancelBackgroundSweep
    PROVE  PauseInv'
<1> USE DEF PauseInv, cancelBackgroundSweep
<1>1. Asking' = Asking
  BY DEF Asking
<1>2. NoPauseForNobody'
  BY <1>1, AskingFinite DEF NoPauseForNobody
<1> QED
  BY <1>2

\* All other steps are of the sweep or the phone, and touch neither.
LEMMA PauseFrame ==
    ASSUME PauseInv, UNCHANGED <<sweepPauseCounter, pc>>
    PROVE  PauseInv'
  BY DEF PauseInv, NoPauseForNobody, Asking

\* The sweep is never paused on behalf of nobody, however requests fail, are
\* cancelled, or are forgotten by cancelBackgroundSweep.
THEOREM PausesHaveOwners == Spec => []NoPauseForNobody
<1>1. Init => PauseInv
  <2> SUFFICES ASSUME Init PROVE PauseInv
    OBVIOUS
  <2>1. sweepPauseCounter = 0 /\ pc \in [Requests -> RequestPcs]
    BY DEF Init, RequestPcs
  <2> QED
    BY <2>1, AskingFinite DEF PauseInv, NoPauseForNobody
<1>2. PauseInv /\ [Next]_vars => PauseInv'
  <2> SUFFICES ASSUME PauseInv, [Next]_vars PROVE PauseInv'
    OBVIOUS
  <2>1. ASSUME NEW r \in Requests, pauseBackgroundSweep(r) \/ Proceed(r) PROVE PauseInv'
    BY <2>1, PauseStep, AnswerStep, ResumeStep DEF Proceed
  <2>2. ASSUME startBatchThumbnailSweep \/ Filter \/ Join \/ Throttle PROVE PauseInv'
    BY <2>2, PauseFrame DEF startBatchThumbnailSweep, Filter, Join, Throttle
  <2>3. ASSUME Final PROVE PauseInv'
    BY <2>3, PauseFrame DEF Final, EndSweep
  <2>4. ASSUME NEW w \in Workers, Work(w) PROVE PauseInv'
    BY <2>4, PauseFrame DEF Work, Take, Poll, Decode, Count, Report
  <2>5. CASE cancelBackgroundSweep
    BY <2>5, CancelStep
  <2>6. CASE UNCHANGED vars
    BY <2>6, PauseFrame DEF vars
  <2> QED
    BY <2>1, <2>2, <2>3, <2>4, <2>5, <2>6 DEF Next
<1>3. PauseInv => NoPauseForNobody
  BY DEF PauseInv
<1> QED
  BY <1>1, <1>2, <1>3, PTL DEF Spec

-----------------------------------------------------------------------------
(* The native session *)

\* Workers work during a sweep only, whose session is not closed before its end.
SessionInv ==
    /\ wpc \in [Workers -> {"take", "poll", "decode", "count", "report", "end"}]
    /\ \A w \in Workers : wpc[w] # "end" => sweep = "running"
    /\ sweep \in {"running", "final"} => session # "closed"

\* A worker that goes on does so within its sweep.
LEMMA WorkerStep ==
    ASSUME SessionInv, NEW w \in Workers, Work(w)
    PROVE  SessionInv'
<1> USE DEF SessionInv, WorkerAt
<1>1. CASE Take(w)
  BY <1>1 DEF Take
<1>2. CASE Poll(w)
  BY <1>2 DEF Poll
<1>3. CASE Decode(w)
  BY <1>3 DEF Decode
<1>4. CASE Count(w)
  BY <1>4 DEF Count
<1>5. CASE Report(w)
  BY <1>5 DEF Report
<1> QED
  BY <1>1, <1>2, <1>3, <1>4, <1>5 DEF Work

\* The native session of a ZIP sweep is open while a worker decodes from its
\* buffers: runParallelBatch joins its workers before the sweep's finally
\* block closes the session, also when the sweep is cancelled.
THEOREM BuffersAreValid == Spec => []SessionOutlivesBuffers
<1>1. Init => SessionInv
  BY DEF Init, SessionInv
<1>2. SessionInv /\ [Next]_vars => SessionInv'
  <2> SUFFICES ASSUME SessionInv, [Next]_vars PROVE SessionInv'
    OBVIOUS
  <2> USE DEF SessionInv
  <2>1. ASSUME NEW r \in Requests, pauseBackgroundSweep(r) \/ Proceed(r)
        PROVE  SessionInv'
    BY <2>1 DEF pauseBackgroundSweep, Proceed, Answer, resumeBackgroundSweep, sweeping,
       workers
  <2>2. CASE startBatchThumbnailSweep
    BY <2>2 DEF startBatchThumbnailSweep, workers
  <2>3. CASE Filter
    BY <2>3 DEF Filter, workers
  <2>4. CASE Join
    BY <2>4 DEF Join, workers
  <2>5. CASE Final
    BY <2>5 DEF Final, EndSweep
  <2>6. ASSUME NEW w \in Workers, Work(w) PROVE SessionInv'
    BY <2>6, WorkerStep
  <2>7. CASE cancelBackgroundSweep
    BY <2>7 DEF cancelBackgroundSweep, workers
  <2>8. CASE Throttle
    BY <2>8 DEF Throttle, sweeping, workers
  <2>9. CASE UNCHANGED vars
    BY <2>9 DEF vars, sweeping, workers
  <2> QED
    BY <2>1, <2>2, <2>3, <2>4, <2>5, <2>6, <2>7, <2>8, <2>9 DEF Next
<1>3. SessionInv => SessionOutlivesBuffers
  BY DEF SessionInv, SessionOutlivesBuffers
<1> QED
  BY <1>1, <1>2, <1>3, PTL DEF Spec
-----------------------------------------------------------------------------
(* Counting *)

\* Workers with an item that is not counted yet.
Uncounted == {w \in Workers : wpc[w] \in {"poll", "decode", "count"}}

\* Entries done, in hand and still to do are no more than there are.
Accounted == cachedBase + completed + Cardinality(todo) + Cardinality(Uncounted) <= Total

\* A worker works for the sweep that runs, and has an item when it says so.
WorkInv ==
    \A w \in Workers : /\ wpc[w] # "end" => sweep = "running"
                       /\ w \in Uncounted => item[w] \in Entries

CountInv ==
    /\ TypeOK /\ Accounted
    /\ WorkInv

\* The number of images.
LEMMA TotalNat == Total \in Nat
  BY FiniteAssumption, FS_CardinalityType DEF Total

\* A set of entries has at most Total elements.
LEMMA EntrySets ==
    ASSUME NEW S \in SUBSET Entries
    PROVE  IsFiniteSet(S) /\ Cardinality(S) \in Nat /\ Cardinality(S) <= Total
  BY FiniteAssumption, FS_Subset, FS_CardinalityType DEF Total

\* The workers that hold an item are finitely many.
LEMMA UncountedFinite == IsFiniteSet(Uncounted) /\ Cardinality(Uncounted) \in Nat
<1>1. Uncounted \subseteq Workers
  BY DEF Uncounted
<1> QED
  BY <1>1, FiniteAssumption, FS_Subset, FS_CardinalityType

\* A worker that gives up its item, or counts it, is one less.
LEMMA UncountedLess ==
    ASSUME NEW w \in Uncounted, Uncounted' = Uncounted \ {w}
    PROVE  /\ Cardinality(Uncounted') = Cardinality(Uncounted) - 1
           /\ Cardinality(Uncounted) > 0
  BY UncountedFinite, FS_RemoveElement, FS_EmptySet

\* Requests, heat and cancellation leave the count alone.
LEMMA CountFrame ==
    ASSUME CountInv, TypeOK', UNCHANGED <<sweep, wpc, item, cachedBase, completed, todo>>
    PROVE  CountInv'
  BY DEF CountInv, WorkInv, Accounted, Uncounted, Total

\* The steps of requests, of the phone and of cancelBackgroundSweep.
LEMMA OutsideStep ==
    ASSUME CountInv,
           \/ \E r \in Requests : pauseBackgroundSweep(r) \/ Proceed(r)
           \/ cancelBackgroundSweep \/ Throttle
    PROVE  CountInv'
<1>1. TypeOK' /\ UNCHANGED <<sweep, wpc, item, cachedBase, completed, todo>>
  <2> USE DEF CountInv, TypeOK, sweeping, workers, At
  <2>1. ASSUME NEW r \in Requests, pauseBackgroundSweep(r) \/ Proceed(r)
        PROVE  TypeOK' /\ UNCHANGED <<sweep, wpc, item, cachedBase, completed, todo>>
    BY <2>1 DEF pauseBackgroundSweep, Proceed, Answer, resumeBackgroundSweep
  <2>2. CASE cancelBackgroundSweep
    BY <2>2 DEF cancelBackgroundSweep
  <2>3. CASE Throttle
    BY <2>3 DEF Throttle
  <2> QED
    BY <2>1, <2>2, <2>3
<1> QED
  BY <1>1, CountFrame

\* A sweep starts with all its entries cached or still to do.
LEMMA FilterStep ==
    ASSUME CountInv, Filter
    PROVE  CountInv'
<1> USE DEF CountInv, TypeOK, Filter
<1>1. CASE Entries \subseteq thumbs
  BY <1>1 DEF WorkInv, Accounted, Uncounted, Total, workers
<1>2. CASE ~(Entries \subseteq thumbs)
  <2>1. Uncounted' = {}
    BY <1>2 DEF Uncounted
  <2>2. /\ IsFiniteSet(thumbs) /\ Cardinality(thumbs) \in 0..Total
        /\ Cardinality(Entries \ thumbs) = Total - Cardinality(thumbs)
    <3>1. thumbs \in SUBSET Entries /\ Entries \cap thumbs = thumbs
      OBVIOUS
    <3>2. IsFiniteSet(thumbs) /\ Cardinality(thumbs) \in Nat /\ Cardinality(thumbs) <= Total
      BY <3>1, EntrySets
    <3>3. Cardinality(Entries \ thumbs)
             = Cardinality(Entries) - Cardinality(Entries \cap thumbs)
      BY FiniteAssumption, FS_Difference
    <3>4. Cardinality(Entries \ thumbs) = Total - Cardinality(thumbs)
      BY <3>1, <3>3 DEF Total
    <3> QED
      BY <3>2, <3>4, TotalNat
  <2>3. TypeOK'
    BY <1>2, <2>2, TotalNat
  <2>4. Accounted'
    BY <1>2, <2>1, <2>2, TotalNat, FS_EmptySet DEF Accounted, Total
  <2> QED
    BY <1>2, <2>1, <2>3, <2>4 DEF WorkInv
<1> QED
  BY <1>1, <1>2

\* An item taken from the cursor is in hand, or skipped.
LEMMA TakeStep ==
    ASSUME CountInv, NEW w \in Workers, Take(w)
    PROVE  CountInv'
<1> USE DEF CountInv, Take, WorkerAt
<1>1. TypeOK' /\ WorkInv'
  <2>1. TypeOK'
    BY DEF TypeOK, Total
  <2>2. WorkInv'
    BY DEF TypeOK, WorkInv, Uncounted
  <2> QED
    BY <2>1, <2>2
<1>2. Accounted'
  <2>1. CASE todo' = todo /\ Uncounted' = Uncounted
    BY <2>1 DEF Accounted
  <2>2. ASSUME NEW e \in todo, todo' = todo \ {e},
               Uncounted' = Uncounted \/ Uncounted' = Uncounted \cup {w}
        PROVE  Accounted'
    <3>1. Cardinality(todo') = Cardinality(todo) - 1
      BY <2>2, EntrySets, FS_RemoveElement DEF TypeOK
    <3>2. /\ Cardinality(Uncounted') \in Nat
          /\ Cardinality(Uncounted') <= Cardinality(Uncounted) + 1
      <4>1. CASE Uncounted' = Uncounted
        BY <4>1, UncountedFinite
      <4>2. CASE Uncounted' = Uncounted \cup {w}
        <5>1. Cardinality(Uncounted \cup {w}) \in {Cardinality(Uncounted),
                                                  Cardinality(Uncounted) + 1}
          BY UncountedFinite, FS_AddElement
        <5> QED
          BY <4>2, <5>1, UncountedFinite
      <4> QED
        BY <2>2, <4>1, <4>2
    <3> QED
      BY <3>1, <3>2, UncountedFinite, EntrySets DEF Accounted, TypeOK, Total
  <2>3. \/ todo' = todo /\ Uncounted' = Uncounted
        \/ \E e \in todo : /\ todo' = todo \ {e}
                           /\ Uncounted' = Uncounted \/ Uncounted' = Uncounted \cup {w}
    BY DEF TypeOK, Uncounted
  <2> QED
    BY <2>1, <2>2, <2>3
<1> QED
  BY <1>1, <1>2

\* An item is counted once, and only if it was in hand.
LEMMA ItemStep ==
    ASSUME CountInv, NEW w \in Workers, Poll(w) \/ Decode(w) \/ Count(w) \/ Report(w)
    PROVE  CountInv'
<1> USE DEF CountInv, WorkerAt
<1>1. CASE Count(w)
  <2> USE <1>1 DEF Count
  <2>1. w \in Uncounted /\ Uncounted' = Uncounted \ {w}
    BY DEF TypeOK, Uncounted
  <2>2. /\ cachedBase \in Nat /\ completed \in Nat /\ Cardinality(todo) \in Nat
        /\ completed' = completed + 1 /\ UNCHANGED <<cachedBase, todo>>
    BY EntrySets DEF TypeOK
  <2>3. /\ cachedBase + completed' \in 0..Total /\ completed' \in 0..Total
        /\ Accounted'
    BY <2>1, <2>2, UncountedLess, UncountedFinite, TotalNat DEF Accounted, Total
  <2>4. TypeOK'
    BY <2>3 DEF TypeOK
  <2> QED
    BY <2>1, <2>3, <2>4 DEF TypeOK, WorkInv, Uncounted
<1>2. CASE Poll(w) \/ Decode(w) \/ Report(w)
  <2> USE <1>2 DEF Poll, Decode, Report
  <2>1. TypeOK' /\ WorkInv'
    <3>1. CASE Poll(w)
      BY <3>1 DEF TypeOK, Total, WorkInv, Uncounted
    <3>2. CASE Decode(w)
      BY <3>2 DEF TypeOK, Total, WorkInv, Uncounted
    <3>3. CASE Report(w)
      BY <3>3, TotalNat DEF TypeOK, Total, WorkInv, Uncounted
    <3> QED
      BY <3>1, <3>2, <3>3
  <2>2. Uncounted' = Uncounted \/ (w \in Uncounted /\ Uncounted' = Uncounted \ {w})
    BY DEF TypeOK, Uncounted
  <2>3. Accounted'
    BY <2>2, UncountedLess, UncountedFinite, EntrySets DEF Accounted, TypeOK, Total
  <2> QED
    BY <2>1, <2>3
<1> QED
  BY <1>1, <1>2

\* The sweep ends when no worker has an item.
LEMMA FinalStep ==
    ASSUME CountInv, Final
    PROVE  CountInv'
<1> USE DEF CountInv, Final, EndSweep
<1>1. /\ Total \in Nat /\ Total' = Total
      /\ 0 \in 0..Total /\ Total \in 0..Total
  BY TotalNat DEF Total
<1>2. Uncounted' = {} /\ \A w \in Workers : wpc'[w] = "end"
  BY DEF WorkInv, Uncounted, TypeOK
<1>3. TypeOK'
  BY <1>1 DEF TypeOK
<1>4. Accounted'
  BY <1>1, <1>2, FS_EmptySet DEF Accounted
<1> QED
  BY <1>2, <1>3, <1>4 DEF WorkInv

\* Entries done, in hand and still to do are never more than there are.
THEOREM SweepCounts == Spec => []CountInv
<1>1. Init => CountInv
  <2> SUFFICES ASSUME Init PROVE CountInv
    OBVIOUS
  <2>1. Uncounted = {} /\ Cardinality(todo) = 0 /\ Total \in Nat /\ 0 \in 0..Total
    BY TotalNat, FS_EmptySet DEF Init, Uncounted
  <2>2. TypeOK
    BY <2>1 DEF Init, TypeOK
  <2>3. Accounted
    BY <2>1, FS_EmptySet DEF Init, Accounted
  <2> QED
    BY <2>1, <2>2, <2>3 DEF Init, CountInv, WorkInv
<1>2. CountInv /\ [Next]_vars => CountInv'
  <2> SUFFICES ASSUME CountInv, [Next]_vars PROVE CountInv'
    OBVIOUS
  <2>1. CASE startBatchThumbnailSweep
    BY <2>1 DEF startBatchThumbnailSweep, CountInv, TypeOK, WorkInv, Accounted,
                Uncounted, Total, workers
  <2>2. CASE Join
    BY <2>2 DEF Join, CountInv, TypeOK, WorkInv, Accounted, Uncounted, Total, workers
  <2>3. ASSUME NEW w \in Workers, Work(w) PROVE CountInv'
    BY <2>3, TakeStep, ItemStep DEF Work
  <2>4. CASE UNCHANGED vars
    BY <2>4 DEF CountInv, TypeOK, WorkInv, Accounted, Uncounted, Total, vars, sweeping,
                workers
  <2> QED
    BY <2>1, <2>2, <2>3, <2>4, OutsideStep, FilterStep, FinalStep DEF Next
<1> QED
  BY <1>1, <1>2, PTL DEF Spec

\* The sweep and its requests are always of their types; above all, the
\* progress that is counted or shown never exceeds the number of images.
THEOREM SweepTypes == Spec => []TypeOK
<1>1. CountInv => TypeOK
  BY DEF CountInv
<1> QED
  BY <1>1, SweepCounts, PTL

-----------------------------------------------------------------------------
(* The progress of a solid sweep *)

UnderWay == is7z /\ sweep \in {"running", "final"}

\* One worker sweeps a solid archive, so that what it has counted last is shown,
\* or will be before it counts again; and a sweep has entries to count.
SolidInv ==
    /\ is7z => \A v, w \in Workers : wpc[v] # "end" /\ wpc[w] # "end" => v = w
    /\ UnderWay => cachedBase < Total
    /\ UnderWay => \A w \in Workers : wpc[w] = "report" => mine[w] = cachedBase + completed
    /\ UnderWay => \/ completed = 0 \/ chip = cachedBase + completed
                   \/ \E w \in Workers : wpc[w] = "report"
    /\ SolidProgressCompletes

\* Requests, heat and cancellation leave the progress alone.
LEMMA SolidFrame ==
    ASSUME SolidInv, UNCHANGED <<is7z, sweep, wpc, mine, cachedBase, completed, chip>>
    PROVE  SolidInv'
  BY DEF SolidInv, UnderWay, SolidProgressCompletes, Total

\* A sweep that runs has entries that were not cached.
LEMMA SolidFilterStep ==
    ASSUME CountInv, SolidInv, Filter
    PROVE  SolidInv'
<1> USE DEF CountInv, TypeOK, Filter
<1>1. CASE Entries \subseteq thumbs
  BY <1>1 DEF SolidInv, UnderWay, SolidProgressCompletes, Total, workers
<1>2. CASE ~(Entries \subseteq thumbs)
  <2>1. Cardinality(thumbs) < Total
    <3>1. PICK e \in Entries : e \notin thumbs
      BY <1>2
    <3>2. /\ IsFiniteSet(thumbs) /\ thumbs \cup {e} \in SUBSET Entries
          /\ Cardinality(thumbs \cup {e}) = Cardinality(thumbs) + 1
      BY <3>1, EntrySets, FS_AddElement
    <3> QED
      BY <3>2, EntrySets, TotalNat
  <2>2. \A v, w \in Workers : is7z /\ wpc'[v] # "end" /\ wpc'[w] # "end" => v = w
    BY <1>2 DEF Active
  <2>3. \A w \in Workers : wpc'[w] # "report"
    BY <1>2
  <2> QED
    BY <1>2, <2>1, <2>2, <2>3 DEF SolidInv, UnderWay, SolidProgressCompletes, Total
<1> QED
  BY <1>1, <1>2

\* What the only worker of a solid sweep counts it shows next.
LEMMA SolidWorkStep ==
    ASSUME CountInv, SolidInv, NEW w \in Workers, Work(w)
    PROVE  SolidInv'
<1> USE DEF CountInv, WorkInv, TypeOK, SolidInv, UnderWay, SolidProgressCompletes, Total, WorkerAt
<1>1. sweep = "running" /\ wpc[w] # "end"
  BY DEF Work, Take, Poll, Decode, Count, Report
<1>2. CASE Take(w)
  BY <1>1, <1>2 DEF Take
<1>3. CASE Poll(w)
  BY <1>1, <1>3 DEF Poll
<1>4. CASE Decode(w)
  BY <1>1, <1>4 DEF Decode
<1>5. CASE Count(w)
  BY <1>1, <1>5 DEF Count
<1>6. CASE Report(w)
  BY <1>1, <1>6 DEF Report
<1> QED
  BY <1>2, <1>3, <1>4, <1>5, <1>6 DEF Work

\* A solid sweep that ends has shown what it counted, and all of it if it is
\* over.
LEMMA SolidFinalStep ==
    ASSUME CountInv, SolidInv, Final
    PROVE  SolidInv'
<1> USE DEF CountInv, WorkInv, TypeOK
<1>1. /\ sweep = "final" /\ sweep' \in {"over", "stopped"}
      /\ UNCHANGED <<is7z, wpc>> /\ \A w \in Workers : wpc[w] = "end"
  BY DEF Final, EndSweep
<1>2. ASSUME is7z, sweep' = "over" PROVE chip' = Total
  <2>1. cachedBase < Total /\ (completed = 0 \/ chip = cachedBase + completed)
    BY <1>1, <1>2 DEF SolidInv, UnderWay
  <2>2. /\ cachedBase \in Nat /\ completed \in Nat /\ Total \in Nat
        /\ cachedBase + completed <= Total
    BY EntrySets, UncountedFinite, TotalNat DEF Accounted
  <2>3. chip' = Total \/ (cachedBase + completed >= Total /\ chip' = chip)
    BY <1>2, TotalNat DEF Final, EndSweep, Counted
  <2> QED
    BY <2>1, <2>2, <2>3
<1> QED
  BY <1>1, <1>2 DEF SolidInv, UnderWay, SolidProgressCompletes, Total

\* The sweep of a solid archive that ran to its end has shown its last entry.
THEOREM SolidSweepsShowTheirEnd == Spec => []SolidProgressCompletes
<1>1. Init => SolidInv
  BY DEF Init, SolidInv, UnderWay, SolidProgressCompletes
<1>2. CountInv /\ SolidInv /\ [Next]_vars => SolidInv'
  <2> SUFFICES ASSUME CountInv, SolidInv, [Next]_vars PROVE SolidInv'
    OBVIOUS
  <2> USE DEF workers, sweeping
  <2>1. ASSUME NEW r \in Requests, pauseBackgroundSweep(r) \/ Proceed(r) PROVE SolidInv'
    BY <2>1, SolidFrame DEF pauseBackgroundSweep, Proceed, Answer, resumeBackgroundSweep
  <2>2. CASE cancelBackgroundSweep \/ Throttle \/ UNCHANGED vars
    BY <2>2, SolidFrame DEF cancelBackgroundSweep, Throttle, vars
  <2>3. CASE startBatchThumbnailSweep \/ Join
    BY <2>3 DEF startBatchThumbnailSweep, Join, SolidInv, UnderWay, SolidProgressCompletes,
                Total
  <2>4. ASSUME NEW w \in Workers, Work(w) PROVE SolidInv'
    BY <2>4, SolidWorkStep
  <2> QED
    BY <2>1, <2>2, <2>3, <2>4, SolidFilterStep, SolidFinalStep DEF Next
<1>3. SolidInv => SolidProgressCompletes
  BY DEF SolidInv
<1> QED
  BY <1>1, <1>2, <1>3, SweepCounts, PTL DEF Spec
=============================================================================
