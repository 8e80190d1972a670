---------------------- MODULE ThumbnailSweepQueueProofs ----------------------
(***************************************************************************)
(* What holds of ThumbnailSweepQueue for every number of callers, lists    *)
(* and coroutines: its safety, and that each of its steps is one that      *)
(* CoalescingQueue allows.  That scans end is left to model checking.      *)
(***************************************************************************)
EXTENDS ThumbnailSweepQueue, TLAPS

\* A caller that has taken the queue and has not registered its coroutine yet.
Preparing(c) == pc[c] \in {"launchDrain", "register"}

\* A coroutine that scans or may still do so.
Live(j) == job[j].at \in {"new", "block", "again"}

-----------------------------------------------------------------------------
(* The inductive invariant *)

\* A caller has a list before its coroutine is made, and a coroutine after.
HandsTyped ==
    \A c \in Callers : /\ pc[c] = "launchDrain" => hand[c] \in Lists
                       /\ pc[c] \in {"register", "start", "cancel"} => hand[c] \in Jobs

\* An idle queue has nothing under way.
IdleIsQuiet == ~running => currentJob = None /\ \A c \in Callers : ~Preparing(c)

\* Only one caller prepares a scan, and no scan is registered meanwhile.
OnePreparation ==
    \A c \in Callers :
        Preparing(c) => currentJob = None /\ \A d \in Callers : Preparing(d) => d = c

\* The coroutine being registered is new, and nobody else knows of it.
FreshCoroutine ==
    \A c \in Callers :
        pc[c] = "register" => /\ job[hand[c]].at = "new"
                              /\ \A d \in Callers : hand[d] = hand[c] => d = c

\* Every live coroutine is the registered one, or about to be.
LiveIsKnown ==
    \A j \in Jobs :
        Live(j) => \/ currentJob = j
                   \/ \E c \in Callers : pc[c] = "register" /\ hand[c] = j

\* The registered coroutine has not completed.
RegisteredExists == currentJob # None => job[currentJob].at # "none"

\* A busy queue has a registered coroutine, or is about to.
BusyIsKnown == running => currentJob # None \/ \E c \in Callers : Preparing(c)

IInv == /\ TypeOK /\ HandsTyped /\ IdleIsQuiet /\ OnePreparation /\ FreshCoroutine
        /\ LiveIsKnown /\ RegisteredExists /\ BusyIsKnown

\* What TypeOK says of the coroutines.
JobsTyped ==
    /\ job \in [Jobs -> [at: {"none", "new", "block", "again", "ending"},
                         list: Lists \cup {None}, cancelled: BOOLEAN]]
    /\ \A j \in Jobs : job[j].at = "none" <=> job[j].list = None

-----------------------------------------------------------------------------
(* The steps *)

\* Marking a coroutine as cancelled keeps its type.
LEMMA MarkCancelled ==
    ASSUME JobsTyped, NEW j \in Jobs, job' = [job EXCEPT ![j].cancelled = TRUE]
    PROVE  JobsTyped'
  BY DEF JobsTyped

\* A trigger keeps the invariant: a busy queue is noted, an idle one taken.
LEMMA TriggerStep ==
    ASSUME IInv, NEW c \in Callers, NEW l \in Lists, trigger(c, l)
    PROVE  IInv'
<1> USE NoneAssumption DEF IInv, trigger, Goto
<1>1. TypeOK'
  <2>1. CASE running
    BY <2>1 DEF TypeOK
  <2>2. CASE ~running
    BY <2>2 DEF TypeOK
  <2> QED
    BY <2>1, <2>2
<1>2. HandsTyped'
  BY DEF TypeOK, HandsTyped
<1>3. IdleIsQuiet'
  BY DEF IdleIsQuiet
<1>4. OnePreparation'
  BY DEF TypeOK, IdleIsQuiet, OnePreparation, Preparing
<1>5. FreshCoroutine'
  BY DEF TypeOK, IdleIsQuiet, FreshCoroutine, Preparing
<1>6. LiveIsKnown'
  BY DEF TypeOK, LiveIsKnown, Live
<1>7. RegisteredExists'
  BY DEF RegisteredExists
<1>8. BusyIsKnown'
  <2>1. CASE running
    BY <2>1 DEF BusyIsKnown, Preparing
  <2>2. CASE ~running
    BY <2>2 DEF TypeOK, BusyIsKnown, Preparing
  <2> QED
    BY <2>1, <2>2
<1> QED
  BY <1>1, <1>2, <1>3, <1>4, <1>5, <1>6, <1>7, <1>8

\* Making the coroutine keeps the invariant: its name is nobody else's.
LEMMA LaunchStep ==
    ASSUME IInv, NEW c \in Callers, launchDrain(c)
    PROVE  IInv'
<1> USE NoneAssumption DEF IInv, launchDrain, Goto, NoJob
<1>1. TypeOK'
  <2>1. JobsTyped'
    BY DEF TypeOK, HandsTyped, JobsTyped
  <2> QED
    BY <2>1 DEF TypeOK, HandsTyped
<1>2. HandsTyped'
  BY DEF TypeOK, HandsTyped
<1>3. IdleIsQuiet'
  BY DEF IdleIsQuiet, Preparing
<1>4. OnePreparation'
  BY DEF OnePreparation, Preparing
<1>5. FreshCoroutine'
  BY DEF TypeOK, FreshCoroutine
<1>6. LiveIsKnown'
  BY DEF TypeOK, LiveIsKnown, Live
<1>7. RegisteredExists'
  BY DEF RegisteredExists
<1>8. BusyIsKnown'
  BY DEF BusyIsKnown, Preparing
<1> QED
  BY <1>1, <1>2, <1>3, <1>4, <1>5, <1>6, <1>7, <1>8

\* Registering the coroutine keeps the invariant: none was registered before.
LEMMA RegisterStep ==
    ASSUME IInv, NEW c \in Callers, Register(c)
    PROVE  IInv'
<1> USE NoneAssumption DEF IInv, Register, Goto
<1>1. TypeOK'
  BY DEF TypeOK, HandsTyped
<1>2. HandsTyped'
  BY DEF HandsTyped
<1>3. IdleIsQuiet'
  BY DEF IdleIsQuiet, Preparing
<1>4. OnePreparation'
  BY DEF TypeOK, OnePreparation, Preparing
<1>5. FreshCoroutine'
  BY DEF FreshCoroutine
<1>6. LiveIsKnown'
  BY DEF OnePreparation, LiveIsKnown, Preparing, Live
<1>7. RegisteredExists'
  BY DEF FreshCoroutine, RegisteredExists
<1>8. BusyIsKnown'
  BY DEF HandsTyped, BusyIsKnown
<1> QED
  BY <1>1, <1>2, <1>3, <1>4, <1>5, <1>6, <1>7, <1>8

\* Starting the coroutine keeps the invariant, even if another one is registered.
LEMMA StartStep ==
    ASSUME IInv, NEW c \in Callers, Start(c)
    PROVE  IInv'
<1> USE NoneAssumption DEF IInv, Start, Goto
<1>1. TypeOK'
  <2>1. JobsTyped'
    BY DEF TypeOK, HandsTyped, JobsTyped
  <2> QED
    BY <2>1 DEF TypeOK, HandsTyped
<1>2. HandsTyped'
  BY DEF TypeOK, HandsTyped
<1>3. IdleIsQuiet'
  BY DEF IdleIsQuiet, Preparing
<1>4. OnePreparation'
  BY DEF OnePreparation, Preparing
<1>5. FreshCoroutine'
  BY DEF HandsTyped, FreshCoroutine
<1>6. LiveIsKnown'
  BY DEF LiveIsKnown, Live
<1>7. RegisteredExists'
  BY DEF RegisteredExists
<1>8. BusyIsKnown'
  BY DEF BusyIsKnown, Preparing
<1> QED
  BY <1>1, <1>2, <1>3, <1>4, <1>5, <1>6, <1>7, <1>8

\* clear keeps the invariant: it only remembers whom to cancel.
LEMMA ClearStep ==
    ASSUME IInv, NEW c \in Callers, clear(c)
    PROVE  IInv'
<1> USE NoneAssumption DEF IInv, clear, Goto
<1>1. TypeOK'
  <2>1. JobsTyped'
    BY DEF TypeOK, JobsTyped
  <2>2. pc' \in [Callers -> {"idle", "launchDrain", "register", "start", "cancel"}]
    BY DEF TypeOK
  <2>3. hand' \in [Callers -> Lists \cup Jobs \cup {None}]
    BY DEF TypeOK
  <2> QED
    BY <2>1, <2>2, <2>3 DEF TypeOK
<1>2. HandsTyped'
  BY DEF TypeOK, HandsTyped
<1>3. IdleIsQuiet'
  BY DEF IdleIsQuiet, Preparing
<1>4. OnePreparation'
  BY DEF TypeOK, OnePreparation, Preparing
<1>5. FreshCoroutine'
  BY DEF TypeOK, OnePreparation, FreshCoroutine, Preparing
<1>6. LiveIsKnown'
  BY DEF TypeOK, LiveIsKnown, Live
<1>7. RegisteredExists'
  BY DEF RegisteredExists
<1>8. BusyIsKnown'
  BY DEF BusyIsKnown, Preparing
<1> QED
  BY <1>1, <1>2, <1>3, <1>4, <1>5, <1>6, <1>7, <1>8

\* Cancelling keeps the invariant: a coroutine that is not started ends at once.
LEMMA CancelStep ==
    ASSUME IInv, NEW c \in Callers, Cancel(c)
    PROVE  IInv'
<1> USE NoneAssumption DEF IInv, Cancel, Goto
<1>1. TypeOK'
  <2>1. hand[c] \in Jobs
    BY DEF HandsTyped
  <2>2. job[hand[c]].at \in {"block", "again"}
           => job' = [job EXCEPT ![hand[c]].cancelled = TRUE]
    OBVIOUS
  <2>3. CASE job[hand[c]].at = "new"
    BY <2>1, <2>3 DEF TypeOK
  <2>4. CASE job[hand[c]].at \in {"block", "again"}
    BY <2>1, <2>2, <2>4, MarkCancelled DEF TypeOK, JobsTyped
  <2>5. CASE job[hand[c]].at \notin {"new", "block", "again"}
    BY <2>1, <2>5 DEF TypeOK
  <2> QED
    BY <2>1, <2>2, <2>3, <2>4, <2>5
<1>2. HandsTyped'
  BY DEF TypeOK, HandsTyped
<1>3. IdleIsQuiet'
  BY DEF IdleIsQuiet, Preparing
<1>4. OnePreparation'
  BY DEF OnePreparation, Preparing
<1>5. FreshCoroutine'
  BY DEF HandsTyped, FreshCoroutine
<1>6. LiveIsKnown'
  BY DEF LiveIsKnown, Live
<1>7. RegisteredExists'
  BY DEF RegisteredExists
<1>8. BusyIsKnown'
  BY DEF BusyIsKnown, Preparing
<1> QED
  BY <1>1, <1>2, <1>3, <1>4, <1>5, <1>6, <1>7, <1>8

\* The end of a block keeps the invariant.
LEMMA BlockStep ==
    ASSUME IInv, NEW j \in Jobs, BlockReturns(j) \/ BlockCancelled(j)
    PROVE  IInv'
<1> USE NoneAssumption DEF IInv, BlockReturns, BlockCancelled
<1>1. TypeOK'
  <2>1. JobsTyped'
    BY DEF TypeOK, JobsTyped
  <2> QED
    BY <2>1 DEF TypeOK
<1>2. HandsTyped'
  BY DEF HandsTyped
<1>3. IdleIsQuiet'
  BY DEF IdleIsQuiet, Preparing
<1>4. OnePreparation'
  BY DEF OnePreparation, Preparing
<1>5. FreshCoroutine'
  BY DEF TypeOK, HandsTyped, FreshCoroutine
<1>6. LiveIsKnown'
  BY DEF TypeOK, LiveIsKnown, Live
<1>7. RegisteredExists'
  BY DEF TypeOK, RegisteredExists
<1>8. BusyIsKnown'
  BY DEF BusyIsKnown, Preparing
<1> QED
  BY <1>1, <1>2, <1>3, <1>4, <1>5, <1>6, <1>7, <1>8

\* The test for one more round keeps the invariant: it frees the queue it owns.
LEMMA AgainStep ==
    ASSUME IInv, NEW j \in Jobs, Again(j)
    PROVE  IInv'
<1> USE NoneAssumption DEF IInv, Again
<1>1. TypeOK'
  <2>1. JobsTyped'
    BY DEF TypeOK, JobsTyped
  <2> QED
    BY <2>1 DEF TypeOK, JobsTyped
<1>2. HandsTyped'
  BY DEF HandsTyped
<1>3. IdleIsQuiet'
  BY DEF IdleIsQuiet, OnePreparation, FreshCoroutine, LiveIsKnown, Preparing, Live
<1>4. OnePreparation'
  BY DEF OnePreparation, Preparing
<1>5. FreshCoroutine'
  BY DEF TypeOK, HandsTyped, FreshCoroutine
<1>6. LiveIsKnown'
  BY DEF TypeOK, FreshCoroutine, LiveIsKnown, Live
<1>7. RegisteredExists'
  BY DEF TypeOK, RegisteredExists
<1>8. BusyIsKnown'
  BY DEF BusyIsKnown, Preparing
<1> QED
  BY <1>1, <1>2, <1>3, <1>4, <1>5, <1>6, <1>7, <1>8

\* The completion handler keeps the invariant: it frees the queue if it owns it.
LEMMA CompletedStep ==
    ASSUME IInv, NEW j \in Jobs, Completed(j)
    PROVE  IInv'
<1> USE NoneAssumption DEF IInv, Completed, NoJob
<1>1. TypeOK'
  <2>1. JobsTyped'
    BY DEF TypeOK, JobsTyped
  <2> QED
    BY <2>1 DEF TypeOK, JobsTyped
<1>2. HandsTyped'
  BY DEF HandsTyped
<1>3. IdleIsQuiet'
  BY DEF IdleIsQuiet, OnePreparation, Preparing
<1>4. OnePreparation'
  BY DEF OnePreparation, Preparing
<1>5. FreshCoroutine'
  BY DEF FreshCoroutine
<1>6. LiveIsKnown'
  BY DEF LiveIsKnown, Live
<1>7. RegisteredExists'
  BY DEF RegisteredExists
<1>8. BusyIsKnown'
  BY DEF BusyIsKnown, Preparing
<1> QED
  BY <1>1, <1>2, <1>3, <1>4, <1>5, <1>6, <1>7, <1>8

\* The queue starts idle.
LEMMA InitIInv == Init => IInv
<1> SUFFICES ASSUME Init PROVE IInv
  OBVIOUS
<1> USE NoneAssumption DEF Init, NoJob
<1>1. TypeOK
  BY DEF TypeOK
<1>2. /\ HandsTyped /\ IdleIsQuiet /\ OnePreparation /\ FreshCoroutine
      /\ LiveIsKnown /\ RegisteredExists /\ BusyIsKnown
  BY DEF HandsTyped, IdleIsQuiet, OnePreparation, FreshCoroutine, LiveIsKnown,
         RegisteredExists, BusyIsKnown, Preparing, Live
<1> QED
  BY <1>1, <1>2 DEF IInv

\* A step that changes nothing keeps the invariant.
LEMMA Stuttering == IInv /\ UNCHANGED vars => IInv'
  BY DEF IInv, TypeOK, HandsTyped, IdleIsQuiet, OnePreparation, FreshCoroutine,
         LiveIsKnown, RegisteredExists, BusyIsKnown, Preparing, Live, vars

-----------------------------------------------------------------------------
(* The theorems *)

\* The queue's bookkeeping (running, currentJob and the coroutines) stays
\* consistent, whoever triggers, clears or cancels.
THEOREM QueueInvariant == Spec => []IInv
<1>1. IInv /\ [Next]_vars => IInv'
  <2> SUFFICES ASSUME IInv, [Next]_vars PROVE IInv'
    OBVIOUS
  <2>1. CASE UNCHANGED vars
    BY <2>1, Stuttering
  <2>2. ASSUME NEW c \in Callers, NEW l \in Lists, trigger(c, l) PROVE IInv'
    BY <2>2, TriggerStep
  <2>3. ASSUME NEW c \in Callers, clear(c) PROVE IInv'
    BY <2>3, ClearStep
  <2>4. ASSUME NEW c \in Callers, Continue(c) PROVE IInv'
    BY <2>4, LaunchStep, RegisterStep, StartStep, CancelStep DEF Continue
  <2>5. ASSUME NEW j \in Jobs, Drain(j) PROVE IInv'
    BY <2>5, BlockStep, AgainStep, CompletedStep DEF Drain
  <2> QED
    BY <2>1, <2>2, <2>3, <2>4, <2>5 DEF Next
<1> QED
  BY <1>1, InitIInv, PTL DEF Spec

\* The queue, its coroutines and its callers are always of their types.
THEOREM QueueTypes == Spec => []TypeOK
<1>1. IInv => TypeOK
  BY DEF IInv
<1> QED
  BY <1>1, QueueInvariant, PTL

\* clear always finds the scan that runs (launchDrain registers the coroutine
\* before it starts it).
THEOREM ScanRegistered == Spec => []ScanIsRegistered
<1>1. IInv => ScanIsRegistered
  <2> SUFFICES ASSUME IInv, NEW j \in Jobs, job[j].at \in {"block", "again"}
               PROVE  currentJob = j
    BY DEF ScanIsRegistered
  <2>1. ~\E c \in Callers : pc[c] = "register" /\ hand[c] = j
    BY DEF IInv, FreshCoroutine
  <2> QED
    BY <2>1 DEF IInv, LiveIsKnown, Live
<1> QED
  BY <1>1, QueueInvariant, PTL

\* There is never more than one scan.
THEOREM OnlyOneScan == Spec => []OneScan
<1>1. ScanIsRegistered => OneScan
  BY DEF ScanIsRegistered, OneScan
<1> QED
  BY <1>1, ScanRegistered, PTL

\* A busy queue has somebody who will free it, so no trigger is swallowed.
THEOREM NeverStuck == Spec => []BusyHasScan
<1>1. IInv => BusyHasScan
  BY DEF IInv, BusyIsKnown, RegisteredExists, BusyHasScan, Preparing, Launching
<1> QED
  BY <1>1, QueueInvariant, PTL

\* The safety part of the refinement: each step of the queue is one that
\* CoalescingQueue allows.
THEOREM CoalescesSafely == Spec => Queue!Init /\ [][Queue!Next]_(Queue!vars)
<1>1. Init => Queue!Init
  BY DEF Init, Queue!Init
<1>2. IInv /\ [Next]_vars => [Queue!Next]_(Queue!vars)
  <2> SUFFICES ASSUME IInv, [Next]_vars PROVE Queue!Next \/ UNCHANGED Queue!vars
    OBVIOUS
  <2> USE DEF Queue!Next, Queue!vars
  <2>1. running \in BOOLEAN /\ pending \in BOOLEAN
    BY DEF IInv, TypeOK
  <2>2. CASE UNCHANGED vars
    BY <2>2 DEF vars
  <2>3. ASSUME NEW c \in Callers, NEW l \in Lists, trigger(c, l) PROVE Queue!Ask
    BY <2>1, <2>3 DEF trigger, Queue!Ask
  <2>4. ASSUME NEW c \in Callers, clear(c) PROVE Queue!Drop
    BY <2>4 DEF clear, Queue!Drop
  <2>5. ASSUME NEW c \in Callers, Continue(c) PROVE UNCHANGED Queue!vars
    BY <2>5 DEF Continue, launchDrain, Register, Start, Cancel
  <2>6. ASSUME NEW j \in Jobs, BlockReturns(j) \/ BlockCancelled(j)
        PROVE  UNCHANGED Queue!vars
    BY <2>6 DEF BlockReturns, BlockCancelled
  <2>7. ASSUME NEW j \in Jobs, Again(j) PROVE Queue!Finish
    <3>1. currentJob # None \/ \E c \in Callers : Preparing(c)
      BY <2>7, NoneAssumption DEF Again, IInv, LiveIsKnown, Live, Preparing
    <3>2. running
      BY <3>1 DEF IInv, IdleIsQuiet
    <3> QED
      BY <2>1, <2>7, <3>2 DEF Again, Queue!Finish
  <2>8. ASSUME NEW j \in Jobs, Completed(j) PROVE Queue!Abort \/ UNCHANGED Queue!vars
    <3>1. currentJob = j => running
      BY NoneAssumption DEF IInv, IdleIsQuiet
    <3> QED
      BY <2>1, <2>8, <3>1 DEF Completed, Queue!Abort
  <2> QED
    BY <2>2, <2>3, <2>4, <2>5, <2>6, <2>7, <2>8 DEF Next, Drain
<1> QED
  BY <1>1, <1>2, QueueInvariant, PTL DEF Spec
=============================================================================
