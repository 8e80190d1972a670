------------------------- MODULE ThumbnailSweepQueue -------------------------
(***************************************************************************)
(* The queue of thumbnail scans (ThumbnailSweepQueue.kt) as the grid of a  *)
(* pack uses it (ThumbnailGridScreen.kt).  A block is abstracted to the    *)
(* list of images it captured; what a scan does is startBatchThumbnailSweep.*)
(***************************************************************************)
CONSTANTS
    Callers,    \* threads that trigger and clear
    Lists,      \* lists of images that blocks capture
    Jobs,       \* names of drain coroutines (bounds those alive at once)
    ScreenOnly, \* only the grid uses the queue: it clears it last of all
    None

ASSUME ScreenOnlyAssumption == ScreenOnly \in BOOLEAN
ASSUME NoneAssumption == None \notin Callers \cup Lists \cup Jobs

VARIABLES
    running, pending, currentJob,
    job,        \* each drain coroutine: where it is, its block, cancel() called
    pc, hand,   \* each caller: where it is, the list or job in its hand
    cleared,    \* clear was called
    wanted      \* the list triggered last, until it is scanned or cleared

vars == <<running, pending, currentJob, job, pc, hand, cleared, wanted>>

NoJob == [at |-> "none", list |-> None, cancelled |-> FALSE]

Init ==
    /\ running = FALSE
    /\ pending = FALSE
    /\ currentJob = None
    /\ job = [j \in Jobs |-> NoJob]
    /\ pc = [c \in Callers |-> "idle"]
    /\ hand = [c \in Callers |-> None]
    /\ cleared = FALSE
    /\ wanted = None

Goto(c, l, h) ==
    /\ pc' = [pc EXCEPT ![c] = l]
    /\ hand' = [hand EXCEPT ![c] = h]

-----------------------------------------------------------------------------
(* trigger and launchDrain *)

\* The grid triggers a scan of l; an idle queue launches it, a busy one notes it.
trigger(c, l) ==
    /\ pc[c] = "idle"
    /\ ScreenOnly => ~cleared
    /\ wanted' = l
    /\ IF running
       THEN pending' = TRUE /\ UNCHANGED <<running, pc, hand>>
       ELSE running' = TRUE /\ UNCHANGED pending /\ Goto(c, "launchDrain", l)
    /\ UNCHANGED <<currentJob, job, cleared>>

\* Mutant: the coroutine is not lazy, and runs before it is registered.
launchDrainEagerly(c) ==
    /\ pc[c] = "launchDrain"
    /\ \E j \in Jobs :
          /\ job[j] = NoJob /\ currentJob # j /\ \A d \in Callers : hand[d] # j
          /\ job' = [job EXCEPT ![j] = [at |-> "block", list |-> hand[c], cancelled |-> FALSE]]
          /\ Goto(c, "register", j)
    /\ UNCHANGED <<running, pending, currentJob, cleared, wanted>>

\* The lazy coroutine is made, with its completion handler.
launchDrain(c) ==
    /\ pc[c] = "launchDrain"
    /\ \E j \in Jobs :
          /\ job[j] = NoJob /\ currentJob # j /\ \A d \in Callers : hand[d] # j
          /\ job' = [job EXCEPT ![j] = [at |-> "new", list |-> hand[c], cancelled |-> FALSE]]
          /\ Goto(c, "register", j)
    /\ UNCHANGED <<running, pending, currentJob, cleared, wanted>>

Register(c) ==
    /\ pc[c] = "register"
    /\ currentJob' = hand[c]
    /\ Goto(c, "start", hand[c])
    /\ UNCHANGED <<running, pending, job, cleared, wanted>>

\* job.start(): nothing when the job was cancelled meanwhile.
Start(c) ==
    /\ pc[c] = "start"
    /\ LET j == hand[c] IN
       job' = [job EXCEPT ![j].at = IF @ = "new" THEN "block" ELSE @]
    /\ Goto(c, "idle", None)
    /\ UNCHANGED <<running, pending, currentJob, cleared, wanted>>

-----------------------------------------------------------------------------
(* clear *)

clear(c) ==
    /\ pc[c] = "idle"
    /\ pending' = FALSE
    /\ cleared' = TRUE
    /\ wanted' = None
    /\ IF currentJob = None THEN UNCHANGED <<pc, hand>> ELSE Goto(c, "cancel", currentJob)
    /\ UNCHANGED <<running, currentJob, job>>

\* job.cancel(), outside the lock: a job that was not started ends at once.
Cancel(c) ==
    /\ pc[c] = "cancel"
    /\ LET j == hand[c] IN
       job' = CASE job[j].at = "new"                -> [job EXCEPT ![j].at = "ending"]
                [] job[j].at \in {"block", "again"} -> [job EXCEPT ![j].cancelled = TRUE]
                [] OTHER                            -> job
    /\ Goto(c, "idle", None)
    /\ UNCHANGED <<running, pending, currentJob, cleared, wanted>>

-----------------------------------------------------------------------------
(* The drain coroutine *)

\* The block returns, or fails with an exception that the queue swallows.
BlockReturns(j) ==
    /\ job[j].at = "block"
    /\ job' = [job EXCEPT ![j].at = "again"]
    /\ wanted' = IF wanted = job[j].list THEN None ELSE wanted
    /\ UNCHANGED <<running, pending, currentJob, pc, hand, cleared>>

\* The block throws a CancellationException: the drain was cancelled, or the
\* scan alone, by the cancelBackgroundSweep of another pack's grid.
BlockCancelled(j) ==
    /\ job[j].at = "block"
    /\ job[j].cancelled \/ ~ScreenOnly
    /\ job' = [job EXCEPT ![j].at = "ending"]
    /\ UNCHANGED <<running, pending, currentJob, pc, hand, cleared, wanted>>

\* Mutant: the request that is served is not forgotten.
AgainKeepsPending(j) ==
    /\ job[j].at = "again"
    /\ UNCHANGED pending
    /\ IF pending
       THEN /\ job' = [job EXCEPT ![j].at = IF job[j].cancelled THEN "ending" ELSE "block"]
            /\ UNCHANGED <<running, currentJob>>
       ELSE /\ job' = [job EXCEPT ![j].at = "ending"]
            /\ running' = FALSE
            /\ currentJob' = None
    /\ UNCHANGED <<pc, hand, cleared, wanted>>

\* The test for one more round; a cancelled drain's next block throws at once.
Again(j) ==
    /\ job[j].at = "again"
    /\ pending' = FALSE
    /\ IF pending
       THEN /\ job' = [job EXCEPT ![j].at = IF job[j].cancelled THEN "ending" ELSE "block"]
            /\ UNCHANGED <<running, currentJob>>
       ELSE /\ job' = [job EXCEPT ![j].at = "ending"]
            /\ running' = FALSE
            /\ currentJob' = None
    /\ UNCHANGED <<pc, hand, cleared, wanted>>

\* Mutant: there is no completion handler.
CompletedKeepsRunning(j) ==
    /\ job[j].at = "ending"
    /\ job' = [job EXCEPT ![j] = NoJob]
    /\ UNCHANGED <<running, pending, currentJob, pc, hand, cleared, wanted>>

\* invokeOnCompletion
Completed(j) ==
    /\ job[j].at = "ending"
    /\ job' = [job EXCEPT ![j] = NoJob]
    /\ IF currentJob = j
       THEN currentJob' = None /\ running' = FALSE
       ELSE UNCHANGED <<currentJob, running>>
    /\ UNCHANGED <<pending, pc, hand, cleared, wanted>>

-----------------------------------------------------------------------------

Continue(c) == launchDrain(c) \/ Register(c) \/ Start(c) \/ Cancel(c)
Drain(j)    == BlockReturns(j) \/ BlockCancelled(j) \/ Again(j) \/ Completed(j)

Next ==
    \/ \E c \in Callers : clear(c) \/ Continue(c) \/ \E l \in Lists : trigger(c, l)
    \/ \E j \in Jobs : Drain(j)

Spec == Init /\ [][Next]_vars

\* Callers go on, and a scan ends: startBatchThumbnailSweep works through a
\* finite list, and the pauses it polls for end with the requests that ask.
Fairness ==
    /\ \A c \in Callers : WF_vars(Continue(c))
    /\ \A j \in Jobs : WF_vars(Drain(j))

FairSpec == Spec /\ Fairness

-----------------------------------------------------------------------------
(* Properties *)

\* The type invariant of the queue, its coroutines and its callers.
TypeOK ==
    /\ running \in BOOLEAN /\ pending \in BOOLEAN /\ cleared \in BOOLEAN
    /\ currentJob \in Jobs \cup {None}
    /\ job \in [Jobs -> [at: {"none", "new", "block", "again", "ending"},
                         list: Lists \cup {None}, cancelled: BOOLEAN]]
    /\ \A j \in Jobs : job[j].at = "none" <=> job[j].list = None
    /\ pc \in [Callers -> {"idle", "launchDrain", "register", "start", "cancel"}]
    /\ hand \in [Callers -> Lists \cup Jobs \cup {None}]
    /\ wanted \in Lists \cup {None}

Launching(c) == pc[c] \in {"launchDrain", "register", "start"}

\* Only one scan runs at a time, whoever triggers, clears or cancels
\* (ThumbnailSweepQueue.kt:19).
OneScan == \A i, j \in Jobs : job[i].at = "block" /\ job[j].at = "block" => i = j

\* clear always finds the running scan: a scan that is not about to end is
\* the registered one (launchDrain registers it before it starts it).
ScanIsRegistered == \A j \in Jobs : job[j].at \in {"block", "again"} => currentJob = j

\* A busy queue has a coroutine, or a caller about to make one, that will
\* free it: otherwise every later trigger would be swallowed.
BusyHasScan ==
    running => \/ \E c \in Callers : Launching(c)
               \/ currentJob # None /\ job[currentJob].at # "none"

\* The queue coalesces requests as CoalescingQueue says, scans do end, and a
\* request made during a scan starts another one.
Queue == INSTANCE CoalescingQueue WITH scanning <- running, again <- pending
Coalesces == Queue!Spec

-----------------------------------------------------------------------------
(* What a comment says, and the code does not do *)

\* ThumbnailSweepQueue.kt:20: the block reads the latest data when it runs
\* again, so the list triggered last is scanned unless the queue is cleared.
ListScanned == \A l \in Lists : wanted = l ~> wanted # l
=============================================================================
