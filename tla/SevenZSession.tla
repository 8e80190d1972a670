---------------------------- MODULE SevenZSession ----------------------------
(***************************************************************************)
(* The sessions of one 7z archive (SevenZSessionManager.kt): a registry    *)
(* slot, session objects that own a native and a Java handle, and the      *)
(* calls that use, replace, close, reap and purge them.  Entries, cursors  *)
(* and decoded bytes are abstracted to the outcomes they lead to: an entry *)
(* is found or not, a native call succeeds or fails, a stream throws.      *)
(*                                                                         *)
(* A session object that nothing references any more is garbage, and its   *)
(* name may be used again; handles that leak with it are not counted.      *)
(***************************************************************************)
CONSTANTS
    Procs,      \* threads and coroutines
    Passwords,
    Sessions,   \* names of session objects
    Offered,    \* the calls made, of Calls below
    None

\* What callers ask of the manager.  "peek" stands for getNextMediaEntries,
\* getPhysicalEntryNames and getPhysicalEntries, which open without the lock.
LockedCalls   == {"extractSequential", "extractThumbnailResult", "extractToFile",
                  "verifyPassword"}
UnlockedCalls == {"peek", "prewarmSession"}
SessionCalls  == LockedCalls \cup UnlockedCalls
CloseCalls    == {"closeSession", "closeAll", "reapIdleSessions"}
Calls         == SessionCalls \cup CloseCalls \cup {"purgeCache"}

ASSUME NoneAssumption == None \notin Procs \cup Passwords \cup Sessions \cup Calls

VARIABLES
    mapped,      \* sessions[key]
    session,     \* the fields of each session object
    pc, call,    \* where each process is, in which call
    sess,        \* its session
    using,       \* the handle in its local variable
    victim,      \* the session it closes for good, or purges
    then         \* where openIfNeeded returns to

locals == <<call, sess, using, victim, then>>
vars   == <<mapped, session, pc, locals>>

\* A new session object.
Session(w) ==
    [password |-> w, lock |-> None, native |-> FALSE, sevenZ |-> FALSE,
     nativeFailed |-> FALSE, verified |-> FALSE, closeRequested |-> FALSE]

Init ==
    /\ mapped = None
    /\ session = [s \in Sessions |-> Session(None)]
    /\ pc = [p \in Procs |-> "idle"]
    /\ call = [p \in Procs |-> None]
    /\ sess = [p \in Procs |-> None]
    /\ using = [p \in Procs |-> None]
    /\ victim = [p \in Procs |-> None]
    /\ then = [p \in Procs |-> None]

-----------------------------------------------------------------------------
(* Bookkeeping *)

Referenced == {mapped} \cup {sess[p] : p \in Procs}
              \cup {victim[p] : p \in Procs}

\* The objects become f; what is no longer referenced is forgotten.
Objects(f) ==
    session' = [s \in Sessions |-> IF s \in Referenced' THEN f[s] ELSE Session(None)]

\* A name for a new object, if there is one left (bounded by Sessions).
Unused ==
    IF Sessions \subseteq Referenced THEN {}
    ELSE {CHOOSE s \in Sessions : s \notin Referenced}

\* A process goes to l with h in its local variable, the others keep u.
Hold(p, l, h, u) ==
    /\ pc' = [pc EXCEPT ![p] = l]
    /\ using' = [u EXCEPT ![p] = h]
    /\ UNCHANGED <<call, sess, victim, then>>

Goto(p, l) == Hold(p, l, None, using)

\* The call goes on at l as the call c, with nothing in hand; extractToFile
\* still knows its password.
Become(p, c, l, u) ==
    /\ pc' = [pc EXCEPT ![p] = l]
    /\ call' = [call EXCEPT ![p] = c]
    /\ sess' = IF l = "getSession" THEN sess ELSE [sess EXCEPT ![p] = None]
    /\ using' = [u EXCEPT ![p] = None]
    /\ victim' = [victim EXCEPT ![p] = None]
    /\ then' = [then EXCEPT ![p] = None]

Finish(p, u) == Become(p, None, "idle", u)

\* Local variables once the handles of kinds k of session s have become x:
\* "torn" when they were closed, "astray" when the session lost sight of them.
Affected(s, k, x) ==
    [q \in Procs |-> IF sess[q] = s /\ using[q] \in k THEN x ELSE using[q]]

\* Where a call with a session begins.
Entry(c) ==
    IF c = "verifyPassword" THEN "fastPath"
    ELSE IF c \in LockedCalls THEN "lock" ELSE "openIfNeeded"

NativeReady(s) == session[s].native /\ ~session[s].nativeFailed

Unlocked(f, p) == [f EXCEPT ![sess[p]].lock = None]

\* Session.close(): both handles are closed and forgotten.
Closed(f, s) ==
    [f EXCEPT ![s].native = FALSE, ![s].sevenZ = FALSE, ![s].verified = FALSE]

TornByClose(s) == Affected(s, {"native", "java"}, "torn")

\* withLock ends, normally or by an exception, and the call with it.
Leave(p, f, u) ==
    /\ Finish(p, u)
    /\ UNCHANGED mapped
    /\ Objects(Unlocked(f, p))

\* verifyPassword answers false, and SevenZArchiveManager closes the session.
LeaveUnverified(p, f, u) ==
    /\ Become(p, "closeSession", "remove", u)
    /\ UNCHANGED mapped
    /\ Objects(Unlocked(f, p))

-----------------------------------------------------------------------------
(* The registry *)

\* getSession: the compute() on the registry.  A session with another
\* password is replaced, and closed before the call goes on.
GetSession(p, c, w) ==
    /\ call' = [call EXCEPT ![p] = c]
    /\ UNCHANGED <<using, then>>
    /\ \/ /\ mapped # None /\ session[mapped].password = w
          /\ sess' = [sess EXCEPT ![p] = mapped]
          /\ pc' = [pc EXCEPT ![p] = Entry(c)]
          /\ UNCHANGED <<mapped, victim>>
          /\ Objects(session)
       \/ /\ mapped # None => session[mapped].password # w
          /\ \E s \in Unused :
                /\ mapped' = s
                /\ sess' = [sess EXCEPT ![p] = s]
                /\ victim' = [victim EXCEPT ![p] = mapped]
                /\ pc' = [pc EXCEPT ![p] = IF mapped = None THEN Entry(c) ELSE "closeNow"]
                /\ Objects([session EXCEPT ![s] = Session(w)])

getSession(p) ==
    \/ pc[p] = "idle" /\ \E c \in SessionCalls \cap Offered, w \in Passwords : GetSession(p, c, w)
    \/ pc[p] = "getSession" /\ GetSession(p, call[p], session[sess[p]].password)

\* The process has the session v to close, and goes to l.
CloseNext(p, c, v, l) ==
    /\ call' = [call EXCEPT ![p] = c]
    /\ victim' = [victim EXCEPT ![p] = v]
    /\ pc' = [pc EXCEPT ![p] = l]
    /\ UNCHANGED <<session, sess, using, then>>

\* closeSession; so ends a failed prewarm or verification, too.
closeSession(p) ==
    /\ pc[p] \in {"idle", "remove"}
    /\ mapped' = None
    /\ \/ mapped # None /\ CloseNext(p, "closeSession", mapped, "closeNow")
       \/ /\ mapped = None /\ pc[p] = "remove"
          /\ Finish(p, using)
          /\ UNCHANGED session

\* Mutant: closeAll forgets to clear the registry.
closeAllKeepsRegistry(p) ==
    /\ pc[p] = "idle"
    /\ CloseNext(p, "closeAll", mapped, IF mapped = None THEN "clear" ELSE "closeNow")
    /\ UNCHANGED mapped

\* closeAll copies the registered sessions, then clears the registry.
closeAll(p) ==
    /\ pc[p] = "idle"
    /\ CloseNext(p, "closeAll", mapped, "clear")
    /\ UNCHANGED mapped

ClearRegistry(p) ==
    /\ pc[p] = "clear"
    /\ mapped' = None
    /\ IF victim[p] = None THEN Finish(p, using) ELSE Goto(p, "closeNow")
    /\ Objects(session)

\* reapIdleSessions finds the registered session idle for too long.
reapIdleSessions(p) ==
    /\ pc[p] = "idle"
    /\ mapped # None
    /\ CloseNext(p, "reapIdleSessions", mapped, "removeExpired")
    /\ UNCHANGED mapped

RemoveExpired(p) ==
    /\ pc[p] = "removeExpired"
    /\ IF mapped = victim[p]
       THEN mapped' = None /\ Goto(p, "closeNow")
       ELSE UNCHANGED mapped /\ Finish(p, using)
    /\ Objects(session)

-----------------------------------------------------------------------------
(* closeSessionNow *)

\* The caller goes on: getSession's call with its new session, others return.
AfterClose(p, u) ==
    IF call[p] \in SessionCalls
    THEN /\ pc' = [pc EXCEPT ![p] = Entry(call[p])]
         /\ victim' = [victim EXCEPT ![p] = None]
         /\ using' = u
         /\ UNCHANGED <<call, sess, then>>
    ELSE Finish(p, u)

\* markClosed reads closeRequested ...
TestClosed(p) ==
    /\ pc[p] = "closeNow"
    /\ UNCHANGED mapped
    /\ IF session[victim[p]].closeRequested THEN AfterClose(p, using) ELSE Goto(p, "mark")
    /\ Objects(session)

\* ... and sets it in another step.  The main thread then launches the close as
\* a coroutine, which is the process from here on; elsewhere the caller waits.
MarkClosed(p) ==
    /\ pc[p] = "mark"
    /\ UNCHANGED mapped
    /\ Goto(p, "closeUnderLock")
    /\ Objects([session EXCEPT ![victim[p]].closeRequested = TRUE])

\* Mutant: the close does not wait for the session lock.
CloseAtOnce(p) ==
    /\ pc[p] = "closeUnderLock"
    /\ UNCHANGED mapped
    /\ AfterClose(p, TornByClose(victim[p]))
    /\ Objects(Closed(session, victim[p]))

CloseUnderLock(p) ==
    /\ pc[p] = "closeUnderLock"
    /\ session[victim[p]].lock = None
    /\ UNCHANGED mapped
    /\ AfterClose(p, TornByClose(victim[p]))
    /\ Objects(Closed(session, victim[p]))

-----------------------------------------------------------------------------
(* openIfNeeded *)

Lock(p) ==
    /\ pc[p] = "lock"
    /\ session[sess[p]].lock = None
    /\ Goto(p, IF call[p] = "purgeCache" THEN "purgeBlocks" ELSE "openIfNeeded")
    /\ session' = [session EXCEPT ![sess[p]].lock = p]
    /\ UNCHANGED mapped

\* Back from openIfNeeded, which changed the local variables of others to u.
Opened(p, u) ==
    /\ using' = [u EXCEPT ![p] = None]
    /\ then' = [then EXCEPT ![p] = None]
    /\ pc' = [pc EXCEPT ![p] = IF then[p] # None THEN then[p]
                               ELSE IF call[p] \in LockedCalls THEN "native" ELSE "opened"]
    /\ UNCHANGED <<call, sess, victim>>

\* A handle of either kind is enough; otherwise Native7zArchiveSession.open is
\* tried, and a native session that is null, empty or failing leads to Java.
openIfNeeded(p) ==
    /\ pc[p] = "openIfNeeded"
    /\ LET s == sess[p] IN
        \/ (NativeReady(s) \/ session[s].sevenZ) /\ Opened(p, using)
        \/ /\ ~NativeReady(s) /\ ~session[s].sevenZ
           /\ \/ Goto(p, "openJava")
              \/ ~session[s].nativeFailed /\ Hold(p, "setNative", "new", using)
    /\ UNCHANGED <<mapped, session>>

\* A handle that an unlocked caller set meanwhile is lost sight of.
SetNative(p) ==
    /\ pc[p] = "setNative"
    /\ Opened(p, Affected(sess[p], {"native"}, "astray"))
    /\ session' = [session EXCEPT ![sess[p]].native = TRUE]
    /\ UNCHANGED mapped

\* The archive cannot be opened: the exception ends the call.  prewarmSession
\* removes whatever is registered; verifyPassword answers false, closing the
\* handles first when it is openIfNeeded that failed.
OpenThrows(p) ==
    \/ /\ call[p] = "verifyPassword" /\ then[p] = None
       /\ LeaveUnverified(p, Closed(session, sess[p]), TornByClose(sess[p]))
    \/ /\ call[p] = "verifyPassword" /\ then[p] # None
       /\ LeaveUnverified(p, session, using)
    \/ /\ call[p] \in LockedCalls \ {"verifyPassword"}
       /\ Leave(p, session, using)
    \/ /\ call[p] \in UnlockedCalls
       /\ IF call[p] = "peek" THEN Finish(p, using)
          ELSE Become(p, "closeSession", "remove", using)
       /\ UNCHANGED mapped
       /\ Objects(session)

\* openJavaSevenZ, unless a Java handle is there by now.
OpenJava(p) ==
    /\ pc[p] = "openJava"
    /\ IF session[sess[p]].sevenZ
       THEN Opened(p, using) /\ UNCHANGED <<mapped, session>>
       ELSE \/ /\ Hold(p, "setJava", "new", using)
               /\ UNCHANGED <<mapped, session>>
            \/ OpenThrows(p)

SetJava(p) ==
    /\ pc[p] = "setJava"
    /\ Opened(p, Affected(sess[p], {"java"}, "astray"))
    /\ session' = [session EXCEPT ![sess[p]].sevenZ = TRUE]
    /\ UNCHANGED mapped

\* prewarmSession reads the handles once more, the other callers the entries.
Peeked(p) ==
    /\ pc[p] = "opened"
    /\ UNCHANGED mapped
    /\ IF /\ call[p] = "prewarmSession"
          /\ ~session[sess[p]].native /\ ~session[sess[p]].sevenZ
       THEN Become(p, "closeSession", "remove", using)
       ELSE Finish(p, using)
    /\ Objects(session)

-----------------------------------------------------------------------------
(* Work under the session lock *)

\* verifyPassword: a password proven for this session needs no lock.
VerifyFastPath(p) ==
    /\ pc[p] = "fastPath"
    /\ UNCHANGED mapped
    /\ IF session[sess[p]].verified THEN Finish(p, using) ELSE Goto(p, "lock")
    /\ Objects(session)

Proven(p) == [session EXCEPT ![sess[p]].verified = TRUE]

\* extractToFile falls back to extractSequential after it released the lock.
FallBack(p) ==
    /\ Become(p, "extractSequential", "getSession", using)
    /\ UNCHANGED mapped
    /\ Objects(Unlocked(session, p))

\* The native session cannot serve the call.
NotNative(p) ==
    IF call[p] = "extractToFile" THEN FallBack(p)
    ELSE /\ Goto(p, IF call[p] = "verifyPassword" THEN "probe" ELSE "java")
         /\ UNCHANGED <<mapped, session>>

\* The native session is there and has the entry, or has it not; a password
\* is proven without an entry when there is none, or the header is encrypted.
UseNative(p) ==
    /\ pc[p] = "native"
    /\ \/ /\ NativeReady(sess[p])
          /\ Hold(p, "decoding", "native", using)
          /\ UNCHANGED <<mapped, session>>
       \/ /\ NativeReady(sess[p]) => call[p] # "verifyPassword"
          /\ NotNative(p)
       \/ /\ NativeReady(sess[p]) /\ call[p] = "verifyPassword"
          /\ Leave(p, Proven(p), using)

\* The native call is over, and the caller has consumed what it returned.
Decoded(p) ==
    /\ pc[p] = "decoding"
    /\ Leave(p, IF call[p] = "verifyPassword" THEN Proven(p) ELSE session, using)

\* markNativeFailed: the native session is given up for good, and a Java
\* session opened unless there is one.
MarkNativeFailed(p) ==
    /\ pc' = [pc EXCEPT ![p] = "openJava"]
    /\ then' = [then EXCEPT ![p] = IF call[p] = "verifyPassword" THEN "probe" ELSE "java"]
    /\ using' = [Affected(sess[p], {"native"}, "torn") EXCEPT ![p] = None]
    /\ session' = [session EXCEPT ![sess[p]].native = FALSE, ![sess[p]].nativeFailed = TRUE]
    /\ UNCHANGED <<mapped, call, sess, victim>>

\* Mutant: a failing native call is tried again instead of falling back.
DecodeFailsRetries(p) ==
    /\ pc[p] = "decoding"
    /\ IF call[p] \in {"extractThumbnailResult", "extractToFile"}
       THEN Goto(p, "native") /\ UNCHANGED <<mapped, session>>
       ELSE MarkNativeFailed(p)

\* The native call failed.  Thumbnails and extractToFile leave the native
\* session alone, the others give it up.
DecodeFails(p) ==
    /\ pc[p] = "decoding"
    /\ IF call[p] \in {"extractThumbnailResult", "extractToFile"}
       THEN NotNative(p)
       ELSE MarkNativeFailed(p)

\* reset(): nothing for a native session, otherwise close and open again.
Reset(p, l) ==
    IF NativeReady(sess[p])
    THEN Goto(p, l) /\ UNCHANGED <<mapped, session>>
    ELSE /\ pc' = [pc EXCEPT ![p] = "openIfNeeded"]
         /\ then' = [then EXCEPT ![p] = l]
         /\ using' = [TornByClose(sess[p]) EXCEPT ![p] = None]
         /\ UNCHANGED <<mapped, call, sess, victim>>
         /\ session' = Closed(session, sess[p])

\* The Java stream: the entry is missing, or ahead of the cursor, or behind.
Java(p) ==
    /\ pc[p] = "java"
    /\ \/ Leave(p, session, using)
       \/ /\ session[sess[p]].sevenZ
          /\ Hold(p, "streaming", "java", using)
          /\ UNCHANGED <<mapped, session>>
       \/ session[sess[p]].sevenZ /\ Reset(p, "stream")

\* After a rewind.
Stream(p) ==
    /\ pc[p] = "stream"
    /\ IF session[sess[p]].sevenZ
       THEN Hold(p, "streaming", "java", using) /\ UNCHANGED <<mapped, session>>
       ELSE Leave(p, session, using)

\* The stream reached its entry or its end, or threw: then it is reset.
Streamed(p) ==
    /\ pc[p] = "streaming"
    /\ Leave(p, session, using) \/ Reset(p, "rethrow")

Rethrow(p) ==
    /\ pc[p] = "rethrow"
    /\ Leave(p, session, using)

\* verifyPassword opens a Java handle, whether or not there is one already.
Probe(p) ==
    /\ pc[p] = "probe"
    /\ \/ /\ Hold(p, "setProbe", "new", using)
          /\ UNCHANGED <<mapped, session>>
       \/ LeaveUnverified(p, Closed(session, sess[p]), TornByClose(sess[p]))

SetProbe(p) ==
    /\ pc[p] = "setProbe"
    /\ Hold(p, "probing", "java", Affected(sess[p], {"java"}, "astray"))
    /\ session' = [session EXCEPT ![sess[p]].sevenZ = TRUE]
    /\ UNCHANGED mapped

Probed(p) ==
    /\ pc[p] = "probing"
    /\ Leave(p, Proven(p), using) \/ LeaveUnverified(p, session, using)

-----------------------------------------------------------------------------
(* purgeCache: the session is looked up and locked, and looked up again. *)

purgeCache(p) ==
    /\ pc[p] = "idle"
    /\ mapped # None
    /\ pc' = [pc EXCEPT ![p] = "lock"]
    /\ call' = [call EXCEPT ![p] = "purgeCache"]
    /\ sess' = [sess EXCEPT ![p] = mapped]
    /\ UNCHANGED <<mapped, session, using, victim, then>>

PurgeBlocks(p) ==
    /\ pc[p] = "purgeBlocks"
    /\ IF mapped # None /\ session[mapped].native
       THEN /\ pc' = [pc EXCEPT ![p] = "purging"]
            /\ victim' = [victim EXCEPT ![p] = mapped]
            /\ UNCHANGED <<mapped, session, call, sess, using, then>>
       ELSE Leave(p, session, using)

Purged(p) ==
    /\ pc[p] = "purging"
    /\ Leave(p, session, using)

-----------------------------------------------------------------------------

\* The calls of the environment.
Begin(p) ==
    \/ pc[p] = "idle" /\ getSession(p)
    \/ pc[p] = "idle" /\ "closeSession" \in Offered /\ closeSession(p)
    \/ "closeAll" \in Offered /\ closeAll(p)
    \/ "reapIdleSessions" \in Offered /\ reapIdleSessions(p)
    \/ "purgeCache" \in Offered /\ purgeCache(p)

\* The steps of a call that wait for nobody.
Step(p) ==
    \/ pc[p] # "idle" /\ (getSession(p) \/ closeSession(p))
    \/ ClearRegistry(p) \/ RemoveExpired(p) \/ TestClosed(p) \/ MarkClosed(p)
    \/ openIfNeeded(p) \/ SetNative(p) \/ OpenJava(p) \/ SetJava(p) \/ Peeked(p)
    \/ VerifyFastPath(p) \/ UseNative(p) \/ Decoded(p) \/ DecodeFails(p)
    \/ Java(p) \/ Stream(p) \/ Streamed(p) \/ Rethrow(p)
    \/ Probe(p) \/ SetProbe(p) \/ Probed(p) \/ PurgeBlocks(p) \/ Purged(p)

Next ==
    \E p \in Procs : Begin(p) \/ Step(p) \/ Lock(p) \/ CloseUnderLock(p)

Spec == Init /\ [][Next]_vars

\* Calls go on and native calls return; the session lock is a kotlinx Mutex,
\* which serves its waiters in order.
Fairness ==
    \A p \in Procs : /\ WF_vars(Step(p))
                     /\ SF_vars(Lock(p))
                     /\ SF_vars(CloseUnderLock(p))

FairSpec == Spec /\ Fairness

-----------------------------------------------------------------------------
(* Properties *)

\* Nobody tears a handle down while an extraction, a stream or a probe uses
\* it (closeSessionNow, markNativeFailed, reset).
UsedHandleIsOpen ==
    \A p \in Procs : pc[p] \in {"decoding", "streaming", "probing"} => using[p] # "torn"

\* A session that can still be looked up has not been marked for its final
\* close: closeSession, closeAll, the reaper, a failed prewarm and a password
\* change all unregister it first.
RegisteredIsLive == mapped # None => ~session[mapped].closeRequested

\* Every call ends: no call waits for a session lock it holds itself, and no
\* failure keeps a lock (extractToFile, the fallbacks, the exceptions).
CallsEnd == \A p \in Procs : pc[p] # "idle" ~> pc[p] = "idle"

=============================================================================
