-------------------------- MODULE SevenZSessionProofs --------------------------
(***************************************************************************)
(* What holds of SevenZSession for any number of callers, passwords and    *)
(* sessions: the session lock covers every use of a handle, so that nobody *)
(* tears one down under its user; and a session that can be looked up has  *)
(* not been marked for its end.                                            *)
(***************************************************************************)
EXTENDS SevenZSession, TLAPS

-----------------------------------------------------------------------------
(* Where a call is *)

OpenPcs  == {"openIfNeeded", "setNative", "openJava", "setJava"}
UsePcs   == {"decoding", "streaming", "probing"}
WorkPcs  == {"native", "java", "stream", "rethrow", "probe", "setProbe"} \cup UsePcs
PurgePcs == {"purgeBlocks", "purging"}
ClosePcs == {"closeNow", "mark", "closeUnderLock"}
Pcs == {"idle", "getSession", "fastPath", "lock", "opened", "remove", "clear", "removeExpired"}
       \cup OpenPcs \cup WorkPcs \cup PurgePcs \cup ClosePcs

\* The calls that withLock covers, from its start to its end.
InLock(p) ==
    pc[p] \in WorkPcs \cup PurgePcs \/ (pc[p] \in OpenPcs /\ call[p] \in LockedCalls)

HasSession(p) ==
    \/ pc[p] \in {"getSession", "fastPath", "lock", "opened"} \cup OpenPcs \cup WorkPcs \cup PurgePcs
    \/ pc[p] \in ClosePcs /\ call[p] \in SessionCalls

SessionFields ==
    [password : Passwords \cup {None}, lock : Procs \cup {None}, native : BOOLEAN, sevenZ : BOOLEAN,
     nativeFailed : BOOLEAN, verified : BOOLEAN, closeRequested : BOOLEAN]

Handles == {None, "new", "native", "java", "torn", "astray"}
ObjectsTyped == session \in [Sessions -> SessionFields]
LocalsTyped ==
    /\ mapped \in Sessions \cup {None}
    /\ pc \in [Procs -> Pcs]
    /\ call \in [Procs -> Calls \cup {None}]
    /\ sess \in [Procs -> Sessions \cup {None}]
    /\ using \in [Procs -> Handles]
    /\ victim \in [Procs -> Sessions \cup {None}]
    /\ then \in [Procs -> {None, "java", "probe", "stream", "rethrow"}]
TypeOK == LocalsTyped /\ ObjectsTyped

\* Which call is where, and that openIfNeeded returns only into withLock.
InPlace(p) ==
    /\ pc[p] \in WorkPcs => call[p] \in LockedCalls
    /\ pc[p] \in PurgePcs => call[p] = "purgeCache"
    /\ pc[p] \in OpenPcs => call[p] \in SessionCalls
    /\ pc[p] = "opened" => call[p] \in UnlockedCalls
    /\ pc[p] = "lock" => call[p] \in LockedCalls \cup {"purgeCache"}
    /\ pc[p] = "fastPath" => call[p] = "verifyPassword"
    /\ pc[p] = "getSession" => call[p] = "extractSequential"
    /\ pc[p] \in {"clear", "removeExpired"} => call[p] \in CloseCalls
    /\ then[p] # None => pc[p] \in OpenPcs /\ call[p] \in LockedCalls
CallsInPlace == \A p \in Procs : InPlace(p)

InHand(p) ==
    /\ HasSession(p) => sess[p] \in Sessions
    /\ pc[p] \in ClosePcs \cup {"removeExpired"} => victim[p] \in Sessions
SessionsInHand == \A p \in Procs : InHand(p)

\* Whoever is inside withLock holds the lock of its session.
LockIsHeld == \A p \in Procs : InLock(p) => session[sess[p]].lock = p

\* Whoever is about to close a session for good has unregistered it.
VictimsAreUnregistered == \A p \in Procs : pc[p] \in ClosePcs => victim[p] # mapped

IInv ==
    /\ TypeOK /\ CallsInPlace /\ SessionsInHand /\ LockIsHeld
    /\ VictimsAreUnregistered /\ RegisteredIsLive /\ UsedHandleIsOpen
(* Steps *)
ProcStep(p) == Begin(p) \/ Step(p) \/ Lock(p) \/ CloseUnderLock(p)

\* A new object takes a name that nobody refers to.
LEMMA UnusedIsFresh ==
    ASSUME NEW s \in Unused
    PROVE  s \in Sessions /\ s \notin Referenced
BY DEF Unused

\* Others may find their handle torn or astray, nothing else.
LEMMA AffectedTyped ==
    ASSUME LocalsTyped, NEW s, NEW k, NEW x \in {"torn", "astray"}
    PROVE  Affected(s, k, x) \in [Procs -> Handles]
BY DEF LocalsTyped, Affected, Handles

\* So may those who are inside a call when their session is closed.
LEMMA TornTyped ==
    ASSUME LocalsTyped, NEW s
    PROVE  TornByClose(s) \in [Procs -> Handles]
BY AffectedTyped DEF TornByClose

\* Every step leaves the locals of the calls typed.
LEMMA LocalsStep ==
    ASSUME LocalsTyped, CallsInPlace, SessionsInHand, NEW p \in Procs, ProcStep(p)
    PROVE  LocalsTyped'
<1> USE NoneAssumption, UnusedIsFresh, AffectedTyped, TornTyped DEF Handles, LocalsTyped,
        CallsInPlace, InPlace, SessionsInHand, InHand, HasSession, Pcs, OpenPcs, UsePcs,
        WorkPcs, PurgePcs, ClosePcs, Calls, SessionCalls, CloseCalls, LockedCalls,
        UnlockedCalls, locals
<1>1. ASSUME getSession(p) PROVE LocalsTyped'
  <2>1. PICK c, w : c \in SessionCalls /\ GetSession(p, c, w)
    BY <1>1 DEF getSession
  <2>2. c \in SessionCalls /\ Entry(c) \in {"fastPath", "lock", "openIfNeeded"}
    BY <2>1 DEF Entry
  <2>3. /\ call' = [call EXCEPT ![p] = c] /\ UNCHANGED <<using, then>>
        /\ \/ sess' = [sess EXCEPT ![p] = mapped] /\ pc' = [pc EXCEPT ![p] = Entry(c)] /\ UNCHANGED <<mapped, victim>>
           \/ \E s \in Sessions : /\ mapped' = s /\ sess' = [sess EXCEPT ![p] = s] /\ victim' = [victim EXCEPT ![p] = mapped]
                                  /\ pc' = [pc EXCEPT ![p] = IF mapped = None THEN Entry(c) ELSE "closeNow"]
    BY <2>1 DEF GetSession
  <2> QED
    BY <2>2, <2>3
<1>2. ASSUME closeSession(p) PROVE LocalsTyped'
  BY <1>2 DEF closeSession, CloseNext, Finish, Become
<1>3. ASSUME closeAll(p) PROVE LocalsTyped'
  BY <1>3 DEF closeAll, CloseNext
<1>4. ASSUME ClearRegistry(p) PROVE LocalsTyped'
  BY <1>4 DEF ClearRegistry, Finish, Become, Goto, Hold
<1>5. ASSUME reapIdleSessions(p) PROVE LocalsTyped'
  BY <1>5 DEF reapIdleSessions, CloseNext
<1>6. ASSUME RemoveExpired(p) PROVE LocalsTyped'
  BY <1>6 DEF RemoveExpired, Finish, Become, Goto, Hold
<1>7. ASSUME TestClosed(p) PROVE LocalsTyped'
  BY <1>7 DEF TestClosed, AfterClose, Entry, Finish, Become, Goto, Hold
<1>8. ASSUME MarkClosed(p) PROVE LocalsTyped'
  BY <1>8 DEF MarkClosed, Goto, Hold
<1>9. ASSUME CloseUnderLock(p) PROVE LocalsTyped'
  BY <1>9 DEF CloseUnderLock, AfterClose, Entry, Finish, Become
<1>10. ASSUME Lock(p) PROVE LocalsTyped'
  BY <1>10 DEF Lock, Goto, Hold
<1>11. ASSUME openIfNeeded(p) PROVE LocalsTyped'
  BY <1>11 DEF openIfNeeded, Opened, Goto, Hold
<1>12. ASSUME SetNative(p) PROVE LocalsTyped'
  BY <1>12 DEF SetNative, Opened
<1>13. ASSUME OpenJava(p) PROVE LocalsTyped'
  BY <1>13 DEF OpenJava, Opened, Hold, OpenThrows, LeaveUnverified, Leave, Become, Finish
<1>14. ASSUME SetJava(p) PROVE LocalsTyped'
  BY <1>14 DEF SetJava, Opened
<1>15. ASSUME Peeked(p) PROVE LocalsTyped'
  BY <1>15 DEF Peeked, Become, Finish
<1>16. ASSUME VerifyFastPath(p) PROVE LocalsTyped'
  BY <1>16 DEF VerifyFastPath, Finish, Become, Goto, Hold
<1>17. ASSUME UseNative(p) PROVE LocalsTyped'
  BY <1>17 DEF UseNative, Hold, NotNative, FallBack, Become, Goto, Leave, Finish
<1>18. ASSUME Decoded(p) PROVE LocalsTyped'
  BY <1>18 DEF Decoded, Leave, Finish, Become
<1>19. ASSUME DecodeFails(p) PROVE LocalsTyped'
  BY <1>19 DEF DecodeFails, NotNative, FallBack, Become, Goto, Hold, MarkNativeFailed
<1>20. ASSUME Java(p) PROVE LocalsTyped'
  BY <1>20 DEF Java, Leave, Finish, Become, Hold, Reset, Goto
<1>21. ASSUME Stream(p) PROVE LocalsTyped'
  BY <1>21 DEF Stream, Leave, Finish, Become, Hold
<1>22. ASSUME Streamed(p) PROVE LocalsTyped'
  BY <1>22 DEF Streamed, Leave, Finish, Become, Hold, Reset, Goto
<1>23. ASSUME Rethrow(p) PROVE LocalsTyped'
  BY <1>23 DEF Rethrow, Leave, Finish, Become
<1>24. ASSUME Probe(p) PROVE LocalsTyped'
  BY <1>24 DEF Probe, Hold, LeaveUnverified, Become
<1>25. ASSUME SetProbe(p) PROVE LocalsTyped'
  BY <1>25 DEF SetProbe, Hold
<1>26. ASSUME Probed(p) PROVE LocalsTyped'
  BY <1>26 DEF Probed, Leave, LeaveUnverified, Finish, Become
<1>27. ASSUME purgeCache(p) PROVE LocalsTyped'
  BY <1>27 DEF purgeCache
<1>28. ASSUME PurgeBlocks(p) PROVE LocalsTyped'
  BY <1>28 DEF PurgeBlocks, Leave, Finish, Become
<1>29. ASSUME Purged(p) PROVE LocalsTyped'
  BY <1>29 DEF Purged, Leave, Finish, Become
<1> QED
  BY <1>1, <1>2, <1>3, <1>4, <1>5, <1>6, <1>7, <1>8, <1>9, <1>10, <1>11, <1>12, <1>13,
     <1>14, <1>15, <1>16, <1>17, <1>18, <1>19, <1>20, <1>21, <1>22, <1>23, <1>24, <1>25,
     <1>26, <1>27, <1>28, <1>29 DEF ProcStep, Begin, Step

\* A step changes what its own process knows; others at most see their handle
\* torn or lost.
Local(p) ==
    \A q \in Procs \ {p} :
        pc'[q] = pc[q] /\ call'[q] = call[q] /\ sess'[q] = sess[q] /\ victim'[q] = victim[q] /\ then'[q] = then[q]

\* Every step of a call leaves the locals of the others alone.
LEMMA LocalStep ==
    ASSUME LocalsTyped, NEW p \in Procs, ProcStep(p)
    PROVE  Local(p)
<1> USE DEF Local, LocalsTyped, locals
<1>1. ASSUME getSession(p) PROVE Local(p)
  <2>1. PICK c, w : GetSession(p, c, w)
    BY <1>1 DEF getSession
  <2>2. /\ call' = [call EXCEPT ![p] = c] /\ UNCHANGED <<using, then>>
        /\ \/ sess' = [sess EXCEPT ![p] = mapped] /\ pc' = [pc EXCEPT ![p] = Entry(c)] /\ UNCHANGED <<mapped, victim>>
           \/ \E s \in Sessions : /\ mapped' = s /\ sess' = [sess EXCEPT ![p] = s] /\ victim' = [victim EXCEPT ![p] = mapped]
                                  /\ pc' = [pc EXCEPT ![p] = IF mapped = None THEN Entry(c) ELSE "closeNow"]
    BY <2>1, UnusedIsFresh DEF GetSession
  <2> QED
    BY <2>2
<1>2. ASSUME closeSession(p) PROVE Local(p)
  BY <1>2 DEF closeSession, CloseNext, Finish, Become
<1>3. ASSUME closeAll(p) PROVE Local(p)
  BY <1>3 DEF closeAll, CloseNext
<1>4. ASSUME ClearRegistry(p) PROVE Local(p)
  BY <1>4 DEF ClearRegistry, Finish, Become, Goto, Hold
<1>5. ASSUME reapIdleSessions(p) PROVE Local(p)
  BY <1>5 DEF reapIdleSessions, CloseNext
<1>6. ASSUME RemoveExpired(p) PROVE Local(p)
  BY <1>6 DEF RemoveExpired, Finish, Become, Goto, Hold
<1>7. ASSUME TestClosed(p) PROVE Local(p)
  BY <1>7 DEF TestClosed, AfterClose, Entry, Finish, Become, Goto, Hold
<1>8. ASSUME MarkClosed(p) PROVE Local(p)
  BY <1>8 DEF MarkClosed, Goto, Hold
<1>9. ASSUME CloseUnderLock(p) PROVE Local(p)
  BY <1>9 DEF CloseUnderLock, AfterClose, Entry, Finish, Become
<1>10. ASSUME Lock(p) PROVE Local(p)
  BY <1>10 DEF Lock, Goto, Hold
<1>11. ASSUME openIfNeeded(p) PROVE Local(p)
  BY <1>11 DEF openIfNeeded, Opened, Goto, Hold
<1>12. ASSUME SetNative(p) PROVE Local(p)
  BY <1>12 DEF SetNative, Opened
<1>13. ASSUME OpenJava(p) PROVE Local(p)
  BY <1>13 DEF OpenJava, Opened, Hold, OpenThrows, LeaveUnverified, Leave, Become, Finish
<1>14. ASSUME SetJava(p) PROVE Local(p)
  BY <1>14 DEF SetJava, Opened
<1>15. ASSUME Peeked(p) PROVE Local(p)
  BY <1>15 DEF Peeked, Become, Finish
<1>16. ASSUME VerifyFastPath(p) PROVE Local(p)
  BY <1>16 DEF VerifyFastPath, Finish, Become, Goto, Hold
<1>17. ASSUME UseNative(p) PROVE Local(p)
  BY <1>17 DEF UseNative, Hold, NotNative, FallBack, Become, Goto, Leave, Finish
<1>18. ASSUME Decoded(p) PROVE Local(p)
  BY <1>18 DEF Decoded, Leave, Finish, Become
<1>19. ASSUME DecodeFails(p) PROVE Local(p)
  BY <1>19 DEF DecodeFails, NotNative, FallBack, Become, Goto, Hold, MarkNativeFailed
<1>20. ASSUME Java(p) PROVE Local(p)
  BY <1>20 DEF Java, Leave, Finish, Become, Hold, Reset, Goto
<1>21. ASSUME Stream(p) PROVE Local(p)
  BY <1>21 DEF Stream, Leave, Finish, Become, Hold
<1>22. ASSUME Streamed(p) PROVE Local(p)
  BY <1>22 DEF Streamed, Leave, Finish, Become, Hold, Reset, Goto
<1>23. ASSUME Rethrow(p) PROVE Local(p)
  BY <1>23 DEF Rethrow, Leave, Finish, Become
<1>24. ASSUME Probe(p) PROVE Local(p)
  BY <1>24 DEF Probe, Hold, LeaveUnverified, Become
<1>25. ASSUME SetProbe(p) PROVE Local(p)
  BY <1>25 DEF SetProbe, Hold
<1>26. ASSUME Probed(p) PROVE Local(p)
  BY <1>26 DEF Probed, Leave, LeaveUnverified, Finish, Become
<1>27. ASSUME purgeCache(p) PROVE Local(p)
  BY <1>27 DEF purgeCache
<1>28. ASSUME PurgeBlocks(p) PROVE Local(p)
  BY <1>28 DEF PurgeBlocks, Leave, Finish, Become
<1>29. ASSUME Purged(p) PROVE Local(p)
  BY <1>29 DEF Purged, Leave, Finish, Become
<1> QED
  BY <1>1, <1>2, <1>3, <1>4, <1>5, <1>6, <1>7, <1>8, <1>9, <1>10, <1>11, <1>12, <1>13,
     <1>14, <1>15, <1>16, <1>17, <1>18, <1>19, <1>20, <1>21, <1>22, <1>23, <1>24, <1>25,
     <1>26, <1>27, <1>28, <1>29 DEF ProcStep, Begin, Step

\* After its step a call is at a place of its own method.
LEMMA InPlaceStep ==
    ASSUME LocalsTyped, CallsInPlace, SessionsInHand, NEW p \in Procs, ProcStep(p)
    PROVE  InPlace(p)'
<1> USE NoneAssumption DEF Handles, LocalsTyped, CallsInPlace, InPlace, OpenPcs, UsePcs,
        WorkPcs, PurgePcs, ClosePcs, Calls, SessionCalls, CloseCalls, LockedCalls,
        UnlockedCalls, locals
<1>1. ASSUME getSession(p) PROVE InPlace(p)'
  <2>1. PICK c, w : c \in SessionCalls /\ GetSession(p, c, w) /\ pc[p] \in {"idle", "getSession"}
    BY <1>1 DEF getSession
  <2>2. /\ call' = [call EXCEPT ![p] = c] /\ UNCHANGED <<using, then>>
        /\ \/ sess' = [sess EXCEPT ![p] = mapped] /\ pc' = [pc EXCEPT ![p] = Entry(c)] /\ UNCHANGED <<mapped, victim>>
           \/ \E s \in Sessions : /\ mapped' = s /\ sess' = [sess EXCEPT ![p] = s] /\ victim' = [victim EXCEPT ![p] = mapped]
                                  /\ pc' = [pc EXCEPT ![p] = IF mapped = None THEN Entry(c) ELSE "closeNow"]
    BY <2>1, UnusedIsFresh DEF GetSession
  <2> QED
    BY <2>1, <2>2 DEF Entry
<1>2. ASSUME closeSession(p) PROVE InPlace(p)'
  BY <1>2 DEF closeSession, CloseNext, Finish, Become
<1>3. ASSUME closeAll(p) PROVE InPlace(p)'
  BY <1>3 DEF closeAll, CloseNext
<1>4. ASSUME ClearRegistry(p) PROVE InPlace(p)'
  BY <1>4 DEF ClearRegistry, Finish, Become, Goto, Hold
<1>5. ASSUME reapIdleSessions(p) PROVE InPlace(p)'
  BY <1>5 DEF reapIdleSessions, CloseNext
<1>6. ASSUME RemoveExpired(p) PROVE InPlace(p)'
  BY <1>6 DEF RemoveExpired, Finish, Become, Goto, Hold
<1>7. ASSUME TestClosed(p) PROVE InPlace(p)'
  BY <1>7 DEF TestClosed, AfterClose, Entry, Finish, Become, Goto, Hold
<1>8. ASSUME MarkClosed(p) PROVE InPlace(p)'
  BY <1>8 DEF MarkClosed, Goto, Hold
<1>9. ASSUME CloseUnderLock(p) PROVE InPlace(p)'
  BY <1>9 DEF CloseUnderLock, AfterClose, Entry, Finish, Become
<1>10. ASSUME Lock(p) PROVE InPlace(p)'
  BY <1>10 DEF Lock, Goto, Hold
<1>11. ASSUME openIfNeeded(p) PROVE InPlace(p)'
  BY <1>11 DEF openIfNeeded, Opened, Goto, Hold
<1>12. ASSUME SetNative(p) PROVE InPlace(p)'
  BY <1>12 DEF SetNative, Opened
<1>13. ASSUME OpenJava(p) PROVE InPlace(p)'
  BY <1>13 DEF OpenJava, Opened, Hold, OpenThrows, LeaveUnverified, Leave, Become, Finish
<1>14. ASSUME SetJava(p) PROVE InPlace(p)'
  BY <1>14 DEF SetJava, Opened
<1>15. ASSUME Peeked(p) PROVE InPlace(p)'
  BY <1>15 DEF Peeked, Become, Finish
<1>16. ASSUME VerifyFastPath(p) PROVE InPlace(p)'
  BY <1>16 DEF VerifyFastPath, Finish, Become, Goto, Hold
<1>17. ASSUME UseNative(p) PROVE InPlace(p)'
  BY <1>17 DEF UseNative, Hold, NotNative, FallBack, Become, Goto, Leave, Finish
<1>18. ASSUME Decoded(p) PROVE InPlace(p)'
  BY <1>18 DEF Decoded, Leave, Finish, Become
<1>19. ASSUME DecodeFails(p) PROVE InPlace(p)'
  BY <1>19 DEF DecodeFails, NotNative, FallBack, Become, Goto, Hold, MarkNativeFailed
<1>20. ASSUME Java(p) PROVE InPlace(p)'
  BY <1>20 DEF Java, Leave, Finish, Become, Hold, Reset, Goto
<1>21. ASSUME Stream(p) PROVE InPlace(p)'
  BY <1>21 DEF Stream, Leave, Finish, Become, Hold
<1>22. ASSUME Streamed(p) PROVE InPlace(p)'
  BY <1>22 DEF Streamed, Leave, Finish, Become, Hold, Reset, Goto
<1>23. ASSUME Rethrow(p) PROVE InPlace(p)'
  BY <1>23 DEF Rethrow, Leave, Finish, Become
<1>24. ASSUME Probe(p) PROVE InPlace(p)'
  BY <1>24 DEF Probe, Hold, LeaveUnverified, Become
<1>25. ASSUME SetProbe(p) PROVE InPlace(p)'
  BY <1>25 DEF SetProbe, Hold
<1>26. ASSUME Probed(p) PROVE InPlace(p)'
  BY <1>26 DEF Probed, Leave, LeaveUnverified, Finish, Become
<1>27. ASSUME purgeCache(p) PROVE InPlace(p)'
  BY <1>27 DEF purgeCache
<1>28. ASSUME PurgeBlocks(p) PROVE InPlace(p)'
  BY <1>28 DEF PurgeBlocks, Leave, Finish, Become
<1>29. ASSUME Purged(p) PROVE InPlace(p)'
  BY <1>29 DEF Purged, Leave, Finish, Become
<1> QED
  BY <1>1, <1>2, <1>3, <1>4, <1>5, <1>6, <1>7, <1>8, <1>9, <1>10, <1>11, <1>12, <1>13,
     <1>14, <1>15, <1>16, <1>17, <1>18, <1>19, <1>20, <1>21, <1>22, <1>23, <1>24, <1>25,
     <1>26, <1>27, <1>28, <1>29 DEF ProcStep, Begin, Step

\* ... and it still has the session, and the victim, that the place needs.
LEMMA InHandStep ==
    ASSUME LocalsTyped, CallsInPlace, SessionsInHand, NEW p \in Procs, ProcStep(p)
    PROVE  InHand(p)'
<1> USE NoneAssumption DEF Handles, LocalsTyped, CallsInPlace, InPlace, SessionsInHand, InHand,
        HasSession, OpenPcs, UsePcs, WorkPcs, PurgePcs, ClosePcs, Calls, SessionCalls,
        CloseCalls, LockedCalls, UnlockedCalls, locals
<1>1. ASSUME getSession(p) PROVE InHand(p)'
  <2>1. PICK c, w : c \in SessionCalls /\ GetSession(p, c, w) /\ pc[p] \in {"idle", "getSession"}
    BY <1>1 DEF getSession
  <2>2. /\ call' = [call EXCEPT ![p] = c] /\ UNCHANGED <<using, then>>
        /\ \/ mapped # None /\ sess' = [sess EXCEPT ![p] = mapped] /\ pc' = [pc EXCEPT ![p] = Entry(c)] /\ UNCHANGED <<mapped, victim>>
           \/ \E s \in Sessions : /\ mapped' = s /\ sess' = [sess EXCEPT ![p] = s] /\ victim' = [victim EXCEPT ![p] = mapped]
                                  /\ pc' = [pc EXCEPT ![p] = IF mapped = None THEN Entry(c) ELSE "closeNow"]
    BY <2>1, UnusedIsFresh DEF GetSession
  <2> QED
    BY <2>1, <2>2 DEF Entry
<1>2. ASSUME closeSession(p) PROVE InHand(p)'
  BY <1>2 DEF closeSession, CloseNext, Finish, Become
<1>3. ASSUME closeAll(p) PROVE InHand(p)'
  BY <1>3 DEF closeAll, CloseNext
<1>4. ASSUME ClearRegistry(p) PROVE InHand(p)'
  BY <1>4 DEF ClearRegistry, Finish, Become, Goto, Hold
<1>5. ASSUME reapIdleSessions(p) PROVE InHand(p)'
  BY <1>5 DEF reapIdleSessions, CloseNext
<1>6. ASSUME RemoveExpired(p) PROVE InHand(p)'
  BY <1>6 DEF RemoveExpired, Finish, Become, Goto, Hold
<1>7. ASSUME TestClosed(p) PROVE InHand(p)'
  BY <1>7 DEF TestClosed, AfterClose, Entry, Finish, Become, Goto, Hold
<1>8. ASSUME MarkClosed(p) PROVE InHand(p)'
  BY <1>8 DEF MarkClosed, Goto, Hold
<1>9. ASSUME CloseUnderLock(p) PROVE InHand(p)'
  BY <1>9 DEF CloseUnderLock, AfterClose, Entry, Finish, Become
<1>10. ASSUME Lock(p) PROVE InHand(p)'
  BY <1>10 DEF Lock, Goto, Hold
<1>11. ASSUME openIfNeeded(p) PROVE InHand(p)'
  BY <1>11 DEF openIfNeeded, Opened, Goto, Hold
<1>12. ASSUME SetNative(p) PROVE InHand(p)'
  BY <1>12 DEF SetNative, Opened
<1>13. ASSUME OpenJava(p) PROVE InHand(p)'
  BY <1>13 DEF OpenJava, Opened, Hold, OpenThrows, LeaveUnverified, Leave, Become, Finish
<1>14. ASSUME SetJava(p) PROVE InHand(p)'
  BY <1>14 DEF SetJava, Opened
<1>15. ASSUME Peeked(p) PROVE InHand(p)'
  BY <1>15 DEF Peeked, Become, Finish
<1>16. ASSUME VerifyFastPath(p) PROVE InHand(p)'
  BY <1>16 DEF VerifyFastPath, Finish, Become, Goto, Hold
<1>17. ASSUME UseNative(p) PROVE InHand(p)'
  BY <1>17 DEF UseNative, Hold, NotNative, FallBack, Become, Goto, Leave, Finish
<1>18. ASSUME Decoded(p) PROVE InHand(p)'
  BY <1>18 DEF Decoded, Leave, Finish, Become
<1>19. ASSUME DecodeFails(p) PROVE InHand(p)'
  BY <1>19 DEF DecodeFails, NotNative, FallBack, Become, Goto, Hold, MarkNativeFailed
<1>20. ASSUME Java(p) PROVE InHand(p)'
  BY <1>20 DEF Java, Leave, Finish, Become, Hold, Reset, Goto
<1>21. ASSUME Stream(p) PROVE InHand(p)'
  BY <1>21 DEF Stream, Leave, Finish, Become, Hold
<1>22. ASSUME Streamed(p) PROVE InHand(p)'
  BY <1>22 DEF Streamed, Leave, Finish, Become, Hold, Reset, Goto
<1>23. ASSUME Rethrow(p) PROVE InHand(p)'
  BY <1>23 DEF Rethrow, Leave, Finish, Become
<1>24. ASSUME Probe(p) PROVE InHand(p)'
  BY <1>24 DEF Probe, Hold, LeaveUnverified, Become
<1>25. ASSUME SetProbe(p) PROVE InHand(p)'
  BY <1>25 DEF SetProbe, Hold
<1>26. ASSUME Probed(p) PROVE InHand(p)'
  BY <1>26 DEF Probed, Leave, LeaveUnverified, Finish, Become
<1>27. ASSUME purgeCache(p) PROVE InHand(p)'
  BY <1>27 DEF purgeCache
<1>28. ASSUME PurgeBlocks(p) PROVE InHand(p)'
  BY <1>28 DEF PurgeBlocks, Leave, Finish, Become
<1>29. ASSUME Purged(p) PROVE InHand(p)'
  BY <1>29 DEF Purged, Leave, Finish, Become
<1> QED
  BY <1>1, <1>2, <1>3, <1>4, <1>5, <1>6, <1>7, <1>8, <1>9, <1>10, <1>11, <1>12, <1>13,
     <1>14, <1>15, <1>16, <1>17, <1>18, <1>19, <1>20, <1>21, <1>22, <1>23, <1>24, <1>25,
     <1>26, <1>27, <1>28, <1>29 DEF ProcStep, Begin, Step

-----------------------------------------------------------------------------
(* What a step does to the session objects *)

\* A step leaves the objects alone, or takes a lock, or gives one back, or
\* changes handles, or marks or closes an object, or makes a new one.
Keeps == session' = session \/ Objects(session)
Enters(p) ==
    /\ pc[p] = "lock" /\ session[sess[p]].lock = None
    /\ session' = [session EXCEPT ![sess[p]].lock = p]
Leaves(p) ==
    /\ InLock(p) /\ ~InLock(p)'
    /\ \E f \in {session, Proven(p), Closed(session, sess[p])} : Objects(Unlocked(f, p))
MovesHandles(p) ==
    session' \in {[session EXCEPT ![sess[p]].native = TRUE], [session EXCEPT ![sess[p]].sevenZ = TRUE],
                  [session EXCEPT ![sess[p]].native = FALSE, ![sess[p]].nativeFailed = TRUE],
                  Closed(session, sess[p])}
Marks(p) ==
    pc[p] = "mark" /\ Objects([session EXCEPT ![victim[p]].closeRequested = TRUE])
Closes(p) ==
    pc[p] = "closeUnderLock" /\ Objects(Closed(session, victim[p]))
Creates(p) ==
    /\ mapped' \in Sessions \ Referenced /\ ~InLock(p)'
    /\ \E w \in Passwords \cup {None} : Objects([session EXCEPT ![mapped'] = Session(w)])
Changes(p) ==
    \/ Keeps \/ Enters(p) \/ Leaves(p) \/ Marks(p) \/ Closes(p) \/ Creates(p)
    \/ pc[p] \in OpenPcs \cup WorkPcs /\ MovesHandles(p)

\* Every step of a call changes the objects in one of these ways.
LEMMA ChangesStep ==
    ASSUME IInv, NEW p \in Procs, ProcStep(p)
    PROVE  Changes(p)
<1> USE DEF Changes, Keeps, Leaves, MovesHandles, IInv, TypeOK, LocalsTyped, CallsInPlace,
        InPlace, InLock, OpenPcs, UsePcs, WorkPcs, PurgePcs, LockedCalls, UnlockedCalls, locals
<1>1. ASSUME getSession(p) PROVE Changes(p)
  <2>1. PICK c \in SessionCalls, w \in Passwords \cup {None} : GetSession(p, c, w)
    BY <1>1 DEF getSession, ObjectsTyped, SessionFields, SessionsInHand, InHand, HasSession, SessionCalls
  <2>2. CASE mapped # None /\ session[mapped].password = w
    BY <2>1, <2>2 DEF GetSession
  <2>3. CASE ~(mapped # None /\ session[mapped].password = w)
    <3>1. PICK s \in Sessions \ Referenced :
             /\ mapped' = s /\ Objects([session EXCEPT ![s] = Session(w)])
             /\ pc' = [pc EXCEPT ![p] = IF mapped = None THEN Entry(c) ELSE "closeNow"]
             /\ call' = [call EXCEPT ![p] = c]
      BY <2>1, <2>3, UnusedIsFresh DEF GetSession
    <3>2. ~InLock(p)'
      BY <3>1 DEF InLock, Entry, SessionCalls, PurgePcs
    <3> QED
      BY <3>1, <3>2 DEF Creates
  <2> QED
    BY <2>2, <2>3
<1>2. ASSUME closeSession(p) PROVE Changes(p)
  BY <1>2 DEF closeSession, CloseNext, Finish, Become
<1>3. ASSUME closeAll(p) PROVE Changes(p)
  BY <1>3 DEF closeAll, CloseNext
<1>4. ASSUME ClearRegistry(p) PROVE Changes(p)
  BY <1>4 DEF ClearRegistry, Finish, Become, Goto, Hold
<1>5. ASSUME reapIdleSessions(p) PROVE Changes(p)
  BY <1>5 DEF reapIdleSessions, CloseNext
<1>6. ASSUME RemoveExpired(p) PROVE Changes(p)
  BY <1>6 DEF RemoveExpired, Finish, Become, Goto, Hold
<1>7. ASSUME TestClosed(p) PROVE Changes(p)
  BY <1>7 DEF TestClosed, AfterClose, Finish, Become, Goto, Hold
<1>8. ASSUME MarkClosed(p) PROVE Changes(p)
  BY <1>8 DEF MarkClosed, Goto, Hold, Marks
<1>9. ASSUME CloseUnderLock(p) PROVE Changes(p)
  BY <1>9 DEF CloseUnderLock, AfterClose, Finish, Become, Closes
<1>10. ASSUME Lock(p) PROVE Changes(p)
  BY <1>10 DEF Lock, Goto, Hold, Enters
<1>11. ASSUME openIfNeeded(p) PROVE Changes(p)
  BY <1>11 DEF openIfNeeded, Opened, Goto, Hold
<1>12. ASSUME SetNative(p) PROVE Changes(p)
  BY <1>12 DEF SetNative, Opened
<1>13. ASSUME OpenJava(p) PROVE Changes(p)
  BY <1>13 DEF OpenJava, Opened, Hold, OpenThrows, LeaveUnverified, Leave, Become, Finish
<1>14. ASSUME SetJava(p) PROVE Changes(p)
  BY <1>14 DEF SetJava, Opened
<1>15. ASSUME Peeked(p) PROVE Changes(p)
  BY <1>15 DEF Peeked, Become, Finish
<1>16. ASSUME VerifyFastPath(p) PROVE Changes(p)
  BY <1>16 DEF VerifyFastPath, Finish, Become, Goto, Hold
<1>17. ASSUME UseNative(p) PROVE Changes(p)
  BY <1>17 DEF UseNative, Hold, NotNative, FallBack, Become, Goto, Leave, Finish
<1>18. ASSUME Decoded(p) PROVE Changes(p)
  BY <1>18 DEF Decoded, Leave, Finish, Become
<1>19. ASSUME DecodeFails(p) PROVE Changes(p)
  BY ZenonT(60), <1>19 DEF DecodeFails, NotNative, FallBack, Become, Goto, Hold, MarkNativeFailed
<1>20. ASSUME Java(p) PROVE Changes(p)
  BY <1>20 DEF Java, Leave, Finish, Become, Hold, Reset, Goto
<1>21. ASSUME Stream(p) PROVE Changes(p)
  BY <1>21 DEF Stream, Leave, Finish, Become, Hold
<1>22. ASSUME Streamed(p) PROVE Changes(p)
  BY <1>22 DEF Streamed, Leave, Finish, Become, Hold, Reset, Goto
<1>23. ASSUME Rethrow(p) PROVE Changes(p)
  BY <1>23 DEF Rethrow, Leave, Finish, Become
<1>24. ASSUME Probe(p) PROVE Changes(p)
  BY <1>24 DEF Probe, Hold, LeaveUnverified, Become
<1>25. ASSUME SetProbe(p) PROVE Changes(p)
  BY <1>25 DEF SetProbe, Hold
<1>26. ASSUME Probed(p) PROVE Changes(p)
  BY <1>26 DEF Probed, Leave, LeaveUnverified, Finish, Become
<1>27. ASSUME purgeCache(p) PROVE Changes(p)
  BY <1>27 DEF purgeCache
<1>28. ASSUME PurgeBlocks(p) PROVE Changes(p)
  BY <1>28 DEF PurgeBlocks, Leave, Finish, Become
<1>29. ASSUME Purged(p) PROVE Changes(p)
  BY <1>29 DEF Purged, Leave, Finish, Become
<1> QED
  BY <1>1, <1>2, <1>3, <1>4, <1>5, <1>6, <1>7, <1>8, <1>9, <1>10, <1>11, <1>12, <1>13,
     <1>14, <1>15, <1>16, <1>17, <1>18, <1>19, <1>20, <1>21, <1>22, <1>23, <1>24, <1>25,
     <1>26, <1>27, <1>28, <1>29 DEF ProcStep, Begin, Step

\* Objects that are referred to become f; that table is typed when f is.
LEMMA ObjectsGive ==
    ASSUME NEW f \in [Sessions -> SessionFields], Objects(f)
    PROVE  /\ ObjectsTyped'
           /\ \A s \in Sessions : s \in Referenced' => session'[s] = f[s]
<1>1. Session(None) \in SessionFields
  BY DEF Session, SessionFields
<1> QED
  BY <1>1 DEF Objects, ObjectsTyped

\* A handle, or what is known of one, is neither the lock nor the mark.
Alike(f, g) ==
    /\ g \in [Sessions -> SessionFields]
    /\ \A s \in Sessions : g[s].lock = f[s].lock /\ g[s].closeRequested = f[s].closeRequested

\* Handles and flags other than these two may change.
LEMMA FieldsAlike ==
    ASSUME NEW f \in [Sessions -> SessionFields], NEW t \in Sessions, NEW v \in BOOLEAN
    PROVE  /\ Alike(f, [f EXCEPT ![t].native = v])
           /\ Alike(f, [f EXCEPT ![t].sevenZ = v])
           /\ Alike(f, [f EXCEPT ![t].verified = v])
           /\ Alike(f, [f EXCEPT ![t].nativeFailed = v])
BY DEF SessionFields, Alike

\* What is alike stays alike.
LEMMA AlikeTwice ==
    ASSUME NEW f, NEW g, NEW h, Alike(f, g), Alike(g, h)
    PROVE  Alike(f, h)
BY DEF Alike

\* Closing the handles of a session keeps its lock and its mark.
LEMMA ClosedAlike ==
    ASSUME NEW f \in [Sessions -> SessionFields], NEW t \in Sessions
    PROVE  Alike(f, Closed(f, t))
<1> DEFINE one == [f EXCEPT ![t].native = FALSE]
           two == [one EXCEPT ![t].sevenZ = FALSE]
           three == [two EXCEPT ![t].verified = FALSE]
<1>1. Closed(f, t) = three
  BY DEF Closed
<1>2. Alike(f, one)
  BY FieldsAlike
<1> HIDE DEF one
<1>3. one \in [Sessions -> SessionFields]
  BY <1>2 DEF Alike
<1>4. Alike(one, two)
  BY <1>3, FieldsAlike
<1> HIDE DEF two
<1>5. two \in [Sessions -> SessionFields]
  BY <1>4 DEF Alike
<1>6. Alike(two, three)
  BY <1>5, FieldsAlike
<1> HIDE DEF three
<1> QED
  BY <1>1, <1>2, <1>4, <1>6, AlikeTwice

\* So does giving up on the native library.
LEMMA GivenUpAlike ==
    ASSUME NEW f \in [Sessions -> SessionFields], NEW t \in Sessions
    PROVE  Alike(f, [f EXCEPT ![t].native = FALSE, ![t].nativeFailed = TRUE])
<1> DEFINE one == [f EXCEPT ![t].native = FALSE]
           two == [one EXCEPT ![t].nativeFailed = TRUE]
<1>1. two = [f EXCEPT ![t].native = FALSE, ![t].nativeFailed = TRUE]
  OBVIOUS
<1>2. Alike(f, one)
  BY FieldsAlike
<1> HIDE DEF one
<1>3. one \in [Sessions -> SessionFields]
  BY <1>2 DEF Alike
<1>4. Alike(one, two)
  BY <1>3, FieldsAlike
<1> HIDE DEF two
<1> QED
  BY <1>1, <1>2, <1>4, AlikeTwice

\* After each kind of change, the lock and the mark of an object, and its type.
LocksKept(p) ==
    \A s \in (Sessions \cap Referenced) \cap Referenced' :
        session'[s].lock = session[s].lock \/ (s = sess[p] /\ (Enters(p) \/ Leaves(p)))
MarksKept(p) ==
    \A s \in (Sessions \cap Referenced) \cap Referenced' :
        session'[s].closeRequested = session[s].closeRequested \/ (s = victim[p] /\ Marks(p))

\* The ways in which objects change keep locks that are held and marks.
LEMMA FieldsStep ==
    ASSUME IInv, NEW p \in Procs, Changes(p)
    PROVE  ObjectsTyped' /\ LocksKept(p) /\ MarksKept(p)
<1> USE DEF LocksKept, MarksKept
<1>1. session \in [Sessions -> SessionFields]
  BY DEF IInv, TypeOK, ObjectsTyped
<1>2. /\ sess[p] \in Sessions \/ ~(InLock(p) \/ pc[p] \in OpenPcs \cup WorkPcs \cup {"lock"})
      /\ victim[p] \in Sessions \/ pc[p] \notin ClosePcs
  BY DEF IInv, SessionsInHand, InHand, HasSession, InLock, TypeOK, LocalsTyped
<1>3. CASE Keeps
  BY <1>1, <1>3, ObjectsGive DEF Keeps, ObjectsTyped
<1>4. CASE Enters(p)
  <2>1. sess[p] \in Sessions
    BY <1>2, <1>4 DEF Enters
  <2> QED
    BY <1>1, <1>4, <2>1 DEF Enters, ObjectsTyped, SessionFields
<1>5. CASE Leaves(p)
  <2>1. sess[p] \in Sessions
    BY <1>2, <1>5 DEF Leaves
  <2>2. PICK f \in {session, Proven(p), Closed(session, sess[p])} : Objects(Unlocked(f, p))
    BY <1>5 DEF Leaves
  <2>3. Alike(session, session) /\ Alike(session, Proven(p)) /\ Alike(session, Closed(session, sess[p]))
    <3>1. Alike(session, session)
      BY <1>1 DEF Alike
    <3>2. Alike(session, Proven(p))
      BY <1>1, <2>1, FieldsAlike DEF Proven
    <3> QED
      BY <1>1, <2>1, <3>1, <3>2, ClosedAlike
  <2>5. /\ f \in [Sessions -> SessionFields]
        /\ \A s \in Sessions : f[s].lock = session[s].lock /\ f[s].closeRequested = session[s].closeRequested
    BY <2>2, <2>3 DEF Alike
  <2>4. /\ Unlocked(f, p) \in [Sessions -> SessionFields]
        /\ \A s \in Sessions : /\ Unlocked(f, p)[s].closeRequested = session[s].closeRequested
                               /\ s # sess[p] => Unlocked(f, p)[s].lock = session[s].lock
    BY <2>1, <2>5 DEF Unlocked, SessionFields
  <2> QED
    BY <1>5, <2>2, <2>4, ObjectsGive
<1>6. CASE pc[p] \in OpenPcs \cup WorkPcs /\ MovesHandles(p)
  <2>1. sess[p] \in Sessions
    BY <1>2, <1>6
  <2>2. Alike(session, session')
    <3>1. Alike(session, [session EXCEPT ![sess[p]].native = TRUE])
          /\ Alike(session, [session EXCEPT ![sess[p]].sevenZ = TRUE])
      BY ONLY <1>1, <2>1, FieldsAlike
    <3>2. Alike(session, [session EXCEPT ![sess[p]].native = FALSE, ![sess[p]].nativeFailed = TRUE])
      BY ONLY <1>1, <2>1, GivenUpAlike
    <3>3. Alike(session, Closed(session, sess[p]))
      BY ONLY <1>1, <2>1, ClosedAlike
    <3> QED
      BY ONLY ZenonT(60), <1>6, <3>1, <3>2, <3>3 DEF MovesHandles
  <2> QED
    BY <2>2 DEF Alike, ObjectsTyped
<1>7. CASE Marks(p)
  <2> DEFINE f == [session EXCEPT ![victim[p]].closeRequested = TRUE]
  <2>1. victim[p] \in Sessions
    BY <1>2, <1>7 DEF Marks, ClosePcs
  <2>2. /\ f \in [Sessions -> SessionFields]
        /\ \A s \in Sessions : /\ f[s].lock = session[s].lock
                               /\ s # victim[p] => f[s].closeRequested = session[s].closeRequested
    BY ZenonT(60), <1>1, <2>1 DEF SessionFields
  <2>3. Objects(f)
    BY <1>7 DEF Marks
  <2> HIDE DEF f
  <2> QED
    BY <1>7, <2>2, <2>3, ObjectsGive
<1>8. CASE Closes(p)
  <2> DEFINE f == Closed(session, victim[p])
  <2>1. victim[p] \in Sessions
    BY <1>2, <1>8 DEF Closes, ClosePcs
  <2>2. Alike(session, f)
    BY <1>1, <2>1, ClosedAlike
  <2>3. Objects(f)
    BY <1>8 DEF Closes
  <2> HIDE DEF f
  <2> QED
    BY <2>2, <2>3, ObjectsGive DEF Alike
<1>9. CASE Creates(p)
  <2>1. PICK w \in Passwords \cup {None} : Objects([session EXCEPT ![mapped'] = Session(w)])
    BY <1>9 DEF Creates
  <2> DEFINE f == [session EXCEPT ![mapped'] = Session(w)]
  <2>2. mapped' \in Sessions /\ mapped' \notin Referenced
    BY <1>9 DEF Creates
  <2>3. /\ f \in [Sessions -> SessionFields]
        /\ \A s \in Sessions \cap Referenced : f[s] = session[s]
    BY <1>1, <2>2 DEF SessionFields, Session
  <2>4. Objects(f)
    BY <2>1
  <2> HIDE DEF f
  <2> QED
    BY <2>3, <2>4, ObjectsGive
<1> QED
  BY <1>3, <1>4, <1>5, <1>6, <1>7, <1>8, <1>9 DEF Changes

-----------------------------------------------------------------------------
(* The registry *)

\* A step unregisters the session, or registers a new one, or neither; and
\* nobody gets ready to close a session that is registered.
Registers(p) ==
    /\ mapped' \in {mapped, None} \/ Creates(p)
    /\ pc'[p] \in ClosePcs => victim'[p] # mapped'

\* So does every step of every call.
LEMMA RegistryStep ==
    ASSUME IInv, NEW p \in Procs, ProcStep(p)
    PROVE  Registers(p)
<1> USE NoneAssumption DEF Registers, IInv, TypeOK, LocalsTyped, VictimsAreUnregistered, SessionsInHand,
        InHand, OpenPcs, UsePcs, WorkPcs, PurgePcs, ClosePcs, locals
<1>1. ASSUME getSession(p) PROVE Registers(p)
  <2>1. PICK c \in SessionCalls, w \in Passwords \cup {None} : GetSession(p, c, w)
    BY <1>1 DEF getSession, ObjectsTyped, SessionFields, SessionsInHand, InHand, HasSession,
                SessionCalls, CallsInPlace, InPlace, LockedCalls
  <2>2. Entry(c) \notin ClosePcs
    BY DEF Entry
  <2>3. CASE mapped # None /\ session[mapped].password = w
    BY <2>1, <2>2, <2>3 DEF GetSession
  <2>4. CASE ~(mapped # None /\ session[mapped].password = w)
    <3>1. PICK s \in Sessions \ Referenced :
             /\ mapped' = s /\ Objects([session EXCEPT ![s] = Session(w)])
             /\ pc' = [pc EXCEPT ![p] = IF mapped = None THEN Entry(c) ELSE "closeNow"]
             /\ call' = [call EXCEPT ![p] = c] /\ victim' = [victim EXCEPT ![p] = mapped]
      BY <2>1, <2>4, UnusedIsFresh DEF GetSession
    <3>2. ~InLock(p)' /\ s # mapped
      BY <3>1 DEF InLock, Entry, SessionCalls, LockedCalls, Referenced
    <3> QED
      BY <3>1, <3>2 DEF Creates
  <2> QED
    BY <2>3, <2>4
<1>2. ASSUME closeSession(p) PROVE Registers(p)
  BY <1>2 DEF closeSession, CloseNext, Finish, Become
<1>3. ASSUME closeAll(p) PROVE Registers(p)
  BY <1>3 DEF closeAll, CloseNext
<1>4. ASSUME ClearRegistry(p) PROVE Registers(p)
  BY <1>4 DEF ClearRegistry, Finish, Become, Goto, Hold
<1>5. ASSUME reapIdleSessions(p) PROVE Registers(p)
  BY <1>5 DEF reapIdleSessions, CloseNext
<1>6. ASSUME RemoveExpired(p) PROVE Registers(p)
  BY <1>6 DEF RemoveExpired, Finish, Become, Goto, Hold
<1>7. ASSUME TestClosed(p) PROVE Registers(p)
  BY <1>7 DEF TestClosed, AfterClose, Finish, Become, Goto, Hold, Entry
<1>8. ASSUME MarkClosed(p) PROVE Registers(p)
  BY <1>8 DEF MarkClosed, Goto, Hold
<1>9. ASSUME CloseUnderLock(p) PROVE Registers(p)
  BY <1>9 DEF CloseUnderLock, AfterClose, Finish, Become, Entry
<1>10. ASSUME Lock(p) PROVE Registers(p)
  BY <1>10 DEF Lock, Goto, Hold
<1>11. ASSUME openIfNeeded(p) PROVE Registers(p)
  BY <1>11 DEF openIfNeeded, Opened, Goto, Hold
<1>12. ASSUME SetNative(p) PROVE Registers(p)
  BY <1>12 DEF SetNative, Opened
<1>13. ASSUME OpenJava(p) PROVE Registers(p)
  BY <1>13 DEF OpenJava, Opened, Hold, OpenThrows, LeaveUnverified, Leave, Become, Finish
<1>14. ASSUME SetJava(p) PROVE Registers(p)
  BY <1>14 DEF SetJava, Opened
<1>15. ASSUME Peeked(p) PROVE Registers(p)
  BY <1>15 DEF Peeked, Become, Finish
<1>16. ASSUME VerifyFastPath(p) PROVE Registers(p)
  BY <1>16 DEF VerifyFastPath, Finish, Become, Goto, Hold
<1>17. ASSUME UseNative(p) PROVE Registers(p)
  BY <1>17 DEF UseNative, Hold, NotNative, FallBack, Become, Goto, Leave, Finish
<1>18. ASSUME Decoded(p) PROVE Registers(p)
  BY <1>18 DEF Decoded, Leave, Finish, Become
<1>19. ASSUME DecodeFails(p) PROVE Registers(p)
  BY <1>19 DEF DecodeFails, NotNative, FallBack, Become, Goto, Hold, MarkNativeFailed
<1>20. ASSUME Java(p) PROVE Registers(p)
  BY <1>20 DEF Java, Leave, Finish, Become, Hold, Reset, Goto
<1>21. ASSUME Stream(p) PROVE Registers(p)
  BY <1>21 DEF Stream, Leave, Finish, Become, Hold
<1>22. ASSUME Streamed(p) PROVE Registers(p)
  BY <1>22 DEF Streamed, Leave, Finish, Become, Hold, Reset, Goto
<1>23. ASSUME Rethrow(p) PROVE Registers(p)
  BY <1>23 DEF Rethrow, Leave, Finish, Become
<1>24. ASSUME Probe(p) PROVE Registers(p)
  BY <1>24 DEF Probe, Hold, LeaveUnverified, Become
<1>25. ASSUME SetProbe(p) PROVE Registers(p)
  BY <1>25 DEF SetProbe, Hold
<1>26. ASSUME Probed(p) PROVE Registers(p)
  BY <1>26 DEF Probed, Leave, LeaveUnverified, Finish, Become
<1>27. ASSUME purgeCache(p) PROVE Registers(p)
  BY <1>27 DEF purgeCache
<1>28. ASSUME PurgeBlocks(p) PROVE Registers(p)
  BY <1>28 DEF PurgeBlocks, Leave, Finish, Become
<1>29. ASSUME Purged(p) PROVE Registers(p)
  BY <1>29 DEF Purged, Leave, Finish, Become
<1> QED
  BY <1>1, <1>2, <1>3, <1>4, <1>5, <1>6, <1>7, <1>8, <1>9, <1>10, <1>11, <1>12, <1>13,
     <1>14, <1>15, <1>16, <1>17, <1>18, <1>19, <1>20, <1>21, <1>22, <1>23, <1>24, <1>25,
     <1>26, <1>27, <1>28, <1>29 DEF ProcStep, Begin, Step
-----------------------------------------------------------------------------
(* The session lock *)

\* A process gets inside withLock by taking the lock of its session, and keeps
\* that session while it is inside.
LockTaken(p) ==
    InLock(p)' => sess'[p] = sess[p] /\ (InLock(p) \/ (sess[p] \in Sessions /\ session'[sess[p]].lock = p))

\* Every step of a call keeps to that.
LEMMA LockTakenStep ==
    ASSUME IInv, NEW p \in Procs, ProcStep(p)
    PROVE  LockTaken(p)
<1> USE DEF LockTaken, IInv, TypeOK, LocalsTyped, CallsInPlace, InPlace, InLock, OpenPcs,
        UsePcs, WorkPcs, PurgePcs, ClosePcs, SessionCalls, CloseCalls, LockedCalls,
        UnlockedCalls, locals
<1>1. ASSUME getSession(p) PROVE LockTaken(p)
  <2>1. PICK c, w : c \in SessionCalls /\ GetSession(p, c, w)
    BY <1>1 DEF getSession
  <2>2. Entry(c) \notin WorkPcs \cup PurgePcs \cup ClosePcs /\ (Entry(c) \in OpenPcs => c \in UnlockedCalls)
    BY <2>1 DEF Entry
  <2>3. /\ call' = [call EXCEPT ![p] = c]
        /\ pc'[p] = Entry(c) \/ pc'[p] = "closeNow"
    BY <2>1 DEF GetSession
  <2> QED
    BY <2>2, <2>3
<1>2. ASSUME closeSession(p) PROVE LockTaken(p)
  BY <1>2 DEF closeSession, CloseNext, Finish, Become
<1>3. ASSUME closeAll(p) PROVE LockTaken(p)
  BY <1>3 DEF closeAll, CloseNext
<1>4. ASSUME ClearRegistry(p) PROVE LockTaken(p)
  BY <1>4 DEF ClearRegistry, Finish, Become, Goto, Hold
<1>5. ASSUME reapIdleSessions(p) PROVE LockTaken(p)
  BY <1>5 DEF reapIdleSessions, CloseNext
<1>6. ASSUME RemoveExpired(p) PROVE LockTaken(p)
  BY <1>6 DEF RemoveExpired, Finish, Become, Goto, Hold
<1>7. ASSUME TestClosed(p) PROVE LockTaken(p)
  BY <1>7 DEF TestClosed, AfterClose, Entry, Finish, Become, Goto, Hold
<1>8. ASSUME MarkClosed(p) PROVE LockTaken(p)
  BY <1>8 DEF MarkClosed, Goto, Hold
<1>9. ASSUME CloseUnderLock(p) PROVE LockTaken(p)
  BY <1>9 DEF CloseUnderLock, AfterClose, Entry, Finish, Become
<1>10. ASSUME Lock(p) PROVE LockTaken(p)
  BY <1>10 DEF Lock, Goto, Hold, ObjectsTyped, SessionFields, SessionsInHand, InHand, HasSession
<1>11. ASSUME openIfNeeded(p) PROVE LockTaken(p)
  BY <1>11 DEF openIfNeeded, Opened, Goto, Hold
<1>12. ASSUME SetNative(p) PROVE LockTaken(p)
  BY <1>12 DEF SetNative, Opened
<1>13. ASSUME OpenJava(p) PROVE LockTaken(p)
  BY <1>13 DEF OpenJava, Opened, Hold, OpenThrows, LeaveUnverified, Leave, Become, Finish
<1>14. ASSUME SetJava(p) PROVE LockTaken(p)
  BY <1>14 DEF SetJava, Opened
<1>15. ASSUME Peeked(p) PROVE LockTaken(p)
  BY <1>15 DEF Peeked, Become, Finish
<1>16. ASSUME VerifyFastPath(p) PROVE LockTaken(p)
  BY <1>16 DEF VerifyFastPath, Finish, Become, Goto, Hold
<1>17. ASSUME UseNative(p) PROVE LockTaken(p)
  BY <1>17 DEF UseNative, Hold, NotNative, FallBack, Become, Goto, Leave, Finish
<1>18. ASSUME Decoded(p) PROVE LockTaken(p)
  BY <1>18 DEF Decoded, Leave, Finish, Become
<1>19. ASSUME DecodeFails(p) PROVE LockTaken(p)
  BY <1>19 DEF DecodeFails, NotNative, FallBack, Become, Goto, Hold, MarkNativeFailed
<1>20. ASSUME Java(p) PROVE LockTaken(p)
  BY <1>20 DEF Java, Leave, Finish, Become, Hold, Reset, Goto
<1>21. ASSUME Stream(p) PROVE LockTaken(p)
  BY <1>21 DEF Stream, Leave, Finish, Become, Hold
<1>22. ASSUME Streamed(p) PROVE LockTaken(p)
  BY <1>22 DEF Streamed, Leave, Finish, Become, Hold, Reset, Goto
<1>23. ASSUME Rethrow(p) PROVE LockTaken(p)
  BY <1>23 DEF Rethrow, Leave, Finish, Become
<1>24. ASSUME Probe(p) PROVE LockTaken(p)
  BY <1>24 DEF Probe, Hold, LeaveUnverified, Become
<1>25. ASSUME SetProbe(p) PROVE LockTaken(p)
  BY <1>25 DEF SetProbe, Hold
<1>26. ASSUME Probed(p) PROVE LockTaken(p)
  BY <1>26 DEF Probed, Leave, LeaveUnverified, Finish, Become
<1>27. ASSUME purgeCache(p) PROVE LockTaken(p)
  BY <1>27 DEF purgeCache
<1>28. ASSUME PurgeBlocks(p) PROVE LockTaken(p)
  BY <1>28 DEF PurgeBlocks, Leave, Finish, Become
<1>29. ASSUME Purged(p) PROVE LockTaken(p)
  BY <1>29 DEF Purged, Leave, Finish, Become
<1> QED
  BY <1>1, <1>2, <1>3, <1>4, <1>5, <1>6, <1>7, <1>8, <1>9, <1>10, <1>11, <1>12, <1>13,
     <1>14, <1>15, <1>16, <1>17, <1>18, <1>19, <1>20, <1>21, <1>22, <1>23, <1>24, <1>25,
     <1>26, <1>27, <1>28, <1>29 DEF ProcStep, Begin, Step

\* The lock of a session changes hands only when it is free or its holder gives
\* it back: nobody else inside withLock loses it.
LEMMA LockIsHeldStep ==
    ASSUME IInv, NEW p \in Procs, ProcStep(p)
    PROVE  LockIsHeld'
<1> SUFFICES ASSUME NEW q \in Procs, InLock(q)'
             PROVE  session'[sess'[q]].lock = q
  BY DEF LockIsHeld
<1>1. LocksKept(p) /\ LockTaken(p) /\ Local(p)
  BY ChangesStep, FieldsStep, LockTakenStep, LocalStep DEF IInv, TypeOK
<1>2. sess'[q] = sess[q] /\ (q # p => InLock(q))
  BY <1>1 DEF Local, LockTaken, InLock
<1>3. CASE InLock(q)
  <2>1. session[sess[q]].lock = q /\ sess[q] \in Sessions
    BY <1>3 DEF IInv, LockIsHeld, SessionsInHand, InHand, HasSession, InLock
  <2>2. sess[q] \in Referenced \cap Referenced'
    BY <1>2 DEF Referenced
  <2>3. ~(sess[q] = sess[p] /\ Enters(p))
    BY <2>1, NoneAssumption DEF Enters
  <2>4. ~(sess[q] = sess[p] /\ Leaves(p))
    BY <2>1 DEF Leaves, IInv, LockIsHeld
  <2> QED
    BY <1>1, <1>2, <2>1, <2>2, <2>3, <2>4 DEF LocksKept
<1>4. CASE ~InLock(q)
  BY <1>1, <1>2, <1>4 DEF LockTaken
<1> QED
  BY <1>3, <1>4

-----------------------------------------------------------------------------
(* The handles in use *)

\* Handles are torn by whoever is inside withLock of their session, or by the
\* close of a session whose lock is free; and no use begins with a torn handle.
Tears(p) ==
    /\ \A q \in Procs \ {p} :
          \/ using'[q] \in {using[q], "astray"}
          \/ sess[q] = sess[p] /\ InLock(p)
          \/ sess[q] = victim[p] /\ session[victim[p]].lock = None
    /\ pc'[p] \in UsePcs => using'[p] # "torn"

\* Whoever tears handles holds the lock of their session, or has it to itself.
LEMMA TearsStep ==
    ASSUME IInv, NEW p \in Procs, ProcStep(p)
    PROVE  Tears(p)
<1> USE DEF Tears, IInv, TypeOK, LocalsTyped, CallsInPlace, InPlace, InLock, OpenPcs, UsePcs,
        WorkPcs, PurgePcs, ClosePcs, SessionCalls, CloseCalls, LockedCalls, UnlockedCalls,
        locals
<1>1. ASSUME getSession(p) PROVE Tears(p)
  <2>1. PICK c, w : c \in SessionCalls /\ GetSession(p, c, w)
    BY <1>1 DEF getSession
  <2>2. Entry(c) \notin UsePcs
    BY DEF Entry
  <2>3. using' = using /\ (pc'[p] = Entry(c) \/ pc'[p] = "closeNow")
    BY <2>1 DEF GetSession
  <2> QED
    BY <2>2, <2>3
<1>2. ASSUME closeSession(p) PROVE Tears(p)
  BY <1>2 DEF closeSession, CloseNext, Finish, Become
<1>3. ASSUME closeAll(p) PROVE Tears(p)
  BY <1>3 DEF closeAll, CloseNext
<1>4. ASSUME ClearRegistry(p) PROVE Tears(p)
  BY <1>4 DEF ClearRegistry, Finish, Become, Goto, Hold
<1>5. ASSUME reapIdleSessions(p) PROVE Tears(p)
  BY <1>5 DEF reapIdleSessions, CloseNext
<1>6. ASSUME RemoveExpired(p) PROVE Tears(p)
  BY <1>6 DEF RemoveExpired, Finish, Become, Goto, Hold
<1>7. ASSUME TestClosed(p) PROVE Tears(p)
  BY <1>7 DEF TestClosed, AfterClose, Entry, Finish, Become, Goto, Hold
<1>8. ASSUME MarkClosed(p) PROVE Tears(p)
  BY <1>8 DEF MarkClosed, Goto, Hold
<1>9. ASSUME CloseUnderLock(p) PROVE Tears(p)
  <2> DEFINE u == TornByClose(victim[p])
  <2>1. /\ u \in [Procs -> Handles]
        /\ \A q \in Procs : u[q] = using[q] \/ sess[q] = victim[p]
    BY TornTyped DEF TornByClose, Affected
  <2>2. session[victim[p]].lock = None /\ AfterClose(p, u)
    BY <1>9 DEF CloseUnderLock
  <2>3. Entry(call[p]) \notin UsePcs
    BY DEF Entry
  <2> HIDE DEF u
  <2>4. pc'[p] \notin UsePcs
    BY <2>2, <2>3 DEF AfterClose, Finish, Become
  <2>5. using' = u \/ using' = [u EXCEPT ![p] = None]
    BY <2>2 DEF AfterClose, Finish, Become
  <2> QED
    BY <2>1, <2>2, <2>4, <2>5
<1>10. ASSUME Lock(p) PROVE Tears(p)
  BY <1>10 DEF Lock, Goto, Hold
<1>11. ASSUME openIfNeeded(p) PROVE Tears(p)
  BY <1>11 DEF openIfNeeded, Opened, Goto, Hold
<1>12. ASSUME SetNative(p) PROVE Tears(p)
  BY <1>12 DEF SetNative, Opened, Affected
<1>13. ASSUME OpenJava(p) PROVE Tears(p)
  BY ZenonT(60), <1>13 DEF OpenJava, Opened, Hold, OpenThrows, LeaveUnverified, Leave, Become, Finish,
        TornByClose, Affected
<1>14. ASSUME SetJava(p) PROVE Tears(p)
  BY <1>14 DEF SetJava, Opened, Affected
<1>15. ASSUME Peeked(p) PROVE Tears(p)
  BY <1>15 DEF Peeked, Become, Finish
<1>16. ASSUME VerifyFastPath(p) PROVE Tears(p)
  BY <1>16 DEF VerifyFastPath, Finish, Become, Goto, Hold
<1>17. ASSUME UseNative(p) PROVE Tears(p)
  BY <1>17 DEF UseNative, Hold, NotNative, FallBack, Become, Goto, Leave, Finish
<1>18. ASSUME Decoded(p) PROVE Tears(p)
  BY <1>18 DEF Decoded, Leave, Finish, Become
<1>19. ASSUME DecodeFails(p) PROVE Tears(p)
  BY ZenonT(60), <1>19 DEF DecodeFails, NotNative, FallBack, Become, Goto, Hold, MarkNativeFailed, Affected
<1>20. ASSUME Java(p) PROVE Tears(p)
  BY ZenonT(60), <1>20 DEF Java, Leave, Finish, Become, Hold, Reset, Goto, TornByClose, Affected
<1>21. ASSUME Stream(p) PROVE Tears(p)
  BY <1>21 DEF Stream, Leave, Finish, Become, Hold
<1>22. ASSUME Streamed(p) PROVE Tears(p)
  BY <1>22 DEF Streamed, Leave, Finish, Become, Hold, Reset, Goto, TornByClose, Affected
<1>23. ASSUME Rethrow(p) PROVE Tears(p)
  BY <1>23 DEF Rethrow, Leave, Finish, Become
<1>24. ASSUME Probe(p) PROVE Tears(p)
  BY <1>24 DEF Probe, Hold, LeaveUnverified, Become, TornByClose, Affected
<1>25. ASSUME SetProbe(p) PROVE Tears(p)
  BY <1>25 DEF SetProbe, Hold, Affected
<1>26. ASSUME Probed(p) PROVE Tears(p)
  BY <1>26 DEF Probed, Leave, LeaveUnverified, Finish, Become
<1>27. ASSUME purgeCache(p) PROVE Tears(p)
  BY <1>27 DEF purgeCache
<1>28. ASSUME PurgeBlocks(p) PROVE Tears(p)
  BY <1>28 DEF PurgeBlocks, Leave, Finish, Become
<1>29. ASSUME Purged(p) PROVE Tears(p)
  BY <1>29 DEF Purged, Leave, Finish, Become
<1> QED
  BY <1>1, <1>2, <1>3, <1>4, <1>5, <1>6, <1>7, <1>8, <1>9, <1>10, <1>11, <1>12, <1>13,
     <1>14, <1>15, <1>16, <1>17, <1>18, <1>19, <1>20, <1>21, <1>22, <1>23, <1>24, <1>25,
     <1>26, <1>27, <1>28, <1>29 DEF ProcStep, Begin, Step

\* The handle that a call uses is closed only under the lock that the call holds.
LEMMA UsedHandleStep ==
    ASSUME IInv, NEW p \in Procs, ProcStep(p)
    PROVE  UsedHandleIsOpen'
<1> SUFFICES ASSUME NEW q \in Procs, pc'[q] \in UsePcs
             PROVE  using'[q] # "torn"
  BY DEF UsedHandleIsOpen, UsePcs
<1>1. Tears(p) /\ Local(p)
  BY TearsStep, LocalStep DEF IInv, TypeOK
<1>2. CASE q = p
  BY <1>1, <1>2 DEF Tears
<1>3. CASE q # p
  <2>1. pc[q] \in UsePcs /\ using[q] # "torn" /\ session[sess[q]].lock = q
    BY <1>1, <1>3 DEF Local, IInv, UsedHandleIsOpen, LockIsHeld, InLock, UsePcs, WorkPcs
  <2>2. ~(sess[q] = sess[p] /\ InLock(p)) /\ ~(sess[q] = victim[p] /\ session[victim[p]].lock = None)
    BY <1>3, <2>1, NoneAssumption DEF IInv, LockIsHeld
  <2> QED
    BY <1>1, <1>3, <2>1, <2>2 DEF Tears
<1> QED
  BY <1>2, <1>3

-----------------------------------------------------------------------------
(* The registered session *)

\* A session that is about to be closed cannot be looked up again.
LEMMA VictimsStep ==
    ASSUME IInv, NEW p \in Procs, ProcStep(p)
    PROVE  VictimsAreUnregistered'
<1> SUFFICES ASSUME NEW q \in Procs, pc'[q] \in ClosePcs
             PROVE  victim'[q] # mapped'
  BY DEF VictimsAreUnregistered
<1>1. CASE q = p
  BY <1>1, RegistryStep DEF Registers
<1>2. CASE q # p
  <2>1. pc[q] \in ClosePcs /\ victim'[q] = victim[q]
    BY <1>2, LocalStep DEF Local, IInv, TypeOK
  <2>2. victim[q] # mapped /\ victim[q] \in Sessions /\ victim[q] \in Referenced
    BY <2>1 DEF IInv, VictimsAreUnregistered, SessionsInHand, InHand, Referenced
  <2>3. mapped' \in {mapped, None} \/ mapped' \notin Referenced
    BY RegistryStep DEF Registers, Creates
  <2> QED
    BY <2>1, <2>2, <2>3, NoneAssumption
<1> QED
  BY <1>1, <1>2

\* The mark is set on victims only, and a new session has none.
LEMMA RegisteredStep ==
    ASSUME IInv, NEW p \in Procs, ProcStep(p)
    PROVE  RegisteredIsLive'
<1> SUFFICES ASSUME mapped' # None
             PROVE  ~session'[mapped'].closeRequested
  BY DEF RegisteredIsLive
<1>1. mapped' \in Referenced'
  BY DEF Referenced
<1>2. CASE mapped' = mapped
  <2>1. /\ mapped \in (Sessions \cap Referenced) \cap Referenced'
        /\ ~session[mapped].closeRequested
    BY <1>1, <1>2 DEF Referenced, IInv, TypeOK, LocalsTyped, RegisteredIsLive
  <2>2. ~(mapped = victim[p] /\ Marks(p))
    BY DEF Marks, IInv, VictimsAreUnregistered, ClosePcs
  <2> QED
    BY <1>2, <2>1, <2>2, ChangesStep, FieldsStep DEF MarksKept
<1>3. CASE Creates(p)
  <2>1. PICK w \in Passwords \cup {None} : Objects([session EXCEPT ![mapped'] = Session(w)])
    BY <1>3 DEF Creates
  <2>2. mapped' \in Sessions
    BY <1>3 DEF Creates
  <2>3. session'[mapped'] = Session(w)
    BY <1>1, <2>1, <2>2 DEF Objects, IInv, TypeOK, ObjectsTyped
  <2> QED
    BY <2>3 DEF Session
<1> QED
  BY <1>2, <1>3, RegistryStep DEF Registers

-----------------------------------------------------------------------------
(* Theorems *)

\* Nobody is inside a call at the start.
LEMMA InitHolds == Init => IInv
<1> SUFFICES ASSUME Init PROVE IInv
  OBVIOUS
<1> USE DEF Init, Session
<1>1. TypeOK
  BY DEF TypeOK, LocalsTyped, ObjectsTyped, SessionFields, Pcs, Handles
<1>2. CallsInPlace /\ SessionsInHand /\ LockIsHeld
  BY DEF CallsInPlace, InPlace, SessionsInHand, InHand, HasSession, LockIsHeld, InLock,
         OpenPcs, WorkPcs, UsePcs, PurgePcs, ClosePcs
<1>3. VictimsAreUnregistered /\ RegisteredIsLive /\ UsedHandleIsOpen
  BY DEF VictimsAreUnregistered, RegisteredIsLive, UsedHandleIsOpen, ClosePcs
<1> QED
  BY <1>1, <1>2, <1>3 DEF IInv

\* Each conjunct, step by step.
LEMMA StepKeeps ==
    ASSUME IInv, [Next]_vars
    PROVE  IInv'
<1>1. ASSUME NEW p \in Procs, ProcStep(p) PROVE IInv'
  <2>1. LocalsTyped' /\ ObjectsTyped'
    BY <1>1, LocalsStep, ChangesStep, FieldsStep DEF IInv, TypeOK
  <2>2. CallsInPlace' /\ SessionsInHand'
    <3> SUFFICES ASSUME NEW q \in Procs
                 PROVE  InPlace(q)' /\ InHand(q)'
      BY DEF CallsInPlace, SessionsInHand
    <3>1. CASE q = p
      BY <1>1, <3>1, InPlaceStep, InHandStep DEF IInv, TypeOK
    <3>2. CASE q # p
      <4>1. Local(p) /\ InPlace(q) /\ InHand(q)
        BY <1>1, LocalStep DEF IInv, TypeOK, CallsInPlace, SessionsInHand
      <4> QED
        BY <3>2, <4>1 DEF Local, InPlace, InHand, HasSession
    <3> QED
      BY <3>1, <3>2
  <2>3. LockIsHeld' /\ UsedHandleIsOpen' /\ VictimsAreUnregistered' /\ RegisteredIsLive'
    BY <1>1, LockIsHeldStep, UsedHandleStep, VictimsStep, RegisteredStep
  <2> QED
    BY <2>1, <2>2, <2>3 DEF IInv, TypeOK
<1>2. ASSUME UNCHANGED vars PROVE IInv'
  BY <1>2 DEF vars, locals, IInv, TypeOK, LocalsTyped, ObjectsTyped, CallsInPlace, InPlace, SessionsInHand,
              InHand, HasSession, LockIsHeld, InLock, VictimsAreUnregistered, RegisteredIsLive, UsedHandleIsOpen
<1> QED
  BY <1>1, <1>2 DEF Next, ProcStep

\* The inductive invariant holds in every reachable state.
THEOREM SessionInvariant == Spec => []IInv
<1>1. Init => IInv
  BY InitHolds
<1>2. IInv /\ [Next]_vars => IInv'
  BY StepKeeps
<1> QED
  BY <1>1, <1>2, PTL DEF Spec

\* Nobody tears a handle down while an extraction, a stream or a probe uses it.
THEOREM UsedHandlesAreOpen == Spec => []UsedHandleIsOpen
<1>1. IInv => UsedHandleIsOpen
  BY DEF IInv
<1> QED
  BY <1>1, SessionInvariant, PTL

\* A session that can still be looked up has not been marked for its close.
THEOREM RegisteredSessionsAreLive == Spec => []RegisteredIsLive
<1>1. IInv => RegisteredIsLive
  BY DEF IInv
<1> QED
  BY <1>1, SessionInvariant, PTL

=============================================================================
