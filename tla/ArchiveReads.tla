---------------------------- MODULE ArchiveReads ----------------------------
(* What an open 7z handle promises its caller: one request at a time, each   *)
(* answered with the bytes of the file asked for, or with an error that this *)
(* very request has a reason for.  Nothing an earlier request did - another  *)
(* file, an error, a purge - may show in a later answer.                     *)
EXTENDS Integers

CONSTANTS
  Files,        \* the files that can be asked for
  Content,      \* [Files -> what the file holds]
  Unreadable,   \* the files whose packed data cannot be decoded
  NoFile, NoReply, Failed

VARIABLES
  asked,        \* the file of the request under way, or NoFile
  reply,        \* its answer, or NoReply
  disturbed     \* has a read, an allocation or a write failed during it?

vars == <<asked, reply, disturbed>>

Init == asked = NoFile /\ reply = NoReply /\ ~disturbed

Answers(f, reason) == {NoReply} \cup (IF f \in Unreadable THEN {Failed}
                                      ELSE {Content[f]} \cup IF reason THEN {Failed} ELSE {})

Ask(f) == /\ asked = NoFile /\ asked' = f
          /\ disturbed' \in BOOLEAN /\ reply' \in Answers(f, disturbed')

Answer == /\ asked # NoFile /\ reply = NoReply /\ asked' = asked
          /\ disturbed' \in {disturbed, TRUE} /\ reply' \in Answers(asked, disturbed')

Finish == /\ reply # NoReply
          /\ asked' = NoFile /\ reply' = NoReply /\ disturbed' = FALSE

Next == (\E f \in Files : Ask(f)) \/ Answer \/ Finish

Spec == Init /\ [][Next]_vars
=============================================================================
