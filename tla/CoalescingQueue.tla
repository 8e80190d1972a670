--------------------------- MODULE CoalescingQueue ---------------------------
(***************************************************************************)
(* What ThumbnailSweepQueue promises its users: there is one scan at most, *)
(* requests made during a scan are merged into one more scan, and a scan   *)
(* that is asked for comes to its end.                                     *)
(***************************************************************************)
VARIABLES
    scanning,   \* a scan was asked for and is not over
    again       \* one more is to follow

vars == <<scanning, again>>

Init == scanning = FALSE /\ again = FALSE

Ask ==
    /\ scanning' = TRUE
    /\ again' = (again \/ scanning)

\* The scan is over, and the one asked for meanwhile begins.
Finish ==
    /\ scanning
    /\ scanning' = again
    /\ again' = FALSE

\* What is asked for is no longer wanted.
Drop ==
    /\ again' = FALSE
    /\ UNCHANGED scanning

\* A cancelled scan starts no other.
Abort ==
    /\ scanning
    /\ scanning' = FALSE
    /\ UNCHANGED again

Next == Ask \/ Finish \/ Drop \/ Abort

Spec == Init /\ [][Next]_vars /\ WF_vars(Finish \/ Abort)
=============================================================================
