------------------------------ MODULE BulkBatch -------------------------------
(***************************************************************************)
(* What a bulk backup promises: its tasks start phase by phase, and the    *)
(* transient failures are reprocessed at most once, when every task of the *)
(* batch is over.                                                          *)
(***************************************************************************)
CONSTANTS Direct, Jump, Vpn    \* the tasks of the three phases

VARIABLES
    running,    \* tasks a worker has taken up
    over,       \* tasks that ended, or were discarded
    followed    \* the reprocessing has been scheduled

Tasks == Direct \cup Jump \cup Vpn

\* The tasks that must be over before t starts.
Before(t) == IF t \in Vpn THEN Direct \cup Jump
             ELSE IF t \in Jump THEN Direct ELSE {}

Init == running = {} /\ over = {} /\ followed = FALSE

Start(t) ==
    /\ t \notin running /\ t \notin over
    /\ Before(t) \subseteq over
    /\ running' = running \cup {t}
    /\ UNCHANGED <<over, followed>>

End(t) ==
    /\ t \notin over
    /\ over' = over \cup {t}
    /\ running' = running \ {t}
    /\ UNCHANGED followed

FollowUp ==
    /\ ~followed
    /\ over = Tasks
    /\ followed' = TRUE
    /\ UNCHANGED <<running, over>>

Next ==
    \/ \E t \in Tasks : Start(t) \/ End(t)
    \/ FollowUp

Spec == Init /\ [][Next]_<<running, over, followed>>
===============================================================================
