------------------------------- MODULE SlotPool -------------------------------
(***************************************************************************)
(* What the connection slots of a jump host promise to the backups that go *)
(* through it: a slot carries at most one backup at a time and a backup    *)
(* uses at most one slot.  Nothing is said here of Redis, of time-outs or  *)
(* of how long a backup waits; JumpHostSlots shows that the lock protocol  *)
(* of app/tasks/backups.py implements this.                                *)
(***************************************************************************)
CONSTANTS Users,    \* the backups that may go through the jump host
          Slots     \* the connection slots of the jump host

VARIABLE busy       \* the pairs <<user, slot>> of backups under way

Init == busy = {}

Grab(u, s) ==
    /\ \A p \in busy : p[1] # u /\ p[2] # s
    /\ busy' = busy \cup {<<u, s>>}

Drop(u, s) ==
    /\ <<u, s>> \in busy
    /\ busy' = busy \ {<<u, s>>}

Next == \E u \in Users, s \in Slots : Grab(u, s) \/ Drop(u, s)

Spec == Init /\ [][Next]_busy
===============================================================================
