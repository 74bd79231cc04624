-------------------------------- MODULE MCLocks --------------------------------
(* Two isolated workers in containers of their own, a tenant with a backup, its *)
(* reprocessing and an audit, and a jump host with a task under the hard limit  *)
(* and a VPN group.                                                          *)
EXTENDS Locks, TLC

CONSTANTS w1, w2, g1, g2, h1, h2, b1, f1, a1, t1, v1

MCWorkers == {w1, w2}
MCGroups == {g1, g2}
MCHosts == {h1, h2}
MCHostOf == (w1 :> h1) @@ (w2 :> h2)
MCBackups == {b1}
MCFollowUps == {f1}
MCAudits == {a1}
MCSlotWorkers == {t1, v1}
MCTimed == {t1}
===============================================================================
