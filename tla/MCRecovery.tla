------------------------------ MODULE MCRecovery ------------------------------
(* Two backups of a jump host, whose override is a slot above the base; two   *)
(* devices under one run of the scheduler, or one under two that overlap; one *)
(* invoice and one process that handles its payments; two browsers.           *)
EXTENDS Recovery

CONSTANTS a1, a2, d1, d2, r1, r2, i1, h1, b1, b2

MCTasks == {a1, a2}
MCDevices == {d1, d2}
MCJump == {d2}
MCRuns == {r1}
MCDevices2 == {d1}
MCRuns2 == {r1, r2}
MCInvoices == {i1}
MCHandlers == {h1}
MCBrowsers == {b1, b2}
===============================================================================
