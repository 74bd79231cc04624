---------------------------- MODULE TenantBulkLock ----------------------------
(***************************************************************************)
(* The lock that lets a tenant run one bulk backup at a time               *)
(* (services/realtime_backup_logs.py) and makes the periodic scheduler     *)
(* wait for it (_has_active_bulk_operation of tasks/backups.py).  It is a  *)
(* key in Redis that names a batch and expires; who finds it taken judges  *)
(* the batch it names by the batch's document.  Every command to Redis is  *)
(* a step of its own, so that requests, heartbeats, finalizations and the  *)
(* scheduler interleave between them.                                      *)
(*                                                                         *)
(* One tenant; Redis is reachable.  Of the document only what the lock     *)
(* reads is kept: whether it exists, says is_bulk, and says completed.     *)
(***************************************************************************)
EXTENDS TenantBulkLockConstants

Reserving == Backups \cup FollowUps
Batches == Reserving \cup Audits

VARIABLES
    key,     \* backup_center:tenant_active_bulk
    ttl,     \* the ticks it has left
    doc,     \* the document of each batch
    pc,      \* where the launcher, then the finalizer, of each batch is
    seen,    \* the batch the key named when it was looked at
    beat,    \* where the heartbeat of each batch is
    copy,    \* what the heartbeat read
    sched    \* where the scheduler is, and the batch it saw

vars == <<key, ttl, doc, pc, seen, beat, copy, sched>>
batch == <<pc, seen>>
heart == <<beat, copy>>
lock == <<key, ttl>>

\* "queued" is what register_task writes: no is_bulk.
Docs == {"none", "queued", "active", "completed"}
Phases == {"new", "look", "judge", "drop", "set", "register", "publish",
           "hold", "running", "owner", "free", "over"}

TypeOK ==
    /\ key \in Batches \cup {NoBatch}
    /\ ttl \in 0..Life
    /\ doc \in [Batches -> Docs]
    /\ pc \in [Batches -> Phases]
    /\ seen \in [Batches -> Batches \cup {NoBatch}]
    /\ beat \in [Batches -> {"idle", "write", "hold"}]
    /\ copy \in [Batches -> Docs]
    /\ sched \in [at : {"idle", "judge", "drop", "run"},
                 saw : Batches \cup {NoBatch}]

Init ==
    /\ key = NoBatch
    /\ ttl = 0
    /\ doc = [b \in Batches |-> "none"]
    /\ pc = [b \in Batches |-> "new"]
    /\ seen = [b \in Batches |-> NoBatch]
    /\ beat = [b \in Batches |-> "idle"]
    /\ copy = [b \in Batches |-> "none"]
    /\ sched = [at |-> "idle", saw |-> NoBatch]

-------------------------------------------------------------------------------
(* The key.                                                                *)

\* Variant of Hold: the key does not expire.
HoldForever(b) == key' = b /\ ttl' = 0

\* SETEX, and SET NX EX once it succeeds.
Hold(b) == key' = b /\ ttl' = Life

\* DELETE.
Free == key' = NoBatch /\ ttl' = 0

\* Variant of Tick: the key goes a tick late.
TickLate ==
    /\ key # NoBatch
    /\ ttl' = ttl - 1
    /\ key' = IF ttl = 0 THEN NoBatch ELSE key
    /\ UNCHANGED <<doc, sched>>
    /\ UNCHANGED batch
    /\ UNCHANGED heart

\* The key expires.
Tick ==
    /\ ttl > 0
    /\ ttl' = ttl - 1
    /\ key' = IF ttl = 1 THEN NoBatch ELSE key
    /\ UNCHANGED <<doc, sched>>
    /\ UNCHANGED batch
    /\ UNCHANGED heart

Go(b, next) == pc' = [pc EXCEPT ![b] = next]

-------------------------------------------------------------------------------
(* acquire_tenant_bulk_lock.                                               *)

\* A backup is asked for; an audit, or any batch when the lock is off, takes
\* no lock.
Request(b) ==
    /\ pc[b] = "new"
    /\ Go(b, IF Enabled /\ b \in Reserving THEN "look" ELSE "register")
    /\ UNCHANGED <<doc, seen, sched>>
    /\ UNCHANGED lock
    /\ UNCHANGED heart

Look(b) ==
    /\ pc[b] = "look"
    /\ seen' = [seen EXCEPT ![b] = key]
    /\ Go(b, IF key = NoBatch THEN "set" ELSE "judge")
    /\ UNCHANGED <<doc, sched>>
    /\ UNCHANGED lock
    /\ UNCHANGED heart

\* A user gets an error; a follow-up is retried, but not for ever.
Refuse(b) == Go(b, "over") \/ (b \in FollowUps /\ Go(b, "new"))

\* A batch that is announced, or has no document yet, keeps its key.
Judge(b) ==
    /\ pc[b] = "judge"
    /\ IF doc[seen[b]] \in {"none", "active"} THEN Refuse(b) ELSE Go(b, "drop")
    /\ seen' = [seen EXCEPT ![b] = NoBatch]
    /\ UNCHANGED <<doc, sched>>
    /\ UNCHANGED lock
    /\ UNCHANGED heart

Drop(b) ==
    /\ pc[b] = "drop"
    /\ Free
    /\ Go(b, "set")
    /\ UNCHANGED <<doc, seen, sched>>
    /\ UNCHANGED heart

Set(b) ==
    /\ pc[b] = "set"
    /\ IF key = NoBatch THEN Hold(b) /\ Go(b, "register")
                     ELSE UNCHANGED lock /\ Refuse(b)
    /\ UNCHANGED <<doc, seen, sched>>
    /\ UNCHANGED heart

-------------------------------------------------------------------------------
(* A batch.                                                                *)

Register(b) ==
    /\ pc[b] = "register"
    /\ doc' = [doc EXCEPT ![b] = "queued"]
    /\ Go(b, "publish")
    /\ UNCHANGED <<seen, sched>>
    /\ UNCHANGED lock
    /\ UNCHANGED heart

\* update_task_meta with is_bulk, after the tasks were sent.
Publish(b) ==
    /\ pc[b] = "publish"
    /\ doc' = [doc EXCEPT ![b] = "active"]
    /\ Go(b, IF Enabled THEN "hold" ELSE "running")
    /\ UNCHANGED <<seen, sched>>
    /\ UNCHANGED lock
    /\ UNCHANGED heart

\* Whoever writes an announced batch sets the key, whoever had it.
Renew(b) ==
    /\ pc[b] = "hold"
    /\ Hold(b)
    /\ Go(b, "running")
    /\ UNCHANGED <<doc, seen, sched>>
    /\ UNCHANGED heart

\* The batch is finalized, cancelled for good, or stopped with all others; or
\* its tasks end and nobody finalizes it (see BulkBackup).
Finish(b) ==
    /\ pc[b] = "running"
    /\ \/ /\ doc' = [doc EXCEPT ![b] = "completed"]
          /\ Go(b, IF Enabled THEN "owner" ELSE "over")
       \/ /\ Go(b, "over")
          /\ UNCHANGED doc
    /\ UNCHANGED <<seen, sched>>
    /\ UNCHANGED lock
    /\ UNCHANGED heart

\* release_tenant_bulk_lock: first it asks whose the key is ...
AskOwner(b) ==
    /\ pc[b] = "owner"
    /\ Go(b, IF key \in {b, NoBatch} THEN "free" ELSE "over")
    /\ UNCHANGED <<doc, seen, sched>>
    /\ UNCHANGED lock
    /\ UNCHANGED heart

\* ... then it deletes the key.
Release(b) ==
    /\ pc[b] = "free"
    /\ Free
    /\ Go(b, "over")
    /\ UNCHANGED <<doc, seen, sched>>
    /\ UNCHANGED heart

\* A follow-up that fails before it announced its batch gives it up.
FollowUpFails(b) ==
    /\ b \in FollowUps
    /\ pc[b] = "publish"
    /\ doc' = [doc EXCEPT ![b] = "completed"]
    /\ Go(b, IF Enabled THEN "owner" ELSE "over")
    /\ UNCHANGED <<seen, sched>>
    /\ UNCHANGED lock
    /\ UNCHANGED heart

\* The web server or the worker dies, or the batch's last task does.
Crash(b) ==
    /\ pc[b] \notin {"new", "over"}
    /\ Go(b, "over")
    /\ seen' = [seen EXCEPT ![b] = NoBatch]
    /\ UNCHANGED <<doc, sched>>
    /\ UNCHANGED lock
    /\ UNCHANGED heart

-------------------------------------------------------------------------------
(* A heartbeat of a task of the batch: _touch_bulk_activity.  An audit has   *)
(* none: only the status page that completes it writes its document.       *)

BeatRead(b) ==
    /\ b \in Reserving
    /\ beat[b] = "idle"
    /\ pc[b] \in {"publish", "hold", "running"}
    /\ copy' = [copy EXCEPT ![b] = doc[b]]
    /\ beat' = [beat EXCEPT ![b] = "write"]
    /\ UNCHANGED <<doc, sched>>
    /\ UNCHANGED lock
    /\ UNCHANGED batch

\* cancel_bulk_task announces even a completed batch again.
Reopen(b) ==
    /\ beat[b] = "idle"
    /\ pc[b] = "over" /\ doc[b] = "completed"
    /\ copy' = [copy EXCEPT ![b] = "active"]
    /\ beat' = [beat EXCEPT ![b] = "write"]
    /\ UNCHANGED <<doc, sched>>
    /\ UNCHANGED lock
    /\ UNCHANGED batch

BeatWrite(b) ==
    /\ beat[b] = "write"
    /\ doc' = [doc EXCEPT ![b] = copy[b]]
    /\ beat' = [beat EXCEPT ![b] =
                   IF Enabled /\ copy[b] = "active" THEN "hold" ELSE "idle"]
    /\ copy' = [copy EXCEPT ![b] = "none"]
    /\ UNCHANGED sched
    /\ UNCHANGED lock
    /\ UNCHANGED batch

BeatRenew(b) ==
    /\ beat[b] = "hold"
    /\ Hold(b)
    /\ beat' = [beat EXCEPT ![b] = "idle"]
    /\ UNCHANGED <<doc, copy, sched>>
    /\ UNCHANGED batch

-------------------------------------------------------------------------------
(* run_scheduled_backups: _has_active_bulk_operation, then its tasks.      *)

At(next) == sched' = [at |-> next, saw |-> NoBatch]

Scan ==
    /\ sched.at = "idle"
    /\ sched' = [at |-> IF key = NoBatch THEN "run" ELSE "judge", saw |-> key]
    /\ UNCHANGED doc
    /\ UNCHANGED lock
    /\ UNCHANGED batch
    /\ UNCHANGED heart

\* A backup that is announced and not stale makes the scheduler wait.  Stale is
\* one nobody wrote for half an hour: any batch may be.
SchedulerJudge ==
    /\ sched.at = "judge"
    /\ \/ doc[sched.saw] # "active" /\ At("drop")
       \/ doc[sched.saw] = "active" /\ sched.saw \in Audits /\ At("run")
       \/ doc[sched.saw] = "active" /\ sched.saw \in Reserving /\ At("idle")
       \/ doc[sched.saw] = "active" /\ sched.saw \in Reserving /\ At("drop")
    /\ UNCHANGED doc
    /\ UNCHANGED lock
    /\ UNCHANGED batch
    /\ UNCHANGED heart

SchedulerDrop ==
    /\ sched.at = "drop"
    /\ Free
    /\ At("run")
    /\ UNCHANGED doc
    /\ UNCHANGED batch
    /\ UNCHANGED heart

\* The tasks of the due devices are sent.
Dispatch ==
    /\ sched.at = "run"
    /\ At("idle")
    /\ UNCHANGED doc
    /\ UNCHANGED lock
    /\ UNCHANGED batch
    /\ UNCHANGED heart

-------------------------------------------------------------------------------
Launch(b) ==
    \/ Look(b) \/ Judge(b) \/ Drop(b) \/ Set(b)
    \/ Register(b) \/ Publish(b) \/ Renew(b)
    \/ Finish(b) \/ AskOwner(b) \/ Release(b)

Beat(b) == BeatWrite(b) \/ BeatRenew(b)

Schedule == Scan \/ SchedulerJudge \/ SchedulerDrop \/ Dispatch

Next ==
    \/ \E b \in Batches : \/ Request(b) \/ Launch(b) \/ FollowUpFails(b)
                          \/ Crash(b) \/ BeatRead(b) \/ Reopen(b) \/ Beat(b)
    \/ Schedule
    \/ Tick

Spec == Init /\ [][Next]_vars

\* Processes are scheduled, the tasks of a batch are bounded in time, Celery
\* Beat calls the scheduler every 300 s, and keys expire.
FairSpec ==
    /\ Spec
    /\ \A b \in Batches : WF_vars(Launch(b)) /\ WF_vars(Beat(b))
    /\ WF_vars(Schedule)
    /\ WF_vars(Tick)

-------------------------------------------------------------------------------
(* Correctness.                                                            *)

\* Whatever crashed, and whatever an old copy of a document brought back, the
\* tenant's key is gone again and again: no tenant stays locked.
KeyReturns == []<>(key = NoBatch)

\* The scheduler is not held up for ever either (_has_active_bulk_operation).
SchedulerReturns == []<>(sched.at = "run")

\* "Ja existe um lote de backup em andamento para este tenant. Aguarde
\* finalizar": a tenant has one bulk backup in progress, from its reservation
\* to its finalization (_reserve_bulk_or_json_error).
InProgress == {b \in Reserving :
                  pc[b] \in {"register", "publish", "hold", "running"}}
OneBatch == \A a, b \in InProgress : a = b
===============================================================================
