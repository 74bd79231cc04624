------------------------------ MODULE BulkBackup ------------------------------
(***************************************************************************)
(* The life of one bulk backup.  A launcher (run_backup_all of             *)
(* web/tenant/devices.py, or run_bulk_transient_followup_task of           *)
(* tasks/backups.py) sends the direct tasks to Celery; when they have all  *)
(* succeeded a chord callback sends the jump host tasks, and when these    *)
(* have, another sends the VPN groups.  Everybody keeps the progress of    *)
(* the batch in one JSON document in Redis, which update_task_meta reads,  *)
(* changes and writes back with nothing to protect it: the heartbeats of   *)
(* the tasks, the callbacks, the status page, the cancellation and the     *)
(* finalization by the last task all race on it.                           *)
(*                                                                         *)
(* Redis and the broker are reachable, and no key reaches its time to live *)
(* of 48 hours.                                                            *)
(***************************************************************************)
EXTENDS Naturals, FiniteSets

CONSTANTS
    Direct, Jump, Vpn,   \* the tasks of the three phases
    Groups,              \* those that run run_vpn_group_backups_task
    Kinds,               \* the kinds of batch there are
    Watched,             \* somebody looks at the status page
    Launcher, JumpCallback, VpnCallback, Page, Canceller,
    NoDoc, NoTask

Tasks == Direct \cup Jump \cup Vpn
Callbacks == {JumpCallback, VpnCallback}
Others == Callbacks \cup {Launcher, Page, Canceller}
Actors == Tasks \cup Others

ASSUME BulkAssumption ==
    /\ IsFiniteSet(Tasks)
    /\ Direct \cap Jump = {} /\ Direct \cap Vpn = {} /\ Jump \cap Vpn = {}
    /\ Vpn \subseteq Groups /\ Groups \subseteq Direct \cup Vpn
    /\ Tasks \cap Others = {}
    /\ Cardinality(Others) = 5
    /\ Kinds \subseteq {"backup_bulk", "backup_reprocess"}
    /\ Watched \in BOOLEAN
    /\ NoTask \notin Tasks

VARIABLES
    kind,       \* its operation_kind; a reprocessing has a launcher of its own
    meta,       \* the document of the batch
    docDone,    \* the tasks whose own document says completed
    pc,         \* where each actor is; for a task, its Celery state too
    plan,       \* what each actor worked out of its first read of meta
    copy,       \* the copy of meta each actor is about to write back
    fresh,      \* the VPN task sent to Celery and not yet registered
    revoked,    \* the tasks Celery was told to revoke
    force,      \* backup_center:force_stop_backups
    decided,    \* the key that says the follow-up was decided
    followups   \* how often the follow-up was scheduled

vars == <<kind, meta, docDone, pc, plan, copy, fresh, revoked, force, decided,
          followups>>
aside == <<kind, docDone, fresh, revoked, force, decided, followups>>

Reprocess == kind = "backup_reprocess"

Docs == [bulk : BOOLEAN, children : SUBSET Tasks, forced : SUBSET Tasks,
         total : 0..Cardinality(Tasks), done : 0..Cardinality(Tasks),
         cancel : BOOLEAN, completed : BOOLEAN]

EmptyDoc == [bulk |-> FALSE, children |-> {}, forced |-> {}, total |-> 0,
             done |-> 0, cancel |-> FALSE, completed |-> FALSE]

ASSUME NoDocAssumption == NoDoc \notin Docs

\* Phases in which an actor runs update_task_meta on the batch: it reads the
\* document in one step and writes it back in the next.
Updating == {"prepare", "publish", "skip", "extend", "refresh", "mark",
             "beat", "pulse", "tail", "finish", "note"}
TaskPhases == {"absent", "queued", "check", "body", "final", "snapshot",
               "reread", "claim", "choose", "return"}
Ended == {"SUCCESS", "FAILURE", "REVOKED"}
OtherPhases == {"idle", "dispatch", "merge", "send", "register", "count",
                "flag", "over"}

TypeOK ==
    /\ kind \in Kinds
    /\ meta \in Docs
    /\ docDone \subseteq Tasks
    /\ pc \in [Actors -> Updating \cup TaskPhases \cup Ended \cup OtherPhases]
    /\ plan \in [Actors -> Docs \cup {NoDoc}]
    /\ copy \in [Actors -> Docs \cup {NoDoc}]
    /\ fresh \in Vpn \cup {NoTask}
    /\ revoked \subseteq Tasks
    /\ force \in BOOLEAN
    /\ decided \in BOOLEAN
    /\ followups \in Nat

\* register_task has written the document of the batch.
Init ==
    /\ kind \in Kinds
    /\ meta = EmptyDoc
    /\ docDone = {}
    /\ pc = [a \in Actors |->
                IF a \in Tasks THEN "absent"
                ELSE IF a # Launcher THEN "idle"
                ELSE IF Reprocess THEN "prepare" ELSE "dispatch"]
    /\ plan = [a \in Actors |-> NoDoc]
    /\ copy = [a \in Actors |-> NoDoc]
    /\ fresh = NoTask
    /\ revoked = {}
    /\ force = FALSE
    /\ decided = FALSE
    /\ followups = 0

-------------------------------------------------------------------------------
(* The document.                                                           *)

Larger(m, n) == IF m > n THEN m ELSE n

\* get_task_meta of update_task_meta.
Read(a) ==
    /\ pc[a] \in Updating
    /\ copy[a] = NoDoc
    /\ copy' = [copy EXCEPT ![a] = meta]
    /\ UNCHANGED <<meta, pc, plan>>
    /\ UNCHANGED aside

\* _write_task_meta: doc is the copy with the fields of the caller.
Write(a, doc, next) ==
    /\ copy[a] # NoDoc
    /\ meta' = doc
    /\ copy' = [copy EXCEPT ![a] = NoDoc]
    /\ plan' = [plan EXCEPT ![a] = NoDoc]
    /\ pc' = [pc EXCEPT ![a] = next]

\* An actor goes on without touching the document.
Go(a, next) ==
    /\ pc' = [pc EXCEPT ![a] = next]
    /\ UNCHANGED <<meta, copy, plan>>

\* An actor loses what it read and goes on elsewhere.
Lose(a, next) ==
    /\ pc' = [pc EXCEPT ![a] = next]
    /\ plan' = [plan EXCEPT ![a] = NoDoc]
    /\ copy' = [copy EXCEPT ![a] = NoDoc]
    /\ UNCHANGED meta

ShouldStop == force \/ meta.cancel
Succeeded(P) == \A t \in P : pc[t] = "SUCCESS"

-------------------------------------------------------------------------------
(* The launcher.                                                           *)

Planned == Cardinality(Tasks)

\* The follow-up announces its batch before it knows its tasks.
Prepare ==
    /\ pc[Launcher] = "prepare"
    /\ Write(Launcher, [EmptyDoc EXCEPT !.bulk = TRUE,
                            !.cancel = copy[Launcher].cancel,
                            !.forced = copy[Launcher].forced], "dispatch")
    /\ UNCHANGED aside

\* The direct tasks are registered and sent, or the callback at once.
Dispatch ==
    /\ pc[Launcher] = "dispatch"
    /\ pc' = [a \in Actors |->
                 IF a \in Direct THEN "queued"
                 ELSE IF a = Launcher
                      THEN IF Reprocess THEN "publish" ELSE "merge"
                      ELSE pc[a]]
    /\ UNCHANGED <<meta, plan, copy>>
    /\ UNCHANGED aside

\* _merge_existing_bulk_children keeps what callbacks already added.
MergeChildren ==
    /\ pc[Launcher] = "merge"
    /\ plan' = [plan EXCEPT ![Launcher] =
                  [meta EXCEPT !.children = @ \cup Direct,
                               !.total = Larger(@, Planned)]]
    /\ pc' = [pc EXCEPT ![Launcher] = "publish"]
    /\ UNCHANGED <<meta, copy>>
    /\ UNCHANGED aside

\* The batch becomes visible: is_bulk, the tasks known so far and the number
\* planned.  The follow-up merges nothing.
Publish ==
    /\ pc[Launcher] = "publish"
    /\ Write(Launcher,
             [bulk |-> TRUE,
              children |-> IF Reprocess THEN Direct ELSE plan[Launcher].children,
              total |-> IF Reprocess THEN Planned ELSE plan[Launcher].total,
              done |-> 0,
              cancel |-> Reprocess /\ copy[Launcher].cancel,
              completed |-> FALSE,
              forced |-> copy[Launcher].forced], "over")
    /\ UNCHANGED aside

-------------------------------------------------------------------------------
(* The callbacks of the phases.                                            *)

Sent == pc[Launcher] \notin {"prepare", "dispatch"}

\* enqueue_jump_and_vpn_after_direct_phase_task, once the chord of the direct
\* phase is complete.
StartJumpPhase ==
    /\ pc[JumpCallback] = "idle"
    /\ Jump # {}
    /\ Sent /\ Succeeded(Direct)
    /\ Go(JumpCallback, IF ShouldStop THEN "skip" ELSE "merge")
    /\ UNCHANGED aside

\* Variant of StartVpnPhase: it does not wait for the jump host tasks.
StartVpnPhaseSoon ==
    /\ pc[VpnCallback] = "idle"
    /\ Vpn # {}
    /\ Sent /\ Succeeded(Direct)
    /\ Go(VpnCallback, IF ShouldStop THEN "skip" ELSE "send")
    /\ UNCHANGED aside

\* Variant of StartVpnPhase: it is sent with the launch and waits for nobody.
StartVpnPhaseAtOnce ==
    /\ pc[VpnCallback] = "idle"
    /\ Vpn # {}
    /\ Sent
    /\ Go(VpnCallback, IF ShouldStop THEN "skip" ELSE "send")
    /\ UNCHANGED aside

\* The VPN phase: after the chord of the jump host tasks, or as part of the
\* callback of the direct phase when there are none.
StartVpnPhase ==
    /\ pc[VpnCallback] = "idle"
    /\ Vpn # {}
    /\ Sent /\ Succeeded(Direct \cup Jump)
    /\ Go(VpnCallback, IF ShouldStop THEN "skip" ELSE "send")
    /\ UNCHANGED aside

\* Only the status and the message say that the next phase is skipped.
Skip(a) ==
    /\ a \in Callbacks
    /\ pc[a] = "skip"
    /\ Write(a, copy[a], "over")
    /\ UNCHANGED aside

\* A VPN group is sent to Celery ...
SendVpn(t) ==
    /\ pc[VpnCallback] = "send"
    /\ t \in Vpn /\ pc[t] = "absent"
    /\ fresh' = t
    /\ pc' = [pc EXCEPT ![t] = "queued", ![VpnCallback] = "register"]
    /\ UNCHANGED <<kind, meta, plan, copy, docDone, revoked, force, decided, followups>>

\* ... and then registered, which overwrites what it may already have written.
\* The update of its device ids that follows has the same effect, a bit later.
RegisterVpn ==
    /\ pc[VpnCallback] = "register"
    /\ docDone' = docDone \ {fresh}
    /\ fresh' = NoTask
    /\ Go(VpnCallback,
          IF \E t \in Vpn : pc[t] = "absent" THEN "send" ELSE "merge")
    /\ UNCHANGED <<kind, revoked, force, decided, followups>>

\* Variant of MergePhase: the phase is added to the total again.
MergePhaseTwice(a, phase, pending) ==
    /\ pc[a] = "merge"
    /\ plan' = [plan EXCEPT ![a] =
                  [meta EXCEPT !.children = @ \cup phase,
                               !.total = @ + Cardinality(phase \cup pending)]]
    /\ pc' = [pc EXCEPT ![a] = "extend"]
    /\ UNCHANGED <<meta, copy>>
    /\ UNCHANGED aside

\* The callback reads the children and the total it adds to.
MergePhase(a, phase, pending) ==
    /\ pc[a] = "merge"
    /\ LET known == meta.children \cup phase
       IN  plan' = [plan EXCEPT ![a] =
                      [meta EXCEPT !.children = known,
                                   !.total = Larger(@, Cardinality(known)
                                                       + Cardinality(pending))]]
    /\ pc' = [pc EXCEPT ![a] = "extend"]
    /\ UNCHANGED <<meta, copy>>
    /\ UNCHANGED aside

Extended(a) == [copy[a] EXCEPT !.children = plan[a].children,
                               !.total = plan[a].total]

ExtendJump ==
    /\ pc[JumpCallback] = "extend"
    /\ Write(JumpCallback, Extended(JumpCallback), "dispatch")
    /\ UNCHANGED aside

\* The jump host tasks are sent, after they are known.
DispatchJump ==
    /\ pc[JumpCallback] = "dispatch"
    /\ pc' = [a \in Actors |-> IF a \in Jump THEN "queued"
                               ELSE IF a = JumpCallback THEN "over" ELSE pc[a]]
    /\ UNCHANGED <<meta, plan, copy>>
    /\ UNCHANGED aside

ExtendVpn ==
    /\ pc[VpnCallback] = "extend"
    /\ Write(VpnCallback, Extended(VpnCallback), "over")
    /\ UNCHANGED aside

-------------------------------------------------------------------------------
(* A task.                                                                 *)

\* A worker takes it up, unless it was revoked meanwhile.
Start(t) ==
    /\ pc[t] = "queued"
    /\ Go(t, IF t \in revoked THEN "REVOKED" ELSE "beat")
    /\ UNCHANGED aside

\* _touch_bulk_activity: nothing of the document but its date changes.
Beat(t) ==
    /\ \/ pc[t] = "beat" /\ Write(t, copy[t], "check")
       \/ pc[t] = "pulse" /\ Write(t, copy[t], "body")
       \/ pc[t] = "tail" /\ Write(t, copy[t], "final")
    /\ UNCHANGED aside

\* Its own document says completed, then a single device beats once more.
Complete(t) ==
    /\ Go(t, IF t \in Groups THEN "final" ELSE "tail")
    /\ docDone' = docDone \cup {t}
    /\ UNCHANGED <<kind, fresh, revoked, force, decided, followups>>

Check(t) ==
    /\ pc[t] = "check"
    /\ IF ShouldStop
       THEN Complete(t)
       ELSE Go(t, "body") /\ UNCHANGED aside

\* A group beats before each of its devices.
Pulse(t) ==
    /\ pc[t] = "body"
    /\ t \in Groups
    /\ Go(t, "pulse")
    /\ UNCHANGED aside

EndBody(t) ==
    /\ pc[t] = "body"
    /\ Complete(t)

\* The task is over for Celery, and with it for the chord.
Return(t) ==
    /\ pc[t] = "return"
    /\ Go(t, "SUCCESS")
    /\ UNCHANGED aside

Finalizing == {"final", "snapshot", "finish", "reread", "choose", "note"}

\* The soft limit of a single device (in its body, that is EndBody): a heartbeat
\* swallows the exception and is lost; the finalization is logged and given up.
\* Left out: in the very SET of Claim the code would go on without the key.
Interrupt(t) ==
    /\ t \notin Groups
    /\ \/ pc[t] = "beat" /\ Lose(t, "check")
       \/ pc[t] = "tail" /\ Lose(t, "final")
       \/ pc[t] \in Finalizing /\ Lose(t, "return")
    /\ UNCHANGED aside

\* The hard limit or the loss of the worker; a revoked task is terminated.
Kill(t) ==
    /\ pc[t] \notin {"absent", "queued"} \cup Ended
    /\ Lose(t, IF t \in revoked THEN "REVOKED" ELSE "FAILURE")
    /\ UNCHANGED aside

-------------------------------------------------------------------------------
(* _maybe_finalize_bulk_and_schedule_followup, at the end of every task.   *)

\* The batch is read; before the launcher has published it nothing is done.
LookAtBatch(t) ==
    /\ pc[t] = "final"
    /\ IF meta.bulk
       THEN /\ plan' = [plan EXCEPT ![t] = meta]
            /\ pc' = [pc EXCEPT ![t] = "snapshot"]
            /\ UNCHANGED <<meta, copy>>
       ELSE Go(t, "return")
    /\ UNCHANGED aside

\* _bulk_child_task_is_terminal.
Terminal(t) == t \in docDone \/ pc[t] \in Ended

\* Variant of Ready: the tasks known so far are enough.
ReadyKnown(doc) ==
    /\ doc.children # {}
    /\ \A t \in doc.children : Terminal(t)

\* _build_bulk_terminal_snapshot.
Ready(doc) ==
    /\ doc.total + Cardinality(doc.children) > 0
    /\ Cardinality(doc.children) >= doc.total
    /\ \A t \in doc.children : Terminal(t)

Forget(t, next) ==
    /\ plan' = [plan EXCEPT ![t] = NoDoc]
    /\ pc' = [pc EXCEPT ![t] = next]
    /\ UNCHANGED <<meta, copy>>

\* A batch that is not of kind backup_bulk, or is cancelled, has no follow-up.
Snapshot(t) ==
    /\ pc[t] = "snapshot"
    /\ IF ~Ready(plan[t]) THEN Forget(t, "return")
       ELSE IF ~plan[t].completed THEN Go(t, "finish") /\ UNCHANGED plan
       ELSE IF Reprocess \/ plan[t].cancel THEN Forget(t, "return")
       ELSE Forget(t, "claim")
    /\ UNCHANGED aside

FinishBatch(t) ==
    /\ pc[t] = "finish"
    /\ LET count == Cardinality(plan[t].children)
       IN  Write(t, [copy[t] EXCEPT !.completed = TRUE, !.total = count,
                                    !.done = count], "reread")
    /\ UNCHANGED aside

Reread(t) ==
    /\ pc[t] = "reread"
    /\ Go(t, IF Reprocess \/ meta.cancel THEN "return" ELSE "claim")
    /\ UNCHANGED aside

\* Variant of Claim: the decision is looked up in a document read before.
ClaimAgain(t) ==
    /\ pc[t] = "claim"
    /\ Go(t, "choose")
    /\ decided' = TRUE
    /\ UNCHANGED <<kind, docDone, fresh, revoked, force, followups>>

\* SET NX on the decision key: one of the finalizing tasks goes on.
Claim(t) ==
    /\ pc[t] = "claim"
    /\ Go(t, IF decided THEN "return" ELSE "choose")
    /\ decided' = TRUE
    /\ UNCHANGED <<kind, docDone, fresh, revoked, force, followups>>

\* Some device failed for a passing reason and is scheduled again, or none.
Choose(t) ==
    /\ pc[t] = "choose"
    /\ Go(t, "note")
    /\ followups' \in {followups, followups + 1}
    /\ UNCHANGED <<kind, docDone, fresh, revoked, force, decided>>

\* The fields that describe the follow-up are left out of the model.
Note(t) ==
    /\ pc[t] = "note"
    /\ Write(t, copy[t], "return")
    /\ UNCHANGED aside

-------------------------------------------------------------------------------
(* The status page and the cancellation.                                   *)

\* bulk_task_status refreshes a batch that is not completed.
Poll ==
    /\ Watched
    /\ pc[Page] = "idle"
    /\ meta.bulk /\ ~meta.completed
    /\ plan' = [plan EXCEPT ![Page] = meta]
    /\ pc' = [pc EXCEPT ![Page] = "count"]
    /\ UNCHANGED <<meta, copy>>
    /\ UNCHANGED aside

\* _refresh_bulk_task_meta: after a cancellation the tasks it hit, or all when
\* none was hit, count as done whatever they still do.
Refreshed(doc) ==
    LET total == IF doc.total = 0 THEN Cardinality(doc.children) ELSE doc.total
        hit == IF ~doc.cancel THEN {}
               ELSE IF doc.forced = {} THEN doc.children ELSE doc.forced
        done == Larger(doc.done,
                       Cardinality({t \in doc.children :
                                       pc[t] \in Ended \/ t \in hit}))
    IN  [doc EXCEPT !.total = total, !.done = done,
                    !.completed = total = 0 \/ done >= total]

Count ==
    /\ pc[Page] = "count"
    /\ plan' = [plan EXCEPT ![Page] = Refreshed(@)]
    /\ pc' = [pc EXCEPT ![Page] = "refresh"]
    /\ UNCHANGED <<meta, copy>>
    /\ UNCHANGED aside

Refresh ==
    /\ pc[Page] = "refresh"
    /\ Write(Page, [plan[Page] EXCEPT !.children = copy[Page].children,
                                      !.forced = copy[Page].forced], "idle")
    /\ UNCHANGED aside

\* cancel_bulk_task: the tasks known and not over are revoked, ...
Cancel ==
    /\ pc[Canceller] = "idle"
    /\ meta.bulk
    /\ LET hit == {t \in meta.children : pc[t] \notin Ended}
       IN  /\ revoked' = revoked \cup hit
           /\ plan' = [plan EXCEPT ![Canceller] = [meta EXCEPT !.forced = hit]]
    /\ pc' = [pc EXCEPT ![Canceller] = "flag"]
    /\ UNCHANGED <<kind, meta, copy, docDone, fresh, force, decided, followups>>

\* ... the flag is raised for half an hour, ...
RaiseFlag ==
    /\ pc[Canceller] = "flag"
    /\ force' = TRUE
    /\ Go(Canceller, "mark")
    /\ UNCHANGED <<kind, docDone, fresh, revoked, decided, followups>>

\* ... and the batch is marked, even when it was completed.
MarkCancelled ==
    /\ pc[Canceller] = "mark"
    /\ Write(Canceller, [copy[Canceller] EXCEPT
                            !.cancel = TRUE, !.completed = FALSE,
                            !.forced = plan[Canceller].forced], "over")
    /\ UNCHANGED aside

\* The flag expires, or any tenant starts another batch.
LowerFlag ==
    /\ force
    /\ force' = FALSE
    /\ UNCHANGED <<kind, meta, docDone, pc, plan, copy, fresh, revoked, decided, followups>>

\* The web server or the worker of a callback is lost.
Crash(a) ==
    /\ pc[a] \notin {"idle", "over"}
    /\ Lose(a, "over")
    /\ fresh' = IF a = VpnCallback THEN NoTask ELSE fresh
    /\ UNCHANGED <<kind, docDone, revoked, force, decided, followups>>

-------------------------------------------------------------------------------
Launch == Prepare \/ Dispatch \/ MergeChildren \/ Publish

JumpPhase ==
    \/ StartJumpPhase
    \/ MergePhase(JumpCallback, Jump, Vpn)
    \/ ExtendJump
    \/ DispatchJump

VpnPhase ==
    \/ StartVpnPhase
    \/ \E t \in Vpn : SendVpn(t)
    \/ RegisterVpn
    \/ MergePhase(VpnCallback, Vpn, {})
    \/ ExtendVpn

TaskStep(t) ==
    \/ Start(t) \/ Beat(t) \/ Check(t) \/ Pulse(t) \/ EndBody(t)
    \/ LookAtBatch(t) \/ Snapshot(t) \/ FinishBatch(t) \/ Reread(t)
    \/ Claim(t) \/ Choose(t) \/ Note(t) \/ Return(t)

Operator == Poll \/ Count \/ Refresh \/ Cancel \/ RaiseFlag \/ MarkCancelled

Next ==
    \/ Launch \/ JumpPhase \/ VpnPhase \/ Operator
    \/ \E a \in Actors : Read(a)
    \/ \E a \in Callbacks : Skip(a)
    \/ \E t \in Tasks : TaskStep(t) \/ Interrupt(t) \/ Kill(t)
    \/ \E a \in Callbacks \cup {Launcher} : Crash(a)
    \/ LowerFlag

Spec == Init /\ [][Next]_vars

-------------------------------------------------------------------------------
(* Correctness.                                                            *)

Active == {"beat", "check", "pulse", "body"}
Over(t) == pc[t] \notin Active \cup {"absent", "queued"}

\* However stale the copies written back, a task that finalizes the batch does
\* so when every planned task has ended, those of the phases to come included
\* (_build_bulk_terminal_snapshot).
FinalizedWhenOver ==
    [][\A t \in Tasks :
          pc[t] = "finish" /\ pc'[t] = "reread" => \A u \in Tasks : Over(u)]_vars

\* Tasks that finalize the batch together schedule one follow-up at most.
FollowUpOnce == followups <= 1

Batch == INSTANCE BulkBatch WITH
             running <- {t \in Tasks : pc[t] \in Active},
             over <- {t \in Tasks : Over(t)},
             followed <- followups > 0
ImplementsBatch == Batch!Spec

\* Whatever is written on the document, whoever is killed, revoked or called off: no
\* task starts while one of an earlier phase may still run (the chords of
\* run_backup_all and enqueue_jump_and_vpn_after_direct_phase_task).
PhasesInOrder ==
    [][\A t \in Tasks :
          pc[t] = "queued" /\ pc'[t] = "beat" => \A u \in Batch!Before(t) : Over(u)]_vars

\* "Nenhuma task pendente para este lote." and "Lote concluido": the batch is
\* not shown as completed while planned tasks have not ended.
NotCompletedEarly ==
    [][~meta.completed /\ meta'.completed =>
          meta'.cancel \/ \A t \in Tasks : Over(t)]_vars
===============================================================================
