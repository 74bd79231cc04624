-------------------------- MODULE BulkBackup_proofs ---------------------------
(* A batch schedules at most one follow-up, whatever its tasks, and whoever   *)
(* else races on its document; and however stale the copies written back, the *)
(* counters of the document never exceed the tasks of the batch.  Its tasks   *)
(* start phase by phase, and when nobody watches the status page it is        *)
(* finalized and followed up when they are all over, as BulkBatch promises.   *)
EXTENDS BulkBackup, FiniteSetTheorems, TLAPS

Phases == Updating \cup TaskPhases \cup Ended \cup OtherPhases

\* The decision key lets one task choose, and none after a choice.
OneChooser ==
    /\ \A t \in Tasks : pc[t] = "choose" => decided /\ followups = 0
    /\ \A t, u \in Tasks : pc[t] = "choose" /\ pc[u] = "choose" => t = u

Decision ==
    /\ pc \in [Actors -> Phases]
    /\ followups \in Nat
    /\ ~decided => followups = 0
    /\ OneChooser
    /\ FollowUpOnce

USE DEF Tasks, Callbacks, Others, Actors

\* Init gives the phases and nothing is decided (register_task).
LEMMA DecisionInit == Init => Decision
  BY DEF Init, Decision, OneChooser, FollowUpOnce, Phases, Updating, TaskPhases,
         OtherPhases

\* A step that only moves actors to phases other than "choose" keeps Decision:
\* update_task_meta and everything around it never touches the decision key.
LEMMA QuietStep ==
    ASSUME Decision, UNCHANGED <<decided, followups>>,
           pc' \in [Actors -> Phases],
           \A t \in Tasks : pc'[t] = "choose" => pc[t] = "choose"
    PROVE  Decision'
  BY DEF Decision, OneChooser, FollowUpOnce

\* Redis lets one SET NX through (the decision key).
LEMMA ClaimStep ==
    ASSUME Decision, NEW t \in Tasks, Claim(t)
    PROVE  Decision'
  <1>1. pc' = [pc EXCEPT ![t] = IF decided THEN "return" ELSE "choose"]
        /\ decided' = TRUE /\ followups' = followups
    BY DEF Claim, Go
  <1>2. pc' \in [Actors -> Phases]
    BY <1>1 DEF Decision, Phases, TaskPhases
  <1>3. CASE decided
    BY <1>1, <1>2, <1>3 DEF Decision, OneChooser, FollowUpOnce
  <1>4. CASE ~decided
    BY <1>1, <1>2, <1>4 DEF Decision, OneChooser, FollowUpOnce
  <1> QED
    BY <1>3, <1>4

\* The choice is made by the only task that may (apply_async of the follow-up).
LEMMA ChooseStep ==
    ASSUME Decision, NEW t \in Tasks, Choose(t)
    PROVE  Decision'
  <1>1. /\ pc[t] = "choose"
        /\ pc' = [pc EXCEPT ![t] = "note"]
        /\ followups' \in {followups, followups + 1} /\ decided' = decided
    BY DEF Choose, Go
  <1>2. pc' \in [Actors -> Phases]
    BY <1>1 DEF Decision, Phases, Updating
  <1>3. decided /\ followups = 0
    BY <1>1 DEF Decision, OneChooser
  <1>4. \A u \in Tasks : pc'[u] # "choose"
    BY <1>1, <1>2 DEF Decision, OneChooser
  <1> QED
    BY <1>1, <1>2, <1>3, <1>4 DEF Decision, OneChooser, FollowUpOnce

\* One actor moves to a phase other than "choose".
LEMMA MoveStep ==
    ASSUME Decision, UNCHANGED <<decided, followups>>,
           NEW a \in Actors, NEW next \in Phases \ {"choose"},
           pc' = [pc EXCEPT ![a] = next]
    PROVE  Decision'
  <1>1. pc' \in [Actors -> Phases]
    BY DEF Decision
  <1>2. \A t \in Tasks : pc'[t] = "choose" => pc[t] = "choose"
    BY DEF Decision
  <1> QED
    BY <1>1, <1>2, QuietStep

\* The launcher (run_backup_all, run_bulk_transient_followup_task).
LEMMA LaunchStep ==
    ASSUME Decision, Launch
    PROVE  Decision'
  <1> USE DEF Phases, Updating, TaskPhases, Ended, OtherPhases
  <1>1. CASE Prepare
    BY <1>1, MoveStep DEF Prepare, Write, aside
  <1>2. CASE Dispatch
    <2>1. pc' \in [Actors -> Phases]
      BY <1>2 DEF Dispatch, Decision
    <2>2. \A t \in Tasks : pc'[t] = "choose" => pc[t] = "choose"
      BY <1>2 DEF Dispatch, Decision
    <2> QED
      BY <1>2, <2>1, <2>2, QuietStep DEF Dispatch, aside
  <1>3. CASE MergeChildren
    BY <1>3, MoveStep DEF MergeChildren, aside
  <1>4. CASE Publish
    BY <1>4, MoveStep DEF Publish, Write, aside
  <1> QED
    BY <1>1, <1>2, <1>3, <1>4 DEF Launch

\* The callback of the direct phase.
LEMMA JumpPhaseStep ==
    ASSUME Decision, JumpPhase
    PROVE  Decision'
  <1> USE DEF Phases, Updating, TaskPhases, Ended, OtherPhases
  <1>1. CASE StartJumpPhase
    BY <1>1, MoveStep DEF StartJumpPhase, Go, aside
  <1>2. CASE MergePhase(JumpCallback, Jump, Vpn)
    BY <1>2, MoveStep DEF MergePhase, aside
  <1>3. CASE ExtendJump
    BY <1>3, MoveStep DEF ExtendJump, Write, aside
  <1>4. CASE DispatchJump
    <2>1. pc' \in [Actors -> Phases]
      BY <1>4 DEF DispatchJump, Decision
    <2>2. \A t \in Tasks : pc'[t] = "choose" => pc[t] = "choose"
      BY <1>4 DEF DispatchJump, Decision
    <2> QED
      BY <1>4, <2>1, <2>2, QuietStep DEF DispatchJump, aside
  <1> QED
    BY <1>1, <1>2, <1>3, <1>4 DEF JumpPhase

\* The callback of the VPN phase.
LEMMA VpnPhaseStep ==
    ASSUME Decision, VpnPhase
    PROVE  Decision'
  <1> USE DEF Phases, Updating, TaskPhases, Ended, OtherPhases
  <1>1. CASE StartVpnPhase
    BY <1>1, MoveStep DEF StartVpnPhase, Go, aside
  <1>2. ASSUME NEW t \in Vpn, SendVpn(t)
        PROVE  Decision'
    <2>1. pc' \in [Actors -> Phases]
      BY <1>2 DEF SendVpn, Decision
    <2>2. \A u \in Tasks : pc'[u] = "choose" => pc[u] = "choose"
      BY <1>2 DEF SendVpn, Decision
    <2> QED
      BY <1>2, <2>1, <2>2, QuietStep DEF SendVpn
  <1>3. CASE RegisterVpn
    BY <1>3, MoveStep DEF RegisterVpn, Go
  <1>4. CASE MergePhase(VpnCallback, Vpn, {})
    BY <1>4, MoveStep DEF MergePhase, aside
  <1>5. CASE ExtendVpn
    BY <1>5, MoveStep DEF ExtendVpn, Write, aside
  <1> QED
    BY <1>1, <1>2, <1>3, <1>4, <1>5 DEF VpnPhase

\* The status page and the cancellation.
LEMMA OperatorStep ==
    ASSUME Decision, Operator
    PROVE  Decision'
  <1> USE DEF Phases, Updating, TaskPhases, Ended, OtherPhases
  <1>1. CASE Poll
    BY <1>1, MoveStep DEF Poll, aside
  <1>2. CASE Count
    BY <1>2, MoveStep DEF Count, aside
  <1>3. CASE Refresh
    BY <1>3, MoveStep DEF Refresh, Write, aside
  <1>4. CASE Cancel
    BY <1>4, MoveStep DEF Cancel
  <1>5. CASE RaiseFlag
    BY <1>5, MoveStep DEF RaiseFlag, Go
  <1>6. CASE MarkCancelled
    BY <1>6, MoveStep DEF MarkCancelled, Write, aside
  <1> QED
    BY <1>1, <1>2, <1>3, <1>4, <1>5, <1>6 DEF Operator

\* A task, from its start to its end (run_backup_task and its finalization).
LEMMA TaskStepKeeps ==
    ASSUME Decision, NEW t \in Tasks, TaskStep(t)
    PROVE  Decision'
  <1> USE DEF Phases, Updating, TaskPhases, Ended, OtherPhases
  <1>1. CASE Start(t)
    BY <1>1, MoveStep DEF Start, Go, aside
  <1>2. CASE Beat(t)
    BY <1>2, MoveStep DEF Beat, Write, aside
  <1>3. CASE Check(t)
    BY <1>3, MoveStep DEF Check, Complete, Go, aside
  <1>4. CASE Pulse(t)
    BY <1>4, MoveStep DEF Pulse, Go, aside
  <1>5. CASE EndBody(t)
    BY <1>5, MoveStep DEF EndBody, Complete, Go
  <1>6. CASE LookAtBatch(t)
    BY <1>6, MoveStep DEF LookAtBatch, Go, aside
  <1>7. CASE Snapshot(t)
    BY <1>7, MoveStep DEF Snapshot, Forget, Go, aside
  <1>8. CASE FinishBatch(t)
    BY <1>8, MoveStep DEF FinishBatch, Write, aside
  <1>9. CASE Reread(t)
    BY <1>9, MoveStep DEF Reread, Go, aside
  <1>10. CASE Claim(t)
    BY <1>10, ClaimStep
  <1>11. CASE Choose(t)
    BY <1>11, ChooseStep
  <1>12. CASE Note(t)
    BY <1>12, MoveStep DEF Note, Write, aside
  <1>13. CASE Return(t)
    BY <1>13, MoveStep DEF Return, Go, aside
  <1> QED
    BY <1>1, <1>2, <1>3, <1>4, <1>5, <1>6, <1>7, <1>8, <1>9, <1>10, <1>11,
       <1>12, <1>13 DEF TaskStep

\* Decision is inductive: no actor of the batch can break it.
LEMMA DecisionStep ==
    ASSUME Decision, [Next]_vars
    PROVE  Decision'
  <1> USE DEF Phases, Updating, TaskPhases, Ended, OtherPhases
  <1>1. ASSUME NEW a \in Actors, Read(a)
        PROVE  Decision'
    BY <1>1, QuietStep DEF Read, aside, Decision
  <1>2. ASSUME NEW a \in Callbacks, Skip(a)
        PROVE  Decision'
    BY <1>2, MoveStep DEF Skip, Write, aside
  <1>3. ASSUME NEW t \in Tasks, Kill(t)
        PROVE  Decision'
    <2>1. PICK next \in {"REVOKED", "FAILURE"} : pc' = [pc EXCEPT ![t] = next]
      BY <1>3 DEF Kill, Lose
    <2>2. UNCHANGED <<decided, followups>>
      BY <1>3 DEF Kill, aside
    <2> QED
      BY <2>1, <2>2, MoveStep
  <1>4. ASSUME NEW a \in Callbacks \cup {Launcher}, Crash(a)
        PROVE  Decision'
    BY <1>4, MoveStep DEF Crash, Lose
  <1>5. ASSUME NEW t \in Tasks, Interrupt(t)
        PROVE  Decision'
    <2>1. PICK next \in {"check", "final", "return"} : pc' = [pc EXCEPT ![t] = next]
      BY <1>5 DEF Interrupt, Lose
    <2>2. UNCHANGED <<decided, followups>>
      BY <1>5 DEF Interrupt, aside
    <2> QED
      BY <2>1, <2>2, MoveStep
  <1>6. CASE LowerFlag \/ UNCHANGED vars
    BY <1>6, QuietStep DEF LowerFlag, vars, Decision
  <1> QED
    BY <1>1, <1>2, <1>3, <1>4, <1>5, <1>6, LaunchStep, JumpPhaseStep, VpnPhaseStep,
       OperatorStep, TaskStepKeeps DEF Next

\* Tasks that finalize the batch at the same time schedule one follow-up
\* (_maybe_finalize_bulk_and_schedule_followup).
THEOREM OneFollowUp == Spec => []FollowUpOnce
  <1>1. Decision => FollowUpOnce
    BY DEF Decision
  <1> QED
    BY <1>1, DecisionInit, DecisionStep, PTL DEF Spec

-------------------------------------------------------------------------------
(* The document.  A callback adds the tasks of its phase, and those still to  *)
(* come, to what it read: the sum stays below the number of tasks because no  *)
(* document, nor any copy of one, knows a VPN group while the callback of the *)
(* direct phase may still add them.                                          *)

\* The callback of the direct phase has tasks to send and may still add.
Waiting == Jump # {} /\ pc[JumpCallback] \in {"idle", "merge", "extend", "dispatch"}
Sound == {doc \in Docs : Waiting => doc.children \cap Vpn = {}}

\* What these phases write back was worked out before.
Holding == {"extend", "snapshot", "finish", "count", "refresh", "flag", "mark"}
Publishing == pc[Launcher] = "publish" /\ ~Reprocess

Aside ==
    /\ kind \in Kinds /\ docDone \subseteq Tasks /\ fresh \in Vpn \cup {NoTask}
    /\ revoked \subseteq Tasks /\ force \in BOOLEAN /\ decided \in BOOLEAN
    /\ followups \in Nat

DocInv ==
    /\ Aside
    /\ pc \in [Actors -> Phases]
    /\ meta \in Sound
    /\ copy \in [Actors -> Sound \cup {NoDoc}]
    /\ plan \in [Actors -> Sound \cup {NoDoc}]
    /\ \A a \in Actors : pc[a] \in Holding => plan[a] \in Sound
    /\ Publishing => plan[Launcher] \in Sound
    /\ Waiting => pc[VpnCallback] = "idle" /\ \A t \in Jump : pc[t] = "absent"
    /\ Jump = {} => pc[JumpCallback] = "idle"

\* The five actors that are not tasks are different ones.
LEMMA Distinct ==
    /\ JumpCallback \notin {VpnCallback, Launcher, Page, Canceller}
    /\ VpnCallback \notin {Launcher, Page, Canceller}
    /\ Launcher \notin {Page, Canceller}
    /\ Page # Canceller
  <1> DEFINE More(S, x) == S \cup {x}
             S1 == {Canceller}
             S2 == More(S1, Page)
             S3 == More(S2, Launcher)
             S4 == More(S3, VpnCallback)
             S5 == More(S4, JumpCallback)
  <1>1. ASSUME NEW S, NEW x, NEW n \in Nat, IsFiniteSet(S), Cardinality(S) \in 0..n
        PROVE  /\ IsFiniteSet(More(S, x)) /\ Cardinality(More(S, x)) \in 0..(n + 1)
               /\ x \in S => Cardinality(More(S, x)) \in 0..n
    BY <1>1, FS_AddElement
  <1>2. IsFiniteSet(S1) /\ Cardinality(S1) \in 0..1
    BY FS_Singleton
  <1>3. S5 = Others
    OBVIOUS
  <1>12. Page = Canceller => Page \in S1
    OBVIOUS
  <1>4. Launcher \in {Page, Canceller} <=> Launcher \in S2
    OBVIOUS
  <1>5. VpnCallback \in {Launcher, Page, Canceller} <=> VpnCallback \in S3
    OBVIOUS
  <1>6. JumpCallback \in {VpnCallback, Launcher, Page, Canceller} <=> JumpCallback \in S4
    OBVIOUS
  <1> HIDE DEF More, S1
  <1>7. /\ IsFiniteSet(S2) /\ Cardinality(S2) \in 0..2
        /\ Page \in S1 => Cardinality(S2) \in 0..1
    BY <1>1, <1>2
  <1> HIDE DEF S2
  <1>8. /\ IsFiniteSet(S3) /\ Cardinality(S3) \in 0..3
        /\ Page \in S1 \/ Launcher \in S2 => Cardinality(S3) \in 0..2
    BY <1>1, <1>7
  <1> HIDE DEF S3
  <1>9. /\ IsFiniteSet(S4) /\ Cardinality(S4) \in 0..4
        /\ Page \in S1 \/ Launcher \in S2 \/ VpnCallback \in S3 =>
             Cardinality(S4) \in 0..3
    BY <1>1, <1>8
  <1> HIDE DEF S4
  <1>10. Page \in S1 \/ Launcher \in S2 \/ VpnCallback \in S3 \/ JumpCallback \in S4
         => Cardinality(S5) \in 0..4
    BY <1>1, <1>9
  <1>11. Cardinality(S5) = 5
    BY <1>3, BulkAssumption
  <1> QED
    BY <1>4, <1>5, <1>6, <1>10, <1>11, <1>12

\* The tasks of a batch are finitely many, and any of them no more.
LEMMA Count3 ==
    /\ Cardinality(Tasks) \in Nat
    /\ \A S \in SUBSET Tasks : Cardinality(S) \in 0..Cardinality(Tasks)
  <1>1. IsFiniteSet(Tasks)
    BY BulkAssumption
  <1> QED
    BY <1>1, FS_CardinalityType, FS_Subset

\* What is left of the callback's wait only gets less, and the rest is a matter of
\* what the step writes.
LEMMA StepKeeps ==
    ASSUME DocInv, Aside', kind' = kind,
           meta' \in Sound, pc' \in [Actors -> Phases],
           copy' \in [Actors -> Sound \cup {NoDoc}],
           plan' \in [Actors -> Sound \cup {NoDoc}],
           \A a \in Actors : pc'[a] \in Holding => plan'[a] \in Sound,
           Publishing' => plan'[Launcher] \in Sound,
           Waiting' => /\ Waiting /\ pc'[VpnCallback] = "idle"
                       /\ \A t \in Jump : pc'[t] = "absent",
           Jump = {} => pc'[JumpCallback] = "idle"
    PROVE  DocInv'
  <1>1. Sound \subseteq Sound'
    BY DEF Sound, Docs
  <1> QED
    BY <1>1 DEF DocInv, Holding

\* An actor may leave its phase: not a jump host task before it is sent, nor the
\* callback of the VPN phase before that of the direct phase is done.
Free(a, next) ==
    /\ a \in Jump => pc[a] # "absent"
    /\ a = VpnCallback => ~Waiting
    /\ a = JumpCallback =>
          Jump # {} /\ (next \notin {"idle", "merge", "extend", "dispatch"} \/ Waiting)

\* One actor moves on, with a plan that is good enough for where it goes.
LEMMA MoveKeeps ==
    ASSUME DocInv, Aside', kind' = kind, meta' \in Sound,
           copy' \in [Actors -> Sound \cup {NoDoc}],
           NEW a \in Actors, NEW next \in Phases, Free(a, next),
           pc' = [pc EXCEPT ![a] = next],
           NEW doc \in Sound \cup {NoDoc}, plan' = [plan EXCEPT ![a] = doc],
           next \in Holding \/ (next = "publish" /\ ~Reprocess) => doc \in Sound
    PROVE  DocInv'
  <1>1. pc' \in [Actors -> Phases] /\ plan' \in [Actors -> Sound \cup {NoDoc}]
    BY DEF DocInv
  <1>2. \A b \in Actors : pc'[b] \in Holding => plan'[b] \in Sound
    BY DEF DocInv
  <1>3. Publishing' => plan'[Launcher] \in Sound
    BY DEF DocInv, Publishing, Reprocess
  <1>4. Waiting' => Waiting
    BY Distinct DEF DocInv, Waiting, Free
  <1>5. Waiting' => pc'[VpnCallback] = "idle" /\ \A t \in Jump : pc'[t] = "absent"
    BY <1>4 DEF DocInv, Free
  <1>6. Jump = {} => pc'[JumpCallback] = "idle"
    BY DEF DocInv, Free
  <1> QED
    BY <1>1, <1>2, <1>3, <1>4, <1>5, <1>6, StepKeeps

\* The ways an actor moves on: it keeps its plan, it makes one, it gives it up, or it
\* writes its copy back.
LEMMA GoKeeps ==
    ASSUME DocInv, Aside', kind' = kind, NEW a \in Actors, NEW next \in Phases,
           Free(a, next), Go(a, next),
           next \in Holding \/ (next = "publish" /\ ~Reprocess) => plan[a] \in Sound
    PROVE  DocInv'
  <1>1. plan' = [plan EXCEPT ![a] = plan[a]] /\ plan[a] \in Sound \cup {NoDoc}
    BY DEF Go, DocInv
  <1>2. meta' \in Sound /\ copy' \in [Actors -> Sound \cup {NoDoc}]
    BY DEF Go, DocInv
  <1>3. pc' = [pc EXCEPT ![a] = next]
    BY DEF Go
  <1> QED
    BY <1>1, <1>2, <1>3, MoveKeeps

LEMMA PlanKeeps ==
    ASSUME DocInv, Aside', kind' = kind, NEW a \in Actors, NEW next \in Phases,
           Free(a, next), NEW doc \in Sound, UNCHANGED <<meta, copy>>,
           plan' = [plan EXCEPT ![a] = doc], pc' = [pc EXCEPT ![a] = next]
    PROVE  DocInv'
  <1>1. meta' \in Sound /\ copy' \in [Actors -> Sound \cup {NoDoc}]
    BY DEF DocInv
  <1> QED
    BY <1>1, MoveKeeps

LEMMA LoseKeeps ==
    ASSUME DocInv, Aside', kind' = kind, NEW a \in Actors,
           NEW next \in Phases \ (Holding \cup {"publish"}),
           Free(a, next), Lose(a, next) \/ Forget(a, next)
    PROVE  DocInv'
  <1>1. meta' \in Sound /\ copy' \in [Actors -> Sound \cup {NoDoc}]
    BY DEF Lose, Forget, DocInv
  <1>2. plan' = [plan EXCEPT ![a] = NoDoc] /\ pc' = [pc EXCEPT ![a] = next]
    BY DEF Lose, Forget
  <1> QED
    BY <1>1, <1>2, MoveKeeps

LEMMA WriteKeeps ==
    ASSUME DocInv, Aside', kind' = kind, NEW a \in Actors,
           NEW next \in Phases \ (Holding \cup {"publish"}),
           Free(a, next), NEW doc \in Sound, Write(a, doc, next)
    PROVE  DocInv'
  <1>1. meta' \in Sound /\ copy' \in [Actors -> Sound \cup {NoDoc}]
    BY DEF Write, DocInv
  <1>2. plan' = [plan EXCEPT ![a] = NoDoc] /\ pc' = [pc EXCEPT ![a] = next]
    BY DEF Write
  <1> QED
    BY <1>1, <1>2, MoveKeeps

\* Who may move: a task that was sent, the launcher and the pages always, a callback
\* as far as the callback of the direct phase has come.
LEMMA Movers ==
    ASSUME DocInv, NEW next
    PROVE  /\ \A t \in Tasks : pc[t] # "absent" => Free(t, next)
           /\ \A a \in {Launcher, Page, Canceller} : Free(a, next)
           /\ pc[VpnCallback] # "idle" => Free(VpnCallback, next)
           /\ Jump # {} /\ pc[JumpCallback] \in {"idle", "merge", "extend", "dispatch"}
                => Free(JumpCallback, next)
           /\ pc[JumpCallback] # "idle" /\ next \in {"skip", "over"}
                => Free(JumpCallback, next)
  <1>1. \A t \in Tasks : t \notin Others
    BY BulkAssumption
  <1>2. \A a \in Others : a \notin Jump
    BY BulkAssumption
  <1>3. \A t \in Tasks : pc[t] # "absent" => Free(t, next)
    BY <1>1 DEF Free
  <1>4. \A a \in {Launcher, Page, Canceller} : Free(a, next)
    BY <1>2, Distinct DEF Free
  <1>5. pc[VpnCallback] # "idle" => Free(VpnCallback, next)
    BY <1>2, Distinct DEF Free, DocInv
  <1>6. /\ Jump # {} /\ pc[JumpCallback] \in {"idle", "merge", "extend", "dispatch"}
             => Free(JumpCallback, next)
        /\ pc[JumpCallback] # "idle" /\ next \in {"skip", "over"}
             => Free(JumpCallback, next)
    BY <1>2, Distinct DEF Free, Waiting, DocInv
  <1> QED
    BY <1>3, <1>4, <1>5, <1>6

\* A document whose tasks come from others like it, with a total and a count that are
\* no more than all tasks.
LEMMA DocMade ==
    ASSUME NEW b \in BOOLEAN, NEW c \in SUBSET Tasks, NEW f \in SUBSET Tasks,
           NEW n \in 0..Cardinality(Tasks), NEW m \in 0..Cardinality(Tasks),
           NEW x \in BOOLEAN, NEW y \in BOOLEAN,
           Waiting => c \cap Vpn = {}
    PROVE  [bulk |-> b, children |-> c, forced |-> f, total |-> n, done |-> m,
            cancel |-> x, completed |-> y] \in Sound
  BY DEF Sound, Docs

\* The fields of a document.
LEMMA DocParts ==
    ASSUME NEW doc \in Sound
    PROVE  /\ doc.bulk \in BOOLEAN /\ doc.cancel \in BOOLEAN /\ doc.completed \in BOOLEAN
           /\ doc.children \in SUBSET Tasks /\ doc.forced \in SUBSET Tasks
           /\ doc.total \in 0..Cardinality(Tasks) /\ doc.done \in 0..Cardinality(Tasks)
           /\ Waiting => doc.children \cap Vpn = {}
           /\ doc = [bulk |-> doc.bulk, children |-> doc.children, forced |-> doc.forced,
                     total |-> doc.total, done |-> doc.done, cancel |-> doc.cancel,
                     completed |-> doc.completed]
  BY DEF Sound, Docs

\* The same with some of the fields of a document replaced.
LEMMA DocChanged ==
    ASSUME NEW doc \in Sound
    PROVE  /\ \A c \in SUBSET Tasks, n \in 0..Cardinality(Tasks) :
                 (Waiting => c \cap Vpn = {})
                   => [doc EXCEPT !.children = c, !.total = n] \in Sound
           /\ \A n, m \in 0..Cardinality(Tasks), y \in BOOLEAN :
                 /\ [doc EXCEPT !.total = n, !.done = m, !.completed = y] \in Sound
                 /\ [doc EXCEPT !.completed = y, !.total = n, !.done = m] \in Sound
           /\ \A f \in SUBSET Tasks :
                 /\ [doc EXCEPT !.forced = f] \in Sound
                 /\ [doc EXCEPT !.cancel = TRUE, !.completed = FALSE, !.forced = f] \in Sound
           /\ \A b, x \in BOOLEAN, f \in SUBSET Tasks :
                 [doc EXCEPT !.bulk = b, !.cancel = x, !.forced = f] \in Sound
           /\ \A other \in Sound :
                 [doc EXCEPT !.children = other.children, !.forced = other.forced] \in Sound
  BY DEF Sound, Docs

LEMMA Copies ==
    ASSUME DocInv, NEW a \in Actors
    PROVE  /\ copy[a] # NoDoc => copy[a] \in Sound
           /\ pc[a] \in Holding => plan[a] \in Sound
           /\ EmptyDoc \in Sound
  <1>1. EmptyDoc \in Sound
    BY Count3 DEF EmptyDoc, Sound, Docs
  <1> QED
    BY <1>1 DEF DocInv

\* What a step leaves alone keeps its type.
LEMMA AsideKept == DocInv /\ UNCHANGED aside => Aside' /\ kind' = kind
  BY DEF DocInv, Aside, aside

\* The launcher: it merges what the callbacks added, or knows only its own tasks.
LEMMA LaunchTyped == DocInv /\ Launch => DocInv'
<1> SUFFICES ASSUME DocInv, Launch PROVE DocInv'
  OBVIOUS
<1> USE DEF Phases, Updating, TaskPhases, Ended, OtherPhases, Holding
<1> DEFINE n == Cardinality(Tasks)
<1>1. Aside' /\ kind' = kind
  BY AsideKept DEF Launch, Prepare, Dispatch, MergeChildren, Publish
<1>2. Free(Launcher, "dispatch") /\ Free(Launcher, "publish") /\ Free(Launcher, "over")
  BY Movers
<1>3. Direct \in SUBSET Tasks /\ Direct \cap Vpn = {} /\ n \in 0..n
  BY BulkAssumption, Count3
<1>4. CASE Prepare
  <2> DEFINE doc == [EmptyDoc EXCEPT !.bulk = TRUE, !.cancel = copy[Launcher].cancel,
                                     !.forced = copy[Launcher].forced]
  <2>1. Write(Launcher, doc, "dispatch")
    BY <1>4 DEF Prepare
  <2>2. copy[Launcher] \in Sound
    BY <2>1, Copies DEF Write
  <2>3. doc \in Sound
    <3>1. copy[Launcher].cancel \in BOOLEAN /\ copy[Launcher].forced \in SUBSET Tasks
      BY <2>2, DocParts
    <3>2. EmptyDoc \in Sound
      BY Copies
    <3> QED
      BY <3>1, <3>2, DocChanged
  <2> QED
    BY <1>1, <1>2, <2>1, <2>3, WriteKeeps
<1>5. CASE MergeChildren
  <2> DEFINE doc == [meta EXCEPT !.children = @ \cup Direct, !.total = Larger(@, Planned)]
  <2>1. meta \in Sound
    BY DEF DocInv
  <2>2. meta.total \in 0..n /\ meta.children \in SUBSET Tasks
        /\ (Waiting => meta.children \cap Vpn = {})
    BY <2>1, DocParts
  <2>3. Larger(meta.total, Planned) \in 0..n
    BY <1>3, <2>2 DEF Larger, Planned
  <2>4. doc \in Sound
    BY <1>3, <2>1, <2>2, <2>3, DocChanged
  <2> QED
    BY <1>1, <1>2, <1>5, <2>4, PlanKeeps DEF MergeChildren
<1>6. CASE Publish
  <2> DEFINE known == IF Reprocess THEN Direct ELSE plan[Launcher].children
             total == IF Reprocess THEN Planned ELSE plan[Launcher].total
             cancel == Reprocess /\ copy[Launcher].cancel
             doc == [bulk |-> TRUE, children |-> known, total |-> total, done |-> 0,
                     cancel |-> cancel, completed |-> FALSE, forced |-> copy[Launcher].forced]
  <2>1. Write(Launcher, doc, "over") /\ pc[Launcher] = "publish"
    BY <1>6 DEF Publish
  <2>2. copy[Launcher] \in Sound
    BY <2>1, Copies DEF Write
  <2>3. copy[Launcher].cancel \in BOOLEAN /\ copy[Launcher].forced \in SUBSET Tasks
    BY <2>2, DocParts
  <2>4. cancel \in BOOLEAN
    BY <2>3
  <2>5. known \in SUBSET Tasks /\ total \in 0..n /\ (Waiting => known \cap Vpn = {})
    <3>1. CASE Reprocess
      BY <1>3, <3>1 DEF Planned
    <3>2. CASE ~Reprocess
      <4>1. plan[Launcher] \in Sound
        BY <2>1, <3>2 DEF DocInv, Publishing
      <4> QED
        BY <3>2, <4>1, DocParts
    <3> QED
      BY <3>1, <3>2
  <2>6. 0 \in 0..n
    BY Count3
  <2>7. doc \in Sound
    <3> HIDE DEF known, total, cancel
    <3> QED
      BY <2>3, <2>4, <2>5, <2>6, DocMade
  <2> QED
    BY <1>1, <1>2, <2>1, <2>7, WriteKeeps
<1>7. CASE Dispatch
  <2>1. \A a \in Actors : pc'[a] = IF a \in Direct THEN "queued"
                ELSE IF a = Launcher THEN IF Reprocess THEN "publish" ELSE "merge" ELSE pc[a]
    BY <1>7 DEF Dispatch
  <2>2. pc' \in [Actors -> Phases]
    BY <1>7 DEF Dispatch, DocInv
  <2>3. JumpCallback \notin Direct /\ VpnCallback \notin Direct /\ Launcher \notin Direct
        /\ Direct \cap Jump = {} /\ Launcher \notin Jump
    BY BulkAssumption
  <2>4. Waiting' => /\ Waiting /\ pc'[VpnCallback] = "idle"
                    /\ \A t \in Jump : pc'[t] = "absent"
    BY <2>1, <2>3, Distinct DEF Waiting, DocInv
  <2>5. UNCHANGED <<meta, plan, copy>>
    BY <1>7 DEF Dispatch
  <2>6. Publishing' => plan'[Launcher] \in Sound
    BY <1>1, <2>1, <2>3 DEF Publishing, Reprocess
  <2>7. \A a \in Actors : pc'[a] \in Holding => plan'[a] \in Sound
    BY <2>1, <2>5 DEF DocInv
  <2>8. /\ meta' \in Sound /\ copy' \in [Actors -> Sound \cup {NoDoc}]
        /\ plan' \in [Actors -> Sound \cup {NoDoc}]
    BY <2>5 DEF DocInv
  <2>9. Jump = {} => pc'[JumpCallback] = "idle"
    BY <2>1, <2>3, Distinct DEF DocInv
  <2> QED
    BY <1>1, <2>2, <2>4, <2>6, <2>7, <2>8, <2>9, StepKeeps
<1> QED
  BY <1>4, <1>5, <1>6, <1>7 DEF Launch

\* What a callback adds: its phase, and the number of tasks still to come.
LEMMA Added ==
    ASSUME DocInv, NEW phase \in SUBSET Tasks, NEW pending \in SUBSET Tasks,
           (meta.children \cup phase) \cap pending = {},
           Waiting => phase \cap Vpn = {}
    PROVE  [meta EXCEPT !.children = meta.children \cup phase,
                        !.total = Larger(@, Cardinality(meta.children \cup phase)
                                              + Cardinality(pending))] \in Sound
<1> DEFINE n == Cardinality(Tasks)
           known == meta.children \cup phase
           total == Larger(meta.total, Cardinality(known) + Cardinality(pending))
<1>1. meta \in Sound
  BY DEF DocInv
<1>2. /\ meta.children \in SUBSET Tasks /\ meta.total \in 0..n
      /\ Waiting => meta.children \cap Vpn = {}
  BY <1>1, DocParts
<1>3. Cardinality(known) + Cardinality(pending) \in 0..n
  <2>1. IsFiniteSet(known) /\ IsFiniteSet(pending)
    BY <1>2, BulkAssumption, FS_Subset
  <2>2. Cardinality(known \cup pending) = Cardinality(known) + Cardinality(pending)
                                            - Cardinality(known \cap pending)
    BY <2>1, FS_Union
  <2>3. Cardinality(known \cap pending) = 0
    BY FS_EmptySet
  <2>4. /\ Cardinality(known \cup pending) \in 0..n /\ Cardinality(known) \in Nat
        /\ Cardinality(pending) \in Nat
    BY <1>2, Count3
  <2> HIDE DEF known
  <2> QED
    BY <2>2, <2>3, <2>4
<1>4. total \in 0..n
  <2> HIDE DEF known
  <2> QED
    BY <1>2, <1>3 DEF Larger
<1>5. known \in SUBSET Tasks /\ (Waiting => known \cap Vpn = {})
  BY <1>2
<1> HIDE DEF known, total
<1>6. [meta EXCEPT !.children = known, !.total = total] \in Sound
  BY <1>1, <1>4, <1>5, DocChanged
<1> QED
  BY <1>6 DEF known, total

\* A callback writes what it added over what it reads then.
LEMMA ExtendTyped ==
    ASSUME DocInv, NEW a \in Callbacks, NEW next \in {"dispatch", "over"},
           pc[a] = "extend", Free(a, next), Write(a, Extended(a), next), UNCHANGED aside
    PROVE  DocInv'
<1>1. copy[a] \in Sound /\ plan[a] \in Sound
  BY Copies DEF Write, Holding
<1>2. Extended(a) \in Sound
  BY <1>1, DocParts, DocChanged DEF Extended
<1> QED
  BY <1>2, AsideKept, WriteKeeps DEF Phases, OtherPhases, Holding

\* The callback of the direct phase.
LEMMA JumpTyped == DocInv /\ JumpPhase => DocInv'
<1> SUFFICES ASSUME DocInv, JumpPhase PROVE DocInv'
  OBVIOUS
<1>1. Aside' /\ kind' = kind
  BY AsideKept DEF JumpPhase, StartJumpPhase, MergePhase, ExtendJump, DispatchJump
<1>2. CASE StartJumpPhase
  <2>1. \A next : Free(JumpCallback, next)
    BY <1>2, Movers DEF StartJumpPhase
  <2> QED
    BY <1>1, <1>2, <2>1, GoKeeps DEF StartJumpPhase, Phases, Updating, OtherPhases, Holding
<1>3. CASE MergePhase(JumpCallback, Jump, Vpn)
  <2>1. \A next : Free(JumpCallback, next)
    BY <1>3, Movers DEF MergePhase, DocInv
  <2>2. Jump \in SUBSET Tasks /\ Vpn \in SUBSET Tasks /\ Jump \cap Vpn = {}
    BY BulkAssumption
  <2>3. Jump # {} /\ pc[JumpCallback] = "merge"
    BY <1>3 DEF MergePhase, DocInv
  <2>4. CASE Waiting
    <3>1. meta.children \cap Vpn = {}
      BY <2>4 DEF DocInv, Sound
    <3>2. (meta.children \cup Jump) \cap Vpn = {}
      BY <2>2, <3>1
    <3> DEFINE doc == [meta EXCEPT !.children = meta.children \cup Jump,
                          !.total = Larger(@, Cardinality(meta.children \cup Jump)
                                                + Cardinality(Vpn))]
    <3>3. doc \in Sound
      BY <2>2, <3>2, Added
    <3>4. /\ plan' = [plan EXCEPT ![JumpCallback] = doc]
          /\ pc' = [pc EXCEPT ![JumpCallback] = "extend"] /\ UNCHANGED <<meta, copy>>
      BY <1>3 DEF MergePhase
    <3> HIDE DEF doc
    <3> QED
      BY <1>1, <2>1, <3>3, <3>4, PlanKeeps DEF Phases, Updating
  <2> QED
    BY <2>3, <2>4 DEF Waiting
<1>4. CASE ExtendJump
  <2>1. Free(JumpCallback, "dispatch")
    BY <1>4, Movers DEF ExtendJump, DocInv
  <2> QED
    BY <1>4, <2>1, ExtendTyped DEF ExtendJump
<1>5. CASE DispatchJump
  <2>1. /\ pc' \in [Actors -> Phases] /\ pc'[JumpCallback] = "over"
        /\ \A a \in Actors : pc'[a] \in {"queued", "over", pc[a]}
    <3>1. JumpCallback \notin Jump
      BY BulkAssumption
    <3> QED
      BY <1>5, <3>1 DEF DispatchJump, DocInv, Phases, TaskPhases, OtherPhases
  <2>2. UNCHANGED <<meta, plan, copy>>
    BY <1>5 DEF DispatchJump
  <2>3. /\ meta' \in Sound /\ copy' \in [Actors -> Sound \cup {NoDoc}]
        /\ plan' \in [Actors -> Sound \cup {NoDoc}]
    BY <2>2 DEF DocInv
  <2>4. \A a \in Actors : pc'[a] \in Holding => plan'[a] \in Sound
    BY <2>1, <2>2 DEF DocInv, Holding
  <2>5. Publishing' => plan'[Launcher] \in Sound
    BY <1>1, <2>1, <2>2 DEF DocInv, Publishing, Reprocess
  <2>6. ~Waiting'
    BY <2>1 DEF Waiting
  <2>7. Jump # {}
    BY <1>5 DEF DispatchJump, DocInv
  <2> QED
    BY <1>1, <2>1, <2>3, <2>4, <2>5, <2>6, <2>7, StepKeeps
<1> QED
  BY <1>2, <1>3, <1>4, <1>5 DEF JumpPhase

\* The callback of the VPN phase, which starts when the jump host tasks are over.
LEMMA VpnTyped == DocInv /\ VpnPhase => DocInv'
<1> SUFFICES ASSUME DocInv, VpnPhase PROVE DocInv'
  OBVIOUS
<1> USE DEF Phases, Updating, TaskPhases, OtherPhases
<1>1. CASE StartVpnPhase
  <2>1. Aside' /\ kind' = kind
    BY <1>1, AsideKept DEF StartVpnPhase
  <2>2. ~Waiting
    BY <1>1 DEF StartVpnPhase, Succeeded, Waiting, DocInv
  <2>3. \A next : Free(VpnCallback, next)
    BY <2>2, BulkAssumption, Distinct DEF Free
  <2> QED
    BY <1>1, <2>1, <2>3, GoKeeps DEF StartVpnPhase, Holding
<1>2. ASSUME NEW t \in Vpn, SendVpn(t) PROVE DocInv'
  <2>1. Aside' /\ kind' = kind
    BY <1>2 DEF SendVpn, DocInv, Aside
  <2>2. /\ pc[VpnCallback] = "send" /\ UNCHANGED <<meta, plan, copy>>
        /\ pc' = [pc EXCEPT ![t] = "queued", ![VpnCallback] = "register"]
    BY <1>2 DEF SendVpn
  <2>3. ~Waiting
    BY <2>2 DEF DocInv
  <2>4. t \in Actors /\ t \notin Others
    BY BulkAssumption
  <2>5. /\ pc' \in [Actors -> Phases] /\ pc'[JumpCallback] = pc[JumpCallback]
        /\ pc'[Launcher] = pc[Launcher]
        /\ \A a \in Actors : pc'[a] \in {"queued", "register", pc[a]}
    BY <2>2, <2>4, Distinct DEF DocInv
  <2>6. /\ meta' \in Sound /\ copy' \in [Actors -> Sound \cup {NoDoc}]
        /\ plan' \in [Actors -> Sound \cup {NoDoc}]
    BY <2>2 DEF DocInv
  <2>7. \A a \in Actors : pc'[a] \in Holding => plan'[a] \in Sound
    BY <2>2, <2>5 DEF DocInv, Holding
  <2>8. Publishing' => plan'[Launcher] \in Sound
    BY <2>1, <2>2, <2>5 DEF DocInv, Publishing, Reprocess
  <2>9. ~Waiting' /\ (Jump = {} => pc'[JumpCallback] = "idle")
    BY <2>3, <2>5 DEF Waiting, DocInv
  <2> QED
    BY <2>1, <2>5, <2>6, <2>7, <2>8, <2>9, StepKeeps
<1>3. CASE RegisterVpn
  <2>1. Aside' /\ kind' = kind
    BY <1>3 DEF RegisterVpn, DocInv, Aside
  <2>2. \A next : Free(VpnCallback, next)
    BY <1>3, Movers DEF RegisterVpn
  <2>3. \E next \in {"send", "merge"} : Go(VpnCallback, next)
    BY <1>3 DEF RegisterVpn
  <2> QED
    BY <2>1, <2>2, <2>3, GoKeeps DEF Holding
<1>4. CASE MergePhase(VpnCallback, Vpn, {})
  <2>1. Aside' /\ kind' = kind
    BY <1>4, AsideKept DEF MergePhase
  <2>2. pc[VpnCallback] = "merge"
    BY <1>4 DEF MergePhase
  <2>3. ~Waiting
    BY <2>2 DEF DocInv
  <2>4. \A next : Free(VpnCallback, next)
    BY <2>2, Movers
  <2> DEFINE doc == [meta EXCEPT !.children = meta.children \cup Vpn,
                        !.total = Larger(@, Cardinality(meta.children \cup Vpn)
                                              + Cardinality({}))]
  <2>5. doc \in Sound
    <3>1. Vpn \in SUBSET Tasks /\ {} \in SUBSET Tasks
      OBVIOUS
    <3> QED
      BY <2>3, <3>1, Added
  <2>6. /\ plan' = [plan EXCEPT ![VpnCallback] = doc]
        /\ pc' = [pc EXCEPT ![VpnCallback] = "extend"] /\ UNCHANGED <<meta, copy>>
    BY <1>4 DEF MergePhase
  <2> HIDE DEF doc
  <2> QED
    BY <2>1, <2>4, <2>5, <2>6, PlanKeeps
<1>5. CASE ExtendVpn
  <2>1. Free(VpnCallback, "over")
    BY <1>5, Movers DEF ExtendVpn
  <2> QED
    BY <1>5, <2>1, ExtendTyped DEF ExtendVpn
<1> QED
  BY <1>1, <1>2, <1>3, <1>4, <1>5 DEF VpnPhase

\* The status page and the cancellation.
LEMMA OperatorTyped == DocInv /\ Operator => DocInv'
<1> SUFFICES ASSUME DocInv, Operator PROVE DocInv'
  OBVIOUS
<1> USE DEF Phases, Updating, TaskPhases, OtherPhases
<1>1. \A next : Free(Page, next) /\ Free(Canceller, next)
  BY Movers
<1>2. meta \in Sound
  BY DEF DocInv
<1>3. CASE Poll
  BY <1>1, <1>2, <1>3, AsideKept, PlanKeeps DEF Poll
<1>4. CASE Count
  <2> DEFINE doc == plan[Page]
             n == Cardinality(Tasks)
  <2>1. doc \in Sound
    BY <1>4 DEF Count, DocInv, Holding
  <2>2. /\ doc.children \in SUBSET Tasks /\ doc.total \in 0..n /\ doc.done \in 0..n
        /\ Cardinality(doc.children) \in 0..n
    BY <2>1, DocParts, Count3
  <2>3. Refreshed(doc) \in Sound
    <3> DEFINE total == IF doc.total = 0 THEN Cardinality(doc.children) ELSE doc.total
               hit == IF ~doc.cancel THEN {}
                      ELSE IF doc.forced = {} THEN doc.children ELSE doc.forced
               seen == Cardinality({t \in doc.children : pc[t] \in Ended \/ t \in hit})
               done == Larger(doc.done, seen)
    <3>1. total \in 0..n
      BY <2>2
    <3>2. seen \in 0..n
      BY <2>2, Count3
    <3>3. done \in 0..n
      <4> HIDE DEF seen
      <4> QED
        BY <2>2, <3>2 DEF Larger
    <3> DEFINE completed == total = 0 \/ done >= total
    <3>4. completed \in BOOLEAN
      OBVIOUS
    <3>5. Refreshed(doc) = [doc EXCEPT !.total = total, !.done = done,
                                       !.completed = completed]
      BY DEF Refreshed
    <3> HIDE DEF total, done, doc, completed
    <3>6. [doc EXCEPT !.total = total, !.done = done, !.completed = completed] \in Sound
      BY <2>1, <3>1, <3>3, <3>4, DocChanged
    <3> QED
      BY <3>5, <3>6
  <2> DEFINE new == Refreshed(doc)
  <2>4. plan' = [plan EXCEPT ![Page] = new]
    BY <1>4 DEF Count
  <2>5. pc' = [pc EXCEPT ![Page] = "refresh"] /\ UNCHANGED <<meta, copy>> /\ UNCHANGED aside
    BY <1>4 DEF Count
  <2> HIDE DEF new
  <2>6. new \in Sound
    BY <2>3 DEF new
  <2> QED
    BY <1>1, <2>4, <2>5, <2>6, AsideKept, PlanKeeps
<1>5. CASE Refresh
  <2> DEFINE doc == [plan[Page] EXCEPT !.children = copy[Page].children,
                                       !.forced = copy[Page].forced]
  <2>1. Write(Page, doc, "idle") /\ UNCHANGED aside
    BY <1>5 DEF Refresh
  <2>2. copy[Page] \in Sound /\ plan[Page] \in Sound
    BY <1>5, Copies DEF Refresh, Write, DocInv, Holding
  <2>3. doc \in Sound
    BY <2>2, DocChanged
  <2> HIDE DEF doc
  <2> QED
    BY <1>1, <2>1, <2>3, AsideKept, WriteKeeps DEF Holding
<1>6. CASE Cancel
  <2> DEFINE hit == {t \in meta.children : pc[t] \notin Ended}
             doc == [meta EXCEPT !.forced = hit]
  <2>1. hit \in SUBSET Tasks
    BY <1>2, DocParts
  <2>2. doc \in Sound
    BY <1>2, <2>1, DocChanged
  <2>3. Aside' /\ kind' = kind
    BY <1>6, <2>1 DEF Cancel, DocInv, Aside
  <2>4. /\ plan' = [plan EXCEPT ![Canceller] = doc]
        /\ pc' = [pc EXCEPT ![Canceller] = "flag"] /\ UNCHANGED <<meta, copy>>
    BY <1>6 DEF Cancel
  <2> HIDE DEF doc
  <2> QED
    BY <1>1, <2>2, <2>3, <2>4, PlanKeeps
<1>7. CASE RaiseFlag
  <2>1. Aside' /\ kind' = kind
    BY <1>7 DEF RaiseFlag, DocInv, Aside
  <2>2. plan[Canceller] \in Sound
    BY <1>7 DEF RaiseFlag, DocInv, Holding
  <2> QED
    BY <1>1, <1>7, <2>1, <2>2, GoKeeps DEF RaiseFlag
<1>8. CASE MarkCancelled
  <2> DEFINE doc == [copy[Canceller] EXCEPT !.cancel = TRUE, !.completed = FALSE,
                                            !.forced = plan[Canceller].forced]
  <2>1. Write(Canceller, doc, "over") /\ UNCHANGED aside
    BY <1>8 DEF MarkCancelled
  <2>2. copy[Canceller] \in Sound /\ plan[Canceller] \in Sound
    BY <1>8, Copies DEF MarkCancelled, Write, DocInv, Holding
  <2>3. plan[Canceller].forced \in SUBSET Tasks
    BY <2>2, DocParts
  <2>4. doc \in Sound
    BY <2>2, <2>3, DocChanged
  <2> HIDE DEF doc
  <2> QED
    BY <1>1, <2>1, <2>4, AsideKept, WriteKeeps DEF Holding
<1> QED
  BY <1>3, <1>4, <1>5, <1>6, <1>7, <1>8 DEF Operator

\* A task that was sent moves on as it likes: without a plan where it holds none.
LEMMA TaskMove ==
    ASSUME DocInv, Aside', kind' = kind, NEW t \in Tasks, pc[t] # "absent",
           NEW next \in Phases \ (Holding \cup {"publish"}),
           Go(t, next) \/ Lose(t, next) \/ Forget(t, next)
    PROVE  DocInv'
  BY Movers, GoKeeps, LoseKeeps

\* A task that writes its copy back as it is, or with some fields changed.
LEMMA TaskWrite ==
    ASSUME DocInv, NEW t \in Tasks, pc[t] # "absent", UNCHANGED aside,
           NEW next \in Phases \ (Holding \cup {"publish"}),
           NEW doc, Write(t, doc, next), copy[t] # NoDoc, doc = copy[t] \/ doc \in Sound
    PROVE  DocInv'
<1>1. doc \in Sound
  BY Copies
<1> QED
  BY <1>1, Movers, WriteKeeps, AsideKept

LEMMA TaskTyped == \A t \in Tasks : DocInv /\ TaskStep(t) => DocInv'
<1> SUFFICES ASSUME NEW t \in Tasks, DocInv, TaskStep(t) PROVE DocInv'
  OBVIOUS
<1> USE DEF Phases, Updating, TaskPhases, Ended, OtherPhases, Holding
<1>1. CASE Start(t)
  BY <1>1, AsideKept, TaskMove DEF Start
<1>2. CASE Beat(t)
  BY <1>2, TaskWrite DEF Beat, Write
<1>3. CASE \E next \in {"tail", "final"} : Complete(t) /\ Go(t, next) /\ pc[t] # "absent"
  <2>1. Aside' /\ kind' = kind
    BY <1>3 DEF Complete, DocInv, Aside
  <2> QED
    BY <1>3, <2>1, TaskMove
<1>4. CASE Check(t)
  <2>1. CASE Complete(t)
    BY <1>3, <1>4, <2>1 DEF Check, Complete
  <2>2. CASE Go(t, "body") /\ UNCHANGED aside
    BY <1>4, <2>2, AsideKept, TaskMove DEF Check
  <2> QED
    BY <1>4, <2>1, <2>2 DEF Check
<1>5. CASE Pulse(t)
  BY <1>5, AsideKept, TaskMove DEF Pulse
<1>6. CASE EndBody(t)
  BY <1>3, <1>6 DEF EndBody, Complete
<1>7. CASE LookAtBatch(t)
  <2>1. CASE meta.bulk
    <3>1. meta \in Sound /\ Free(t, "snapshot")
      BY <1>7, Movers DEF LookAtBatch, DocInv
    <3> QED
      BY <1>7, <2>1, <3>1, AsideKept, PlanKeeps DEF LookAtBatch
  <2>2. CASE ~meta.bulk
    BY <1>7, <2>2, AsideKept, TaskMove DEF LookAtBatch
  <2> QED
    BY <2>1, <2>2
<1>8. CASE Snapshot(t)
  <2>1. Aside' /\ kind' = kind /\ pc[t] = "snapshot"
    BY <1>8, AsideKept DEF Snapshot
  <2>2. CASE Go(t, "finish")
    <3>1. plan[t] \in Sound /\ Free(t, "finish")
      BY <2>1, Movers DEF DocInv
    <3> QED
      BY <2>1, <2>2, <3>1, GoKeeps
  <2>3. CASE Forget(t, "return") \/ Forget(t, "claim")
    BY <2>1, <2>3, TaskMove
  <2> QED
    BY <1>8, <2>2, <2>3 DEF Snapshot
<1>9. CASE FinishBatch(t)
  <2> DEFINE count == Cardinality(plan[t].children)
             doc == [copy[t] EXCEPT !.completed = TRUE, !.total = count, !.done = count]
  <2>1. Write(t, doc, "reread") /\ UNCHANGED aside /\ pc[t] = "finish"
    BY <1>9 DEF FinishBatch
  <2>2. copy[t] \in Sound /\ plan[t] \in Sound
    BY <2>1, Copies DEF Write, DocInv
  <2>3. count \in 0..Cardinality(Tasks)
    BY <2>2, DocParts, Count3
  <2>4. doc \in Sound
    <3> HIDE DEF count
    <3> QED
      BY <2>2, <2>3, DocChanged
  <2>5. copy[t] # NoDoc
    BY <2>1 DEF Write
  <2> HIDE DEF doc
  <2> QED
    BY <2>1, <2>4, <2>5, TaskWrite
<1>10. CASE Reread(t)
  BY <1>10, AsideKept, TaskMove DEF Reread
<1>11. CASE Claim(t)
  <2>1. Aside' /\ kind' = kind
    BY <1>11 DEF Claim, DocInv, Aside
  <2> QED
    BY <1>11, <2>1, TaskMove DEF Claim
<1>12. CASE Choose(t)
  <2>1. Aside' /\ kind' = kind
    BY <1>12 DEF Choose, DocInv, Aside
  <2> QED
    BY <1>12, <2>1, TaskMove DEF Choose
<1>13. CASE Note(t)
  BY <1>13, TaskWrite DEF Note, Write
<1>14. CASE Return(t)
  BY <1>14, AsideKept, TaskMove DEF Return
<1> QED
  BY <1>1, <1>2, <1>4, <1>5, <1>6, <1>7, <1>8, <1>9, <1>10, <1>11, <1>12, <1>13, <1>14
     DEF TaskStep

\* A task that is interrupted or killed loses what it read.
LEMMA LossTyped == \A t \in Tasks : DocInv /\ (Interrupt(t) \/ Kill(t)) => DocInv'
<1> SUFFICES ASSUME NEW t \in Tasks, DocInv, Interrupt(t) \/ Kill(t) PROVE DocInv'
  OBVIOUS
<1>1. Aside' /\ kind' = kind
  BY AsideKept DEF Interrupt, Kill
<1>2. pc[t] # "absent"
  BY DEF Interrupt, Kill, Finalizing
<1>3. \E next \in {"check", "final", "return", "REVOKED", "FAILURE"} : Lose(t, next)
  BY DEF Interrupt, Kill
<1> QED
  BY <1>1, <1>2, <1>3, TaskMove DEF Phases, Updating, TaskPhases, Ended, Holding

\* Whatever anybody does to the document, DocInv holds of it.
LEMMA DocStep == DocInv /\ [Next]_vars => DocInv'
<1> SUFFICES ASSUME DocInv, [Next]_vars PROVE DocInv'
  OBVIOUS
<1> USE DEF Phases, Updating, TaskPhases, Ended, OtherPhases, Holding
<1>1. ASSUME NEW a \in Actors, Read(a) PROVE DocInv'
  <2>1. Aside' /\ kind' = kind
    BY <1>1, AsideKept DEF Read
  <2>2. copy' \in [Actors -> Sound \cup {NoDoc}]
    BY <1>1 DEF Read, DocInv
  <2>3. UNCHANGED <<meta, pc, plan>>
    BY <1>1 DEF Read
  <2>4. Sound' = Sound
    BY <2>3 DEF Sound, Waiting
  <2> QED
    BY <2>1, <2>2, <2>3, <2>4 DEF DocInv, Publishing, Waiting, Reprocess
<1>2. ASSUME NEW a \in Callbacks, Skip(a) PROVE DocInv'
  <2>1. copy[a] \in Sound
    BY <1>2, Copies DEF Skip, Write
  <2>2. Free(a, "over")
    BY <1>2, Movers DEF Skip
  <2> QED
    BY <1>2, <2>1, <2>2, AsideKept, WriteKeeps DEF Skip
<1>3. ASSUME NEW a \in Callbacks \cup {Launcher}, Crash(a) PROVE DocInv'
  <2>1. Aside' /\ kind' = kind
    BY <1>3 DEF Crash, DocInv, Aside
  <2>2. Free(a, "over")
    BY <1>3, Movers DEF Crash
  <2> QED
    BY <1>3, <2>1, <2>2, LoseKeeps DEF Crash
<1>4. CASE LowerFlag \/ UNCHANGED vars
  <2>1. Aside' /\ kind' = kind
    BY <1>4 DEF LowerFlag, vars, DocInv, Aside
  <2>2. UNCHANGED <<meta, pc, plan, copy>>
    BY <1>4 DEF LowerFlag, vars
  <2>3. Sound' = Sound
    BY <2>2 DEF Sound, Waiting
  <2> QED
    BY <2>1, <2>2, <2>3 DEF DocInv, Publishing, Waiting, Reprocess
<1> QED
  BY <1>1, <1>2, <1>3, <1>4, LaunchTyped, JumpTyped, VpnTyped, OperatorTyped, TaskTyped,
     LossTyped DEF Next

LEMMA DocInit == Init => DocInv
<1> SUFFICES ASSUME Init PROVE DocInv
  OBVIOUS
<1>1. Aside
  BY DEF Init, Aside
<1>2. EmptyDoc \in Sound
  BY Count3 DEF EmptyDoc, Sound, Docs
<1>3. \A a \in Others : a \notin Tasks
  BY BulkAssumption
<1>4. /\ pc \in [Actors -> Phases] /\ pc[JumpCallback] = "idle" /\ pc[VpnCallback] = "idle"
      /\ \A t \in Tasks : pc[t] = "absent"
      /\ \A a \in Actors : pc[a] \in {"absent", "idle", "prepare", "dispatch"}
  BY <1>3, Distinct DEF Init, Phases, Updating, TaskPhases, OtherPhases
<1>5. /\ meta \in Sound /\ copy \in [Actors -> Sound \cup {NoDoc}]
      /\ plan \in [Actors -> Sound \cup {NoDoc}]
  BY <1>2 DEF Init
<1> QED
  BY <1>1, <1>4, <1>5 DEF DocInv, Holding, Publishing

\* However stale the copies that heartbeats, callbacks, the page and the cancellation
\* write back, a batch never counts more tasks than it has, done or in all
\* (update_task_meta, enqueue_jump_and_vpn_after_direct_phase_task).
THEOREM DocumentTypes == Spec => []TypeOK
<1>1. DocInv => TypeOK
  BY DEF DocInv, Aside, Sound, TypeOK, Phases
<1> QED
  BY <1>1, DocInit, DocStep, PTL DEF Spec

-------------------------------------------------------------------------------
(* The order of the phases.  A callback starts when all tasks before its own  *)
(* have succeeded, and what has succeeded stays so, whatever happens to the   *)
(* document.                                                                  *)

Past(p) == p \notin Active \cup {"absent", "queued"}
AddsJump == {"merge", "extend", "dispatch"}
AddsVpn == {"send", "register", "merge", "extend"}

Order ==
    /\ pc[Launcher] \in {"prepare", "dispatch"} => \A t \in Direct : pc[t] = "absent"
    /\ pc[JumpCallback] \in AddsJump => Succeeded(Direct)
    /\ pc[VpnCallback] \in AddsVpn => Succeeded(Direct \cup Jump)
    /\ \A t \in Jump : pc[t] # "absent" => Succeeded(Direct)
    /\ \A t \in Vpn : pc[t] # "absent" => Succeeded(Direct \cup Jump)
    /\ \A t \in docDone : Over(t)

\* Tasks that finalize the batch, or have.
Closing == {"finish", "reread", "claim", "choose", "note"}

\* From where to where one step takes a task.
Moves(from, to) ==
    \/ from = "queued" /\ to \in {"beat", "REVOKED"}
    \/ from \in Active /\ (to \in Active \/ Past(to))
    \/ Past(from) /\ from \notin Ended /\ Past(to)

TaskMoves(t) ==
    \E next \in Phases :
        /\ pc' = [pc EXCEPT ![t] = next]
        /\ Moves(pc[t], next)
        /\ docDone' = docDone \/ (docDone' = docDone \cup {t} /\ Past(next))
        /\ next \in Closing =>
              pc[t] \in Closing \/ (pc[t] = "snapshot" /\ Ready(plan[t]))
        /\ \/ followups' = followups
           \/ pc[t] \in Closing /\ next \in Closing /\ followups' = followups + 1

\* A step of an actor that is not a task, but for those that send tasks.
OtherMoves(a) ==
    \E next \in Phases :
        /\ pc' = [pc EXCEPT ![a] = next]
        /\ docDone' \subseteq docDone /\ followups' = followups
        /\ a = Launcher /\ next \in {"prepare", "dispatch"} => pc[a] = "prepare"
        /\ a = JumpCallback /\ next \in AddsJump => pc[a] \in AddsJump \/ Succeeded(Direct)
        /\ a = VpnCallback /\ next \in AddsVpn =>
              pc[a] \in AddsVpn \/ Succeeded(Direct \cup Jump)
        /\ a = Page => Watched \/ pc[Page] # "idle"

LEMMA TaskMoved ==
    ASSUME DocInv, NEW t \in Tasks, TaskStep(t) \/ Interrupt(t) \/ Kill(t)
    PROVE  TaskMoves(t)
<1> USE DEF Phases, Updating, TaskPhases, Ended, OtherPhases, Moves, Past, Active, aside,
            Closing
<1>1. CASE Start(t)
  <2>1. \E next \in {"REVOKED", "beat"} : Go(t, next) /\ pc[t] = "queued" /\ UNCHANGED aside
    BY <1>1 DEF Start
  <2> QED
    BY <2>1 DEF Go, TaskMoves
<1>2. CASE Beat(t)
  BY <1>2 DEF Beat, Write, TaskMoves
<1>3. CASE Check(t)
  BY <1>3 DEF Check, Complete, Go, TaskMoves
<1>4. CASE Pulse(t) \/ EndBody(t)
  BY <1>4 DEF Pulse, EndBody, Complete, Go, TaskMoves
<1>5. CASE LookAtBatch(t)
  BY <1>5 DEF LookAtBatch, Go, TaskMoves
<1>6. CASE Snapshot(t)
  BY <1>6 DEF Snapshot, Forget, Go, TaskMoves
<1>7. CASE FinishBatch(t) \/ Note(t)
  BY <1>7 DEF FinishBatch, Note, Write, TaskMoves
<1>8. CASE Reread(t) \/ Return(t)
  BY <1>8 DEF Reread, Return, Go, TaskMoves
<1>9. CASE Claim(t) \/ Choose(t)
  BY <1>9 DEF Claim, Choose, Go, TaskMoves
<1>10. CASE Interrupt(t)
  BY <1>10 DEF Interrupt, Finalizing, Lose, TaskMoves
<1>11. CASE Kill(t)
  <2>1. PICK next \in {"REVOKED", "FAILURE"} : pc' = [pc EXCEPT ![t] = next]
    BY <1>11 DEF Kill, Lose
  <2>2. Moves(pc[t], next) /\ docDone' = docDone /\ followups' = followups
    BY <1>11, <2>1 DEF Kill
  <2> QED
    BY <2>1, <2>2 DEF TaskMoves
<1> QED
  BY <1>1, <1>2, <1>3, <1>4, <1>5, <1>6, <1>7, <1>8, <1>9, <1>10, <1>11 DEF TaskStep

LEMMA OtherMoved ==
    ASSUME DocInv,
           \/ Prepare \/ MergeChildren \/ Publish \/ StartJumpPhase \/ ExtendJump
           \/ MergePhase(JumpCallback, Jump, Vpn) \/ StartVpnPhase \/ RegisterVpn
           \/ MergePhase(VpnCallback, Vpn, {}) \/ ExtendVpn \/ Operator
           \/ (\E a \in Callbacks : Skip(a)) \/ \E a \in Callbacks \cup {Launcher} : Crash(a)
    PROVE  \E a \in Others : OtherMoves(a)
<1> USE DEF Phases, Updating, TaskPhases, Ended, OtherPhases, AddsJump, AddsVpn, aside
<1>1. CASE Prepare \/ MergeChildren \/ Publish
  <2>1. /\ docDone' = docDone /\ followups' = followups
        /\ \E next \in {"dispatch", "publish", "over"} :
              /\ pc' = [pc EXCEPT ![Launcher] = next]
              /\ next = "dispatch" => pc[Launcher] = "prepare"
    BY <1>1 DEF Prepare, MergeChildren, Publish, Write
  <2>2. OtherMoves(Launcher)
    BY <2>1, Distinct DEF OtherMoves
  <2> QED
    BY <2>2
<1>2. CASE StartJumpPhase \/ ExtendJump \/ MergePhase(JumpCallback, Jump, Vpn)
  <2>1. /\ docDone' = docDone /\ followups' = followups
        /\ \E next \in {"skip", "merge", "extend", "dispatch"} :
              /\ pc' = [pc EXCEPT ![JumpCallback] = next]
              /\ pc[JumpCallback] \in AddsJump \/ Succeeded(Direct)
    BY <1>2 DEF StartJumpPhase, ExtendJump, MergePhase, Write, Go
  <2>2. OtherMoves(JumpCallback)
    BY <2>1, Distinct DEF OtherMoves
  <2> QED
    BY <2>2
<1>3. CASE StartVpnPhase \/ RegisterVpn \/ MergePhase(VpnCallback, Vpn, {}) \/ ExtendVpn
  <2>1. /\ docDone' \subseteq docDone /\ followups' = followups
        /\ \E next \in {"skip", "send", "merge", "extend", "over"} :
              /\ pc' = [pc EXCEPT ![VpnCallback] = next]
              /\ pc[VpnCallback] \in AddsVpn \/ Succeeded(Direct \cup Jump)
    BY <1>3 DEF StartVpnPhase, RegisterVpn, ExtendVpn, MergePhase, Write, Go
  <2>2. OtherMoves(VpnCallback)
    BY <2>1, Distinct DEF OtherMoves
  <2> QED
    BY <2>2
<1>4. CASE Operator
  <2>1. CASE Poll \/ Count \/ Refresh
    <3>1. /\ docDone' = docDone /\ followups' = followups /\ (Watched \/ pc[Page] # "idle")
          /\ \E next \in {"count", "refresh", "idle"} : pc' = [pc EXCEPT ![Page] = next]
      BY <2>1 DEF Poll, Count, Refresh, Write
    <3>2. OtherMoves(Page)
      BY <3>1, Distinct DEF OtherMoves
    <3> QED
      BY <3>2
  <2>2. CASE Cancel \/ RaiseFlag \/ MarkCancelled
    <3>1. /\ docDone' = docDone /\ followups' = followups
          /\ \E next \in {"flag", "mark", "over"} : pc' = [pc EXCEPT ![Canceller] = next]
      BY <2>2 DEF Cancel, RaiseFlag, MarkCancelled, Write, Go
    <3>2. OtherMoves(Canceller)
      BY <3>1, Distinct DEF OtherMoves
    <3> QED
      BY <3>2
  <2> QED
    BY <1>4, <2>1, <2>2 DEF Operator
<1>5. CASE (\E a \in Callbacks : Skip(a)) \/ \E a \in Callbacks \cup {Launcher} : Crash(a)
  <2>1. docDone' = docDone /\ followups' = followups
    BY <1>5 DEF Skip, Crash
  <2>2. PICK a \in Callbacks \cup {Launcher} : pc' = [pc EXCEPT ![a] = "over"]
    BY <1>5 DEF Skip, Crash, Write, Lose
  <2>3. OtherMoves(a)
    BY <2>1, <2>2, Distinct DEF OtherMoves
  <2> QED
    BY <2>3
<1> QED
  BY <1>1, <1>2, <1>3, <1>4, <1>5

\* The steps that send tasks.
Sends == Dispatch \/ DispatchJump \/ \E t \in Vpn : SendVpn(t)

LEMMA AnyStep ==
    ASSUME DocInv, [Next]_vars
    PROVE  \/ \E t \in Tasks : TaskMoves(t)
           \/ \E a \in Others : OtherMoves(a)
           \/ Sends
           \/ UNCHANGED <<pc, docDone, followups>>
<1>1. CASE \E t \in Tasks : TaskStep(t) \/ Interrupt(t) \/ Kill(t)
  BY <1>1, TaskMoved
<1>2. CASE Launch
  BY <1>2, OtherMoved DEF Launch, Sends
<1>3. CASE JumpPhase
  BY <1>3, OtherMoved DEF JumpPhase, Sends
<1>4. CASE VpnPhase
  BY <1>4, OtherMoved DEF VpnPhase, Sends
<1>5. CASE \/ Operator \/ (\E a \in Callbacks : Skip(a))
           \/ \E a \in Callbacks \cup {Launcher} : Crash(a)
  BY <1>5, OtherMoved
<1>6. CASE (\E a \in Actors : Read(a)) \/ LowerFlag \/ UNCHANGED vars
  BY <1>6 DEF Read, LowerFlag, vars, aside
<1> QED
  BY <1>1, <1>2, <1>3, <1>4, <1>5, <1>6 DEF Next

\* Where a step that sends tasks takes them, and the actors that sent them.
LEMMA SentTasks ==
    ASSUME DocInv, Order, Sends
    PROVE  /\ \A t \in Tasks : pc'[t] = pc[t] \/ (pc[t] = "absent" /\ pc'[t] = "queued")
           /\ docDone' = docDone /\ followups' = followups
           /\ \A t \in Jump : pc'[t] = pc[t] \/ Succeeded(Direct)
           /\ \A t \in Vpn : pc'[t] = pc[t] \/ Succeeded(Direct \cup Jump)
           /\ pc'[Launcher] \in {"prepare", "dispatch"} =>
                 pc'[Launcher] = pc[Launcher] /\ \A t \in Direct : pc'[t] = pc[t]
           /\ pc'[JumpCallback] \in AddsJump => pc'[JumpCallback] = pc[JumpCallback]
           /\ pc'[VpnCallback] \in AddsVpn => pc[VpnCallback] \in AddsVpn
           /\ pc'[Page] = pc[Page]
<1>1. \A t \in Tasks : t \notin Others
  BY BulkAssumption
<1>2. CASE Dispatch
  <2>1. /\ pc[Launcher] = "dispatch" /\ docDone' = docDone /\ followups' = followups
        /\ \A a \in Actors : pc'[a] = IF a \in Direct THEN "queued"
              ELSE IF a = Launcher THEN IF Reprocess THEN "publish" ELSE "merge" ELSE pc[a]
    BY <1>2 DEF Dispatch, aside
  <2>2. \A t \in Direct : pc[t] = "absent"
    BY <2>1 DEF Order
  <2> QED
    BY <1>1, <2>1, <2>2, BulkAssumption, Distinct
<1>3. CASE DispatchJump
  <2>1. /\ pc[JumpCallback] = "dispatch" /\ docDone' = docDone /\ followups' = followups
        /\ \A a \in Actors : pc'[a] = IF a \in Jump THEN "queued"
              ELSE IF a = JumpCallback THEN "over" ELSE pc[a]
    BY <1>3 DEF DispatchJump, aside
  <2>2. Succeeded(Direct) /\ \A t \in Jump : pc[t] = "absent"
    BY <2>1 DEF Order, AddsJump, DocInv, Waiting
  <2> QED
    BY <1>1, <2>1, <2>2, BulkAssumption, Distinct DEF AddsJump
<1>4. ASSUME NEW u \in Vpn, SendVpn(u)
      PROVE  /\ pc[VpnCallback] = "send" /\ docDone' = docDone /\ followups' = followups
             /\ pc[u] = "absent"
             /\ pc'[u] = "queued" /\ \A a \in Actors \ {u, VpnCallback} : pc'[a] = pc[a]
  BY <1>1, <1>4 DEF SendVpn, DocInv
<1>5. CASE \E u \in Vpn : SendVpn(u)
  <2>1. Succeeded(Direct \cup Jump)
    BY <1>4, <1>5 DEF Order, AddsVpn
  <2> QED
    BY <1>1, <1>4, <1>5, <2>1, BulkAssumption, Distinct DEF AddsVpn
<1> QED
  BY <1>2, <1>3, <1>5 DEF Sends

\* What has been sent stays so, what is over stays over, and a success a success.
LEMMA Steady ==
    ASSUME DocInv, Order, [Next]_vars
    PROVE  \A t \in Tasks : /\ pc[t] = "SUCCESS" => pc'[t] = "SUCCESS"
                            /\ Over(t) => Over(t)'
                            /\ pc'[t] = "absent" => pc[t] = "absent"
<1> USE DEF Over
<1>1. \A t \in Tasks : t \notin Others
  BY BulkAssumption
<1>2. ASSUME NEW u \in Tasks, TaskMoves(u)
      PROVE  \A t \in Tasks : /\ pc[t] = "SUCCESS" => pc'[t] = "SUCCESS"
                              /\ Over(t) => Over(t)'
                              /\ pc'[t] = "absent" => pc[t] = "absent"
  BY <1>2 DEF TaskMoves, Moves, Past, Ended, DocInv, Active
<1>3. ASSUME NEW a \in Others, OtherMoves(a)
      PROVE  \A t \in Tasks : pc'[t] = pc[t]
  BY <1>1, <1>3 DEF OtherMoves, DocInv
<1>4. CASE Sends
  BY <1>4, SentTasks
<1>5. CASE UNCHANGED <<pc, docDone, followups>>
  BY <1>5
<1> QED
  BY <1>2, <1>3, <1>4, <1>5, AnyStep

LEMMA OrderStep ==
    ASSUME DocInv, Order, [Next]_vars
    PROVE  Order'
<1>1. \A t \in Tasks : t \notin Others
  BY BulkAssumption
<1>2. /\ Succeeded(Direct) => Succeeded(Direct)'
      /\ Succeeded(Direct \cup Jump) => Succeeded(Direct \cup Jump)'
  BY Steady DEF Succeeded
<1>3. \A t \in docDone : Over(t)' /\ t \in Tasks
  BY Steady DEF Order, DocInv, Aside
<1>4. ASSUME NEW u \in Tasks, TaskMoves(u) PROVE Order'
  <2>1. /\ \A a \in Others : pc'[a] = pc[a]
        /\ \A t \in Tasks : pc'[t] = pc[t] \/ pc[t] # "absent"
    BY <1>1, <1>4 DEF TaskMoves, Moves, Past, Active, DocInv
  <2>2. \A t \in docDone' : Over(t)'
    BY <1>3, <1>4 DEF TaskMoves, DocInv, Over, Past
  <2> QED
    BY <1>2, <2>1, <2>2 DEF Order
<1>5. ASSUME NEW a \in Others, OtherMoves(a) PROVE Order'
  <2>1. /\ \A t \in Tasks : pc'[t] = pc[t]
        /\ docDone' \subseteq docDone
        /\ pc'[Launcher] \in {"prepare", "dispatch"} => pc[Launcher] \in {"prepare", "dispatch"}
        /\ pc'[JumpCallback] \in AddsJump => pc[JumpCallback] \in AddsJump \/ Succeeded(Direct)
        /\ pc'[VpnCallback] \in AddsVpn =>
              pc[VpnCallback] \in AddsVpn \/ Succeeded(Direct \cup Jump)
    BY <1>1, <1>5, Distinct DEF OtherMoves, DocInv
  <2> QED
    BY <1>2, <1>3, <2>1 DEF Order
<1>6. CASE Sends
  <2>1. \A t \in docDone' : Over(t)'
    BY <1>3, <1>6, SentTasks
  <2> QED
    BY <1>2, <1>6, <2>1, SentTasks DEF Order
<1>7. CASE UNCHANGED <<pc, docDone, followups>>
  BY <1>7 DEF Order, Over, Succeeded
<1> QED
  BY <1>4, <1>5, <1>6, <1>7, AnyStep

LEMMA OrderInit == Init => Order
<1> SUFFICES ASSUME Init PROVE Order
  OBVIOUS
<1>1. \A a \in Others : a \notin Tasks
  BY BulkAssumption
<1>2. /\ \A t \in Tasks : pc[t] = "absent"
      /\ pc[JumpCallback] = "idle" /\ pc[VpnCallback] = "idle" /\ docDone = {}
  BY <1>1, Distinct DEF Init
<1> QED
  BY <1>2 DEF Order, AddsJump, AddsVpn

\* The tasks before a task that was sent are over.
LEMMA Ordered ==
    ASSUME DocInv, Order
    PROVE  \A t \in Tasks : pc[t] # "absent" => \A u \in Batch!Before(t) : Over(u)
<1>1. \A P : Succeeded(P) => \A u \in P : Over(u)
  BY DEF Succeeded, Over, Active
<1> QED
  BY <1>1 DEF Order, Batch!Before

\* Whatever the document says, and whoever is killed, revoked or called off: the tasks
\* of a phase start when those of the phases before it are over (the chords of
\* run_backup_all and enqueue_jump_and_vpn_after_direct_phase_task).
THEOREM PhasesOrdered == Spec => PhasesInOrder
<1>1. DocInv /\ Order /\ [Next]_vars =>
         [\A t \in Tasks : pc[t] = "queued" /\ pc'[t] = "beat" =>
             \A u \in Batch!Before(t) : Over(u)]_vars
  BY Ordered
<1> QED
  BY <1>1, DocInit, DocStep, OrderInit, OrderStep, PTL DEF Spec, PhasesInOrder

-------------------------------------------------------------------------------
(* What a document must know.  No copy of it, however stale, holds as many    *)
(* tasks as its total unless the tasks it misses have succeeded: a task that  *)
(* finds all of a document's tasks ended has found the batch over.  Nobody    *)
(* may watch the status page, which writes an old total back over new tasks.  *)

Done(p) == \A t \in Tasks : Past(p[t])
Won(p, P) == \A t \in P : p[t] = "SUCCESS"

Full(p, doc) ==
    Cardinality(doc.children) >= doc.total =>
        Vpn \subseteq doc.children /\ (Jump \subseteq doc.children \/ Won(p, Jump))

Suits(p, doc) ==
    \/ doc = NoDoc
    \/ Done(p)
    \/ doc.children = {} /\ doc.total = 0
    \/ (Direct \subseteq doc.children \/ Won(p, Direct)) /\ Full(p, doc)

Fits == Suits(pc, meta) /\ \A a \in Actors : Suits(pc, copy[a]) /\ Suits(pc, plan[a])

Settled ==
    /\ \A t \in Tasks : pc[t] \in Closing => Done(pc)
    /\ followups > 0 => Done(pc)

Finality == Fits /\ Settled /\ pc[Page] = "idle"

\* What holds of a document goes on to hold.
LEMMA Lasting ==
    ASSUME DocInv, Order, [Next]_vars
    PROVE  /\ Done(pc) => Done(pc')
           /\ \A doc : Suits(pc, doc) => Suits(pc', doc)
<1>1. Done(pc) => Done(pc')
  BY Steady DEF Done, Over, Past
<1>2. Won(pc, Direct) => Won(pc', Direct)
  BY Steady DEF Won
<1>3. Won(pc, Jump) => Won(pc', Jump)
  BY Steady DEF Won
<1> QED
  BY <1>1, <1>2, <1>3 DEF Suits, Full

\* A document found ready is found so when the batch is over
\* (_build_bulk_terminal_snapshot).
LEMMA ReadyWhenDone ==
    ASSUME DocInv, Order, NEW doc \in Docs, Suits(pc, doc), Ready(doc)
    PROVE  Done(pc)
<1>1. doc # NoDoc
  BY NoDocAssumption
<1>2. ~(doc.children = {} /\ doc.total = 0)
  BY FS_EmptySet DEF Ready
<1>3. \A t \in doc.children : t \in Tasks /\ Past(pc[t])
  BY DEF Docs, Ready, Terminal, Order, Over, Past, Ended, Active
<1>4. \A P : Won(pc, P) => \A t \in P : Past(pc[t])
  BY DEF Won, Past, Active
<1> QED
  BY <1>1, <1>2, <1>3, <1>4 DEF Suits, Full, Ready, Done

\* A document with the tasks and the total of another.
LEMMA SameSuits ==
    ASSUME NEW p, NEW doc, NEW new, Suits(p, doc), doc # NoDoc,
           new.children = doc.children, new.total = doc.total
    PROVE  Suits(p, new)
  BY DEF Suits, Full

\* As many tasks as the batch has are all of them.
LEMMA AllKnown ==
    ASSUME NEW S \in SUBSET Tasks, Cardinality(S) >= Cardinality(Tasks)
    PROVE  S = Tasks
<1>1. IsFiniteSet(Tasks) /\ IsFiniteSet(S)
  BY BulkAssumption, FS_Subset
<1>2. Cardinality(S) \in Nat /\ Cardinality(Tasks) \in Nat
  BY <1>1, FS_CardinalityType
<1> QED
  BY <1>1, <1>2, FS_Subset

\* Every step leaves documents that suit the state it starts from.
New == Suits(pc, meta') /\ \A a \in Actors : Suits(pc, copy'[a]) /\ Suits(pc, plan'[a])

LEMMA WriteFits ==
    ASSUME DocInv, Fits, NEW a \in Actors, NEW doc, Suits(pc, doc),
           NEW next, Write(a, doc, next)
    PROVE  New
<1>1. Suits(pc, NoDoc)
  BY DEF Suits
<1> QED
  BY <1>1 DEF Fits, New, Write, DocInv

LEMMA PlanFits ==
    ASSUME DocInv, Fits, NEW a \in Actors, NEW doc, Suits(pc, doc),
           plan' = [plan EXCEPT ![a] = doc], UNCHANGED <<meta, copy>>
    PROVE  New
BY DEF Fits, New, DocInv

LEMMA GoFits == Fits /\ UNCHANGED <<meta, plan, copy>> => New
BY DEF Fits, New

LEMMA LoseFits ==
    ASSUME DocInv, Fits, NEW a \in Actors, NEW next, Lose(a, next) \/ Forget(a, next)
    PROVE  New
<1>1. Suits(pc, NoDoc)
  BY DEF Suits
<1> QED
  BY <1>1 DEF Fits, New, Lose, Forget, DocInv

\* The copy an actor writes back, with other fields than its tasks and its total.
LEMMA CopySuits ==
    ASSUME DocInv, Fits, NEW a \in Actors, copy[a] # NoDoc
    PROVE  /\ Suits(pc, copy[a])
           /\ \A f : \A b \in BOOLEAN, x \in BOOLEAN :
                 Suits(pc, [copy[a] EXCEPT !.cancel = b, !.completed = x, !.forced = f])
<1>1. copy[a] \in Docs /\ Suits(pc, copy[a])
  BY DEF DocInv, Sound, Fits
<1>2. ASSUME NEW b \in BOOLEAN, NEW x \in BOOLEAN, NEW f
      PROVE  Suits(pc, [copy[a] EXCEPT !.cancel = b, !.completed = x, !.forced = f])
  <2> DEFINE new == [copy[a] EXCEPT !.cancel = b, !.completed = x, !.forced = f]
  <2>1. new.children = copy[a].children /\ new.total = copy[a].total
    BY <1>1 DEF Docs
  <2> QED
    BY <1>1, <2>1, SameSuits
<1> QED
  BY <1>1, <1>2

\* The launcher knows its own tasks and the number of all.
LEMMA LaunchFits ==
    ASSUME DocInv, Fits, Launch
    PROVE  New
<1>1. CASE Prepare
  <2> DEFINE doc == [EmptyDoc EXCEPT !.bulk = TRUE, !.cancel = copy[Launcher].cancel,
                                     !.forced = copy[Launcher].forced]
  <2>1. Suits(pc, doc)
    BY DEF Suits, EmptyDoc
  <2>2. Write(Launcher, doc, "dispatch")
    BY <1>1 DEF Prepare
  <2> HIDE DEF doc
  <2> QED
    BY <2>1, <2>2, WriteFits
<1>2. CASE Dispatch
  BY <1>2, GoFits DEF Dispatch
<1>3. CASE MergeChildren
  <2> DEFINE doc == [meta EXCEPT !.children = @ \cup Direct, !.total = Larger(@, Planned)]
  <2>1. meta \in Docs /\ Cardinality(Tasks) \in Nat
    BY Count3 DEF DocInv, Sound
  <2>2. /\ doc.children = meta.children \cup Direct /\ doc.children \in SUBSET Tasks
        /\ doc.total >= Cardinality(Tasks) /\ doc.total \in Nat
    BY <2>1 DEF Docs, Larger, Planned
  <2> HIDE DEF doc
  <2>3. Cardinality(doc.children) \in Nat
    BY <2>2, Count3
  <2>4. Cardinality(doc.children) >= doc.total => doc.children = Tasks
    BY <2>1, <2>2, <2>3, AllKnown
  <2>5. Suits(pc, doc)
    BY <2>2, <2>4 DEF Suits, Full
  <2>6. plan' = [plan EXCEPT ![Launcher] = doc] /\ UNCHANGED <<meta, copy>>
    BY <1>3 DEF MergeChildren, doc
  <2> QED
    BY <2>5, <2>6, PlanFits
<1>4. CASE Publish
  <2> DEFINE doc == [bulk |-> TRUE,
              children |-> IF Reprocess THEN Direct ELSE plan[Launcher].children,
              total |-> IF Reprocess THEN Planned ELSE plan[Launcher].total,
              done |-> 0,
              cancel |-> Reprocess /\ copy[Launcher].cancel,
              completed |-> FALSE,
              forced |-> copy[Launcher].forced]
  <2>1. Write(Launcher, doc, "over") /\ pc[Launcher] = "publish"
    BY <1>4 DEF Publish
  <2>2. CASE Reprocess
    <3>1. doc.children = Direct /\ doc.total = Cardinality(Tasks) /\ Direct \in SUBSET Tasks
      BY <2>2 DEF Planned
    <3>2. Cardinality(doc.children) >= doc.total => doc.children = Tasks
      BY <3>1, AllKnown
    <3> HIDE DEF doc
    <3>3. Suits(pc, doc)
      BY <3>1, <3>2 DEF Suits, Full
    <3> QED
      BY <2>1, <3>3, WriteFits
  <2>3. CASE ~Reprocess
    <3>1. plan[Launcher] \in Docs
      BY <2>1, <2>3 DEF DocInv, Publishing, Sound
    <3>2. Suits(pc, plan[Launcher]) /\ plan[Launcher] # NoDoc
      BY <3>1, NoDocAssumption DEF Fits
    <3>3. doc.children = plan[Launcher].children /\ doc.total = plan[Launcher].total
      BY <2>3
    <3> HIDE DEF doc
    <3>4. Suits(pc, doc)
      BY <3>2, <3>3, SameSuits
    <3> QED
      BY <2>1, <3>4, WriteFits
  <2> QED
    BY <2>2, <2>3
<1> QED
  BY <1>1, <1>2, <1>3, <1>4 DEF Launch

\* A callback writes the tasks and the total it worked out.
LEMMA ExtendFits ==
    ASSUME DocInv, Fits, NEW a \in Callbacks, pc[a] = "extend",
           NEW next, Write(a, Extended(a), next)
    PROVE  New
<1>1. copy[a] \in Docs /\ plan[a] \in Docs
  BY Copies DEF Write, Holding, Sound
<1>2. Suits(pc, plan[a]) /\ plan[a] # NoDoc
  BY <1>1, NoDocAssumption DEF Fits
<1> DEFINE doc == Extended(a)
<1>3. doc.children = plan[a].children /\ doc.total = plan[a].total
  BY <1>1 DEF Extended, Docs
<1> HIDE DEF doc
<1>4. Suits(pc, doc)
  BY <1>2, <1>3, SameSuits
<1> QED
  BY <1>4, WriteFits DEF doc

\* The callback of the direct phase: with tasks still to come, there are fewer known than
\* the total.
LEMMA JumpFits ==
    ASSUME DocInv, Order, Fits, JumpPhase
    PROVE  New
<1>1. CASE StartJumpPhase \/ DispatchJump
  BY <1>1, GoFits DEF StartJumpPhase, DispatchJump, Go
<1>2. CASE MergePhase(JumpCallback, Jump, Vpn)
  <2> DEFINE known == meta.children \cup Jump
             doc == [meta EXCEPT !.children = known,
                        !.total = Larger(@, Cardinality(known) + Cardinality(Vpn))]
  <2>1. Won(pc, Direct)
    BY <1>2 DEF MergePhase, Order, AddsJump, Succeeded, Won
  <2>2. meta \in Docs /\ Vpn \in SUBSET Tasks /\ known \in SUBSET Tasks
    BY DEF DocInv, Sound, Docs
  <2>3. Cardinality(known) \in Nat /\ Cardinality(Vpn) \in Nat
    BY <2>2, Count3
  <2>4. doc.children = known /\ Jump \subseteq known
    BY <2>2 DEF Docs
  <2>5. doc.total = Larger(meta.total, Cardinality(known) + Cardinality(Vpn))
        /\ meta.total \in Nat
    <3>1. meta.total \in Nat
      BY <2>2, Count3 DEF Docs
    <3> HIDE DEF known
    <3> QED
      BY <2>2, <3>1 DEF Docs
  <2>6. plan' = [plan EXCEPT ![JumpCallback] = doc] /\ UNCHANGED <<meta, copy>>
    BY <1>2 DEF MergePhase
  <2> HIDE DEF doc, known
  <2>7. Cardinality(known) >= doc.total => Cardinality(Vpn) = 0
    BY <2>3, <2>5 DEF Larger
  <2>8. Cardinality(Vpn) = 0 => Vpn = {}
    BY <2>2, BulkAssumption, FS_Subset, FS_EmptySet
  <2>9. Suits(pc, doc)
    BY <2>1, <2>4, <2>7, <2>8 DEF Suits, Full
  <2> QED
    BY <2>6, <2>9, PlanFits
<1>3. CASE ExtendJump
  BY <1>3, ExtendFits DEF ExtendJump
<1> QED
  BY <1>1, <1>2, <1>3 DEF JumpPhase

\* The callback of the VPN phase starts when all other tasks have succeeded.
LEMMA VpnFits ==
    ASSUME DocInv, Order, Fits, VpnPhase
    PROVE  New
<1>1. CASE StartVpnPhase \/ RegisterVpn \/ \E t \in Vpn : SendVpn(t)
  BY <1>1, GoFits DEF StartVpnPhase, RegisterVpn, SendVpn, Go
<1>2. CASE MergePhase(VpnCallback, Vpn, {})
  <2> DEFINE known == meta.children \cup Vpn
             doc == [meta EXCEPT !.children = known,
                        !.total = Larger(@, Cardinality(known) + Cardinality({}))]
  <2>1. Won(pc, Direct) /\ Won(pc, Jump)
    BY <1>2 DEF MergePhase, Order, AddsVpn, Succeeded, Won
  <2>2. doc.children = known /\ Vpn \subseteq known
    BY DEF DocInv, Sound, Docs
  <2>3. plan' = [plan EXCEPT ![VpnCallback] = doc] /\ UNCHANGED <<meta, copy>>
    BY <1>2 DEF MergePhase
  <2> HIDE DEF doc, known
  <2>4. Suits(pc, doc)
    BY <2>1, <2>2 DEF Suits, Full
  <2> QED
    BY <2>3, <2>4, PlanFits
<1>3. CASE ExtendVpn
  BY <1>3, ExtendFits DEF ExtendVpn
<1> QED
  BY <1>1, <1>2, <1>3 DEF VpnPhase

\* The cancellation marks the document; nobody watches the page.
LEMMA OperatorFits ==
    ASSUME DocInv, Fits, Operator, ~Watched, pc[Page] = "idle"
    PROVE  New
<1>1. CASE Cancel
  <2> DEFINE doc == [meta EXCEPT !.forced = {t \in meta.children : pc[t] \notin Ended}]
  <2>1. meta \in Docs
    BY DEF DocInv, Sound
  <2>2. doc.children = meta.children /\ doc.total = meta.total
    BY <2>1 DEF Docs
  <2>3. plan' = [plan EXCEPT ![Canceller] = doc] /\ UNCHANGED <<meta, copy>>
    BY <1>1 DEF Cancel
  <2> HIDE DEF doc
  <2>4. Suits(pc, doc)
    BY <2>1, <2>2, SameSuits, NoDocAssumption DEF Fits
  <2> QED
    BY <2>3, <2>4, PlanFits
<1>2. CASE RaiseFlag
  BY <1>2, GoFits DEF RaiseFlag, Go
<1>3. CASE MarkCancelled
  <2>1. copy[Canceller] # NoDoc
    BY <1>3 DEF MarkCancelled, Write
  <2>2. Suits(pc, [copy[Canceller] EXCEPT !.cancel = TRUE, !.completed = FALSE,
                                          !.forced = plan[Canceller].forced])
    BY <2>1, CopySuits
  <2> QED
    BY <1>3, <2>2, WriteFits DEF MarkCancelled
<1>4. CASE Poll \/ Count \/ Refresh
  BY <1>4 DEF Poll, Count, Refresh
<1> QED
  BY <1>1, <1>2, <1>3, <1>4 DEF Operator

\* A task writes its copy back, or finishes a batch that is over.
LEMMA TaskFits ==
    ASSUME DocInv, Fits, Settled, NEW t \in Tasks, TaskStep(t) \/ Interrupt(t) \/ Kill(t)
    PROVE  New
<1>1. CASE Start(t) \/ Pulse(t) \/ Return(t) \/ Reread(t) \/ Claim(t) \/ Choose(t)
  BY <1>1, GoFits DEF Start, Pulse, Return, Reread, Claim, Choose, Go
<1>2. CASE Check(t) \/ EndBody(t)
  BY <1>2, GoFits DEF Check, EndBody, Complete, Go
<1>3. CASE Beat(t) \/ Note(t)
  <2>1. copy[t] # NoDoc /\ \E next : Write(t, copy[t], next)
    BY <1>3 DEF Beat, Note, Write
  <2> QED
    BY <2>1, CopySuits, WriteFits
<1>4. CASE LookAtBatch(t)
  <2>1. CASE meta.bulk
    BY <1>4, <2>1, PlanFits DEF LookAtBatch, Fits
  <2>2. CASE ~meta.bulk
    BY <1>4, <2>2, GoFits DEF LookAtBatch, Go
  <2> QED
    BY <2>1, <2>2
<1>5. CASE Snapshot(t)
  <2>1. (\E next : Forget(t, next)) \/ UNCHANGED <<meta, plan, copy>>
    BY <1>5 DEF Snapshot, Go
  <2> QED
    BY <2>1, GoFits, LoseFits
<1>6. CASE FinishBatch(t)
  <2>1. Done(pc)
    BY <1>6 DEF FinishBatch, Settled, Closing
  <2>2. \A doc : Suits(pc, doc)
    BY <2>1 DEF Suits
  <2> QED
    BY <1>6, <2>2, WriteFits DEF FinishBatch
<1>7. CASE Interrupt(t) \/ Kill(t)
  BY <1>7, LoseFits DEF Interrupt, Kill
<1> QED
  BY <1>1, <1>2, <1>3, <1>4, <1>5, <1>6, <1>7 DEF TaskStep

\* Every step of the batch leaves documents that suit.
LEMMA FitsStep ==
    ASSUME DocInv, Order, Fits, Settled, ~Watched, pc[Page] = "idle", [Next]_vars
    PROVE  Fits'
<1>1. ASSUME NEW a \in Actors, Read(a) PROVE New
  <2>1. Suits(pc, meta)
    BY DEF Fits
  <2> QED
    BY <1>1, <2>1 DEF Read, New, Fits, DocInv
<1>2. ASSUME NEW a \in Callbacks, Skip(a) PROVE New
  <2>1. copy[a] # NoDoc /\ Write(a, copy[a], "over")
    BY <1>2 DEF Skip, Write
  <2> QED
    BY <2>1, CopySuits, WriteFits
<1>3. ASSUME NEW a \in Callbacks \cup {Launcher}, Crash(a) PROVE New
  BY <1>3, LoseFits DEF Crash
<1>4. ASSUME LowerFlag \/ UNCHANGED vars PROVE New
  BY <1>4, GoFits DEF LowerFlag, vars
<1>5. New
  BY <1>1, <1>2, <1>3, <1>4, LaunchFits, JumpFits, VpnFits, OperatorFits, TaskFits DEF Next
<1> QED
  BY <1>5, Lasting DEF Fits, New

\* A task begins to finalize when the batch is over, and the follow-up is scheduled then.
LEMMA SettledStep ==
    ASSUME DocInv, Order, Fits, Settled, [Next]_vars
    PROVE  Settled'
<1>1. \A t \in Tasks : t \notin Others
  BY BulkAssumption
<1>2. \A t \in Tasks : pc[t] = "snapshot" /\ Ready(plan[t]) => Done(pc)
  BY ReadyWhenDone DEF DocInv, Holding, Sound, Fits
<1>3. ASSUME NEW u \in Tasks, TaskMoves(u)
      PROVE  /\ \A t \in Tasks : pc'[t] \in Closing => Done(pc)
             /\ followups' # followups => Done(pc)
  BY <1>2, <1>3 DEF TaskMoves, Settled, DocInv
<1>4. ASSUME NEW a \in Others, OtherMoves(a)
      PROVE  /\ \A t \in Tasks : pc'[t] = pc[t]
             /\ followups' = followups
  BY <1>1, <1>4 DEF OtherMoves, DocInv
<1>5. CASE Sends
  BY <1>5, SentTasks, Lasting DEF Settled, Closing
<1>6. CASE UNCHANGED <<pc, docDone, followups>>
  BY <1>6 DEF Settled
<1> QED
  BY <1>3, <1>4, <1>5, <1>6, AnyStep, Lasting DEF Settled

LEMMA FinalityStep ==
    ASSUME DocInv, Order, Finality, ~Watched, [Next]_vars
    PROVE  Finality'
<1>1. \A t \in Tasks : t \notin Others
  BY BulkAssumption
<1>2. pc'[Page] = "idle"
  <2>1. ASSUME NEW t \in Tasks, TaskMoves(t) PROVE pc'[Page] = pc[Page]
    BY <1>1, <2>1 DEF TaskMoves, DocInv
  <2>2. ASSUME NEW a \in Others, OtherMoves(a) PROVE pc'[Page] = pc[Page]
    BY <2>2 DEF OtherMoves, DocInv, Finality
  <2> QED
    BY <2>1, <2>2, AnyStep, SentTasks DEF Finality
<1> QED
  BY <1>2, FitsStep, SettledStep DEF Finality

LEMMA FinalityInit == Init => Finality
<1> SUFFICES ASSUME Init PROVE Finality
  OBVIOUS
<1>1. \A a \in Others : a \notin Tasks
  BY BulkAssumption
<1>2. /\ pc[Page] = "idle" /\ followups = 0
      /\ \A t \in Tasks : pc[t] = "absent"
  BY <1>1, Distinct DEF Init
<1>3. Fits
  BY DEF Init, Fits, Suits, EmptyDoc
<1> QED
  BY <1>2, <1>3 DEF Finality, Settled, Closing

\* However stale the copies written back: when nobody watches the status page, the task
\* that finalizes the batch does so when all its tasks are over, those of phases not yet
\* sent included (_build_bulk_terminal_snapshot).
THEOREM FinalizedAtTheEnd == ~Watched => (Spec => FinalizedWhenOver)
<1> SUFFICES ASSUME ~Watched PROVE Spec => FinalizedWhenOver
  OBVIOUS
<1>1. DocInv /\ Order /\ Finality /\ [Next]_vars =>
         [\A t \in Tasks :
            pc[t] = "finish" /\ pc'[t] = "reread" => \A u \in Tasks : Over(u)]_vars
  BY DEF Finality, Settled, Closing, Done, Past, Over
<1>2. DocInv /\ Order /\ Finality /\ [Next]_vars => Finality'
  BY FinalityStep
<1> QED
  BY <1>1, <1>2, DocInit, DocStep, OrderInit, OrderStep, FinalityInit, PTL
     DEF Spec, FinalizedWhenOver

-------------------------------------------------------------------------------
(* The batch keeps what BulkBatch promises.                                  *)

batchVars == <<{t \in Tasks : pc[t] \in Active}, {t \in Tasks : Over(t)}, followups > 0>>

LEMMA BatchInit == Init => Batch!Init
<1> SUFFICES ASSUME Init PROVE Batch!Init
  OBVIOUS
<1>1. \A t \in Tasks : pc[t] = "absent"
  BY BulkAssumption DEF Init
<1> QED
  BY <1>1 DEF Init, Batch!Init, Over, Active

\* Every step is a start, an end or a follow-up of the batch, or none of its business.
LEMMA BatchStep ==
    ASSUME DocInv, Decision, Order, Finality, [Next]_vars
    PROVE  [Batch!Next]_batchVars
<1> DEFINE running == {t \in Tasks : pc[t] \in Active}
           over == {t \in Tasks : Over(t)}
<1>1. \A t \in Tasks : t \notin Others
  BY BulkAssumption
<1>2. ASSUME NEW t \in Tasks, TaskMoves(t), followups' = followups
      PROVE  Batch!Start(t) \/ Batch!End(t) \/ (running' = running /\ over' = over)
  <2>1. PICK next \in Phases : pc' = [pc EXCEPT ![t] = next] /\ Moves(pc[t], next)
    BY <1>2 DEF TaskMoves
  <2>2. /\ pc \in [Actors -> Phases] /\ pc'[t] = next
        /\ \A u \in Tasks \ {t} : pc'[u] = pc[u]
    BY <2>1 DEF DocInv
  <2>3. CASE pc[t] = "queued" /\ next = "beat"
    <3>1. t \notin running /\ t \notin over /\ Batch!Before(t) \subseteq over
      BY <2>3, Ordered DEF Over, Active, Batch!Before
    <3>2. running' = running \cup {t} /\ over' = over
      BY <2>2, <2>3 DEF Over, Active
    <3> QED
      BY <1>2, <3>1, <3>2 DEF Batch!Start
  <2>4. CASE ~Past(pc[t]) /\ Past(next) /\ pc[t] # "absent"
    <3>1. t \notin over /\ over' = over \cup {t} /\ running' = running \ {t}
      BY <2>2, <2>4 DEF Over, Past, Active
    <3> QED
      BY <1>2, <3>1 DEF Batch!End
  <2>5. CASE \/ pc[t] \in Active /\ next \in Active
             \/ Past(pc[t]) /\ Past(next)
    BY <2>2, <2>5 DEF Over, Past, Active
  <2> QED
    BY <2>1, <2>3, <2>4, <2>5 DEF Moves, Past, Active, Ended
<1>3. ASSUME NEW t \in Tasks, TaskMoves(t), followups' # followups
      PROVE  Batch!FollowUp
  <2>1. PICK next \in Phases : /\ pc' = [pc EXCEPT ![t] = next]
                               /\ pc[t] \in Closing /\ next \in Closing
                               /\ followups' = followups + 1
    BY <1>3 DEF TaskMoves
  <2>2. followups \in Nat /\ followups' \in Nat /\ followups <= 1 /\ followups' <= 1
    BY DecisionStep DEF Decision, FollowUpOnce
  <2>3. ~(followups > 0) /\ (followups > 0)'
    BY <2>1, <2>2
  <2>4. Done(pc)
    BY <2>1 DEF Finality, Settled
  <2>5. over = Tasks
    BY <2>4 DEF Done, Past, Over
  <2>6. running' = running /\ over' = over
    BY <2>1 DEF DocInv, Closing, Over, Active
  <2> QED
    BY <2>3, <2>5, <2>6 DEF Batch!FollowUp, Batch!Tasks
<1>4. ASSUME NEW a \in Others, OtherMoves(a)
      PROVE  running' = running /\ over' = over /\ followups' = followups
  <2>1. \A t \in Tasks : pc'[t] = pc[t]
    BY <1>1, <1>4 DEF OtherMoves, DocInv
  <2> QED
    BY <1>4, <2>1 DEF OtherMoves, Over
<1>5. ASSUME Sends
      PROVE  running' = running /\ over' = over /\ followups' = followups
  <2>1. /\ \A t \in Tasks : pc'[t] = pc[t] \/ (pc[t] = "absent" /\ pc'[t] = "queued")
        /\ followups' = followups
    BY <1>5, SentTasks
  <2> QED
    BY <2>1 DEF Over, Active
<1>6. ASSUME UNCHANGED <<pc, docDone, followups>>
      PROVE  running' = running /\ over' = over /\ followups' = followups
  BY <1>6 DEF Over
<1> QED
  BY <1>2, <1>3, <1>4, <1>5, <1>6, AnyStep DEF Batch!Next, Batch!Tasks, batchVars

\* The batch starts its tasks phase by phase, and schedules its follow-up at most once and
\* when all of them are over: run_backup_all, the callbacks and the finalization, whatever
\* races on the document, implement BulkBatch (when nobody watches the status page).
THEOREM BulkImplementsBatch == ~Watched => (Spec => ImplementsBatch)
<1> SUFFICES ASSUME ~Watched PROVE Spec => ImplementsBatch
  OBVIOUS
<1>1. DocInv /\ Decision /\ Order /\ Finality /\ [Next]_vars =>
         [Batch!Next]_batchVars
  BY BatchStep
<1>2. DocInv /\ Order /\ Finality /\ [Next]_vars => Finality'
  BY FinalityStep
<1> QED
  BY <1>1, <1>2, DocInit, DocStep, DecisionInit, DecisionStep, OrderInit, OrderStep,
     FinalityInit, BatchInit, PTL DEF Spec, ImplementsBatch, Batch!Spec, batchVars
===============================================================================
