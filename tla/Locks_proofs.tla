------------------------------ MODULE Locks_proofs -----------------------------
(* What holds of the tenant's lock for any number of batches, and of the types *)
(* of all the locks for any number of workers, groups and slots.              *)
EXTENDS Locks, VpnSession_proofs

USE DEF Tenant!Batches, Tenant!Reserving

\* A batch that moves to a phase stays in the phases.
LEMMA PhaseStep ==
    ASSUME Tenant!TypeOK, NEW b \in Tenant!Batches, NEW next \in Tenant!Phases, Tenant!Go(b,
        next)
    PROVE  phase' \in [Tenant!Batches -> Tenant!Phases]
BY DEF Tenant!TypeOK, Tenant!Go

\* Taking and freeing the key keeps its type.
LEMMA KeyStep ==
    ASSUME Tenant!TypeOK, NEW b \in Tenant!Batches, Tenant!Hold(b) \/ Tenant!Free
             \/ UNCHANGED Tenant!lock
    PROVE  key' \in Tenant!Batches \cup {NoBatch} /\ ttl' \in 0..Life
BY LockAssumption DEF Tenant!TypeOK, Tenant!Hold, Tenant!Free, Tenant!lock

\* The scheduler keeps its type.
LEMMA SchedulerStep ==
    ASSUME NEW next \in {"idle", "judge", "drop", "run"}, Tenant!At(next)
    PROVE  sched' \in [at : {"idle", "judge", "drop", "run"},
                       saw : Tenant!Batches \cup {NoBatch}]
BY DEF Tenant!At

\* The types survive every step.
LEMMA TenantTypesStep == Tenant!TypeOK /\ [Tenant!Next]_(Tenant!vars) => Tenant!TypeOK'
<1> SUFFICES ASSUME Tenant!TypeOK, [Tenant!Next]_(Tenant!vars) PROVE Tenant!TypeOK'
  OBVIOUS
<1>1. \A p \in {"new", "look", "judge", "drop", "set", "register", "publish",
                "hold", "running", "owner", "free", "over"} : p \in Tenant!Phases
  BY DEF Tenant!Phases
<1>2. \A d \in {"none", "queued", "active", "completed"} : d \in Tenant!Docs
  BY DEF Tenant!Docs
<1>3. ASSUME NEW b \in Tenant!Batches,
             Tenant!Request(b) \/ Tenant!Look(b) \/ Tenant!Judge(b) \/ Tenant!Drop(b)
             \/ Tenant!Set(b)
      PROVE  Tenant!TypeOK'
  <2> USE DEF Tenant!Request, Tenant!Look, Tenant!Judge, Tenant!Drop, Tenant!Set, Tenant!Refuse
  <2>1. phase' \in [Tenant!Batches -> Tenant!Phases]
    BY <1>1, <1>3, PhaseStep
  <2>2. key' \in Tenant!Batches \cup {NoBatch} /\ ttl' \in 0..Life
    BY <1>3, KeyStep
  <2>3. seen' \in [Tenant!Batches -> Tenant!Batches \cup {NoBatch}]
    BY <1>3 DEF Tenant!TypeOK
  <2> QED
    BY <2>1, <2>2, <2>3, <1>3 DEF Tenant!TypeOK, Tenant!heart
<1>4. ASSUME NEW b \in Tenant!Batches,
             Tenant!Register(b) \/ Tenant!Publish(b) \/ Tenant!Renew(b)
             \/ Tenant!Finish(b) \/ Tenant!AskOwner(b)
                 \/ Tenant!Release(b) \/ Tenant!FollowUpFails(b) \/ Tenant!Crash(b)
      PROVE  Tenant!TypeOK'
  <2> USE DEF Tenant!Register, Tenant!Publish, Tenant!Renew, Tenant!Finish, Tenant!AskOwner,
      Tenant!Release, Tenant!FollowUpFails,
              Tenant!Crash
  <2>1. phase' \in [Tenant!Batches -> Tenant!Phases]
    BY <1>1, <1>4, PhaseStep
  <2>2. key' \in Tenant!Batches \cup {NoBatch} /\ ttl' \in 0..Life
    BY <1>4, KeyStep
  <2>3. seen' \in [Tenant!Batches -> Tenant!Batches \cup {NoBatch}]
    BY <1>4 DEF Tenant!TypeOK
  <2>4. doc' \in [Tenant!Batches -> Tenant!Docs]
    BY <1>2, <1>4 DEF Tenant!TypeOK
  <2> QED
    BY <2>1, <2>2, <2>3, <2>4, <1>4 DEF Tenant!TypeOK, Tenant!heart
<1>5. ASSUME NEW b \in Tenant!Batches,
             Tenant!BeatRead(b) \/ Tenant!Reopen(b) \/ Tenant!BeatWrite(b)
             \/ Tenant!BeatRenew(b)
      PROVE  Tenant!TypeOK'
  <2> USE DEF Tenant!BeatRead, Tenant!Reopen, Tenant!BeatWrite, Tenant!BeatRenew
  <2>1. key' \in Tenant!Batches \cup {NoBatch} /\ ttl' \in 0..Life
    BY <1>5, KeyStep
  <2>2. doc' \in [Tenant!Batches -> Tenant!Docs] /\ copy' \in [Tenant!Batches -> Tenant!Docs]
    BY <1>2, <1>5 DEF Tenant!TypeOK
  <2>3. beat' \in [Tenant!Batches -> {"idle", "write", "hold"}]
    BY <1>5 DEF Tenant!TypeOK
  <2> QED
    BY <2>1, <2>2, <2>3, <1>5 DEF Tenant!TypeOK, Tenant!batch
<1>6. CASE Tenant!Schedule
  <2> USE DEF Tenant!Schedule, Tenant!Scan, Tenant!SchedulerJudge, Tenant!SchedulerDrop,
      Tenant!Dispatch
  <2>1. sched' \in [at : {"idle", "judge", "drop", "run"},
                    saw : Tenant!Batches \cup {NoBatch}]
    BY <1>6, SchedulerStep DEF Tenant!TypeOK
  <2>2. key' \in Tenant!Batches \cup {NoBatch} /\ ttl' \in 0..Life
    BY <1>6, LockAssumption DEF Tenant!TypeOK, Tenant!Free, Tenant!lock
  <2> QED
    BY <2>1, <2>2, <1>6 DEF Tenant!TypeOK, Tenant!batch, Tenant!heart
<1>7. CASE Tenant!Tick
  BY <1>7, LockAssumption DEF Tenant!TypeOK, Tenant!Tick, Tenant!batch, Tenant!heart
<1>8. CASE UNCHANGED Tenant!vars
  BY <1>8 DEF Tenant!TypeOK, Tenant!vars
<1> QED
  BY <1>3, <1>4, <1>5, <1>6, <1>7, <1>8 DEF Tenant!Next, Tenant!Launch, Tenant!Beat

\* Every variable of the lock stays within its type (acquire_tenant_bulk_lock).
THEOREM LockTypes == Tenant!Spec => []Tenant!TypeOK
<1>1. Tenant!Init => Tenant!TypeOK
  BY LockAssumption DEF Tenant!Init, Tenant!TypeOK, Tenant!Docs, Tenant!Phases
<1> QED
  BY <1>1, TenantTypesStep, PTL DEF Tenant!Spec

-------------------------------------------------------------------------------
\* With the lock off nobody writes the key, so that nobody ever waits: neither a
\* second backup nor the scheduler.
Unlocked ==
    /\ key = NoBatch
    /\ sched.at \in {"idle", "run"}
    /\ \A b \in Tenant!Batches : /\ phase[b] \in {"new", "register", "publish", "running", "over"}
                                 /\ beat[b] \in {"idle", "write"}

\* The setting of the lock's switch by default makes it and the pause of the
\* scheduler disappear (_tenant_bulk_single_lock_enabled).
THEOREM LockOff ==
    ASSUME ~Enabled
    PROVE  Tenant!Spec => []Unlocked
<1>1. Tenant!Init => Unlocked
  BY DEF Tenant!Init, Unlocked
<1>2. Tenant!TypeOK /\ Unlocked /\ [Tenant!Next]_(Tenant!vars) => Unlocked'
  <2> SUFFICES ASSUME Tenant!TypeOK, Unlocked, [Tenant!Next]_(Tenant!vars) PROVE Unlocked'
    OBVIOUS
  <2> USE DEF Tenant!TypeOK, Unlocked
  <2>1. ASSUME NEW b \in Tenant!Batches,
               Tenant!Request(b) \/ Tenant!Launch(b) \/ Tenant!FollowUpFails(b)
               \/ Tenant!Crash(b)
        PROVE  Unlocked'
    <3>1. \E next \in {"new", "register", "publish", "running", "over"} : Tenant!Go(b, next)
      BY <2>1
      DEF Tenant!Request, Tenant!Launch, Tenant!Look, Tenant!Judge, Tenant!Drop, Tenant!Set,
          Tenant!Register, Tenant!Publish, Tenant!Renew,
          Tenant!Finish, Tenant!AskOwner, Tenant!Release, Tenant!FollowUpFails, Tenant!Crash
    <3>2. UNCHANGED <<key, sched, beat>>
      BY <2>1
      DEF Tenant!Request, Tenant!Launch, Tenant!Look, Tenant!Judge, Tenant!Drop, Tenant!Set,
          Tenant!Register, Tenant!Publish, Tenant!Renew,
          Tenant!Finish, Tenant!AskOwner, Tenant!Release, Tenant!FollowUpFails, Tenant!Crash,
              Tenant!lock, Tenant!heart
    <3> QED
      BY <3>1, <3>2 DEF Tenant!Go
  <2>2. ASSUME NEW b \in Tenant!Batches, Tenant!BeatRead(b) \/ Tenant!Reopen(b)
           \/ Tenant!Beat(b)
        PROVE  Unlocked'
    BY <2>2 DEF Tenant!BeatRead, Tenant!Reopen, Tenant!Beat, Tenant!BeatWrite,
        Tenant!BeatRenew, Tenant!lock, Tenant!batch
  <2>3. CASE Tenant!Schedule
    BY <2>3
    DEF Tenant!Schedule, Tenant!Scan, Tenant!SchedulerJudge, Tenant!SchedulerDrop,
        Tenant!Dispatch, Tenant!At, Tenant!lock, Tenant!batch,
        Tenant!heart
  <2>4. CASE Tenant!Tick
    BY <2>4 DEF Tenant!Tick, Tenant!batch, Tenant!heart
  <2>5. CASE UNCHANGED Tenant!vars
    BY <2>5 DEF Tenant!vars
  <2> QED
    BY <2>1, <2>2, <2>3, <2>4, <2>5 DEF Tenant!Next
<1> QED
  BY <1>1, <1>2, LockTypes, PTL DEF Tenant!Spec

-------------------------------------------------------------------------------
(* All the locks.                                                          *)

SlotProofs == INSTANCE JumpHostSlots_proofs WITH Workers <- SlotWorkers, pc <- at, ttl <- life

LEMMA SlotsSpec == Slots!Init /\ [][Slots!Next]_slotVars => SlotProofs!Spec
<1>1. Slots!Init => SlotProofs!Init
  BY DEF Slots!Init, SlotProofs!Init, Slots!Slots, SlotProofs!Slots
<1>2. [Slots!Next]_slotVars => [SlotProofs!Next]_(SlotProofs!vars)
  BY DEF Slots!GiveUp, SlotProofs!GiveUp, Slots!Enter, SlotProofs!Enter, Slots!Check,
     SlotProofs!Check, Slots!SetKey, SlotProofs!SetKey, Slots!NextProbe,
     SlotProofs!NextProbe, Slots!Acquire, SlotProofs!Acquire, Slots!ProbeFails,
     SlotProofs!ProbeFails, Slots!Wake, SlotProofs!Wake, Slots!Finish, SlotProofs!Finish,
     Slots!Leave, SlotProofs!Leave, Slots!Release, SlotProofs!Release, Slots!Deadline,
     SlotProofs!Deadline, Slots!Interrupt, SlotProofs!Interrupt, Slots!Kill,
     SlotProofs!Kill, Slots!SetLimit, SlotProofs!SetLimit, Slots!SetStop,
     SlotProofs!SetStop, Slots!Older, SlotProofs!Older, Slots!Ageing, SlotProofs!Ageing,
     Slots!Expiry, SlotProofs!Expiry, Slots!Tick, SlotProofs!Tick, Slots!Step,
     SlotProofs!Step, Slots!Next, SlotProofs!Next, Slots!Slots, SlotProofs!Slots,
     Slots!Waiting, SlotProofs!Waiting, Slots!keys, SlotProofs!keys, slotVars, SlotProofs!vars
<1> QED
  BY <1>1, <1>2, PTL DEF SlotProofs!Spec

\* What is not studied in a behaviour stands still, so every part has the steps of its
\* own specification.
LEMMA LocksAlone ==
    LocksSafe =>
      /\ Init /\ [][Next]_vars
      /\ Tenant!Init /\ [][Tenant!Next]_(Tenant!vars)
      /\ Slots!Init /\ [][Slots!Next]_slotVars
<1>1. LocksInit => Init /\ Tenant!Init /\ Slots!Init
  BY DEF LocksInit
<1>2. [LocksNext]_all =>
        [Next]_vars /\ [Tenant!Next]_(Tenant!vars) /\ [Slots!Next]_slotVars
  <2>1. UNCHANGED lockVars => UNCHANGED Tenant!vars
    BY DEF lockVars, Tenant!vars
  <2> QED
    BY <2>1 DEF LocksNext, all, VpnPart, BackupPart, AuditPart, SlotPart
<1> QED
  BY <1>1, <1>2, PTL DEF LocksSafe

\* Every variable of the locks stays within its type, whichever of them is studied: a
\* key's time to live, the slot a worker believes it has, the attempts it has made.
THEOREM LocksTypes == LocksSpec => []LocksTyped
<1>1. Spec => []TypeOK
  BY SessionTypes
<1>2. SlotProofs!Spec => []SlotProofs!TypeOK
  BY SlotsAssumption, SlotProofs!TypeCorrect
<1>3. SlotProofs!TypeOK => Slots!TypeOK
  BY DEF SlotProofs!TypeOK, Slots!TypeOK, SlotProofs!Slots, Slots!Slots, SlotProofs!Phases,
     Slots!Phases, SlotProofs!Waiting, Slots!Waiting
<1>4. Tenant!Spec => []Tenant!TypeOK
  BY LockTypes
<1>5. LocksSafe => []LocksTyped
  BY <1>1, <1>2, <1>3, <1>4, LocksAlone, SlotsSpec, PTL DEF Spec, Tenant!Spec, LocksTyped
<1> QED
  BY <1>5, PTL DEF LocksSpec
===============================================================================
