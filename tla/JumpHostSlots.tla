---------------------------- MODULE JumpHostSlots -----------------------------
(***************************************************************************)
(* The connection slots of one shared jump host: the context manager       *)
(* _jump_host_lock_context of app/tasks/backups.py.  A slot is a Redis     *)
(* lock with a time to live; a backup probes slots 1..max_slots in turn,   *)
(* sleeps when all are taken, gives up after a deadline or when the        *)
(* operator stops the backups, and frees its slot when its body ends.      *)
(*                                                                         *)
(* Time is counted in ticks.  Workers in Timed run run_backup_task, which  *)
(* Celery kills at its hard limit; the others run a VPN group, where only  *)
(* a signal raised inside the device's code bounds the use of a slot, and  *)
(* that code may swallow it.                                               *)
(***************************************************************************)
EXTENDS Naturals, FiniteSets

CONSTANTS
    Workers,      \* worker processes that reach devices through the jump host
    Timed,        \* those that run run_backup_task under its hard time limit
    SlotCap,      \* no jump host has more slots than this (16 in the code)
    SlotTtl,      \* JUMP_HOST_LOCK_TIMEOUT_SECONDS
    WaitLimit,    \* seconds a backup waits for a slot
    SoftLimit,    \* BACKUP_TASK_SOFT_TIME_LIMIT_SECONDS
    RunLimit,     \* BACKUP_TASK_TIME_LIMIT_SECONDS
    DeviceLimit,  \* VPN_GROUP_DEVICE_MAX_SECONDS
    None          \* no worker

(* The deployed limits: a task is killed before its slot can expire.       *)
ASSUME SlotAssumption ==
    /\ Timed \subseteq Workers
    /\ None \notin Workers
    /\ SlotCap \in Nat \ {0}
    /\ SlotTtl \in Nat \ {0}
    /\ WaitLimit \in Nat
    /\ SoftLimit \in Nat
    /\ DeviceLimit \in Nat
    /\ RunLimit \in Nat \ {0}
    /\ RunLimit < SlotTtl

VARIABLES
    pc,        \* where each worker is in the context manager
    age,       \* ticks since its attempt started, up to RunLimit
    waited,    \* ticks since it started to wait, up to WaitLimit
    maxSlots,  \* the number of slots it read when it entered
    probe,     \* the slot it tries next
    slot,      \* acquired_slot, 0 when it has none
    owner,     \* the worker whose token is in each slot's Redis key
    ttl,       \* ticks before that key expires, 0 when there is none
    limit,     \* the number of slots the jump host has now
    stop       \* the operator asked the backups to stop

vars == <<pc, age, waited, maxSlots, probe, slot, owner, ttl, limit, stop>>
keys == <<owner, ttl>>

Slots == 1..SlotCap
Waiting == {"check", "probe", "sleep"}
Phases == {"idle", "running", "leave", "release"} \cup Waiting

TypeOK ==
    /\ pc \in [Workers -> Phases]
    /\ age \in [Workers -> 0..RunLimit]
    /\ waited \in [Workers -> 0..WaitLimit]
    /\ maxSlots \in [Workers -> Slots]
    /\ probe \in [Workers -> Slots]
    /\ slot \in [Workers -> 0..SlotCap]
    /\ owner \in [Slots -> Workers \cup {None}]
    /\ ttl \in [Slots -> 0..SlotTtl]
    /\ limit \in Slots
    /\ stop \in BOOLEAN

Init ==
    /\ pc = [w \in Workers |-> "idle"]
    /\ age = [w \in Workers |-> 0]
    /\ waited = [w \in Workers |-> 0]
    /\ maxSlots = [w \in Workers |-> 1]
    /\ probe = [w \in Workers |-> 1]
    /\ slot = [w \in Workers |-> 0]
    /\ owner = [s \in Slots |-> None]
    /\ ttl = [s \in Slots |-> 0]
    /\ limit \in Slots
    /\ stop = FALSE

-------------------------------------------------------------------------------
(* The attempt of a worker.                                                *)

\* The attempt is over; what it knew goes with it.
GiveUp(w) ==
    /\ pc' = [pc EXCEPT ![w] = "idle"]
    /\ age' = [age EXCEPT ![w] = 0]
    /\ waited' = [waited EXCEPT ![w] = 0]
    /\ maxSlots' = [maxSlots EXCEPT ![w] = 1]
    /\ probe' = [probe EXCEPT ![w] = 1]
    /\ slot' = [slot EXCEPT ![w] = 0]
    /\ UNCHANGED <<limit, stop>>

\* A worker takes a device behind the jump host.  The number of slots is read
\* once, before the first try; without Redis the attempt fails at once, it never
\* goes through the jump host unlocked.
Enter(w) ==
    /\ pc[w] = "idle"
    /\ pc' = [pc EXCEPT ![w] = "check"]
    /\ maxSlots' = [maxSlots EXCEPT ![w] = limit]
    /\ UNCHANGED <<age, waited, probe, slot, limit, stop>>
    /\ UNCHANGED keys

\* Variants of Check: without the deadline, without the stop request.
CheckForever(w) ==
    /\ pc[w] = "check"
    /\ IF stop
       THEN GiveUp(w)
       ELSE /\ pc' = [pc EXCEPT ![w] = "probe"]
            /\ probe' = [probe EXCEPT ![w] = 1]
            /\ UNCHANGED <<age, waited, maxSlots, slot, limit, stop>>
    /\ UNCHANGED keys

CheckDeaf(w) ==
    /\ pc[w] = "check"
    /\ IF waited[w] >= WaitLimit
       THEN GiveUp(w)
       ELSE /\ pc' = [pc EXCEPT ![w] = "probe"]
            /\ probe' = [probe EXCEPT ![w] = 1]
            /\ UNCHANGED <<age, waited, maxSlots, slot, limit, stop>>
    /\ UNCHANGED keys

\* The head of the loop: a stop request first, the deadline next.
Check(w) ==
    /\ pc[w] = "check"
    /\ IF stop \/ waited[w] >= WaitLimit
       THEN GiveUp(w)
       ELSE /\ pc' = [pc EXCEPT ![w] = "probe"]
            /\ probe' = [probe EXCEPT ![w] = 1]
            /\ UNCHANGED <<age, waited, maxSlots, slot, limit, stop>>
    /\ UNCHANGED keys

\* Variant of SetKey: SET without NX.
SetKeyAnyway(w, s) ==
    /\ owner' = [owner EXCEPT ![s] = w]
    /\ ttl' = [ttl EXCEPT ![s] = SlotTtl]

\* SET NX PX on the slot's key.
SetKey(w, s) ==
    /\ owner[s] = None
    /\ owner' = [owner EXCEPT ![s] = w]
    /\ ttl' = [ttl EXCEPT ![s] = SlotTtl]

\* Variant of NextProbe: one slot too many.
NextProbeBeyond(w) ==
    /\ IF probe[w] <= maxSlots[w]
       THEN /\ probe' = [probe EXCEPT ![w] = @ + 1]
            /\ UNCHANGED pc
       ELSE /\ pc' = [pc EXCEPT ![w] = "sleep"]
            /\ UNCHANGED probe
    /\ UNCHANGED <<age, waited, maxSlots, slot, limit, stop>>

\* Variant of NextProbe: the slots of the configuration, whatever the limit.
NextProbeAll(w) ==
    /\ IF probe[w] < SlotCap
       THEN /\ probe' = [probe EXCEPT ![w] = @ + 1]
            /\ UNCHANGED pc
       ELSE /\ pc' = [pc EXCEPT ![w] = "sleep"]
            /\ UNCHANGED probe
    /\ UNCHANGED <<age, waited, maxSlots, slot, limit, stop>>

NextProbe(w) ==
    /\ IF probe[w] < maxSlots[w]
       THEN /\ probe' = [probe EXCEPT ![w] = @ + 1]
            /\ UNCHANGED pc
       ELSE /\ pc' = [pc EXCEPT ![w] = "sleep"]
            /\ UNCHANGED probe
    /\ UNCHANGED <<age, waited, maxSlots, slot, limit, stop>>

Acquire(w) ==
    /\ pc[w] = "probe"
    /\ SetKey(w, probe[w])
    /\ pc' = [pc EXCEPT ![w] = "running"]
    /\ slot' = [slot EXCEPT ![w] = probe[w]]
    /\ UNCHANGED <<age, waited, maxSlots, probe, limit, stop>>

\* The slot is taken, or Redis fails before or after it stored the key: the
\* error is logged and the next slot is tried.
ProbeFails(w) ==
    /\ pc[w] = "probe"
    /\ NextProbe(w)
    /\ SetKey(w, probe[w]) \/ UNCHANGED keys

\* _sleep_with_stop_poll(1).
Wake(w) ==
    /\ pc[w] = "sleep"
    /\ IF stop
       THEN GiveUp(w)
       ELSE /\ pc' = [pc EXCEPT ![w] = "check"]
            /\ UNCHANGED <<age, waited, maxSlots, probe, slot, limit, stop>>
    /\ UNCHANGED keys

\* The body returns or raises.
Finish(w) ==
    /\ pc[w] = "running"
    /\ pc' = [pc EXCEPT ![w] = "leave"]
    /\ UNCHANGED <<age, waited, maxSlots, probe, slot, limit, stop>>
    /\ UNCHANGED keys

\* finally: acquired_lock.owned() ...
Leave(w) ==
    /\ pc[w] = "leave"
    /\ IF owner[slot[w]] = w
       THEN /\ pc' = [pc EXCEPT ![w] = "release"]
            /\ UNCHANGED <<age, waited, maxSlots, probe, slot, limit, stop>>
       ELSE GiveUp(w)
    /\ UNCHANGED keys

\* Variant of Release: the key is deleted without looking at its token.
ReleaseAny(w) ==
    /\ pc[w] = "release"
    /\ GiveUp(w)
    /\ owner' = [owner EXCEPT ![slot[w]] = None]
    /\ ttl' = [ttl EXCEPT ![slot[w]] = 0]

\* ... and acquired_lock.release(), which deletes the key only if it still
\* holds the token of this lock.
Release(w) ==
    /\ pc[w] = "release"
    /\ GiveUp(w)
    /\ IF owner[slot[w]] = w
       THEN /\ owner' = [owner EXCEPT ![slot[w]] = None]
            /\ ttl' = [ttl EXCEPT ![slot[w]] = 0]
       ELSE UNCHANGED keys

-------------------------------------------------------------------------------
(* What can happen to a worker.                                            *)

Deadline(w) == IF w \in Timed THEN SoftLimit ELSE DeviceLimit

\* SoftTimeLimitExceeded or DeviceExecutionDeadlineExceeded is raised outside
\* the body (inside it, that is Finish); when a slot is being tried its key may
\* be stored already, when one is being released it may still be there, and
\* then nobody will delete it.
Interrupt(w) ==
    /\ age[w] >= Deadline(w)
    /\ \/ /\ pc[w] \in Waiting \cup {"leave", "release"}
          /\ GiveUp(w)
          /\ UNCHANGED keys
       \/ /\ pc[w] = "probe"
          /\ GiveUp(w)
          /\ SetKey(w, probe[w])

\* The hard limit, or the loss of the worker: nothing of the code runs.  A Redis
\* error in the finally block is logged and leaves the key just the same.
Kill(w) ==
    /\ pc[w] # "idle"
    /\ GiveUp(w)
    /\ UNCHANGED keys

-------------------------------------------------------------------------------
(* The environment.                                                        *)

\* The adaptive control and the window target change the number of slots.
SetLimit(n) ==
    /\ limit' = n
    /\ UNCHANGED <<pc, age, waited, maxSlots, probe, slot, stop>>
    /\ UNCHANGED keys

SetStop(b) ==
    /\ stop' = b
    /\ UNCHANGED <<pc, age, waited, maxSlots, probe, slot, limit>>
    /\ UNCHANGED keys

Older(n, cap) == IF n < cap THEN n + 1 ELSE n

Ageing ==
    /\ age' = [w \in Workers |-> IF pc[w] = "idle" THEN age[w]
                                 ELSE Older(age[w], RunLimit)]
    /\ waited' = [w \in Workers |-> IF pc[w] \in Waiting
                                    THEN Older(waited[w], WaitLimit)
                                    ELSE waited[w]]
    /\ UNCHANGED <<pc, maxSlots, probe, slot, limit, stop>>

\* Redis drops a key whose time has run out.
Expiry ==
    /\ ttl' = [s \in Slots |-> IF ttl[s] > 0 THEN ttl[s] - 1 ELSE 0]
    /\ owner' = [s \in Slots |-> IF ttl[s] > 1 THEN owner[s] ELSE None]

\* Variants of Tick: the task has no hard limit, the keys no time to live.
TickUnlimited == Ageing /\ Expiry

TickNoTtl ==
    /\ \A w \in Timed : pc[w] # "idle" => age[w] < RunLimit
    /\ Ageing
    /\ UNCHANGED keys

\* Celery lets no task live beyond its hard limit.
Tick ==
    /\ \A w \in Timed : pc[w] # "idle" => age[w] < RunLimit
    /\ Ageing
    /\ Expiry

-------------------------------------------------------------------------------
Step(w) ==
    \/ Check(w)
    \/ Acquire(w)
    \/ ProbeFails(w)
    \/ Wake(w)
    \/ Finish(w)
    \/ Leave(w)
    \/ Release(w)

Next ==
    \/ \E w \in Workers : Enter(w) \/ Step(w) \/ Interrupt(w) \/ Kill(w)
    \/ \E n \in Slots : SetLimit(n)
    \/ \E b \in BOOLEAN : SetStop(b)
    \/ Tick

\* A worker's process is scheduled and time passes; that a worker of Timed is
\* killed when its time is over is part of the passing of time.
Fairness ==
    /\ WF_vars(Tick)
    /\ \A w \in Workers : WF_vars(Step(w))
    /\ \A w \in Timed : WF_vars(Kill(w) /\ age[w] = RunLimit)

Spec == Init /\ [][Next]_vars
FairSpec == Spec /\ Fairness

-------------------------------------------------------------------------------
(* Correctness.                                                            *)

Holding == {"running", "leave", "release"}
Running == {w \in Timed : pc[w] = "running"}

\* No two tasks under the hard limit use one slot at the same time, although
\* keys expire on their own and killed tasks leave theirs behind
\* (_jump_host_lock_context with the limits of run_backup_task).
ExclusiveUse == \A v, w \in Running : slot[v] = slot[w] => v = w

\* A task still owns the key of its slot when it comes to free it: the time to
\* live is longer than anything Celery lets a task do.
KeyOutlivesTask ==
    \A w \in Timed : pc[w] \in Holding => owner[slot[w]] = w

\* The sessions open at the same time are at most as many as the largest number
\* of slots one of them was told: lowering the limit, leaked keys and late
\* probes never overbook the jump host.
NoOverbooking ==
    \A n \in Slots :
        (\A w \in Running : maxSlots[w] <= n) => Cardinality(Running) <= n

\* Why: a worker's slot is one of those it was told of, and the key of a task
\* under the hard limit lives longer than the task still may.
SlotWithinSnapshot ==
    \A w \in Workers :
        /\ pc[w] = "probe" => probe[w] <= maxSlots[w]
        /\ pc[w] \in Holding => slot[w] \in 1..maxSlots[w]

KeyAlive ==
    \A w \in Timed : pc[w] \in Holding =>
        /\ owner[slot[w]] = w
        /\ ttl[slot[w]] + age[w] > RunLimit

SlotInv == TypeOK /\ SlotWithinSnapshot /\ KeyAlive

\* A key goes away by its time to live or by the release of the worker that
\* took it, never by the release of one whose key expired meanwhile (a VPN group
\* that outlived it).
OnlyOwnerFrees ==
    [][\A s \in Slots, w \in Workers :
          owner[s] = w /\ owner'[s] # w =>
              ttl[s] <= 1 \/ (pc[w] = "release" /\ slot[w] = s)]_vars

\* The slots implement exclusive use for the tasks under the hard limit.
Pool == INSTANCE SlotPool WITH
            Users <- Timed,
            busy <- {<<w, slot[w]>> : w \in Running}
ImplementsPool == Pool!Spec

\* Every wait for a slot ends, with the slot or without it.
WaitEnds == \A w \in Workers : pc[w] \in Waiting ~> pc[w] \notin Waiting

\* A slot whose holder was killed or lost the answer of Redis comes back.
AbandonedSlotReturns ==
    \A s \in Slots, w \in Workers :
        (owner[s] = w /\ slot[w] # s) ~> owner[s] # w

\* A stop request that stays in force empties the jump host, however many
\* attempts the queue still delivers.
StopDrains == <>[]stop => <>[](\A w \in Workers : pc[w] # "running")
===============================================================================
