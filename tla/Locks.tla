--------------------------------- MODULE Locks ---------------------------------
(* The three families of locks, each in behaviours of its own: the VPN locks  *)
(* of the workers, the lock of one tenant with its backups and reprocessings  *)
(* or its reprocessings and audits, and the slots of a jump host.  What is    *)
(* not studied in a behaviour stands still.                                   *)
EXTENDS VpnSession, TenantBulkLockConstants

CONSTANTS
    SlotWorkers, Timed, SlotCap, SlotTtl, WaitLimit,              \* JumpHostSlots
    SoftLimit, RunLimit, DeviceLimit

VARIABLES
    part,                                                         \* studied here
    key, ttl, doc, phase, seen, beat, copy, sched,                \* TenantBulkLock
    at, age, waited, maxSlots, probe, slot, owner, life, limit, stop   \* JumpHostSlots

lockVars == <<key, ttl, doc, phase, seen, beat, copy, sched>>
slotVars == <<at, age, waited, maxSlots, probe, slot, owner, life, limit, stop>>
all == <<part, vars, lockVars, slotVars>>

Tenant == INSTANCE TenantBulkLock WITH pc <- phase
Slots == INSTANCE JumpHostSlots WITH Workers <- SlotWorkers, pc <- at, ttl <- life

\* What JumpHostSlots asks of its constants.
ASSUME SlotsAssumption ==
    /\ Timed \subseteq SlotWorkers /\ None \notin SlotWorkers
    /\ SlotCap \in Nat \ {0} /\ SlotTtl \in Nat \ {0} /\ WaitLimit \in Nat
    /\ SoftLimit \in Nat /\ DeviceLimit \in Nat
    /\ RunLimit \in Nat \ {0} /\ RunLimit < SlotTtl

\* A part that is not studied has one initial state.
LocksInit ==
    /\ part \in {"vpn", "backup", "audit", "slots"}
    /\ Init /\ (part # "vpn" => group = [w \in Workers |-> CHOOSE g \in Groups : TRUE])
    /\ Tenant!Init
    /\ Slots!Init /\ (part # "slots" => limit = 1)

\* A backup and its reprocessing, or a reprocessing and an audit: with all three the
\* liveness takes too long to check.
NotYet(batches) == \A b \in batches : phase'[b] = "new"

VpnPart == part = "vpn" /\ Next /\ UNCHANGED <<part, lockVars, slotVars>>
BackupPart == part = "backup" /\ Tenant!Next /\ NotYet(Audits) /\ UNCHANGED <<part, vars, slotVars>>
AuditPart == part = "audit" /\ Tenant!Next /\ NotYet(Backups) /\ UNCHANGED <<part, vars, slotVars>>
SlotPart == part = "slots" /\ Slots!Next /\ UNCHANGED <<part, vars, lockVars>>

LocksNext == VpnPart \/ BackupPart \/ AuditPart \/ SlotPart

TenantFairness ==
    /\ \A b \in Backups \cup FollowUps :
          /\ WF_lockVars(part = "backup" /\ Tenant!Launch(b))
          /\ WF_lockVars(part = "backup" /\ Tenant!Beat(b))
    /\ \A b \in FollowUps \cup Audits :
          /\ WF_lockVars(part = "audit" /\ Tenant!Launch(b))
          /\ WF_lockVars(part = "audit" /\ Tenant!Beat(b))
    /\ WF_lockVars(part \in {"backup", "audit"} /\ Tenant!Schedule)
    /\ WF_lockVars(part \in {"backup", "audit"} /\ Tenant!Tick)

SlotFairness ==
    /\ WF_slotVars(part = "slots" /\ Slots!Tick)
    /\ \A w \in SlotWorkers : WF_slotVars(part = "slots" /\ Slots!Step(w))
    /\ \A w \in Timed : WF_slotVars(part = "slots" /\ Slots!Kill(w) /\ age[w] = RunLimit)

LocksSafe == LocksInit /\ [][LocksNext]_all
LocksSpec ==
    /\ LocksSafe
    /\ \A w \in Workers : WF_vars(part = "vpn" /\ Step(w))
    /\ TenantFairness
    /\ SlotFairness

-------------------------------------------------------------------------------
\* Each part keeps its types.
LocksTyped == TypeOK /\ Tenant!TypeOK /\ Slots!TypeOK

\* Whatever crashed, and whatever an old copy of a document brought back, the
\* tenant's key is gone again and again: no tenant stays locked.
KeyReturns == part \in {"backup", "audit"} => Tenant!KeyReturns

\* The scheduler is not held up for ever either (_has_active_bulk_operation).
SchedulerReturns == part \in {"backup", "audit"} => Tenant!SchedulerReturns

\* Every wait for a slot of the jump host ends, with the slot or without it.
WaitEnds == part = "slots" => Slots!WaitEnds

\* A slot whose holder was killed or lost the answer of Redis comes back.
AbandonedSlotReturns == part = "slots" => Slots!AbandonedSlotReturns

\* A stop request that stays in force empties the jump host, however many
\* attempts the queue still delivers.
StopDrains == part = "slots" => Slots!StopDrains
===============================================================================
