-------------------------------- MODULE Quotas ---------------------------------
(***************************************************************************)
(* The limits of a plan, for one client and one of the things it limits:   *)
(* devices, active users, the bytes of stored backups, the bytes that are  *)
(* downloaded in a month (services/plan_limits_service.py and its callers).*)
(* Each handler counts in one step and commits in a later one, so others   *)
(* may count the same thing in between.                                    *)
(***************************************************************************)
EXTENDS Naturals, FiniteSets

CONSTANTS
    Actors,     \* requests and backup tasks that are under way together
    MaxLimit,   \* the largest limit a plan sets
    MaxSize,    \* bytes of a backup, at most
    Cap,        \* bound of the model: a client without limit stops here
    NoPlan

ASSUME QuotaAssumption ==
    /\ IsFiniteSet(Actors) /\ Actors # {}
    /\ MaxLimit \in Nat \ {0} /\ MaxSize \in Nat \ {0} /\ Cap \in Nat
    /\ NoPlan \notin Nat

VARIABLES
    kind,       \* what is counted
    limit,      \* the plan's limit, 0 for none, or NoPlan
    unlimited,  \* tenant.access_unlimited
    used,       \* active devices, active users, bytes stored or downloaded
    unchecked,  \* bytes stored by backups that failed and kept their file
    metered,    \* the month has its row in tenant_usage_metrics
    claim,      \* what each handler was allowed to add
    free        \* history: something was allowed without a limit

vars == <<kind, limit, unlimited, used, unchecked, metered, claim, free>>
plan == <<limit, unlimited>>

Kinds == {"devices", "users", "storage", "download"}
Idle == [size |-> 0]
Claims == [size: 1..MaxSize, seen: Nat, fresh: BOOLEAN]
Sizes == IF kind \in {"devices", "users"} THEN {1} ELSE 1..MaxSize
Stored == kind # "download"
Pending == {a \in Actors : claim[a] # Idle}

TypeOK ==
    /\ kind \in Kinds
    /\ limit \in 0..MaxLimit \cup {NoPlan}
    /\ unlimited \in BOOLEAN
    /\ used \in Nat /\ unchecked \in Nat
    /\ metered \in BOOLEAN
    /\ claim \in [Actors -> Claims \cup {Idle}]
    /\ \A a \in Pending : claim[a].size \in Sizes
    /\ free \in BOOLEAN

\* A client is created with its first user.
Init ==
    /\ kind \in Kinds
    /\ limit \in 1..MaxLimit /\ unlimited = FALSE
    /\ used = (IF kind = "users" THEN 1 ELSE 0) /\ unchecked = 0 /\ metered = FALSE
    /\ claim = [a \in Actors |-> Idle]
    /\ free = FALSE

-------------------------------------------------------------------------------
(* Counting.                                                               *)

\* Variant: a client may start what it has just room for.
RoomLater(size) == limit = 0 \/ used + unchecked <= limit

\* "used >= limit" for what is counted, "used + incoming > limit" for bytes, those of
\* failed backups included.
Room(size) == limit = 0 \/ used + unchecked + size <= limit

Bounded(size) == ~unlimited /\ limit # 0
Claim(a, size) ==
    /\ claim[a] = Idle /\ used + unchecked + size <= Cap
    /\ unlimited \/ (limit # NoPlan /\ Room(size))
    /\ claim' = [claim EXCEPT ![a] = [size |-> size, seen |-> used, fresh |-> ~metered]]
    /\ free' = (free \/ ~Bounded(size))
    /\ UNCHANGED <<kind, plan, used, unchecked, metered>>

\* The handler commits nothing: a later check, a duplicate, an error, its death.
Abandon(a) ==
    /\ claim[a] # Idle
    /\ claim' = [claim EXCEPT ![a] = Idle]
    /\ UNCHANGED <<kind, plan, used, unchecked, metered, free>>

\* The row of a backup is inserted twice when the connection drops while the
\* first insert is committed (_persist_backup_result is called again).
Copies == IF kind = "storage" THEN 1..2 ELSE {1}
Commit(a) ==
    /\ Stored /\ claim[a] # Idle
    /\ \E n \in Copies : used' = used + n * claim[a].size
    /\ claim' = [claim EXCEPT ![a] = Idle]
    /\ UNCHANGED <<kind, plan, unchecked, metered, free>>

Drop(size) ==
    /\ Stored /\ size <= used
    /\ used' = used - size
    /\ UNCHANGED <<kind, plan, unchecked, metered, claim, free>>

-------------------------------------------------------------------------------
(* The handlers.                                                           *)

CreateDevice(a) == kind = "devices" /\ Claim(a, 1)
DeleteDevice == kind = "devices" /\ Drop(1)

AddUser(a) == kind = "users" /\ Claim(a, 1)
\* Only a user that was inactive needs room; one that is switched off gives it back.
EditUser(a) == kind = "users" /\ (Claim(a, 1) \/ Drop(1))
\* Removed, or switched off when history is attached to it.
DeleteUser == kind = "users" /\ Drop(1)
\* A user of the platform needs no room with a client.
AdminAddUser(a) == kind = "users" /\ Claim(a, 1)
\* May also move a user from another client, or to another one.
AdminEditUser(a) == kind = "users" /\ (Claim(a, 1) \/ Drop(1))
AdminToggleUser(a) == kind = "users" /\ (Claim(a, 1) \/ Drop(1))
AdminDeleteUser == kind = "users" /\ Drop(1)

StoreBackup(a) == kind = "storage" /\ \E size \in Sizes : Claim(a, size)
\* A file that fails its integrity check is not checked against the plan: its row says
\* FAILED, with the size, which counts like any other.
StoreFailed ==
    /\ kind = "storage"
    /\ \E size \in Sizes, n \in Copies :
          /\ used + unchecked + n * size <= Cap
          /\ unchecked' = unchecked + n * size
    /\ UNCHANGED <<kind, plan, used, metered, claim, free>>

PurgeFailed ==
    /\ kind = "storage"
    /\ \E size \in Sizes : size <= unchecked /\ unchecked' = unchecked - size
    /\ UNCHANGED <<kind, plan, used, metered, claim, free>>
PurgeBackup == kind = "storage" /\ \E size \in Sizes : Drop(size)

ReadMeter(a) == kind = "download" /\ \E size \in Sizes : Claim(a, size)

\* What was read plus the own bytes is written back; only one of those that found
\* no row for the month can insert it.
Meter(a) ==
    /\ ~Stored /\ claim[a] # Idle
    /\ IF claim[a].fresh /\ metered THEN UNCHANGED <<used, metered>>
       ELSE used' = claim[a].seen + claim[a].size /\ metered' = TRUE
    /\ claim' = [claim EXCEPT ![a] = Idle]
    /\ UNCHANGED <<kind, plan, unchecked, free>>

\* A request of the old month writes the old row.
NewMonth ==
    /\ ~Stored
    /\ used' = 0 /\ metered' = FALSE
    /\ claim' = [a \in Actors |-> Idle]
    /\ UNCHANGED <<kind, plan, unchecked, free>>

\* An administrator edits the plan, or gives the client another one or none.
ChangePlan ==
    /\ limit' \in 0..MaxLimit \cup {NoPlan}
    /\ unlimited' \in BOOLEAN
    /\ UNCHANGED <<kind, used, unchecked, metered, claim, free>>

Users(a) == AddUser(a) \/ EditUser(a) \/ AdminAddUser(a) \/ AdminEditUser(a) \/ AdminToggleUser(a)
Act(a) ==
    \/ CreateDevice(a) \/ Users(a) \/ StoreBackup(a) \/ ReadMeter(a)
    \/ Commit(a) \/ Meter(a) \/ Abandon(a)
Remove == DeleteDevice \/ DeleteUser \/ AdminDeleteUser \/ PurgeBackup \/ PurgeFailed
Next == (\E a \in Actors : Act(a)) \/ StoreFailed \/ Remove \/ NewMonth \/ ChangePlan
Spec == Init /\ [][Next]_vars

-------------------------------------------------------------------------------
(* Properties.                                                             *)

Weight == CASE kind \in {"devices", "users"} -> 1
            [] kind = "storage" -> 2 * MaxSize
            [] OTHER -> 0

\* Requests that count at the same time may each find the last place free, but what
\* they were allowed goes beyond the limit by no more than those requests add together:
\* a plan cannot be exceeded step by step (check_can_add_device, check_can_add_user,
\* check_storage_before_backup).  A month's meter never says more than the limit
\* (consume_download_bytes).  Of the bytes stored this bounds those that were checked: the
\* bytes of failed backups leave less room and nothing bounds them.
WithinPlan ==
    free \/ IF Stored THEN used <= (MaxLimit - 1) + Cardinality(Actors) * Weight
            ELSE used <= MaxLimit
===============================================================================
