------------------------ MODULE TenantBulkLockConstants ------------------------
(* The batches of one tenant and the settings of its lock.                    *)
EXTENDS Naturals

CONSTANTS
    Backups,     \* bulk backups that users ask for
    FollowUps,   \* automatic reprocessings, which Celery retries
    Audits,      \* manual connection audits, which are batches too
    Enabled,     \* BULK_TENANT_SINGLE_ACTIVE_LOCK_ENABLED
    Life,        \* BULK_ACTIVE_LOCK_TTL_SECONDS, in ticks
    NoBatch      \* the key names none

ASSUME LockAssumption ==
    /\ Backups \cap FollowUps = {} /\ (Backups \cup FollowUps) \cap Audits = {}
    /\ Enabled \in BOOLEAN
    /\ Life \in Nat \ {0}
    /\ NoBatch \notin Backups \cup FollowUps \cup Audits
===============================================================================
