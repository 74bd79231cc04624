-------------------------- MODULE MCTenantBulkLock ----------------------------
(* Two users ask for the backup of one tenant.                               *)
EXTENDS TenantBulkLock, TLC

CONSTANTS b1, b2

MCBackups == {b1, b2}
===============================================================================
