---------------------------- MODULE MCBulkBackup ------------------------------
(* One task per phase, or two VPN groups that end together.                  *)
EXTENDS BulkBackup, TLC

CONSTANTS d1, j1, v1, v2

MCOne == {d1}
MCJump == {j1}
MCVpn == {v1}
MCTwoVpn == {v1, v2}
MCNone == {}

Symmetry == Permutations(MCTwoVpn)
===============================================================================
