--------------------------- MODULE MCJumpHostSlots ----------------------------
(* Two tasks under the hard limit and one VPN group on a jump host with up to *)
(* two slots; a tick is about three minutes of the deployed limits.           *)
EXTENDS JumpHostSlots, TLC

CONSTANTS t1, t2, g1

MCWorkers == {t1, t2, g1}
MCTimed == {t1, t2}

Symmetry == Permutations(MCTimed)
===============================================================================
