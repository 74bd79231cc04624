------------------------------ MODULE MCOutcomes ------------------------------
(* Two requests at a plan's limit; a group of a device behind the tunnel and  *)
(* one behind a jump host; two attempts at a device at once; two workers that *)
(* share a container and one beside them; a jump host with an override beyond *)
(* its boost; two workers that log.                                           *)
EXTENDS Outcomes, TLC

CONSTANTS a1, a2, d1, d2, f1, f2, w1, w2, w3, g1, g2, h1, h2, i1

MCActors == {a1, a2}
MCMembers == {d1, d2}
MCNeedsVpn == {d1}
MCNeedsJump == {d2}
MCDevices == {d1}
MCFolder == d1 :> "one"
MCInvoices == {i1}
MCFiles == {f1, f2}
MCWorkers == {w1, w2, w3}
MCGroups == {g1, g2}
MCHosts == {h1, h2}
MCHostOf == w1 :> h1 @@ w2 :> h1 @@ w3 :> h2

Symmetry == Permutations(MCActors)
===============================================================================
