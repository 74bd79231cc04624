----------------------------- MODULE MCVpnSession ------------------------------
(* Three workers that are not isolated, two of them in one container.       *)
EXTENDS VpnSession, TLC

CONSTANTS w1, w2, w3, g1, g2, h1, h2

MCWorkers == {w1, w2, w3}
MCGroups == {g1, g2}
MCHosts == {h1, h2}
MCSharedHost == (w1 :> h1) @@ (w2 :> h1) @@ (w3 :> h2)
===============================================================================
