------------------------------ MODULE VpnSession ------------------------------
(***************************************************************************)
(* The VPN sessions of app/services/vpn_service.py: vpn_session takes the  *)
(* file lock of the group, and the global one too unless the worker is     *)
(* isolated, brings the group's tunnel up with some retries, lets its body *)
(* run, and takes every tunnel of the machine down.  The lock files are on *)
(* a volume that all containers share; each host (a container) has its own *)
(* NetworkManager, whose tunnels are its state here.  The VPN test of      *)
(* app/tasks/monitoring.py connects and disconnects a group without        *)
(* vpn_session, hence without a lock.                                      *)
(*                                                                         *)
(* Groups are those that use a VPN: for the others connect_group_vpn does  *)
(* nothing.  "nmcli connection down" and "delete" do what they are asked   *)
(* to, unless a command is stuck, which raises in the middle of a cleanup. *)
(***************************************************************************)
EXTENDS Naturals

CONSTANTS
    Workers,    \* processes that open VPN sessions
    Testers,    \* those that VPN tests come to as well
    Groups,     \* VPN groups
    Hosts,      \* containers
    HostOf,     \* where each worker runs
    Isolated,   \* VPN_ISOLATED_WORKER
    Retries,    \* VPN_CONNECT_RETRIES
    None        \* nobody

(* scripts/start_vpn_worker_isolated.sh runs one worker per container.     *)
ASSUME VpnAssumption ==
    /\ Testers \subseteq Workers
    /\ HostOf \in [Workers -> Hosts]
    /\ Isolated \in BOOLEAN
    /\ Isolated => \A v, w \in Workers : HostOf[v] = HostOf[w] => v = w
    /\ Retries \in Nat \ {0}
    /\ None \notin Workers

VARIABLES
    pc,          \* where each worker is in vpn_session
    group,       \* the group it works for
    tries,       \* the attempts to connect it has made
    groupLock,   \* the worker that holds each group's lock
    globalLock,  \* the worker that holds the global lock
    tunnels      \* the tunnels that are up on each host

vars == <<pc, group, tries, groupLock, globalLock, tunnels>>
locks == <<groupLock, globalLock>>

Connecting == {"clean", "up", "reset"}
Closing == {"disconnect", "teardown", "unlock"}
Testing == {"test clean", "test up", "test down"}
Phases == {"idle", "group", "global", "open", "ungroup"}
              \cup Connecting \cup Closing \cup Testing

TypeOK ==
    /\ pc \in [Workers -> Phases]
    /\ group \in [Workers -> Groups]
    /\ tries \in [Workers -> 0..Retries]
    /\ groupLock \in [Groups -> Workers \cup {None}]
    /\ globalLock \in Workers \cup {None}
    /\ tunnels \in [Hosts -> SUBSET Groups]

Init ==
    /\ pc = [w \in Workers |-> "idle"]
    /\ group \in [Workers -> Groups]
    /\ tries = [w \in Workers |-> 0]
    /\ groupLock = [g \in Groups |-> None]
    /\ globalLock = None
    /\ tunnels = [h \in Hosts |-> {}]

-------------------------------------------------------------------------------
Host(w) == HostOf[w]

Go(w, next) == pc' = [pc EXCEPT ![w] = next]

\* What the commands of nmcli leave of the tunnels of the worker's host.
Tunnels(w, up) == tunnels' = [tunnels EXCEPT ![Host(w)] = up]

\* A cleanup whose errors are swallowed, or that a stuck command cuts short.
CleanupOf(w, up) == \E left \in SUBSET up : Tunnels(w, left)

\* A task of the worker calls vpn_session, or tests the VPN of a group.
Begin(w, g) ==
    /\ pc[w] = "idle"
    /\ Go(w, "group") \/ (w \in Testers /\ Go(w, "test clean"))
    /\ group' = [group EXCEPT ![w] = g]
    /\ UNCHANGED <<tries, tunnels>>
    /\ UNCHANGED locks

\* Variant of LockGroup: every container takes a lock of its own.
LockGroupAlone(w) ==
    /\ pc[w] = "group"
    /\ groupLock' = [groupLock EXCEPT ![group[w]] = w]
    /\ tries' = [tries EXCEPT ![w] = 1]
    /\ Go(w, IF Isolated THEN "clean" ELSE "global")
    /\ UNCHANGED <<group, globalLock, tunnels>>

\* acquire_group_lock; an isolated worker needs no more.
LockGroup(w) ==
    /\ pc[w] = "group"
    /\ groupLock[group[w]] = None
    /\ groupLock' = [groupLock EXCEPT ![group[w]] = w]
    /\ tries' = [tries EXCEPT ![w] = 1]
    /\ Go(w, IF Isolated THEN "clean" ELSE "global")
    /\ UNCHANGED <<group, globalLock, tunnels>>

\* Variant of LockGlobal: the lock is taken without waiting.
LockGlobalAnyway(w) ==
    /\ pc[w] = "global"
    /\ globalLock' = w
    /\ Go(w, "clean")
    /\ UNCHANGED <<group, tries, groupLock, tunnels>>

\* acquire_lock.
LockGlobal(w) ==
    /\ pc[w] = "global"
    /\ globalLock = None
    /\ globalLock' = w
    /\ Go(w, "clean")
    /\ UNCHANGED <<group, tries, groupLock, tunnels>>

\* The time-out of _acquire_file_lock: the session closes without having
\* connected.
GiveUp(w) ==
    /\ \/ pc[w] = "group" /\ groupLock[group[w]] # None
       \/ pc[w] = "global" /\ globalLock # None
    /\ Go(w, "teardown")
    /\ UNCHANGED <<group, tries, tunnels>>
    /\ UNCHANGED locks

\* Variant of Clean: only this group's remains are removed.
CleanOwn(w) ==
    /\ pc[w] = "clean"
    /\ Tunnels(w, tunnels[Host(w)] \ {group[w]})
    /\ Go(w, "up")
    /\ UNCHANGED <<group, tries>>
    /\ UNCHANGED locks

\* connect_group_vpn removes the other tunnels and its own remains.
Clean(w) ==
    /\ pc[w] = "clean"
    /\ Tunnels(w, {})
    /\ Go(w, "up")
    /\ UNCHANGED <<group, tries>>
    /\ UNCHANGED locks

\* nmcli connection up, straight or over eth0.
Up(w) ==
    /\ pc[w] = "up"
    /\ Tunnels(w, tunnels[Host(w)] \cup {group[w]})
    /\ Go(w, "open")
    /\ UNCHANGED <<group, tries>>
    /\ UNCHANGED locks

\* A VpnError: NetworkManager is not ready, credentials are missing, or the
\* activation fails and everything is taken down.
ConnectFails(w) ==
    /\ \/ pc[w] = "clean" /\ UNCHANGED tunnels
       \/ pc[w] = "up" /\ Tunnels(w, {})
    /\ Go(w, "reset")
    /\ UNCHANGED <<group, tries>>
    /\ UNCHANGED locks

\* A stuck nmcli raises TimeoutExpired, which vpn_session does not catch; if it
\* is the activation, connect_group_vpn cleans up before.
Stuck(w) ==
    /\ \/ pc[w] = "clean" /\ CleanupOf(w, tunnels[Host(w)])
       \/ pc[w] = "up" /\ CleanupOf(w, tunnels[Host(w)] \cup {group[w]})
    /\ Go(w, "teardown")
    /\ UNCHANGED <<group, tries>>
    /\ UNCHANGED locks

\* Variant of Reset: the attempts are not counted.
ResetForever(w) ==
    /\ pc[w] = "reset"
    /\ CleanupOf(w, tunnels[Host(w)])
    /\ Go(w, "clean")
    /\ UNCHANGED <<group, tries>>
    /\ UNCHANGED locks

\* Variant of Reset: one attempt too many.
ResetOnceMore(w) ==
    /\ pc[w] = "reset"
    /\ CleanupOf(w, tunnels[Host(w)])
    /\ \/ /\ tries[w] <= Retries
          /\ tries' = [tries EXCEPT ![w] = @ + 1]
          /\ Go(w, "clean")
       \/ /\ Go(w, "teardown")
          /\ UNCHANGED tries
    /\ UNCHANGED group
    /\ UNCHANGED locks

\* _reset_vpn_backend_after_failure, if enabled; then another attempt if the
\* error is a passing one and attempts are left.
Reset(w) ==
    /\ pc[w] = "reset"
    /\ CleanupOf(w, tunnels[Host(w)])
    /\ \/ /\ tries[w] < Retries
          /\ tries' = [tries EXCEPT ![w] = @ + 1]
          /\ Go(w, "clean")
       \/ /\ Go(w, "teardown")
          /\ UNCHANGED tries
    /\ UNCHANGED group
    /\ UNCHANGED locks

\* The body returns or raises.
Finish(w) ==
    /\ pc[w] = "open"
    /\ Go(w, "disconnect")
    /\ UNCHANGED <<group, tries, tunnels>>
    /\ UNCHANGED locks

\* disconnect_group_vpn after a session, _cleanup_vpn_profiles after a failure:
\* both take every tunnel of the host down, if no command of theirs is stuck.
Close(w) ==
    /\ pc[w] \in {"disconnect", "teardown"}
    /\ CleanupOf(w, tunnels[Host(w)])
    /\ Go(w, "unlock")
    /\ UNCHANGED <<group, tries>>
    /\ UNCHANGED locks

\* release_lock of what was taken: first the global lock ...
UnlockGlobal(w) ==
    /\ pc[w] = "unlock"
    /\ globalLock' = IF globalLock = w THEN None ELSE globalLock
    /\ Go(w, "ungroup")
    /\ UNCHANGED <<group, tries, groupLock, tunnels>>

FreeGroups(w) == [g \in Groups |-> IF groupLock[g] = w THEN None ELSE groupLock[g]]

\* ... then the lock of the group.
UnlockGroup(w) ==
    /\ pc[w] = "ungroup"
    /\ groupLock' = FreeGroups(w)
    /\ tries' = [tries EXCEPT ![w] = 0]
    /\ Go(w, "idle")
    /\ UNCHANGED <<group, globalLock, tunnels>>

\* run_group_vpn_test_task: connect_group_vpn, which may fail or be stuck ...
TestConnect(w) ==
    /\ \/ pc[w] = "test clean" /\ Tunnels(w, {}) /\ Go(w, "test up")
       \/ pc[w] = "test clean" /\ CleanupOf(w, tunnels[Host(w)]) /\ Go(w, "idle")
       \/ /\ pc[w] = "test up"
          /\ Tunnels(w, tunnels[Host(w)] \cup {group[w]})
          /\ Go(w, "test down")
       \/ /\ pc[w] = "test up"
          /\ CleanupOf(w, tunnels[Host(w)] \cup {group[w]})
          /\ Go(w, "idle")
    /\ UNCHANGED <<group, tries>>
    /\ UNCHANGED locks

\* ... and disconnect_group_vpn.
TestDisconnect(w) ==
    /\ pc[w] = "test down"
    /\ CleanupOf(w, tunnels[Host(w)])
    /\ Go(w, "idle")
    /\ UNCHANGED <<group, tries>>
    /\ UNCHANGED locks

\* The process dies: the kernel drops its locks.  Its tunnel stays up, unless
\* its container goes with it.
Kill(w) ==
    /\ pc[w] # "idle"
    /\ Go(w, "idle")
    /\ tries' = [tries EXCEPT ![w] = 0]
    /\ groupLock' = FreeGroups(w)
    /\ globalLock' = IF globalLock = w THEN None ELSE globalLock
    /\ UNCHANGED tunnels \/ (Isolated /\ Tunnels(w, {}))
    /\ UNCHANGED group

-------------------------------------------------------------------------------
Step(w) ==
    \/ LockGroup(w) \/ LockGlobal(w) \/ GiveUp(w)
    \/ Clean(w) \/ Up(w) \/ ConnectFails(w) \/ Stuck(w) \/ Reset(w)
    \/ Finish(w) \/ Close(w) \/ UnlockGlobal(w) \/ UnlockGroup(w)
    \/ TestConnect(w) \/ TestDisconnect(w)

Next == \E w \in Workers :
    \/ \E g \in Groups : Begin(w, g)
    \/ Step(w)
    \/ Kill(w)

Spec == Init /\ [][Next]_vars

\* A worker that is in a session goes on: the locks are polled every second
\* until their time-out, the commands and the body of a session are bounded.
FairSpec == Spec /\ \A w \in Workers : WF_vars(Step(w))

-------------------------------------------------------------------------------
(* Correctness.                                                            *)

Open(w) == pc[w] = "open"
Sessions == {w \in Workers : Open(w)}

\* During a session its tunnel, and no other, is up on the worker's host,
\* whatever killed workers and stuck commands left there ("Limpa outras VPNs e
\* perfis residuais para evitar conflito de rotas/estado").
TunnelIsMine == \A w \in Workers : Open(w) => tunnels[Host(w)] = {group[w]}

\* Without isolated workers there is one session in the whole system.
OneSession == \A v, w \in Workers : Open(v) /\ Open(w) => v = w

\* Why: who works with the machine's VPNs holds the lock of the group, and the
\* global one unless it is isolated.
LocksHeld ==
    \A w \in Workers :
        /\ pc[w] \in {"global", "open", "disconnect"} \cup Connecting =>
               groupLock[group[w]] = w
        /\ ~Isolated /\ pc[w] \in {"open", "disconnect"} \cup Connecting =>
               globalLock = w

TunnelBuilt ==
    \A w \in Workers :
        /\ pc[w] = "up" => tunnels[Host(w)] = {}
        /\ Open(w) => tunnels[Host(w)] = {group[w]}

\* A group's account is used by one session of vpn_session at a time, in
\* whatever container, although locks time out and workers are killed: the lock
\* of the group makes the sessions a pool whose slots are the groups.  (A VPN
\* test of the group is not a session, and takes no part in this.)
Pool == INSTANCE SlotPool WITH
            Users <- Workers,
            Slots <- Groups,
            busy <- {<<w, group[w]>> : w \in Sessions}
ImplementsPool == Pool!Spec

\* Every session and every test ends, connected or not, and the worker then
\* holds no lock.
SessionEnds ==
    \A w \in Workers :
        pc[w] # "idle" ~> /\ pc[w] = "idle"
                          /\ globalLock # w
                          /\ \A g \in Groups : groupLock[g] # w
===============================================================================
