-------------------------- MODULE VpnSession_proofs ---------------------------
(* The locks of vpn_session for any number of workers, groups and hosts.      *)
EXTENDS VpnSession, TLAPS

\* A worker that moves to a phase stays in the phases.
LEMMA GoStep ==
    ASSUME pc \in [Workers -> Phases], NEW w \in Workers, NEW next \in Phases,
           Go(w, next)
    PROVE  pc' \in [Workers -> Phases]
BY DEF Go

\* What the commands of nmcli and a cleanup do keeps the tunnels' type.
LEMMA TunnelTypes ==
    ASSUME tunnels \in [Hosts -> SUBSET Groups], NEW w \in Workers,
           NEW up \in SUBSET Groups, Tunnels(w, up) \/ CleanupOf(w, up)
    PROVE  tunnels' \in [Hosts -> SUBSET Groups]
<1>1. PICK left \in SUBSET Groups : Tunnels(w, left)
  BY DEF CleanupOf
<1> QED
  BY <1>1 DEF Tunnels

\* The types survive every step.
LEMMA TypeStep == TypeOK /\ [Next]_vars => TypeOK'
<1> SUFFICES ASSUME TypeOK, [Next]_vars PROVE TypeOK'
  OBVIOUS
<1> USE VpnAssumption DEF TypeOK, locks
<1>1. \A p \in {"idle", "group", "global", "clean", "up", "reset", "open",
                "disconnect", "teardown", "unlock", "ungroup",
                "test clean", "test up", "test down"} : p \in Phases
  BY DEF Phases, Connecting, Closing, Testing
<1>2. \A w \in Workers : /\ tunnels[Host(w)] \in SUBSET Groups
                         /\ tunnels[Host(w)] \cup {group[w]} \in SUBSET Groups
  BY DEF Host
<1>3. ASSUME NEW w \in Workers, NEW g \in Groups, Begin(w, g) PROVE TypeOK'
  <2>1. pc' \in [Workers -> Phases]
    BY <1>1, <1>3, GoStep DEF Begin
  <2> QED
    BY <2>1, <1>3 DEF Begin
<1>4. ASSUME NEW w \in Workers, LockGroup(w) \/ LockGlobal(w) \/ GiveUp(w) \/ Finish(w)
      PROVE  TypeOK'
  <2>1. pc' \in [Workers -> Phases]
    BY <1>1, <1>4, GoStep DEF LockGroup, LockGlobal, GiveUp, Finish
  <2>2. tries' \in [Workers -> 0..Retries]
    BY <1>4 DEF LockGroup, LockGlobal, GiveUp, Finish
  <2> QED
    BY <2>1, <2>2, <1>4 DEF LockGroup, LockGlobal, GiveUp, Finish
<1>5. ASSUME NEW w \in Workers,
             Clean(w) \/ Up(w) \/ ConnectFails(w) \/ Stuck(w) \/ Reset(w)
                 \/ Close(w) \/ TestConnect(w) \/ TestDisconnect(w)
      PROVE  TypeOK'
  <2> USE DEF Clean, Up, ConnectFails, Stuck, Reset, Close, TestConnect, TestDisconnect
  <2>1. pc' \in [Workers -> Phases]
    BY <1>1, <1>5, GoStep
  <2>2. \E up \in SUBSET Groups : Tunnels(w, up) \/ CleanupOf(w, up) \/ UNCHANGED tunnels
    BY <1>2, <1>5
  <2>3. tunnels' \in [Hosts -> SUBSET Groups]
    BY <2>2, TunnelTypes
  <2>4. \/ UNCHANGED tries
        \/ tries[w] < Retries /\ tries' = [tries EXCEPT ![w] = @ + 1]
    BY <1>5
  <2>5. tries' \in [Workers -> 0..Retries]
    BY <2>4
  <2> QED
    BY <2>1, <2>3, <2>5, <1>5
<1>6. ASSUME NEW w \in Workers, UnlockGlobal(w) \/ UnlockGroup(w) \/ Kill(w)
      PROVE  TypeOK'
  <2> USE DEF UnlockGlobal, UnlockGroup, Kill
  <2>1. pc' \in [Workers -> Phases]
    BY <1>1, <1>6, GoStep
  <2>2. tunnels' \in [Hosts -> SUBSET Groups]
    BY <1>6, TunnelTypes
  <2>3. groupLock' \in [Groups -> Workers \cup {None}]
    BY <1>6 DEF FreeGroups
  <2>4. tries' \in [Workers -> 0..Retries]
    BY <1>6
  <2> QED
    BY <2>1, <2>2, <2>3, <2>4, <1>6
<1>7. CASE UNCHANGED vars
  BY <1>7 DEF vars
<1> QED
  BY <1>3, <1>4, <1>5, <1>6, <1>7 DEF Next, Step

\* Every variable of a VPN session stays within its type (vpn_session).
THEOREM SessionTypes == Spec => []TypeOK
<1>1. Init => TypeOK
  BY VpnAssumption DEF Init, TypeOK, Phases
<1> QED
  BY <1>1, TypeStep, PTL DEF Spec

\* No lock is lost while its holder works: nobody else frees it, and a worker
\* keeps to its group (release_lock is given the handle of its own open).
LEMMA LocksStep == TypeOK /\ LocksHeld /\ [Next]_vars => LocksHeld'
<1> SUFFICES ASSUME TypeOK, LocksHeld, [Next]_vars PROVE LocksHeld'
  OBVIOUS
<1> USE VpnAssumption
    DEF TypeOK, LocksHeld, Phases, Connecting, Closing, Testing, Go, locks
<1>1. ASSUME NEW w \in Workers, NEW g \in Groups, Begin(w, g) PROVE LocksHeld'
  BY <1>1 DEF Begin
<1>2. ASSUME NEW w \in Workers, LockGroup(w) PROVE LocksHeld'
  BY <1>2 DEF LockGroup
<1>3. ASSUME NEW w \in Workers, LockGlobal(w) PROVE LocksHeld'
  BY <1>3 DEF LockGlobal
<1>4. ASSUME NEW w \in Workers, GiveUp(w) \/ Stuck(w) \/ Finish(w) PROVE LocksHeld'
  BY <1>4 DEF GiveUp, Stuck, Finish
<1>5. ASSUME NEW w \in Workers,
             Clean(w) \/ Up(w) \/ ConnectFails(w) \/ Reset(w) \/ Close(w)
                 \/ TestConnect(w) \/ TestDisconnect(w)
      PROVE  LocksHeld'
  BY <1>5 DEF Clean, Up, ConnectFails, Reset, Close, TestConnect, TestDisconnect
<1>6. ASSUME NEW w \in Workers, UnlockGlobal(w) PROVE LocksHeld'
  BY <1>6 DEF UnlockGlobal
<1>7. ASSUME NEW w \in Workers, UnlockGroup(w) \/ Kill(w) PROVE LocksHeld'
  <2>1. CASE UnlockGroup(w)
    BY <2>1 DEF UnlockGroup, FreeGroups
  <2>2. CASE Kill(w)
    <3>1. /\ pc' = [pc EXCEPT ![w] = "idle"]
          /\ groupLock' = FreeGroups(w)
          /\ globalLock' = IF globalLock = w THEN None ELSE globalLock
          /\ group' = group
      BY <2>2 DEF Kill
    <3> QED
      BY <3>1 DEF FreeGroups
  <2> QED
    BY <1>7, <2>1, <2>2
<1>8. CASE UNCHANGED vars
  BY <1>8 DEF vars
<1> QED
  BY <1>1, <1>2, <1>3, <1>4, <1>5, <1>6, <1>7, <1>8 DEF Next, Step

\* Who connects or is connected holds its locks (acquire_group_lock and
\* acquire_lock).
THEOREM LocksAreHeld == Spec => []LocksHeld
<1>1. Init => LocksHeld
  BY DEF Init, LocksHeld, Connecting
<1> QED
  BY <1>1, LocksStep, SessionTypes, PTL DEF Spec

\* Without isolated workers there is one session in the whole system, whatever
\* the number of workers: they all hold the one global lock (acquire_lock).
THEOREM SharedSession == ~Isolated => (Spec => []OneSession)
<1> SUFFICES ASSUME ~Isolated PROVE Spec => []OneSession
  OBVIOUS
<1>1. LocksHeld => OneSession
  BY VpnAssumption DEF LocksHeld, OneSession, Open
<1> QED
  BY <1>1, LocksAreHeld, PTL

\* An isolated worker is the only one that touches the VPNs of its host.
LEMMA TunnelStep ==
    ASSUME Isolated
    PROVE  TypeOK /\ TunnelBuilt /\ [Next]_vars => TunnelBuilt'
<1> SUFFICES ASSUME TypeOK, TunnelBuilt, [Next]_vars PROVE TunnelBuilt'
  OBVIOUS
<1> USE VpnAssumption DEF TypeOK, TunnelBuilt, Open, Go, locks, Host
<1>1. \A v, w \in Workers : HostOf[v] \in Hosts /\ (HostOf[v] = HostOf[w] => v = w)
  OBVIOUS
<1>2. ASSUME NEW w \in Workers, NEW g \in Groups, Begin(w, g) PROVE TunnelBuilt'
  BY <1>2 DEF Begin
<1>3. ASSUME NEW w \in Workers,
             LockGroup(w) \/ LockGlobal(w) \/ GiveUp(w) \/ Finish(w)
      PROVE  TunnelBuilt'
  BY <1>3 DEF LockGroup, LockGlobal, GiveUp, Finish, Connecting
<1>4. ASSUME NEW w \in Workers, Clean(w) PROVE TunnelBuilt'
  BY <1>1, <1>4 DEF Clean, Tunnels
<1>5. ASSUME NEW w \in Workers, Up(w) PROVE TunnelBuilt'
  BY <1>1, <1>5 DEF Up, Tunnels
\* A step that touches the tunnels of a host whose worker then has none to use.
<1>6. ASSUME NEW w \in Workers, NEW up, Tunnels(w, up),
             pc'[w] \notin {"up", "open"},
             \A v \in Workers \ {w} : pc'[v] = pc[v], group' = group
      PROVE  TunnelBuilt'
  BY <1>1, <1>6 DEF Tunnels
<1>7. ASSUME NEW w \in Workers,
             ConnectFails(w) \/ Stuck(w) \/ Reset(w) \/ Close(w)
                 \/ TestConnect(w) \/ TestDisconnect(w) \/ Kill(w)
      PROVE  TunnelBuilt'
  <2>1. /\ pc'[w] \notin {"up", "open"}
        /\ \A v \in Workers \ {w} : pc'[v] = pc[v]
        /\ group' = group
    BY <1>7
    DEF ConnectFails, Stuck, Reset, Close, TestConnect, TestDisconnect, Kill
  <2>2. UNCHANGED tunnels \/ \E up : Tunnels(w, up)
    BY <1>7
    DEF ConnectFails, Stuck, Reset, Close, TestConnect, TestDisconnect, Kill,
        CleanupOf
  <2>3. CASE UNCHANGED tunnels
    BY <2>1, <2>3
  <2> QED
    BY <1>6, <2>1, <2>2, <2>3
<1>8. ASSUME NEW w \in Workers, UnlockGlobal(w) \/ UnlockGroup(w)
      PROVE  TunnelBuilt'
  BY <1>8 DEF UnlockGlobal, UnlockGroup
<1>9. CASE UNCHANGED vars
  BY <1>9 DEF vars
<1> QED
  BY <1>2, <1>3, <1>4, <1>5, <1>7, <1>8, <1>9 DEF Next, Step

\* A session of an isolated worker has its tunnel, and no other, on its host
\* (connect_group_vpn after _cleanup_vpn_profiles).
THEOREM IsolatedTunnel ==
    ASSUME Isolated
    PROVE  Spec => []TunnelIsMine
<1>1. Init => TunnelBuilt
  BY DEF Init, TunnelBuilt, Open
<1>2. TypeOK /\ TunnelBuilt /\ [Next]_vars => TunnelBuilt'
  BY TunnelStep
<1>3. TunnelBuilt => TunnelIsMine
  BY DEF TunnelBuilt, TunnelIsMine
<1> QED
  BY <1>1, <1>2, <1>3, SessionTypes, PTL DEF Spec

-------------------------------------------------------------------------------
(* The sessions are a pool whose slots are the groups: opening one is Grab,  *)
(* leaving it in whatever way is Drop, everything else is a stutter.         *)
THEOREM OneSessionPerGroup == Spec => ImplementsPool
<1> DEFINE bar == {<<w, group[w]>> : w \in Sessions}
<1>1. Init => Pool!Init
  <2>1. Init => Sessions = {}
    BY DEF Init, Sessions, Open
  <2> QED
    BY <2>1 DEF Pool!Init
<1>2. TypeOK /\ LocksHeld /\ [Next]_vars => [Pool!Next]_bar
  <2> SUFFICES ASSUME TypeOK, LocksHeld, [Next]_vars PROVE [Pool!Next]_bar
    OBVIOUS
  <2> USE DEF TypeOK, Go
  <2>1. \A w \in Sessions : groupLock[group[w]] = w
    BY DEF Sessions, Open, LocksHeld
  \* A step that opens no session: one ends, or nothing changes.
  <2>2. ASSUME NEW w \in Workers, pc'[w] # "open",
               \A v \in Workers \ {w} : pc'[v] = pc[v] /\ group'[v] = group[v]
        PROVE  [Pool!Next]_bar
    <3>1. CASE w \in Sessions
      <4>1. Sessions' = Sessions \ {w}
        BY <2>2 DEF Sessions, Open
      <4>2. bar' = bar \ {<<w, group[w]>>}
        BY <4>1, <2>2 DEF Sessions
      <4>3. w \in Workers /\ group[w] \in Groups /\ <<w, group[w]>> \in bar
        BY <3>1 DEF Sessions
      <4> QED
        BY <4>2, <4>3 DEF Pool!Next, Pool!Drop
    <3>2. CASE w \notin Sessions
      <4>1. Sessions' = Sessions
        BY <2>2, <3>2 DEF Sessions, Open
      <4> QED
        BY <4>1, <2>2, <3>2 DEF Sessions
    <3> QED
      BY <3>1, <3>2
  \* The step that opens one.
  <2>3. ASSUME NEW w \in Workers, Up(w) PROVE [Pool!Next]_bar
    <3>1. Sessions' = Sessions \cup {w} /\ w \notin Sessions /\ group' = group
      BY <2>3 DEF Up, Sessions, Open
    <3>2. groupLock[group[w]] = w
      BY <2>3 DEF Up, LocksHeld, Connecting
    <3>3. \A v \in Sessions : v # w /\ group[v] # group[w]
      BY <2>1, <3>1, <3>2
    <3>4. bar' = bar \cup {<<w, group[w]>>}
      BY <3>1
    <3>5. \A p \in bar : p[1] # w /\ p[2] # group[w]
      BY <3>3
    <3>6. group[w] \in Groups
      OBVIOUS
    <3> QED
      BY <3>4, <3>5, <3>6 DEF Pool!Next, Pool!Grab
  <2>4. ASSUME NEW w \in Workers, NEW g \in Groups, Begin(w, g)
        PROVE  [Pool!Next]_bar
    BY <2>2, <2>4 DEF Begin
  <2>5. ASSUME NEW w \in Workers,
               LockGroup(w) \/ LockGlobal(w) \/ GiveUp(w) \/ Clean(w)
                   \/ ConnectFails(w) \/ Stuck(w) \/ Reset(w) \/ Finish(w)
        PROVE  [Pool!Next]_bar
    BY <2>2, <2>5
    DEF LockGroup, LockGlobal, GiveUp, Clean, ConnectFails, Stuck, Reset, Finish
  <2>6. ASSUME NEW w \in Workers,
               Close(w) \/ UnlockGlobal(w) \/ UnlockGroup(w)
                   \/ TestConnect(w) \/ TestDisconnect(w) \/ Kill(w)
        PROVE  [Pool!Next]_bar
    BY <2>2, <2>6
    DEF Close, UnlockGlobal, UnlockGroup, TestConnect, TestDisconnect, Kill
  <2>7. CASE UNCHANGED vars
    BY <2>7 DEF vars, Sessions, Open
  <2> QED
    BY <2>3, <2>4, <2>5, <2>6, <2>7 DEF Next, Step
<1> QED
  BY <1>1, <1>2, SessionTypes, LocksAreHeld, PTL DEF Spec, ImplementsPool, Pool!Spec
===============================================================================
