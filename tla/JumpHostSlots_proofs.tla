------------------------- MODULE JumpHostSlots_proofs -------------------------
(***************************************************************************)
(* Proofs about the slots of a jump host, for any number of workers and    *)
(* slots and any limits that satisfy SlotAssumption.                       *)
(***************************************************************************)
EXTENDS JumpHostSlots, FiniteSetTheorems, TLAPS

(* An attempt that ends leaves a well-typed state behind, whatever happens  *)
(* to the keys (GiveUp).                                                   *)
LEMMA GiveUpTypes ==
    ASSUME TypeOK, NEW w \in Workers, GiveUp(w),
           owner' \in [Slots -> Workers \cup {None}],
           ttl' \in [Slots -> 0..SlotTtl]
    PROVE  TypeOK'
<1>1. 0 \in 0..RunLimit /\ 0 \in 0..WaitLimit /\ 1 \in Slots /\ 0 \in 0..SlotCap
  BY SlotAssumption DEF Slots
<1>2. pc' \in [Workers -> Phases]
  BY DEF TypeOK, GiveUp, Phases
<1>3. /\ age' \in [Workers -> 0..RunLimit]
      /\ waited' \in [Workers -> 0..WaitLimit]
  BY <1>1 DEF TypeOK, GiveUp
<1>4. /\ maxSlots' \in [Workers -> Slots]
      /\ probe' \in [Workers -> Slots]
  BY <1>1 DEF TypeOK, GiveUp
<1>5. slot' \in [Workers -> 0..SlotCap]
  BY <1>1 DEF TypeOK, GiveUp
<1>6. QED
  BY <1>2, <1>3, <1>4, <1>5 DEF TypeOK, GiveUp

(* Storing a key keeps the types (SET NX PX).                              *)
LEMMA SetKeyTypes ==
    ASSUME TypeOK, NEW w \in Workers, NEW s \in Slots, SetKey(w, s)
    PROVE  /\ owner' \in [Slots -> Workers \cup {None}]
           /\ ttl' \in [Slots -> 0..SlotTtl]
  BY SlotAssumption DEF TypeOK, SetKey

(* Every variable keeps its type: the code's handlers never leave the set  *)
(* of states the lock context can be in.                                   *)
LEMMA TypeStep == TypeOK /\ [Next]_vars => TypeOK'
<1> SUFFICES ASSUME TypeOK, [Next]_vars PROVE TypeOK'
  OBVIOUS
<1>1. ASSUME NEW w \in Workers, Enter(w) PROVE TypeOK'
  BY <1>1 DEF Enter, TypeOK, Phases, Waiting, Slots, keys
<1>2. ASSUME NEW w \in Workers, Check(w) PROVE TypeOK'
  <2>1. CASE GiveUp(w)
    BY <1>2, <2>1, GiveUpTypes DEF Check, TypeOK, keys
  <2>2. CASE ~GiveUp(w)
    <3>1. 1 \in Slots
      BY SlotAssumption DEF Slots
    <3>2. probe' \in [Workers -> Slots]
      BY <1>2, <2>2, <3>1 DEF Check, TypeOK
    <3>3. QED
      BY <1>2, <2>2, <3>2 DEF Check, TypeOK, Phases, Waiting, keys
  <2>3. QED
    BY <2>1, <2>2
<1>3. ASSUME NEW w \in Workers, Acquire(w) PROVE TypeOK'
  <2>1. probe[w] \in Slots /\ probe[w] \in 0..SlotCap
    BY DEF TypeOK, Slots
  <2>2. QED
    BY <1>3, <2>1, SetKeyTypes DEF Acquire, TypeOK, Phases
<1>4. ASSUME NEW w \in Workers, ProbeFails(w) PROVE TypeOK'
  <2>1. probe[w] \in Slots /\ maxSlots[w] \in Slots
    BY DEF TypeOK
  <2>2. probe[w] < maxSlots[w] => probe[w] + 1 \in Slots
    BY <2>1, SlotAssumption DEF Slots
  <2>3. /\ owner' \in [Slots -> Workers \cup {None}]
        /\ ttl' \in [Slots -> 0..SlotTtl]
    BY <1>4, <2>1, SetKeyTypes DEF ProbeFails, TypeOK, keys
  <2>4. probe' \in [Workers -> Slots]
    BY <1>4, <2>2 DEF ProbeFails, NextProbe, TypeOK
  <2>5. pc' \in [Workers -> Phases]
    BY <1>4 DEF ProbeFails, NextProbe, TypeOK, Phases, Waiting
  <2>6. QED
    BY <1>4, <2>3, <2>4, <2>5 DEF ProbeFails, NextProbe, TypeOK
<1>5. ASSUME NEW w \in Workers, Wake(w) PROVE TypeOK'
  <2>1. CASE GiveUp(w)
    BY <1>5, <2>1, GiveUpTypes DEF Wake, TypeOK, keys
  <2>2. CASE ~GiveUp(w)
    BY <1>5, <2>2 DEF Wake, TypeOK, Phases, Waiting, keys
  <2>3. QED
    BY <2>1, <2>2
<1>6. ASSUME NEW w \in Workers, Finish(w) PROVE TypeOK'
  BY <1>6 DEF Finish, TypeOK, Phases, keys
<1>7. ASSUME NEW w \in Workers, Leave(w) PROVE TypeOK'
  <2>1. CASE GiveUp(w)
    BY <1>7, <2>1, GiveUpTypes DEF Leave, TypeOK, keys
  <2>2. CASE ~GiveUp(w)
    BY <1>7, <2>2 DEF Leave, TypeOK, Phases, keys
  <2>3. QED
    BY <2>1, <2>2
<1>8. ASSUME NEW w \in Workers, Release(w) PROVE TypeOK'
  <2>1. /\ owner' \in [Slots -> Workers \cup {None}]
        /\ ttl' \in [Slots -> 0..SlotTtl]
    BY <1>8, SlotAssumption DEF Release, TypeOK, keys
  <2>2. QED
    BY <1>8, <2>1, GiveUpTypes DEF Release
<1>9. ASSUME NEW w \in Workers, Interrupt(w) PROVE TypeOK'
  <2>1. probe[w] \in Slots
    BY DEF TypeOK
  <2>2. /\ owner' \in [Slots -> Workers \cup {None}]
        /\ ttl' \in [Slots -> 0..SlotTtl]
    BY <1>9, <2>1, SetKeyTypes DEF Interrupt, TypeOK, keys
  <2>3. QED
    BY <1>9, <2>2, GiveUpTypes DEF Interrupt
<1>10. ASSUME NEW w \in Workers, Kill(w) PROVE TypeOK'
  BY <1>10, GiveUpTypes DEF Kill, TypeOK, keys
<1>11. ASSUME NEW n \in Slots, SetLimit(n) PROVE TypeOK'
  BY <1>11 DEF SetLimit, TypeOK, keys
<1>12. ASSUME NEW b \in BOOLEAN, SetStop(b) PROVE TypeOK'
  BY <1>12 DEF SetStop, TypeOK, keys
<1>13. CASE Tick
  <2>1. \A w \in Workers : /\ Older(age[w], RunLimit) \in 0..RunLimit
                           /\ Older(waited[w], WaitLimit) \in 0..WaitLimit
    BY SlotAssumption DEF TypeOK, Older
  <2>2. \A s \in Slots : ttl[s] > 0 => ttl[s] - 1 \in 0..SlotTtl
    BY SlotAssumption DEF TypeOK
  <2>3. QED
    BY <1>13, <2>1, <2>2, SlotAssumption DEF Tick, Ageing, Expiry, TypeOK
<1>14. CASE UNCHANGED vars
  BY <1>14 DEF vars, TypeOK
<1>15. QED
  BY <1>1, <1>2, <1>3, <1>4, <1>5, <1>6, <1>7, <1>8, <1>9, <1>10, <1>11,
     <1>12, <1>13, <1>14 DEF Next, Step

LEMMA TypeInit == Init => TypeOK
<1>1. 0 \in 0..RunLimit /\ 0 \in 0..WaitLimit /\ 0 \in 0..SlotCap /\ 0 \in 0..SlotTtl
  BY SlotAssumption
<1>2. 1 \in Slots
  BY SlotAssumption DEF Slots
<1>3. QED
  BY <1>1, <1>2 DEF Init, TypeOK, Phases

THEOREM TypeCorrect == Spec => []TypeOK
  BY TypeInit, TypeStep, PTL DEF Spec

-------------------------------------------------------------------------------
(* A worker's slot is always one of those the limit it read gave it: it    *)
(* probes 1..max_slots in order.                                           *)
LEMMA SnapshotStep ==
    TypeOK /\ SlotWithinSnapshot /\ [Next]_vars => SlotWithinSnapshot'
<1> SUFFICES ASSUME TypeOK, SlotWithinSnapshot, [Next]_vars,
                    NEW v \in Workers
             PROVE  /\ pc'[v] = "probe" => probe'[v] <= maxSlots'[v]
                    /\ pc'[v] \in Holding => slot'[v] \in 1..maxSlots'[v]
  BY DEF SlotWithinSnapshot
<1> USE DEF Holding
<1>0. /\ pc[v] = "probe" => probe[v] <= maxSlots[v]
      /\ pc[v] \in Holding => slot[v] \in 1..maxSlots[v]
      /\ probe[v] \in Slots /\ maxSlots[v] \in Slots
      /\ pc \in [Workers -> Phases] /\ slot \in [Workers -> 0..SlotCap]
      /\ probe \in [Workers -> Slots] /\ maxSlots \in [Workers -> Slots]
  BY DEF SlotWithinSnapshot, TypeOK
<1>00. SlotCap \in Nat \ {0}
  BY SlotAssumption
<1> DEFINE Ok == /\ pc'[v] = "probe" => probe'[v] <= maxSlots'[v]
                 /\ pc'[v] \in Holding => slot'[v] \in 1..maxSlots'[v]
<1>a. ASSUME NEW w \in Workers, GiveUp(w) PROVE Ok
  BY <1>a, <1>0 DEF GiveUp
<1>1. ASSUME NEW w \in Workers, Enter(w) PROVE Ok
  BY <1>1, <1>0 DEF Enter
<1>2. ASSUME NEW w \in Workers, Check(w) PROVE Ok
  <2>1. CASE ~GiveUp(w)
    BY <1>2, <2>1, <1>0, <1>00 DEF Check, Slots
  <2>2. QED
    BY <2>1, <1>a
<1>3. ASSUME NEW w \in Workers, Acquire(w) PROVE Ok
  BY <1>3, <1>0, <1>00 DEF Acquire, Slots
<1>4. ASSUME NEW w \in Workers, ProbeFails(w) PROVE Ok
  BY <1>4, <1>0, <1>00 DEF ProbeFails, NextProbe, Slots
<1>5. ASSUME NEW w \in Workers, Wake(w) PROVE Ok
  BY <1>5, <1>a, <1>0 DEF Wake
<1>6. ASSUME NEW w \in Workers, Finish(w) PROVE Ok
  BY <1>6, <1>0 DEF Finish
<1>7. ASSUME NEW w \in Workers, Leave(w) PROVE Ok
  BY <1>7, <1>a, <1>0 DEF Leave
<1>8. ASSUME NEW w \in Workers, Release(w) PROVE Ok
  BY <1>8, <1>a DEF Release
<1>9. ASSUME NEW w \in Workers, Interrupt(w) PROVE Ok
  BY <1>9, <1>a DEF Interrupt
<1>10. ASSUME NEW w \in Workers, Kill(w) PROVE Ok
  BY <1>10, <1>a DEF Kill
<1>11. ASSUME NEW n \in Slots, SetLimit(n) PROVE Ok
  BY <1>11, <1>0 DEF SetLimit
<1>12. ASSUME NEW b \in BOOLEAN, SetStop(b) PROVE Ok
  BY <1>12, <1>0 DEF SetStop
<1>13. CASE Tick
  BY <1>13, <1>0 DEF Tick, Ageing
<1>14. CASE UNCHANGED vars
  BY <1>14, <1>0 DEF vars
<1>15. QED
  BY <1>1, <1>2, <1>3, <1>4, <1>5, <1>6, <1>7, <1>8, <1>9, <1>10, <1>11,
     <1>12, <1>13, <1>14 DEF Next, Step

-------------------------------------------------------------------------------
(* The heart of the argument.  When a task takes a slot its key may live   *)
(* SlotTtl > RunLimit ticks; each tick costs the key one and the task one, *)
(* so the key is there until the task has used up RunLimit.  No other      *)
(* worker touches it: SET NX needs the key to be absent, a release needs   *)
(* the worker's own token.                                                 *)
LEMMA KeyAliveStep ==
    TypeOK /\ SlotWithinSnapshot /\ KeyAlive /\ [Next]_vars => KeyAlive'
<1> SUFFICES ASSUME TypeOK, SlotWithinSnapshot, KeyAlive, [Next]_vars,
                    NEW v \in Timed, pc'[v] \in Holding
             PROVE  /\ owner'[slot'[v]] = v
                    /\ ttl'[slot'[v]] + age'[v] > RunLimit
  BY DEF KeyAlive
<1> DEFINE Ok == /\ owner'[slot'[v]] = v
                 /\ ttl'[slot'[v]] + age'[v] > RunLimit
<1> USE DEF Holding
<1>0. /\ v \in Workers
      /\ v # None
      /\ pc \in [Workers -> Phases]
      /\ slot \in [Workers -> 0..SlotCap]
      /\ age \in [Workers -> 0..RunLimit]
      /\ owner \in [Slots -> Workers \cup {None}]
      /\ ttl \in [Slots -> 0..SlotTtl]
      /\ RunLimit \in Nat /\ SlotTtl \in Nat /\ RunLimit < SlotTtl
  BY SlotAssumption DEF TypeOK
<1>00. pc[v] \in Holding => /\ slot[v] \in Slots
                            /\ owner[slot[v]] = v
                            /\ ttl[slot[v]] + age[v] > RunLimit
  BY <1>0, SlotAssumption DEF SlotWithinSnapshot, KeyAlive, TypeOK, Slots
\* What keeps the task's own state and its key leaves the invariant alone.
<1>a. ASSUME pc[v] \in Holding, slot'[v] = slot[v], age'[v] = age[v],
             owner'[slot[v]] = owner[slot[v]], ttl'[slot[v]] = ttl[slot[v]]
      PROVE  Ok
  BY <1>a, <1>00
\* Another worker that ends its attempt does not disturb v; v itself would
\* not be holding.
<1>b. ASSUME NEW w \in Workers, GiveUp(w)
      PROVE  /\ w # v
             /\ pc[v] \in Holding
             /\ slot'[v] = slot[v]
             /\ age'[v] = age[v]
  BY <1>b, <1>0 DEF GiveUp
\* Storing a key needs an absent one.
<1>c. ASSUME NEW w \in Workers, NEW s \in Slots, SetKey(w, s),
             pc[v] \in Holding
      PROVE  owner'[slot[v]] = owner[slot[v]] /\ ttl'[slot[v]] = ttl[slot[v]]
  BY <1>c, <1>0, <1>00 DEF SetKey
<1>d. \A w \in Workers : probe[w] \in Slots
  BY DEF TypeOK
<1>1. ASSUME NEW w \in Workers, Enter(w) PROVE Ok
  BY <1>1, <1>0, <1>a DEF Enter, keys
<1>2. ASSUME NEW w \in Workers, Check(w) PROVE Ok
  BY <1>2, <1>0, <1>a, <1>b DEF Check, keys
<1>3. ASSUME NEW w \in Workers, Acquire(w) PROVE Ok
  <2>1. CASE w = v
    BY <1>3, <2>1, <1>0, <1>d DEF Acquire, SetKey
  <2>2. CASE w # v
    <3>1. pc[v] \in Holding /\ slot'[v] = slot[v] /\ age'[v] = age[v]
      BY <1>3, <2>2, <1>0 DEF Acquire
    <3>2. QED
      BY <1>3, <3>1, <1>a, <1>c, <1>d DEF Acquire
  <2>3. QED
    BY <2>1, <2>2
<1>4. ASSUME NEW w \in Workers, ProbeFails(w) PROVE Ok
  <2>1. pc[v] \in Holding /\ slot'[v] = slot[v] /\ age'[v] = age[v]
    BY <1>4, <1>0 DEF ProbeFails, NextProbe
  <2>2. QED
    BY <1>4, <2>1, <1>a, <1>c, <1>d DEF ProbeFails, keys
<1>5. ASSUME NEW w \in Workers, Wake(w) PROVE Ok
  BY <1>5, <1>0, <1>a, <1>b DEF Wake, keys
<1>6. ASSUME NEW w \in Workers, Finish(w) PROVE Ok
  BY <1>6, <1>0, <1>a DEF Finish, keys
<1>7. ASSUME NEW w \in Workers, Leave(w) PROVE Ok
  BY <1>7, <1>0, <1>a, <1>b DEF Leave, keys
<1>8. ASSUME NEW w \in Workers, Release(w) PROVE Ok
  <2>1. /\ w # v /\ pc[v] \in Holding
        /\ slot'[v] = slot[v] /\ age'[v] = age[v]
    BY <1>8, <1>b DEF Release
  <2>2. owner'[slot[v]] = owner[slot[v]] /\ ttl'[slot[v]] = ttl[slot[v]]
    BY <1>8, <2>1, <1>0, <1>00 DEF Release, keys
  <2>3. QED
    BY <2>1, <2>2, <1>a
<1>9. ASSUME NEW w \in Workers, Interrupt(w) PROVE Ok
  BY <1>9, <1>a, <1>b, <1>c, <1>d DEF Interrupt, keys
<1>10. ASSUME NEW w \in Workers, Kill(w) PROVE Ok
  BY <1>10, <1>a, <1>b DEF Kill, keys
<1>11. ASSUME NEW n \in Slots, SetLimit(n) PROVE Ok
  BY <1>11, <1>a DEF SetLimit, keys
<1>12. ASSUME NEW b \in BOOLEAN, SetStop(b) PROVE Ok
  BY <1>12, <1>a DEF SetStop, keys
<1>13. CASE Tick
  <2>1. pc[v] \in Holding /\ slot'[v] = slot[v]
    BY <1>13 DEF Tick, Ageing
  <2>2. age[v] < RunLimit /\ age'[v] = age[v] + 1
    BY <1>13, <2>1, <1>0 DEF Tick, Ageing, Older
  <2>3. age[v] \in Nat /\ ttl[slot[v]] \in Nat /\ ttl[slot[v]] > 1
    BY <2>1, <2>2, <1>0, <1>00
  <2>4. ttl'[slot[v]] = ttl[slot[v]] - 1 /\ owner'[slot[v]] = owner[slot[v]]
    BY <1>13, <2>1, <2>3, <1>00 DEF Tick, Expiry
  <2>5. QED
    BY <2>1, <2>2, <2>3, <2>4, <1>0, <1>00
<1>14. CASE UNCHANGED vars
  BY <1>14, <1>a DEF vars
<1>15. QED
  BY <1>1, <1>2, <1>3, <1>4, <1>5, <1>6, <1>7, <1>8, <1>9, <1>10, <1>11,
     <1>12, <1>13, <1>14 DEF Next, Step

THEOREM SlotInvariant == Spec => []SlotInv
<1>1. Init => SlotInv
  BY TypeInit, SlotAssumption DEF Init, SlotInv, SlotWithinSnapshot, KeyAlive, Holding
<1>2. SlotInv /\ [Next]_vars => SlotInv'
  BY TypeStep, SnapshotStep, KeyAliveStep DEF SlotInv
<1>3. QED
  BY <1>1, <1>2, PTL DEF Spec

-------------------------------------------------------------------------------
(* A task that comes to free its slot still owns it: the time to live of   *)
(* _jump_host_lock_context covers the whole time limit of run_backup_task. *)
THEOREM KeyOutlives == Spec => []KeyOutlivesTask
<1>1. SlotInv => KeyOutlivesTask
  BY DEF SlotInv, KeyAlive, KeyOutlivesTask
<1>2. QED
  BY <1>1, SlotInvariant, PTL

(* No two tasks are ever on the same slot: each would own its key.         *)
LEMMA AliveIsExclusive == SlotInv => ExclusiveUse
  BY DEF SlotInv, KeyAlive, ExclusiveUse, Running, Holding

THEOREM Exclusive == Spec => []ExclusiveUse
  BY AliveIsExclusive, SlotInvariant, PTL

(* At most n tasks are on a jump host while none was told of more than n   *)
(* slots: their slots are distinct members of 1..n.                        *)
THEOREM Overbooking == Spec => []NoOverbooking
<1>1. SlotInv => NoOverbooking
  <2> SUFFICES ASSUME SlotInv, NEW n \in Slots,
                      \A w \in Running : maxSlots[w] <= n
               PROVE  Cardinality(Running) <= n
    BY DEF NoOverbooking
  <2> DEFINE f == [w \in Running |-> slot[w]]
  <2>1. n \in Nat /\ n >= 1
    BY SlotAssumption DEF Slots
  <2>2. \A w \in Running : slot[w] \in 1..n
    <3> TAKE w \in Running
    <3>1. slot[w] \in 1..maxSlots[w] /\ maxSlots[w] \in Nat
      BY SlotAssumption
      DEF SlotInv, SlotWithinSnapshot, Running, Holding, TypeOK, Slots
    <3>2. QED
      BY <3>1, <2>1
  <2>3. f \in [Running -> 1..n]
    BY <2>2
  <2>4. \A v, w \in Running : f[v] = f[w] => v = w
    BY AliveIsExclusive DEF ExclusiveUse
  <2>5. f \in Injection(Running, 1..n)
    BY <2>3, <2>4 DEF Injection, IsInjective
  <2>6. IsFiniteSet(1..n) /\ Cardinality(1..n) = n
    BY <2>1, FS_Interval
  <2> HIDE DEF f
  <2>7. QED
    BY <2>5, <2>6, FS_Injection
<1>2. QED
  BY <1>1, SlotInvariant, PTL

-------------------------------------------------------------------------------
(* A stored key is removed by its time to live or by its own worker.       *)
THEOREM OwnerFrees == Spec => OnlyOwnerFrees
<1> DEFINE Freed(s, w) == ttl[s] <= 1 \/ (pc[w] = "release" /\ slot[w] = s)
<1>1. ASSUME TypeOK, [Next]_vars,
             NEW s \in Slots, NEW w \in Workers, owner[s] = w, owner'[s] # w
      PROVE  Freed(s, w)
  <2>0. w # None /\ owner[s] # None
    BY <1>1, SlotAssumption
  <2>1. ASSUME NEW v \in Workers, NEW q \in Slots, SetKey(v, q) PROVE FALSE
    BY <2>1, <2>0, <1>1 DEF SetKey, TypeOK
  <2>2. ASSUME UNCHANGED keys PROVE FALSE
    BY <2>2, <1>1 DEF keys
  <2>3. ASSUME NEW v \in Workers, Release(v) PROVE Freed(s, w)
    BY <2>3, <2>2, <1>1 DEF Release, TypeOK
  <2>4. ASSUME Tick PROVE Freed(s, w)
    <3>1. ttl[s] \in Nat
      BY <1>1, SlotAssumption DEF TypeOK
    <3>2. QED
      BY <3>1, <2>4, <1>1 DEF Tick, Expiry
  <2>5. \A v \in Workers : probe[v] \in Slots
    BY <1>1 DEF TypeOK
  <2>6. ASSUME NEW v \in Workers, Enter(v) \/ Step(v) \/ Interrupt(v) \/ Kill(v)
        PROVE  Freed(s, w)
    BY <2>6, <2>1, <2>2, <2>3, <2>5
    DEF Enter, Step, Check, Acquire, ProbeFails, Wake, Finish, Leave, Interrupt, Kill
  <2>7. QED
    BY <1>1, <2>2, <2>4, <2>6 DEF Next, SetLimit, SetStop, vars, keys
<1>2. TypeOK /\ [Next]_vars =>
        [\A s \in Slots, w \in Workers :
            owner[s] = w /\ owner'[s] # w => Freed(s, w)]_vars
  BY <1>1
<1>3. QED
  BY <1>2, TypeCorrect, PTL DEF Spec, OnlyOwnerFrees

-------------------------------------------------------------------------------
(* The protocol implements the pool: acquiring a free key is Grab, leaving *)
(* the body in whatever way is Drop, everything else is a stutter.         *)
THEOREM Implementation == Spec => ImplementsPool
<1> DEFINE bar == {<<w, slot[w]>> : w \in Running}
<1>1. Init => Pool!Init
  <2>1. Init => Running = {}
    BY SlotAssumption DEF Init, Running
  <2>2. QED
    BY <2>1 DEF Pool!Init
<1>2. SlotInv /\ [Next]_vars => [Pool!Next]_bar
  <2> SUFFICES ASSUME SlotInv, [Next]_vars PROVE [Pool!Next]_bar
    OBVIOUS
  <2>0. /\ TypeOK /\ SlotWithinSnapshot /\ KeyAlive
        /\ pc \in [Workers -> Phases]
        /\ slot \in [Workers -> 0..SlotCap]
        /\ Timed \subseteq Workers
    BY SlotAssumption DEF SlotInv, TypeOK
  <2>1. \A w \in Running : slot[w] \in Slots /\ owner[slot[w]] = w /\ w # None
    BY <2>0, SlotAssumption
    DEF Running, Holding, SlotWithinSnapshot, KeyAlive, TypeOK, Slots
  \* One worker's step that does not start a body ...
  <2>2. ASSUME NEW w \in Workers, \A v \in Workers \ {w} :
                    pc'[v] = pc[v] /\ slot'[v] = slot[v],
               pc'[w] # "running"
        PROVE  [Pool!Next]_bar
    <3>1. CASE w \in Running
      <4>1. Running' = Running \ {w}
        BY <2>2, <2>0, <3>1 DEF Running
      <4>2. \A v \in Running' : slot'[v] = slot[v] /\ v # w
        BY <4>1, <2>2, <2>0 DEF Running
      <4>3. \A v \in Running : slot[v] = slot[w] => v = w
        BY <3>1, AliveIsExclusive DEF ExclusiveUse
      <4>4. bar' = bar \ {<<w, slot[w]>>}
        BY <4>1, <4>2, <4>3
      <4>5. <<w, slot[w]>> \in bar /\ slot[w] \in Slots /\ w \in Timed
        BY <3>1, <2>1 DEF Running
      <4>6. QED
        BY <4>4, <4>5 DEF Pool!Next, Pool!Drop
    <3>2. CASE w \notin Running
      <4>1. Running' = Running
        BY <2>2, <2>0, <3>2 DEF Running
      <4>2. \A v \in Running : slot'[v] = slot[v]
        BY <3>2, <2>2, <2>0 DEF Running
      <4>3. QED
        BY <4>1, <4>2
    <3>3. QED
      BY <3>1, <3>2
  \* ... and one that does.
  <2>3. ASSUME NEW w \in Workers, Acquire(w) PROVE [Pool!Next]_bar
    <3>1. CASE w \in Timed
      <4>1. Running' = Running \cup {w} /\ w \notin Running
        BY <2>3, <2>0, <3>1 DEF Acquire, Running
      <4>2. /\ slot'[w] = probe[w]
            /\ \A v \in Running : slot'[v] = slot[v]
        BY <2>3, <2>0, <4>1 DEF Acquire, Running
      <4>3. probe[w] \in Slots /\ owner[probe[w]] = None
        BY <2>3, <2>0 DEF Acquire, SetKey, TypeOK
      <4>4. \A v \in Running : v # w /\ slot[v] # probe[w]
        BY <4>1, <4>3, <2>1
      <4>5. bar' = bar \cup {<<w, probe[w]>>}
        BY <4>1, <4>2
      <4>6. \A p \in bar : p[1] # w /\ p[2] # probe[w]
        BY <4>4
      <4>7. QED
        BY <4>3, <4>5, <4>6, <3>1 DEF Pool!Next, Pool!Grab
    <3>2. CASE w \notin Timed
      <4>1. Running' = Running /\ \A v \in Running : slot'[v] = slot[v]
        BY <2>3, <2>0, <3>2 DEF Acquire, Running
      <4>2. QED
        BY <4>1
    <3>3. QED
      BY <3>1, <3>2
  <2>4. ASSUME NEW w \in Workers, GiveUp(w) PROVE [Pool!Next]_bar
    <3>1. pc'[w] # "running" /\ \A v \in Workers \ {w} :
             pc'[v] = pc[v] /\ slot'[v] = slot[v]
      BY <2>4, <2>0 DEF GiveUp
    <3>2. QED
      BY <3>1, <2>2
  <2>5. ASSUME NEW w \in Workers,
               Enter(w) \/ Check(w) \/ ProbeFails(w) \/ Wake(w) \/ Finish(w)
                   \/ Leave(w) \/ Release(w) \/ Interrupt(w) \/ Kill(w)
        PROVE  [Pool!Next]_bar
    <3>1. CASE GiveUp(w)
      BY <3>1, <2>4
    <3>2. CASE ~GiveUp(w)
      <4>1. pc'[w] # "running" /\ \A v \in Workers \ {w} :
               pc'[v] = pc[v] /\ slot'[v] = slot[v]
        BY <2>5, <2>0, <3>2
        DEF Enter, Check, ProbeFails, NextProbe, Wake, Finish, Leave, Release,
            Interrupt, Kill
      <4>2. QED
        BY <4>1, <2>2
    <3>3. QED
      BY <3>1, <3>2
  <2>6. ASSUME pc' = pc, slot' = slot PROVE [Pool!Next]_bar
    BY <2>6 DEF Running
  <2>7. QED
    BY <2>3, <2>5, <2>6
    DEF Next, Step, SetLimit, SetStop, Tick, Ageing, vars
<1>3. QED
  BY <1>1, <1>2, SlotInvariant, PTL DEF Spec, ImplementsPool, Pool!Spec
===============================================================================
