-------------------------- MODULE JumpHostHealth_proofs ------------------------
(* The health record of a jump host, for any number of backups and settings.  *)
EXTENDS JumpHostHealth, TLAPS

-------------------------------------------------------------------------------
(* The numbers.                                                            *)

LEMMA Limits ==
    /\ AllowedMax \in 1..16 /\ Start \in 1..16 /\ Most \in 1..16
    /\ AllowedMax <= Most /\ Start <= Most
    /\ High(AllowedMax, Start - 1) \in 1..Most /\ AllowedMax <= High(AllowedMax, Start - 1)
    /\ Most - 1 <= High(AllowedMax, Start - 1)
    /\ High(CoolTime, SevereCoolTime) \in Nat
    /\ CoolTime \in 0..High(CoolTime, SevereCoolTime)
    /\ SevereCoolTime \in 0..High(CoolTime, SevereCoolTime)
  BY HealthAssumption DEF AllowedMax, Start, Most, High, Low

LEMMA CappedTyped == \A n \in Nat : Capped(n) \in 0..CountCap
  BY HealthAssumption DEF Capped, Low

LEMMA DownTyped == \A n \in Nat : Down(n) \in Nat /\ Down(n) <= n
  BY DEF Down

LEMMA NoCountsTyped == NoCounts \in Counts /\ Empty \in [Ages -> Counts]
  BY HealthAssumption DEF NoCounts, Counts, Empty

\* A streak leaves a number of slots the jump host may have, whatever was read: one more
\* within the boost, or one less, which from an override may still be beyond it.
LEMMA NextSlotsTyped ==
    ASSUME TypeOK, NEW t \in Tasks
    PROVE  NextSlots(t) \in 1..High(AllowedMax, Start - 1)
<1> DEFINE slots_ == known[t].slots
           most == High(AllowedMax, Start - 1)
<1>1. slots_ \in 1..Most
  BY DEF TypeOK
<1>2. most \in Nat /\ AllowedMax \in 1..most /\ Most \in 1..16 /\ Most - 1 <= most
  BY Limits
<1> HIDE DEF slots_, most
<1>3. Low(AllowedMax, slots_ + 1) \in 1..most
  BY <1>1, <1>2 DEF Low
<1>4. High(1, slots_ - 1) \in 1..most /\ High(1, slots_ - 2) \in 1..most
  BY <1>1, <1>2 DEF High
<1> QED
  BY <1>2, <1>3, <1>4 DEF NextSlots, slots_, most

\* How many slots a batch gets: never none, and never more than the jump host has,
\* however many devices and however long they take
\* (_resolve_window_target_jump_host_slots).
THEOREM WindowTargetBounds ==
    ASSUME NEW current \in Nat \ {0}, NEW devices \in Nat, NEW average \in Nat,
           NEW window_ \in Nat \ {0}
    PROVE  WindowTarget(current, devices, average, window_) \in 1..current
<1> DEFINE quotient == (devices * average + window_ - 1) \div window_
           target == High(1, Low(16, quotient))
           least == High(1, Low(current, MinWindowSlots))
<1>1. quotient \in Int
  <2>1. devices * average \in Nat
    OBVIOUS
  <2>2. devices * average + window_ - 1 \in Int
    BY <2>1
  <2> QED
    BY <2>2
<1> HIDE DEF quotient
<1>2. least \in 1..current
  BY HealthAssumption DEF High, Low
<1>3. target \in Int
  BY <1>1 DEF High, Low
<1> HIDE DEF target, least
<1>4. High(least, Low(current, target)) \in 1..current
  BY <1>2, <1>3 DEF High, Low
<1> QED
  BY <1>4 DEF WindowTarget, target, least, quotient

-------------------------------------------------------------------------------
(* Types.                                                                  *)

LEMMA GoStep ==
    ASSUME at \in [Tasks -> Places], NEW t \in Tasks, NEW place \in Places, Go(t, place)
    PROVE  at' \in [Tasks -> Places]
  BY DEF Go

LEMMA KnownStep ==
    ASSUME TypeOK, NEW t \in Tasks, NEW k \in [slots: 1..Most, streak: 0..CountCap],
           known' = [known EXCEPT ![t] = k]
    PROVE  known' \in [Tasks -> [slots: 1..Most, streak: 0..CountCap]]
<1>1. known \in [Tasks -> [slots: 1..Most, streak: 0..CountCap]]
  BY DEF TypeOK
<1> QED
  BY <1>1

\* The breaker: the window that is read, pruned and judged.
LEMMA BreakerStep ==
    ASSUME TypeOK, NEW t \in Tasks,
           Look(t) \/ ReadWindow(t) \/ Prune(t) \/ Judge(t) \/ Run(t) \/ Record(t)
    PROVE  TypeOK'
<1> USE DEF TypeOK, record, local
<1>1. at' \in [Tasks -> Places]
  BY GoStep DEF Places, Look, ReadWindow, Prune, Judge, Run, Record
<1>2. CASE Look(t)
  BY <1>1, <1>2 DEF Look
<1>3. CASE ReadWindow(t)
  <2>1. window' \in [Tasks -> [Ages -> Counts]]
    BY <1>3, NoCountsTyped DEF ReadWindow
  <2> QED
    BY <1>1, <1>3, <2>1 DEF ReadWindow
<1>4. CASE Prune(t)
  BY <1>1, <1>4 DEF Prune
<1>5. CASE Judge(t)
  <2>1. window' \in [Tasks -> [Ages -> Counts]] /\ open' \in 0..OpenTime
    BY <1>5, NoCountsTyped, HealthAssumption DEF Judge
  <2> QED
    BY <1>1, <1>5, <2>1 DEF Judge
<1>6. CASE Run(t)
  BY <1>1, <1>6 DEF Run
<1>7. CASE Record(t)
  <2>1. outcomes' \in [Ages -> Counts]
    <3>1. \A n \in 0..CountCap : Capped(n + 1) \in 0..CountCap
      BY CappedTyped
    <3>0. 0 \in Ages
      BY HealthAssumption DEF Ages
    <3>2. outcomes[0] \in [good: 0..CountCap, bad: 0..CountCap]
      BY <3>0 DEF Counts
    <3>3. [outcomes EXCEPT ![0].good = Capped(@ + 1)] \in [Ages -> Counts]
      BY <3>1, <3>2 DEF Counts
    <3>4. [outcomes EXCEPT ![0].bad = Capped(@ + 1)] \in [Ages -> Counts]
      BY <3>1, <3>2 DEF Counts
    <3> QED
      BY <1>7, <3>3, <3>4 DEF Record
  <2>2. verdict' \in [Tasks -> Ends]
    BY <1>7 DEF Record, Ends
  <2> QED
    BY <1>1, <1>7, <2>1, <2>2 DEF Record
<1> QED
  BY <1>2, <1>3, <1>4, <1>5, <1>6, <1>7

\* The number of slots, which adapts to how the backups end.
LEMMA AdaptiveStep ==
    ASSUME TypeOK, NEW t \in Tasks,
           ReadSlots(t) \/ CheckCool(t) \/ Count(t) \/ Change(t) \/ Settle(t)
    PROVE  TypeOK'
<1> USE DEF record, local
<1>1. TypeOK /\ known[t] \in [slots: 1..Most, streak: 0..CountCap]
  BY DEF TypeOK
<1>2. at' \in [Tasks -> Places]
  BY <1>1, GoStep DEF TypeOK, Places, ReadSlots, CheckCool, Count, Change, Settle
<1>3. Unread \in [slots: 1..Most, streak: 0..CountCap]
  BY Limits, HealthAssumption DEF Unread
<1>4. CASE ReadSlots(t)
  <2>1. Current \in 1..Most
    BY <1>1, Limits DEF Current, TypeOK
  <2>2. known' = [known EXCEPT ![t] = [known[t] EXCEPT !.slots = Current]]
    BY <1>1, <1>4 DEF ReadSlots, TypeOK
  <2>3. [known[t] EXCEPT !.slots = Current] \in [slots: 1..Most, streak: 0..CountCap]
    BY <1>1, <2>1
  <2> QED
    BY <1>2, <1>4, <2>2, <2>3, KnownStep DEF ReadSlots, TypeOK
<1>5. CASE CheckCool(t)
  <2>1. known' = known \/ known' = [known EXCEPT ![t] = Unread]
    BY <1>5 DEF CheckCool
  <2>2. known' \in [Tasks -> [slots: 1..Most, streak: 0..CountCap]]
    BY <1>3, <2>1, KnownStep DEF TypeOK
  <2> QED
    BY <1>2, <1>5, <2>2 DEF CheckCool, TypeOK
<1>6. CASE Count(t)
  <2> DEFINE streak == Capped((IF Won(t) THEN wins ELSE fails) + 1)
  <2>1. streak \in 0..CountCap
    BY <1>1, CappedTyped DEF TypeOK
  <2>2. wins' \in 0..CountCap /\ fails' \in 0..CountCap
    BY <1>6, <2>1, HealthAssumption DEF Count
  <2>3. [known[t] EXCEPT !.streak = streak] \in [slots: 1..Most, streak: 0..CountCap]
    BY <1>1, <2>1
  <2>4. \/ known' = [known EXCEPT ![t] = [known[t] EXCEPT !.streak = streak]]
        \/ known' = [known EXCEPT ![t] = Unread]
    BY <1>1, <1>6 DEF Count, TypeOK
  <2>5. known' \in [Tasks -> [slots: 1..Most, streak: 0..CountCap]]
    BY <1>3, <2>3, <2>4, KnownStep
  <2> QED
    BY <1>2, <1>6, <2>2, <2>5 DEF Count, TypeOK
<1>7. CASE Change(t)
  <2>1. slots' \in 0..High(AllowedMax, Start - 1)
    BY <1>1, <1>7, NextSlotsTyped, Limits DEF Change
  <2> QED
    BY <1>2, <1>7, <2>1 DEF Change, TypeOK
<1>8. CASE Settle(t)
  <2>1. cool' \in 0..High(CoolTime, SevereCoolTime)
    BY <1>8, Limits DEF Settle
  <2>2. wins' \in 0..CountCap /\ fails' \in 0..CountCap
    BY <1>1, <1>8, HealthAssumption DEF Settle, TypeOK
  <2>3. known' \in [Tasks -> [slots: 1..Most, streak: 0..CountCap]]
    BY <1>3, <1>8, KnownStep DEF Settle
  <2> QED
    BY <1>2, <1>8, <2>1, <2>2, <2>3 DEF Settle, TypeOK
<1> QED
  BY <1>4, <1>5, <1>6, <1>7, <1>8

\* The start of a batch, a death and the passing of time.
LEMMA OtherStep ==
    ASSUME TypeOK, Reset \/ Tick \/ UNCHANGED vars \/ \E t \in Tasks : Kill(t)
    PROVE  TypeOK'
<1> USE DEF record, local
<1>1. CASE Reset
  <2>1. outcomes' \in [Ages -> Counts] /\ open' \in 0..OpenTime
    BY <1>1, NoCountsTyped, HealthAssumption
       DEF TypeOK, Reset, ResetOpen, ResetOutcomes, ResetAdaptive
  <2>2. wins' \in 0..CountCap /\ fails' \in 0..CountCap /\ cool' \in 0..High(CoolTime, SevereCoolTime)
    BY <1>1, Limits, HealthAssumption
       DEF TypeOK, Reset, ResetOpen, ResetOutcomes, ResetAdaptive
  <2>3. UNCHANGED <<at, verdict, known, window, slots>> /\ reset' \in {"idle", "outcomes", "adaptive"}
    BY <1>1 DEF Reset, ResetOpen, ResetOutcomes, ResetAdaptive
  <2> QED
    BY <2>1, <2>2, <2>3 DEF TypeOK
<1>2. CASE Tick
  <2>1. cool' \in 0..High(CoolTime, SevereCoolTime) /\ open' \in 0..OpenTime
    BY <1>2, DownTyped, Limits, HealthAssumption DEF Tick, TypeOK
  <2>2. \A c, d \in Counts : Merge(c, d) \in Counts
    BY CappedTyped, HealthAssumption DEF Merge, Counts
  <2>3. \A a \in Ages : a # 0 => a - 1 \in Ages
    BY HealthAssumption DEF Ages
  <2>4. outcomes' \in [Ages -> Counts]
    BY <1>2, <2>2, <2>3, NoCountsTyped DEF Tick, TypeOK
  <2>5. wins' \in 0..CountCap /\ fails' \in 0..CountCap
    BY <1>2, HealthAssumption DEF Tick, TypeOK
  <2> QED
    BY <1>2, <2>1, <2>4, <2>5 DEF Tick, TypeOK
<1>3. ASSUME NEW t \in Tasks, Kill(t) PROVE TypeOK'
  <2>1. at' \in [Tasks -> Places]
    BY <1>3, GoStep DEF Kill, Places, TypeOK
  <2>2. Unread \in [slots: 1..Most, streak: 0..CountCap]
    BY Limits, HealthAssumption DEF Unread
  <2>3. known' \in [Tasks -> [slots: 1..Most, streak: 0..CountCap]]
    BY <1>3, <2>2, KnownStep DEF Kill
  <2>4. window' \in [Tasks -> [Ages -> Counts]] /\ verdict' \in [Tasks -> Ends]
    BY <1>3, NoCountsTyped DEF Kill, Ends, TypeOK
  <2> QED
    BY <1>3, <2>1, <2>3, <2>4 DEF Kill, TypeOK
<1>4. CASE UNCHANGED vars
  BY <1>4 DEF vars, TypeOK
<1> QED
  BY <1>1, <1>2, <1>3, <1>4

LEMMA HealthInit == Init => TypeOK
  BY NoCountsTyped, Limits, HealthAssumption
     DEF Init, TypeOK, Places, Ends, Unread

LEMMA HealthStep == TypeOK /\ [Next]_vars => TypeOK'
<1> SUFFICES ASSUME TypeOK, [Next]_vars PROVE TypeOK'
  OBVIOUS
<1>1. ASSUME NEW t \in Tasks, Step(t) PROVE TypeOK'
  BY <1>1, BreakerStep, AdaptiveStep DEF Step
<1> QED
  BY <1>1, OtherStep DEF Next

\* However the backups of a jump host interleave, its number of slots stays between one
\* and the larger of what the boost allows and what its override gives it to start
\* with: no success adds a slot to an override that is beyond the boost, and what a
\* backup read before others changed it is such a number too.  Every counter and key of
\* the record stays within its limit (_register_jump_host_adaptive_feedback,
\* _check_jump_host_circuit_breaker).
THEOREM HealthTypes == Spec => []TypeOK
  BY HealthInit, HealthStep, PTL DEF Spec
===============================================================================
