---------------------------- MODULE JumpHostHealth -----------------------------
(***************************************************************************)
(* The health record of one shared jump host, in Redis: how many backups   *)
(* may use it at once (adapted to its successes and failures) and the      *)
(* circuit breaker that keeps backups away after too many failures; see    *)
(* app/tasks/backups.py.  Every step is one Redis command, so backups that *)
(* end together interleave between reading, deciding and writing.          *)
(***************************************************************************)
EXTENDS Naturals, Functions

CONSTANTS
    Tasks,          \* backups that go through the jump host
    BaseSlots,      \* JUMP_HOST_MAX_SLOTS
    Override,       \* JUMP_HOST_SLOTS_OVERRIDES for this jump host, 0 if none
    MaxBoost,       \* JUMP_HOST_ADAPTIVE_MAX_BOOST
    SuccessStreak,  \* successes in a row that add a slot
    FailStreak,     \* saturations in a row that take one
    SevereStreak,   \* severe ones in a row that are enough
    DropToOne,      \* whether a severe streak leaves a single slot
    CoolTime,       \* ticks without change after a change
    SevereCoolTime, \* the same after a severe streak
    MinWindowSlots, \* JUMP_HOST_WINDOW_MIN_SLOTS
    Window,         \* ticks an outcome counts for the breaker
    MinSamples,     \* outcomes the breaker needs to decide
    Threshold,      \* percentage of failures that opens it
    OpenTime,       \* ticks it stays open
    CountCap        \* bound of the model: no counter is told beyond it

ASSUME HealthAssumption ==
    /\ {BaseSlots, SuccessStreak, FailStreak, SevereStreak} \subseteq Nat \ {0}
    /\ {Window, MinSamples, OpenTime, MinWindowSlots} \subseteq Nat \ {0}
    /\ {MaxBoost, CoolTime, SevereCoolTime, Threshold} \subseteq Nat
    /\ BaseSlots <= 16 /\ Override \in 0..16
    /\ CountCap \in Nat /\ CountCap >= SuccessStreak /\ CountCap >= FailStreak
    /\ DropToOne \in BOOLEAN

VARIABLES
    at,        \* where each backup is
    verdict,   \* how its attempt ended
    known,     \* what it read of them: slots, streak
    window,    \* the outcomes it read that still count
    slots,     \* the adapted number of slots, 0 while there is none
    wins,      \* successes in a row
    fails,     \* saturations in a row
    cool,      \* ticks the cooldown key lives
    outcomes,  \* outcomes in the breaker's list, by their age
    open,      \* ticks the breaker stays open
    reset      \* where the start of a batch is in clearing the record

vars == <<at, verdict, known, window, slots, wins, fails, cool, outcomes, open, reset>>
record == <<slots, wins, fails, cool, outcomes, open>>
local == <<verdict, known, window>>

Low(a, b) == IF a < b THEN a ELSE b
High(a, b) == IF a > b THEN a ELSE b
Capped(n) == Low(n, CountCap)

\* The boost may not go beyond the base; an override may start far above both.
AllowedMax == High(1, Low(16, BaseSlots + MaxBoost))
Start == IF Override > 0 THEN Override ELSE Low(16, BaseSlots)
Most == High(AllowedMax, Start)
\* Variant: the stored number, stored or not.
CurrentStored == slots

Current == IF slots > 0 THEN slots ELSE Start

Ages == 0..Window      \* the last one: too old to count
Counts == [good: 0..CountCap, bad: 0..CountCap]
NoCounts == [good |-> 0, bad |-> 0]
Empty == [a \in Ages |-> NoCounts]
\* How an attempt ends: a banner that was late or a session refused before its
\* shell, both severe; a session cut off; a target that does not answer behind a
\* working jump host; a failure of the device itself.
Ends == {"success", "banner", "refused", "cut", "target", "device"}
Saturated == {"banner", "refused", "cut"}
SevereEnds == {"banner", "refused"}
Credited == {"success", "banner"}
Blamed == {"refused", "cut", "target"}
Unread == [slots |-> 1, streak |-> 0]
Places == {"idle", "window", "prune", "judge", "run", "slots", "cool", "count",
           "change", "settle", "record"}

TypeOK ==
    /\ at \in [Tasks -> Places]
    /\ verdict \in [Tasks -> Ends]
    /\ known \in [Tasks -> [slots: 1..Most, streak: 0..CountCap]]
    /\ window \in [Tasks -> [Ages -> Counts]]
    /\ slots \in 0..High(AllowedMax, Start - 1)
    /\ wins \in 0..CountCap /\ fails \in 0..CountCap
    /\ cool \in 0..High(CoolTime, SevereCoolTime)
    /\ outcomes \in [Ages -> Counts]
    /\ open \in 0..OpenTime
    /\ reset \in {"idle", "outcomes", "adaptive"}

Init ==
    /\ at = [t \in Tasks |-> "idle"]
    /\ verdict = [t \in Tasks |-> "device"]
    /\ known = [t \in Tasks |-> Unread]
    /\ window = [t \in Tasks |-> Empty]
    /\ slots = 0 /\ wins = 0 /\ fails = 0 /\ cool = 0
    /\ outcomes = Empty /\ open = 0 /\ reset = "idle"

Go(t, place) == at' = [at EXCEPT ![t] = place]

-------------------------------------------------------------------------------
(* The circuit breaker.                                                    *)

Fresh(w, kind) == FoldFunctionOnSet(LAMBDA c, n: c[kind] + n, 0, w, 0..(Window - 1))
Stale(w) == w[Window] # NoCounts
Tripped(w) ==
    LET total == Fresh(w, "good") + Fresh(w, "bad") IN
    /\ total >= MinSamples
    /\ (Fresh(w, "bad") * 100) \div total >= Threshold

\* Variant: a refusal counts as one more failure of the jump host.
LookAndBlame(t) ==
    /\ at[t] = "idle"
    /\ IF open > 0
       THEN /\ outcomes' = [outcomes EXCEPT ![0].bad = Capped(@ + 1)]
            /\ UNCHANGED at
       ELSE Go(t, "window") /\ UNCHANGED outcomes
    /\ UNCHANGED <<local, slots, wins, fails, cool, open, reset>>

\* The open key is asked first; an open breaker refuses the backup, which
\* records nothing.
Look(t) ==
    /\ at[t] = "idle"
    /\ IF open > 0 THEN UNCHANGED at ELSE Go(t, "window")
    /\ UNCHANGED <<local, record, reset>>

ReadWindow(t) ==
    /\ at[t] = "window"
    /\ window' = [window EXCEPT ![t] = [outcomes EXCEPT ![Window] = NoCounts]]
    /\ Go(t, IF Stale(outcomes) THEN "prune" ELSE "judge")
    /\ UNCHANGED <<verdict, known, record, reset>>

\* DELETE and RPUSH of the entries that still count, in one transaction: what
\* others appended since the read is lost.
Prune(t) ==
    /\ at[t] = "prune"
    /\ outcomes' = window[t]
    /\ Go(t, "judge")
    /\ UNCHANGED <<local, slots, wins, fails, cool, open, reset>>

Judge(t) ==
    /\ at[t] = "judge"
    /\ IF Tripped(window[t])
       THEN open' = OpenTime /\ Go(t, "idle")
       ELSE Go(t, "run") /\ UNCHANGED open
    /\ window' = [window EXCEPT ![t] = Empty]
    /\ UNCHANGED <<verdict, known, slots, wins, fails, cool, outcomes, reset>>

\* The backup runs behind the jump host and ends one way or another.
Run(t) ==
    /\ at[t] = "run"
    /\ \E e \in Ends : verdict' = [verdict EXCEPT ![t] = e]
    /\ Go(t, "slots")
    /\ UNCHANGED <<known, window, record, reset>>

\* Last of all, the outcome enters the breaker's list.  A banner that was late
\* counts as a success, a failure of the device itself not at all.
Record(t) ==
    /\ at[t] = "record"
    /\ outcomes' = CASE verdict[t] \in Credited -> [outcomes EXCEPT ![0].good = Capped(@ + 1)]
                     [] verdict[t] \in Blamed -> [outcomes EXCEPT ![0].bad = Capped(@ + 1)]
                     [] OTHER -> outcomes
    /\ Go(t, "idle")
    /\ verdict' = [verdict EXCEPT ![t] = "device"]
    /\ UNCHANGED <<known, window, slots, wins, fails, cool, open, reset>>

-------------------------------------------------------------------------------
(* The adaptive number of slots, between the end of the attempt and Record. *)

ReadSlots(t) ==
    /\ at[t] = "slots"
    /\ known' = [known EXCEPT ![t].slots = Current]
    /\ Go(t, "cool")
    /\ UNCHANGED <<verdict, window, record, reset>>

Won(t) == verdict[t] = "success"
Matters(t) == Won(t) \/ verdict[t] \in Saturated

CheckCool(t) ==
    /\ at[t] = "cool"
    /\ IF cool = 0 /\ Matters(t)
       THEN Go(t, "count") /\ UNCHANGED known
       ELSE Go(t, "record") /\ known' = [known EXCEPT ![t] = Unread]
    /\ UNCHANGED <<verdict, window, record, reset>>

\* INCR of the own streak, then DELETE of the opposite one; with the number of
\* slots read before, the streak decides.
Severe(t, streak) == verdict[t] \in SevereEnds /\ streak >= SevereStreak
More(t, streak) == Won(t) /\ streak >= SuccessStreak /\ known[t].slots < AllowedMax
Fewer(t, streak) == ~Won(t) /\ known[t].slots > 1 /\ (streak >= FailStreak \/ Severe(t, streak))

Count(t) ==
    LET streak == Capped((IF Won(t) THEN wins ELSE fails) + 1) IN
    /\ at[t] = "count"
    /\ wins' = IF Won(t) THEN streak ELSE 0
    /\ fails' = IF Won(t) THEN 0 ELSE streak
    /\ IF More(t, streak) \/ Fewer(t, streak)
       THEN known' = [known EXCEPT ![t].streak = streak] /\ Go(t, "change")
       ELSE known' = [known EXCEPT ![t] = Unread] /\ Go(t, "record")
    /\ UNCHANGED <<verdict, window, slots, cool, outcomes, open, reset>>

NextSlots(t) ==
    IF Won(t) THEN Low(AllowedMax, known[t].slots + 1)
    ELSE IF ~Severe(t, known[t].streak) THEN High(1, known[t].slots - 1)
    ELSE IF DropToOne THEN 1 ELSE High(1, known[t].slots - 2)

Change(t) ==
    /\ at[t] = "change"
    /\ slots' = NextSlots(t)
    /\ Go(t, "settle")
    /\ UNCHANGED <<local, wins, fails, cool, outcomes, open, reset>>

\* The cooldown key, then the own streak.
Settle(t) ==
    /\ at[t] = "settle"
    /\ cool' = IF Severe(t, known[t].streak) THEN SevereCoolTime ELSE CoolTime
    /\ wins' = (IF Won(t) THEN 0 ELSE wins)
    /\ fails' = (IF Won(t) THEN fails ELSE 0)
    /\ Go(t, "record")
    /\ known' = [known EXCEPT ![t] = Unread]
    /\ UNCHANGED <<verdict, window, slots, outcomes, open, reset>>

-------------------------------------------------------------------------------
(* The start of a batch, the death of a worker, and time.                  *)

ResetOpen ==
    /\ reset = "idle" /\ reset' = "outcomes"
    /\ open' = 0
    /\ UNCHANGED <<at, local, slots, wins, fails, cool, outcomes>>

ResetOutcomes ==
    /\ reset = "outcomes" /\ reset' = "adaptive"
    /\ outcomes' = Empty
    /\ UNCHANGED <<at, local, slots, wins, fails, cool, open>>

\* Deletes what matches backup_center:jump_host_adaptive:*, with the colon: the
\* hash of the slots does not.
ResetAdaptive ==
    /\ reset = "adaptive" /\ reset' = "idle"
    /\ wins' = 0 /\ fails' = 0 /\ cool' = 0
    /\ UNCHANGED <<at, local, slots, outcomes, open>>

Kill(t) ==
    /\ at[t] # "idle"
    /\ Go(t, "idle")
    /\ verdict' = [verdict EXCEPT ![t] = "device"]
    /\ known' = [known EXCEPT ![t] = Unread]
    /\ window' = [window EXCEPT ![t] = Empty]
    /\ UNCHANGED <<record, reset>>

Down(n) == IF n = 0 THEN 0 ELSE n - 1
Merge(c, d) == [good |-> Capped(c.good + d.good), bad |-> Capped(c.bad + d.bad)]

\* Keys lose life, outcomes grow old, a streak nobody adds to may expire.
Tick ==
    /\ cool' = Down(cool) /\ open' = Down(open)
    /\ outcomes' = [a \in Ages |-> IF a = 0 THEN NoCounts
                                   ELSE IF a < Window THEN outcomes[a - 1]
                                   ELSE Merge(outcomes[a - 1], outcomes[a])]
    /\ wins' \in {wins, 0} /\ fails' \in {fails, 0}
    /\ UNCHANGED <<at, local, slots, reset>>

Step(t) ==
    \/ Look(t) \/ ReadWindow(t) \/ Prune(t) \/ Judge(t) \/ Run(t)
    \/ ReadSlots(t) \/ CheckCool(t) \/ Count(t) \/ Change(t) \/ Settle(t)
    \/ Record(t)

Reset == ResetOpen \/ ResetOutcomes \/ ResetAdaptive
Next == (\E t \in Tasks : Step(t) \/ Kill(t)) \/ Reset \/ Tick

Fairness == WF_vars(Tick) /\ \A t \in Tasks : WF_vars(Step(t))
Spec == Init /\ [][Next]_vars
FairSpec == Spec /\ Fairness

-------------------------------------------------------------------------------
(* _resolve_window_target_jump_host_slots: how many slots a batch of devices *)
(* is given, so that it takes about one window.                            *)

WindowTarget(current, devices, average, window_) ==
    LET target == High(1, Low(16, (devices * average + window_ - 1) \div window_))
        least == High(1, Low(current, MinWindowSlots))
    IN IF current <= 1 \/ devices = 0 \/ average = 0 THEN current
       ELSE High(least, Low(current, target))

-------------------------------------------------------------------------------
(* Properties.                                                             *)

\* The breaker never locks the jump host for good: when workers no longer die,
\* backups keep asking and time passes, again and again one of them is let through.
\* Refused backups leave no trace in the window that keeps the breaker open
\* (_check_jump_host_circuit_breaker).
BreakerReleases ==
    <>[][(\E t \in Tasks : Step(t)) \/ Reset \/ Tick]_vars => []<>(\E t \in Tasks : at[t] = "run")
===============================================================================
