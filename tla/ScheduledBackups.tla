---------------------------- MODULE ScheduledBackups ----------------------------
(***************************************************************************)
(* The daily backup of one client: run_scheduled_backups, which beat sends *)
(* every 300 s, the pages that move the schedule, and the button that      *)
(* stops everything.  A run reads the schedules, sends the tasks, and only *)
(* then commits the next dates; a user may commit other ones in between.   *)
(***************************************************************************)
EXTENDS Integers

CONSTANTS
    Devices,
    Runs,       \* runs of the scheduler that may overlap
    Jump,       \* devices behind a jump host, whose tasks go to jump_queue
    Excluded,   \* devices of the types left out of mass backups
    Day,        \* ticks of a day
    StopLife    \* ticks the global stop lasts

VARIABLES
    clock,      \* time of day
    row,        \* the active schedule of each device, if it has one
    device,     \* in the routine, out of it (backup_scheduled), or switched off
    queued,     \* devices with a backup task that waits for a worker
    run,        \* what each run of the scheduler has read and sent
    stop        \* ticks left of force_stop_backups

vars == <<clock, row, device, queued, run, stop>>

Times == 0..(Day - 1)
NoRow == [none |-> "no row"]
Row == [time: Times, left: 0..Day]
Idle == [at |-> "idle"]

TypeOK ==
    /\ clock \in Times
    /\ row \in [Devices -> Row \cup {NoRow}]
    /\ device \in [Devices -> {"in", "out", "off"}]
    /\ queued \subseteq Devices
    /\ \A r \in Runs : \/ run[r] = Idle
                       \/ /\ run[r].at \in {"read", "sent"} /\ run[r].due \in BOOLEAN
                          /\ run[r].read \subseteq Devices /\ run[r].new \subseteq Devices
                          /\ run[r].time \in Times /\ run[r].left \in 0..Day
                          /\ run[r].same \subseteq run[r].read
    /\ stop \in 0..StopLife

\* Variant: today's time of day, gone by or not.
AheadToday(t) == t - clock

\* Ticks until the next time of day t: a whole day when it is that time now
\* (compute_next_daily_run_at).
Ahead(t) == IF t > clock THEN t - clock ELSE Day + t - clock
Fresh(t) == [time |-> t, left |-> Ahead(t)]
Default == 0

Init ==
    /\ clock \in Times
    /\ row = [d \in Devices |-> NoRow]
    /\ device = [d \in Devices |-> "in"]
    /\ queued = {} /\ run = [r \in Runs |-> Idle] /\ stop = 0

Eligible(d) == device[d] = "in"
Scheduled == {d \in Devices : Eligible(d) /\ row[d] # NoRow}

-------------------------------------------------------------------------------
(* run_scheduled_backups.                                                  *)

\* The most common time of the client's schedules, one of them when several are.
Votes(t) == {d \in Scheduled : row[d].time = t}
TenantTimes ==
    IF Scheduled = {} THEN {Default}
    ELSE {t \in Times : Votes(t) # {} /\ \A u \in Times : \E f \in [Votes(u) -> Votes(t)] :
                           \A d, e \in Votes(u) : f[d] = f[e] => d = e}

Due == \E d \in Scheduled : row[d].left = 0
Plan(new, t) ==
    [at |-> "read", read |-> Scheduled, same |-> Votes(t), new |-> new, due |-> Due,
     time |-> t, left |-> Ahead(t)]
Missing == {d \in Devices : Eligible(d) /\ row[d] = NoRow}

\* Variant: an eligible device that has no schedule yet is not given one.
ReadOnlyRows(r) ==
    /\ run[r] = Idle /\ stop = 0 /\ Due
    /\ \E t \in TenantTimes : run' = [run EXCEPT ![r] = Plan({}, t)]
    /\ UNCHANGED <<clock, row, device, queued, stop>>

\* Schedules that are missing are inserted, within the transaction.  A run that
\* finds the global stop or a batch under way, or nothing to do, changes nothing.
ReadRows(r) ==
    /\ run[r] = Idle /\ stop = 0 /\ (Due \/ Missing # {})
    /\ \E t \in TenantTimes : run' = [run EXCEPT ![r] = Plan(Missing, t)]
    /\ UNCHANGED <<clock, row, device, queued, stop>>

\* One device that is due brings all of the client's; devices are read once more.
SendTasks(r) ==
    /\ run[r].at = "read"
    /\ queued' = IF run[r].due
                 THEN queued \cup ({d \in Devices : Eligible(d)} \ Excluded) ELSE queued
    /\ run' = [run EXCEPT ![r].at = "sent"]
    /\ UNCHANGED <<clock, row, device, stop>>

\* Only columns that differ from what was read are written, so a time that a user
\* set meanwhile stays while its date is overwritten.
Advanced(d, r) ==
    LET w == run[r] IN
    IF ~w.due \/ d \notin w.read \/ row[d] = NoRow THEN row[d]
    ELSE [row[d] EXCEPT !.left = w.left, !.time = IF d \in w.same THEN @ ELSE w.time]

\* A row that somebody else inserted meanwhile stays beside the new one: the model
\* keeps one of the two.
Commit(r) ==
    LET w == run[r] IN
    /\ w.at = "sent"
    /\ \E kept \in SUBSET {d \in w.new : row[d] # NoRow} :
        row' = [d \in Devices |->
            IF d \in w.new \ kept THEN [time |-> w.time, left |-> w.left]
            ELSE Advanced(d, r)]
    /\ run' = [run EXCEPT ![r] = Idle]
    /\ UNCHANGED <<clock, device, queued, stop>>

\* The run dies: what it sent stays sent, and nothing is committed.
Crash(r) ==
    /\ run[r] # Idle
    /\ run' = [run EXCEPT ![r] = Idle]
    /\ UNCHANGED <<clock, row, device, queued, stop>>

-------------------------------------------------------------------------------
(* The pages.                                                              *)

Target(scope) ==
    {d \in Devices : device[d] # "off" /\ (scope = "all" \/ d \notin Scheduled)}
Apply(time, scope) ==
    /\ Target(scope) # {}
    /\ device' = [d \in Devices |-> IF d \in Target(scope) THEN "in" ELSE device[d]]
    /\ row' = [d \in Devices |-> IF d \in Target(scope) THEN Fresh(time) ELSE row[d]]
    /\ UNCHANGED <<clock, queued, run, stop>>

ApplyDaily == \E time \in Times, scope \in {"missing", "all"} : Apply(time, scope)
EnableBackupQueue == \E time \in TenantTimes : Apply(time, "missing")

\* update_device and create_device commit the device first and its schedule after
\* it, the first of which may be all that happens.  A device that stays in the
\* routine starts over at the next time of day.
UpdateDevice ==
    /\ \E d \in Devices, to \in {"in", "out"}, time \in TenantTimes :
        /\ device[d] # "off"
        /\ device' = [device EXCEPT ![d] = to]
        /\ row' \in {row, [row EXCEPT ![d] = IF to = "in" THEN Fresh(time) ELSE NoRow]}
    /\ UNCHANGED <<clock, queued, run, stop>>

\* delete_device, or the group of the device is switched off or on again.
ToggleDevice ==
    /\ \E d \in Devices, to \in {"in", "out", "off"} :
        (device[d] = "off") # (to = "off") /\ device' = [device EXCEPT ![d] = to]
    /\ UNCHANGED <<clock, row, queued, run, stop>>

\* The revocations and the removal of the queues celery and vpn_queue: tasks in
\* jump_queue are only revoked when a worker already holds them.
StopAll ==
    /\ stop' = StopLife
    /\ queued' \in SUBSET (queued \cap Jump)
    /\ UNCHANGED <<clock, row, device, run>>

-------------------------------------------------------------------------------

Work(d) ==
    /\ d \in queued
    /\ queued' = queued \ {d}
    /\ UNCHANGED <<clock, row, device, run, stop>>

Down(n) == IF n = 0 THEN 0 ELSE n - 1
Tick ==
    /\ clock' = (clock + 1) % Day
    /\ row' = [d \in Devices |-> IF row[d] = NoRow THEN NoRow ELSE [row[d] EXCEPT !.left = Down(@)]]
    /\ run' = [r \in Runs |-> IF run[r] = Idle THEN Idle ELSE [run[r] EXCEPT !.left = Down(@)]]
    /\ stop' = Down(stop)
    /\ UNCHANGED <<device, queued>>

Scheduler == \E r \in Runs : ReadRows(r) \/ SendTasks(r) \/ Commit(r)
Users == ApplyDaily \/ EnableBackupQueue \/ UpdateDevice \/ ToggleDevice \/ StopAll
Next ==
    \/ Scheduler \/ \E r \in Runs : Crash(r)
    \/ Users \/ Tick \/ \E d \in Devices : Work(d)
Spec == Init /\ [][Next]_vars
Fairness ==
    /\ WF_vars(Tick) /\ \A d \in Devices : WF_vars(Work(d))
    /\ \A r \in Runs : WF_vars(ReadRows(r)) /\ WF_vars(SendTasks(r)) /\ WF_vars(Commit(r))
FairSpec == Spec /\ Fairness

-------------------------------------------------------------------------------
(* Properties.                                                             *)

\* Whatever users did to the schedules, whenever runs died or overlapped: once all
\* that is over, every device that is switched on has backups
\* queued day after day (run_scheduled_backups).
Calm == Scheduler \/ Tick \/ \E d \in Devices : Work(d)
BackedUpDaily ==
    <>[][Calm]_vars =>
        \A d \in Devices \ Excluded : <>[]Eligible(d) => []<>(d \in queued)
===============================================================================
