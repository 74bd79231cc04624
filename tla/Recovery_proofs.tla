---------------------------- MODULE Recovery_proofs ----------------------------
(* The schedules, accounts and logins keep their types, and nobody gets into  *)
(* an account without a trial, a payment or an administrator who opened it:   *)
(* for any devices, runs, invoices, processes and browsers.                   *)
EXTENDS Recovery, TLAPS

-------------------------------------------------------------------------------
(* The daily backups.                                                        *)

DailyFields == {"at", "due", "read", "same", "new", "time", "left"}
DailyRun(w) ==
    \/ w = Daily!Idle
    \/ /\ DOMAIN w = DailyFields
       /\ w.at \in {"read", "sent"} /\ w.due \in BOOLEAN
       /\ w.read \subseteq Devices /\ w.new \subseteq Devices /\ w.same \subseteq w.read
       /\ w.time \in Daily!Times /\ w.left \in 0..Day
DailyRows ==
    /\ clock \in Daily!Times /\ stop \in 0..StopLife
    /\ row \in [Devices -> Daily!Row \cup {Daily!NoRow}]
    /\ device \in [Devices -> {"in", "out", "off"}]
    /\ queued \subseteq Devices
DailyRuns ==
    /\ DOMAIN run = Runs
    /\ \A r \in Runs : DailyRun(run[r])
DailyInv == DailyRows /\ DailyRuns

LEMMA DailyTyped == DailyInv => Daily!TypeOK
<1>1. DailyInv => \A r \in Runs :
          \/ run[r] = Daily!Idle
          \/ /\ run[r].at \in {"read", "sent"} /\ run[r].due \in BOOLEAN
             /\ run[r].read \subseteq Devices /\ run[r].new \subseteq Devices
             /\ run[r].time \in Daily!Times /\ run[r].left \in 0..Day
             /\ run[r].same \subseteq run[r].read
  BY Zenon DEF DailyInv, DailyRuns, DailyRun
<1> QED
  BY <1>1, Zenon DEF DailyInv, DailyRows, Daily!TypeOK

\* The next run is a day away at most (compute_next_daily_run_at).
LEMMA DailyAhead ==
    ASSUME DailyRows, NEW t \in Daily!Times
    PROVE  Daily!Ahead(t) \in 0..Day /\ Daily!Fresh(t) \in Daily!Row
<1>1. Day \in Nat \ {0} /\ clock \in 0..(Day - 1) /\ t \in 0..(Day - 1)
  BY RecoveryAssumption DEF DailyRows, Daily!Times
<1>2. Daily!Ahead(t) \in 0..Day
  BY <1>1 DEF Daily!Ahead
<1> QED
  BY <1>2 DEF Daily!Fresh, Daily!Row

LEMMA DailyTimes == Daily!TenantTimes \subseteq Daily!Times
<1>1. 0 \in Daily!Times
  BY RecoveryAssumption DEF Daily!Times
<1> QED
  BY <1>1 DEF Daily!TenantTimes, Daily!Default

\* The run of the scheduler.
LEMMA DailyRead ==
    ASSUME DailyInv, NEW r \in Runs, Daily!ReadRows(r)
    PROVE  DailyInv'
<1>1. PICK t \in Daily!TenantTimes : run' = [run EXCEPT ![r] = Daily!Plan(Daily!Missing, t)]
  BY DEF Daily!ReadRows
<1>2. UNCHANGED <<clock, row, device, queued, stop>>
  BY DEF Daily!ReadRows
<1>3. t \in Daily!Times /\ Daily!Ahead(t) \in 0..Day
  BY DailyTimes, DailyAhead DEF DailyInv
<1>4. Daily!Due \in BOOLEAN
  BY Zenon DEF Daily!Due
<1>5. DailyRun(Daily!Plan(Daily!Missing, t))
  <2>1. /\ Daily!Scheduled \subseteq Devices /\ Daily!Missing \subseteq Devices
        /\ Daily!Votes(t) \subseteq Daily!Scheduled
    BY DEF Daily!Scheduled, Daily!Missing, Daily!Votes
  <2> HIDE DEF Daily!Due, Daily!Scheduled, Daily!Missing, Daily!Votes, Daily!Ahead
  <2> QED
    BY <1>3, <1>4, <2>1 DEF Daily!Plan, DailyRun, DailyFields
<1> QED
  BY <1>1, <1>2, <1>5 DEF DailyInv, DailyRows, DailyRuns

LEMMA DailyOthers ==
    ASSUME DailyInv, NEW r \in Runs, Daily!SendTasks(r) \/ Daily!Commit(r) \/ Daily!Crash(r)
    PROVE  DailyInv'
<1> DEFINE w == run[r]
<1>1. CASE Daily!SendTasks(r)
  <2>1. /\ w.at = "read" /\ run' = [run EXCEPT ![r].at = "sent"]
        /\ UNCHANGED <<clock, row, device, stop>>
    BY <1>1 DEF Daily!SendTasks
  <2>2. queued' \subseteq Devices
    BY <1>1 DEF Daily!SendTasks, DailyInv, DailyRows
  <2>3. DailyRun([w EXCEPT !.at = "sent"])
    BY <2>1 DEF DailyInv, DailyRuns, DailyRun, DailyFields, Daily!Idle
  <2>4. DOMAIN run' = Runs /\ \A x \in Runs : run'[x] \in {[w EXCEPT !.at = "sent"], run[x]}
    BY <2>1 DEF DailyInv, DailyRuns
  <2> QED
    BY <2>1, <2>2, <2>3, <2>4 DEF DailyInv, DailyRows, DailyRuns
<1>2. CASE Daily!Commit(r)
  <2>1. PICK kept \in SUBSET {d \in w.new : row[d] # Daily!NoRow} :
            row' = [d \in Devices |-> IF d \in w.new \ kept THEN [time |-> w.time, left |-> w.left]
                                  ELSE Daily!Advanced(d, r)]
    BY <1>2 DEF Daily!Commit
  <2>2. w.at = "sent" /\ run' = [run EXCEPT ![r] = Daily!Idle] /\ UNCHANGED <<clock, device, queued, stop>>
    BY <1>2 DEF Daily!Commit
  <2>3. w.time \in Daily!Times /\ w.left \in 0..Day
    BY <2>2 DEF DailyInv, DailyRuns, DailyRun, Daily!Idle
  <2>4. ASSUME NEW d \in Devices PROVE Daily!Advanced(d, r) \in Daily!Row \cup {Daily!NoRow}
    <3>1. row[d] \in Daily!Row \cup {Daily!NoRow}
      BY DEF DailyInv, DailyRows
    <3> QED
      BY <2>3, <3>1 DEF Daily!Advanced, Daily!Row
  <2>5. [time |-> w.time, left |-> w.left] \in Daily!Row
    BY <2>3 DEF Daily!Row
  <2>6. row' \in [Devices -> Daily!Row \cup {Daily!NoRow}]
    BY <2>1, <2>4, <2>5
  <2> QED
    BY <2>2, <2>6 DEF DailyInv, DailyRows, DailyRuns, DailyRun
<1>3. CASE Daily!Crash(r)
  BY <1>3 DEF Daily!Crash, DailyInv, DailyRows, DailyRuns, DailyRun
<1> QED
  BY <1>1, <1>2, <1>3

\* Users move devices and dates, and stop everything.
LEMMA DailyUsers == ASSUME DailyInv, Daily!Users PROVE DailyInv'
<1>1. ASSUME NEW t \in Daily!Times, NEW scope, Daily!Apply(t, scope)
      PROVE  DailyInv'
  BY <1>1, DailyAhead DEF Daily!Apply, DailyInv, DailyRows, DailyRuns
<1>2. CASE Daily!ApplyDaily \/ Daily!EnableBackupQueue
  BY <1>1, <1>2, DailyTimes DEF Daily!ApplyDaily, Daily!EnableBackupQueue
<1>3. CASE Daily!UpdateDevice
  <2>1. PICK d \in Devices, to \in {"in", "out"}, t \in Daily!TenantTimes :
            /\ device' = [device EXCEPT ![d] = to]
            /\ row' \in {row, [row EXCEPT ![d] = IF to = "in" THEN Daily!Fresh(t) ELSE Daily!NoRow]}
    BY <1>3 DEF Daily!UpdateDevice
  <2>2. Daily!Fresh(t) \in Daily!Row
    BY DailyTimes, DailyAhead DEF DailyInv
  <2> QED
    BY <1>3, <2>1, <2>2 DEF Daily!UpdateDevice, DailyInv, DailyRows, DailyRuns
<1>4. CASE Daily!ToggleDevice
  BY <1>4 DEF Daily!ToggleDevice, DailyInv, DailyRows, DailyRuns
<1>5. CASE Daily!StopAll
  <2>1. stop' \in 0..StopLife /\ queued' \subseteq Devices /\ UNCHANGED <<clock, row, device, run>>
    BY <1>5, RecoveryAssumption DEF Daily!StopAll, DailyInv, DailyRows
  <2> QED
    BY <2>1 DEF DailyInv, DailyRows, DailyRuns
<1> QED
  BY <1>2, <1>3, <1>4, <1>5 DEF Daily!Users

LEMMA DailyTick == ASSUME DailyInv, Daily!Tick PROVE DailyInv'
<1>1. Day \in Nat \ {0} /\ clock' = (clock + 1) % Day /\ clock \in 0..(Day - 1)
  BY RecoveryAssumption DEF Daily!Tick, DailyInv, DailyRows, Daily!Times
<1>2. clock' \in Daily!Times
  BY <1>1 DEF Daily!Times
<1>3. stop' \in 0..StopLife /\ UNCHANGED <<device, queued>>
  <2>1. StopLife \in Nat /\ stop \in 0..StopLife
    BY RecoveryAssumption DEF DailyInv, DailyRows
  <2> QED
    BY <2>1 DEF Daily!Tick, Daily!Down
<1>4. ASSUME NEW d \in Devices PROVE row'[d] \in Daily!Row \cup {Daily!NoRow}
  BY RecoveryAssumption DEF Daily!Tick, Daily!Down, DailyInv, DailyRows, Daily!Row
<1>5. row' \in [Devices -> Daily!Row \cup {Daily!NoRow}]
  BY <1>4 DEF Daily!Tick
<1>6. ASSUME NEW r \in Runs PROVE DailyRun(run'[r])
  BY RecoveryAssumption DEF Daily!Tick, Daily!Down, DailyInv, DailyRuns, DailyRun, DailyFields
<1>7. DOMAIN run' = Runs
  BY DEF Daily!Tick
<1> QED
  BY <1>2, <1>3, <1>5, <1>6, <1>7 DEF DailyInv, DailyRows, DailyRuns

LEMMA DailyStep == DailyInv /\ [Daily!Next]_dailyVars => DailyInv'
<1> SUFFICES ASSUME DailyInv, [Daily!Next]_dailyVars PROVE DailyInv'
  OBVIOUS
<1>1. CASE UNCHANGED dailyVars
  BY <1>1 DEF dailyVars, DailyInv, DailyRows, DailyRuns
<1>2. ASSUME NEW d \in Devices, Daily!Work(d) PROVE DailyInv'
  BY <1>2 DEF Daily!Work, DailyInv, DailyRows, DailyRuns
<1> QED
  BY <1>1, <1>2, DailyRead, DailyOthers, DailyUsers, DailyTick DEF Daily!Next, Daily!Scheduler

LEMMA DailyInit == Daily!Init => DailyInv
BY RecoveryAssumption DEF Daily!Init, DailyInv, DailyRows, DailyRuns, DailyRun

-------------------------------------------------------------------------------
(* The daily backups once more, when runs overlap.                           *)

OverlapFields == {"at", "due", "read", "same", "new", "time", "left"}
OverlapRun(w) ==
    \/ w = Overlap!Idle
    \/ /\ DOMAIN w = OverlapFields
       /\ w.at \in {"read", "sent"} /\ w.due \in BOOLEAN
       /\ w.read \subseteq Devices2 /\ w.new \subseteq Devices2 /\ w.same \subseteq w.read
       /\ w.time \in Overlap!Times /\ w.left \in 0..Day2
OverlapRows ==
    /\ clock2 \in Overlap!Times /\ stop2 \in 0..StopLife
    /\ row2 \in [Devices2 -> Overlap!Row \cup {Overlap!NoRow}]
    /\ device2 \in [Devices2 -> {"in", "out", "off"}]
    /\ queued2 \subseteq Devices2
OverlapRuns ==
    /\ DOMAIN run2 = Runs2
    /\ \A r \in Runs2 : OverlapRun(run2[r])
OverlapInv == OverlapRows /\ OverlapRuns

LEMMA OverlapTyped == OverlapInv => Overlap!TypeOK
<1>1. OverlapInv => \A r \in Runs2 :
          \/ run2[r] = Overlap!Idle
          \/ /\ run2[r].at \in {"read", "sent"} /\ run2[r].due \in BOOLEAN
             /\ run2[r].read \subseteq Devices2 /\ run2[r].new \subseteq Devices2
             /\ run2[r].time \in Overlap!Times /\ run2[r].left \in 0..Day2
             /\ run2[r].same \subseteq run2[r].read
  BY Zenon DEF OverlapInv, OverlapRuns, OverlapRun
<1> QED
  BY <1>1, Zenon DEF OverlapInv, OverlapRows, Overlap!TypeOK

\* The next run is a day away at most (compute_next_daily_run_at).
LEMMA OverlapAhead ==
    ASSUME OverlapRows, NEW t \in Overlap!Times
    PROVE  Overlap!Ahead(t) \in 0..Day2 /\ Overlap!Fresh(t) \in Overlap!Row
<1>1. Day2 \in Nat \ {0} /\ clock2 \in 0..(Day2 - 1) /\ t \in 0..(Day2 - 1)
  BY RecoveryAssumption DEF OverlapRows, Overlap!Times
<1>2. Overlap!Ahead(t) \in 0..Day2
  BY <1>1 DEF Overlap!Ahead
<1> QED
  BY <1>2 DEF Overlap!Fresh, Overlap!Row

LEMMA OverlapTimes == Overlap!TenantTimes \subseteq Overlap!Times
<1>1. 0 \in Overlap!Times
  BY RecoveryAssumption DEF Overlap!Times
<1> QED
  BY <1>1 DEF Overlap!TenantTimes, Overlap!Default

\* The run of the scheduler.
LEMMA OverlapRead ==
    ASSUME OverlapInv, NEW r \in Runs2, Overlap!ReadRows(r)
    PROVE  OverlapInv'
<1>1. PICK t \in Overlap!TenantTimes : run2' = [run2 EXCEPT ![r] = Overlap!Plan(Overlap!Missing, t)]
  BY DEF Overlap!ReadRows
<1>2. UNCHANGED <<clock2, row2, device2, queued2, stop2>>
  BY DEF Overlap!ReadRows
<1>3. t \in Overlap!Times /\ Overlap!Ahead(t) \in 0..Day2
  BY OverlapTimes, OverlapAhead DEF OverlapInv
<1>4. Overlap!Due \in BOOLEAN
  BY Zenon DEF Overlap!Due
<1>5. OverlapRun(Overlap!Plan(Overlap!Missing, t))
  <2>1. /\ Overlap!Scheduled \subseteq Devices2 /\ Overlap!Missing \subseteq Devices2
        /\ Overlap!Votes(t) \subseteq Overlap!Scheduled
    BY DEF Overlap!Scheduled, Overlap!Missing, Overlap!Votes
  <2> HIDE DEF Overlap!Due, Overlap!Scheduled, Overlap!Missing, Overlap!Votes, Overlap!Ahead
  <2> QED
    BY <1>3, <1>4, <2>1 DEF Overlap!Plan, OverlapRun, OverlapFields
<1> QED
  BY <1>1, <1>2, <1>5 DEF OverlapInv, OverlapRows, OverlapRuns

LEMMA OverlapOthers ==
    ASSUME OverlapInv, NEW r \in Runs2, Overlap!SendTasks(r) \/ Overlap!Commit(r) \/ Overlap!Crash(r)
    PROVE  OverlapInv'
<1> DEFINE w == run2[r]
<1>1. CASE Overlap!SendTasks(r)
  <2>1. /\ w.at = "read" /\ run2' = [run2 EXCEPT ![r].at = "sent"]
        /\ UNCHANGED <<clock2, row2, device2, stop2>>
    BY <1>1 DEF Overlap!SendTasks
  <2>2. queued2' \subseteq Devices2
    BY <1>1 DEF Overlap!SendTasks, OverlapInv, OverlapRows
  <2>3. OverlapRun([w EXCEPT !.at = "sent"])
    BY <2>1 DEF OverlapInv, OverlapRuns, OverlapRun, OverlapFields, Overlap!Idle
  <2>4. DOMAIN run2' = Runs2 /\ \A x \in Runs2 : run2'[x] \in {[w EXCEPT !.at = "sent"], run2[x]}
    BY <2>1 DEF OverlapInv, OverlapRuns
  <2> QED
    BY <2>1, <2>2, <2>3, <2>4 DEF OverlapInv, OverlapRows, OverlapRuns
<1>2. CASE Overlap!Commit(r)
  <2>1. PICK kept \in SUBSET {d \in w.new : row2[d] # Overlap!NoRow} :
            row2' = [d \in Devices2 |-> IF d \in w.new \ kept THEN [time |-> w.time, left |-> w.left]
                                  ELSE Overlap!Advanced(d, r)]
    BY <1>2 DEF Overlap!Commit
  <2>2. w.at = "sent" /\ run2' = [run2 EXCEPT ![r] = Overlap!Idle] /\ UNCHANGED <<clock2, device2, queued2, stop2>>
    BY <1>2 DEF Overlap!Commit
  <2>3. w.time \in Overlap!Times /\ w.left \in 0..Day2
    BY <2>2 DEF OverlapInv, OverlapRuns, OverlapRun, Overlap!Idle
  <2>4. ASSUME NEW d \in Devices2 PROVE Overlap!Advanced(d, r) \in Overlap!Row \cup {Overlap!NoRow}
    <3>1. row2[d] \in Overlap!Row \cup {Overlap!NoRow}
      BY DEF OverlapInv, OverlapRows
    <3> QED
      BY <2>3, <3>1 DEF Overlap!Advanced, Overlap!Row
  <2>5. [time |-> w.time, left |-> w.left] \in Overlap!Row
    BY <2>3 DEF Overlap!Row
  <2>6. row2' \in [Devices2 -> Overlap!Row \cup {Overlap!NoRow}]
    BY <2>1, <2>4, <2>5
  <2> QED
    BY <2>2, <2>6 DEF OverlapInv, OverlapRows, OverlapRuns, OverlapRun
<1>3. CASE Overlap!Crash(r)
  BY <1>3 DEF Overlap!Crash, OverlapInv, OverlapRows, OverlapRuns, OverlapRun
<1> QED
  BY <1>1, <1>2, <1>3

\* Users move devices and dates, and stop everything.
LEMMA OverlapUsers == ASSUME OverlapInv, Overlap!Users PROVE OverlapInv'
<1>1. ASSUME NEW t \in Overlap!Times, NEW scope, Overlap!Apply(t, scope)
      PROVE  OverlapInv'
  BY <1>1, OverlapAhead DEF Overlap!Apply, OverlapInv, OverlapRows, OverlapRuns
<1>2. CASE Overlap!ApplyDaily \/ Overlap!EnableBackupQueue
  BY <1>1, <1>2, OverlapTimes DEF Overlap!ApplyDaily, Overlap!EnableBackupQueue
<1>3. CASE Overlap!UpdateDevice
  <2>1. PICK d \in Devices2, to \in {"in", "out"}, t \in Overlap!TenantTimes :
            /\ device2' = [device2 EXCEPT ![d] = to]
            /\ row2' \in {row2, [row2 EXCEPT ![d] = IF to = "in" THEN Overlap!Fresh(t) ELSE Overlap!NoRow]}
    BY <1>3 DEF Overlap!UpdateDevice
  <2>2. Overlap!Fresh(t) \in Overlap!Row
    BY OverlapTimes, OverlapAhead DEF OverlapInv
  <2> QED
    BY <1>3, <2>1, <2>2 DEF Overlap!UpdateDevice, OverlapInv, OverlapRows, OverlapRuns
<1>4. CASE Overlap!ToggleDevice
  BY <1>4 DEF Overlap!ToggleDevice, OverlapInv, OverlapRows, OverlapRuns
<1>5. CASE Overlap!StopAll
  <2>1. stop2' \in 0..StopLife /\ queued2' \subseteq Devices2 /\ UNCHANGED <<clock2, row2, device2, run2>>
    BY <1>5, RecoveryAssumption DEF Overlap!StopAll, OverlapInv, OverlapRows
  <2> QED
    BY <2>1 DEF OverlapInv, OverlapRows, OverlapRuns
<1> QED
  BY <1>2, <1>3, <1>4, <1>5 DEF Overlap!Users

LEMMA OverlapTick == ASSUME OverlapInv, Overlap!Tick PROVE OverlapInv'
<1>1. Day2 \in Nat \ {0} /\ clock2' = (clock2 + 1) % Day2 /\ clock2 \in 0..(Day2 - 1)
  BY RecoveryAssumption DEF Overlap!Tick, OverlapInv, OverlapRows, Overlap!Times
<1>2. clock2' \in Overlap!Times
  BY <1>1 DEF Overlap!Times
<1>3. stop2' \in 0..StopLife /\ UNCHANGED <<device2, queued2>>
  <2>1. StopLife \in Nat /\ stop2 \in 0..StopLife
    BY RecoveryAssumption DEF OverlapInv, OverlapRows
  <2> QED
    BY <2>1 DEF Overlap!Tick, Overlap!Down
<1>4. ASSUME NEW d \in Devices2 PROVE row2'[d] \in Overlap!Row \cup {Overlap!NoRow}
  BY RecoveryAssumption DEF Overlap!Tick, Overlap!Down, OverlapInv, OverlapRows, Overlap!Row
<1>5. row2' \in [Devices2 -> Overlap!Row \cup {Overlap!NoRow}]
  BY <1>4 DEF Overlap!Tick
<1>6. ASSUME NEW r \in Runs2 PROVE OverlapRun(run2'[r])
  BY RecoveryAssumption DEF Overlap!Tick, Overlap!Down, OverlapInv, OverlapRuns, OverlapRun, OverlapFields
<1>7. DOMAIN run2' = Runs2
  BY DEF Overlap!Tick
<1> QED
  BY <1>2, <1>3, <1>5, <1>6, <1>7 DEF OverlapInv, OverlapRows, OverlapRuns

LEMMA OverlapStep == OverlapInv /\ [Overlap!Next]_overlapVars => OverlapInv'
<1> SUFFICES ASSUME OverlapInv, [Overlap!Next]_overlapVars PROVE OverlapInv'
  OBVIOUS
<1>1. CASE UNCHANGED overlapVars
  BY <1>1 DEF overlapVars, OverlapInv, OverlapRows, OverlapRuns
<1>2. ASSUME NEW d \in Devices2, Overlap!Work(d) PROVE OverlapInv'
  BY <1>2 DEF Overlap!Work, OverlapInv, OverlapRows, OverlapRuns
<1> QED
  BY <1>1, <1>2, OverlapRead, OverlapOthers, OverlapUsers, OverlapTick DEF Overlap!Next, Overlap!Scheduler

LEMMA OverlapInit == Overlap!Init => OverlapInv
BY RecoveryAssumption DEF Overlap!Init, OverlapInv, OverlapRows, OverlapRuns, OverlapRun

-------------------------------------------------------------------------------
(* Logging in.                                                             *)

LoginPlaces ==
    /\ place \in [Browsers -> Logins!Places]
    /\ back \in [Browsers -> {"out", "pending"}]
    /\ age \in [Browsers -> 0..(PendingLife + 1)]
LoginUser ==
    /\ user \in [admin: BOOLEAN, active: BOOLEAN, must: BOOLEAN, totp: BOOLEAN]
    /\ admitted \in BOOLEAN
\* A counter that ends has counted something: Redis gives no life to a key that is gone.
LoginCounter ==
    /\ attempts \in 0..MaxAttempts /\ ttl \in 0..AttemptsLife /\ block \in 0..Lockout
    /\ ttl > 0 => attempts > 0

LEMMA LoginParts ==
    /\ Logins!TypeOK <=> LoginPlaces /\ LoginUser /\ LoginCounter
    /\ (LoginPlaces /\ LoginUser /\ LoginCounter)' => Logins!TypeOK'
BY DEF Logins!TypeOK, LoginPlaces, LoginUser, LoginCounter

LEMMA UserKept ==
    ASSUME NEW u \in [admin: BOOLEAN, active: BOOLEAN, must: BOOLEAN, totp: BOOLEAN],
           NEW x \in BOOLEAN, NEW y \in BOOLEAN
    PROVE  /\ [u EXCEPT !.totp = x] \in [admin: BOOLEAN, active: BOOLEAN, must: BOOLEAN, totp: BOOLEAN]
           /\ [u EXCEPT !.must = x] \in [admin: BOOLEAN, active: BOOLEAN, must: BOOLEAN, totp: BOOLEAN]
           /\ [u EXCEPT !.active = x, !.must = y]
                \in [admin: BOOLEAN, active: BOOLEAN, must: BOOLEAN, totp: BOOLEAN]
OBVIOUS

LEMMA GoTyped ==
    ASSUME LoginPlaces, NEW b \in Browsers, NEW p \in Logins!Places,
           place' = [place EXCEPT ![b] = p]
    PROVE  /\ place' \in [Browsers -> Logins!Places]
           /\ UNCHANGED <<back, age>> => LoginPlaces'
BY DEF LoginPlaces

LEMMA DropTyped ==
    ASSUME LoginPlaces, NEW b \in Browsers, Logins!Drop(b)
    PROVE  LoginPlaces'
<1>1. "out" \in Logins!Places /\ 0 \in 0..(PendingLife + 1)
  BY RecoveryAssumption DEF Logins!Places, Logins!Resting
<1> QED
  BY <1>1, GoTyped DEF Logins!Drop, Logins!Go, LoginPlaces

\* Whatever a browser does, it is somewhere known.
LEMMA PlacesStep ==
    ASSUME LoginPlaces, NEW b \in Browsers, Logins!Step(b)
    PROVE  LoginPlaces'
<1>1. /\ \A p \in {"out", "pending", "in", "count", "expire", "block", "look", "checked", "clear",
                   "confirmed"} : p \in Logins!Places
      /\ 0 \in 0..(PendingLife + 1)
  BY RecoveryAssumption DEF Logins!Places, Logins!Resting, Logins!Counting
<1>2. back[b] \in Logins!Places
  BY <1>1 DEF LoginPlaces
<1>3. ASSUME NEW p \in Logins!Places, Logins!Go(b, p), UNCHANGED <<back, age>>
      PROVE  LoginPlaces'
  BY <1>3, GoTyped DEF Logins!Go
<1>4. CASE Logins!AskBlock(b) \/ Logins!Setup(b) \/ Logins!Verify(b)
  BY <1>1, <1>3, <1>4 DEF Logins!AskBlock, Logins!Setup, Logins!Verify
<1>5. CASE Logins!Password(b)
  <2>1. PICK right \in BOOLEAN :
            Logins!Go(b, IF ~right THEN "count" ELSE IF Logins!ShutOut THEN "out" ELSE "clear")
    BY <1>5 DEF Logins!Password
  <2> QED
    BY <1>1, <1>3, <1>5, <2>1 DEF Logins!Password
<1>6. CASE Logins!Enter(b)
  <2>1. /\ Logins!Go(b, IF Logins!Required THEN "pending" ELSE "in")
        /\ back' = [back EXCEPT ![b] = IF Logins!Required THEN "pending" ELSE "out"]
        /\ age' = [age EXCEPT ![b] = 0]
    BY <1>6 DEF Logins!Enter
  <2>2. place' \in [Browsers -> Logins!Places]
    BY <1>1, <2>1, GoTyped DEF Logins!Go
  <2> QED
    BY <1>1, <2>1, <2>2 DEF LoginPlaces
<1>7. CASE Logins!Finalize(b)
  <2>1. /\ Logins!Go(b, "in")
        /\ back' = [back EXCEPT ![b] = "out"] /\ age' = [age EXCEPT ![b] = 0]
    BY <1>7 DEF Logins!Finalize
  <2>2. place' \in [Browsers -> Logins!Places]
    BY <1>1, <2>1, GoTyped DEF Logins!Go
  <2> QED
    BY <1>1, <2>1, <2>2 DEF LoginPlaces
<1>8. CASE Logins!Count(b) \/ Logins!Expire(b) \/ Logins!Block(b)
  <2>1. /\ UNCHANGED <<back, age>>
        /\ \/ Logins!Go(b, "expire") \/ Logins!Go(b, "block") \/ Logins!Go(b, "look")
    BY <1>8 DEF Logins!Count, Logins!Expire, Logins!Block
  <2> QED
    BY <1>1, <1>3, <2>1
<1>9. CASE Logins!Look(b) \/ Logins!Crash(b)
  BY <1>2, <1>3, <1>9, DropTyped DEF Logins!Look, Logins!Crash
<1>10. CASE Logins!Refuse(b) \/ Logins!Leave(b) \/ Logins!Guard(b)
  BY <1>10, DropTyped DEF Logins!Refuse, Logins!Leave, Logins!Guard
<1>11. CASE Logins!ForceChange(b)
  <2>1. UNCHANGED <<place, back, age>> \/ Logins!Drop(b)
    BY <1>11 DEF Logins!ForceChange, Logins!browser
  <2> QED
    BY <2>1, DropTyped DEF LoginPlaces
<1> QED
  BY <1>4, <1>5, <1>6, <1>7, <1>8, <1>9, <1>10, <1>11 DEF Logins!Step

LEMMA CounterStep ==
    ASSUME LoginCounter, NEW b \in Browsers, Logins!Step(b)
    PROVE  LoginCounter'
<1>1. MaxAttempts \in Nat /\ Lockout \in Nat /\ AttemptsLife \in Nat
  BY RecoveryAssumption
<1>2. CASE UNCHANGED <<attempts, ttl, block>>
  BY <1>2 DEF LoginCounter
<1>3. CASE Logins!ClearAttempts
  BY <1>1, <1>3 DEF Logins!ClearAttempts, LoginCounter
<1>4. CASE Logins!Count(b)
  BY <1>1, <1>4 DEF Logins!Count, LoginCounter
<1>5. CASE Logins!Expire(b)
  BY <1>1, <1>5 DEF Logins!Expire, LoginCounter
<1>6. CASE Logins!Block(b)
  BY <1>1, <1>6 DEF Logins!Block, LoginCounter
<1> QED
  BY <1>2, <1>3, <1>4, <1>5, <1>6
     DEF Logins!Step, Logins!AskBlock, Logins!Password, Logins!Enter, Logins!Refuse, Logins!Setup,
         Logins!Verify, Logins!Finalize, Logins!Look, Logins!Crash, Logins!Leave, Logins!Guard,
         Logins!ForceChange, Logins!counter

LEMMA UserStep ==
    ASSUME LoginUser, NEW b \in Browsers, Logins!Step(b)
    PROVE  LoginUser'
<1>1. admitted' = admitted
      /\ user' \in {user, [user EXCEPT !.totp = TRUE], [user EXCEPT !.must = FALSE]}
  BY DEF Logins!Step, Logins!AskBlock, Logins!Password, Logins!Enter, Logins!Refuse, Logins!Setup,
         Logins!Verify, Logins!Finalize, Logins!Look, Logins!Crash, Logins!Leave, Logins!Guard,
         Logins!ForceChange, Logins!Count, Logins!Expire, Logins!Block
<1>2. /\ [user EXCEPT !.totp = TRUE] \in [admin: BOOLEAN, active: BOOLEAN, must: BOOLEAN, totp: BOOLEAN]
      /\ [user EXCEPT !.must = FALSE] \in [admin: BOOLEAN, active: BOOLEAN, must: BOOLEAN, totp: BOOLEAN]
  BY UserKept DEF LoginUser
<1> QED
  BY <1>1, <1>2, Zenon DEF LoginUser

LEMMA LoginStep == Logins!TypeOK /\ [Logins!Next]_loginVars => Logins!TypeOK'
<1> SUFFICES ASSUME LoginPlaces, LoginUser, LoginCounter, [Logins!Next]_loginVars
             PROVE  LoginPlaces' /\ LoginUser' /\ LoginCounter'
  BY LoginParts
<1>1. CASE UNCHANGED loginVars
  BY <1>1 DEF loginVars, LoginPlaces, LoginUser, LoginCounter
<1>2. ASSUME NEW b \in Browsers, Logins!Step(b)
      PROVE  LoginPlaces' /\ LoginUser' /\ LoginCounter'
  BY <1>2, PlacesStep, CounterStep, UserStep
<1>3. CASE Logins!ResetPassword \/ Logins!EditUser \/ Logins!ToggleTenant
  <2>1. UNCHANGED <<place, back, age, attempts, ttl, block>>
    BY <1>3 DEF Logins!ResetPassword, Logins!EditUser, Logins!ToggleTenant, Logins!browser,
                Logins!counter
  <2>2. LoginPlaces' /\ LoginCounter'
    BY <2>1 DEF LoginPlaces, LoginCounter
  <2>3. CASE Logins!ResetPassword
    BY <2>2, <2>3, UserKept DEF Logins!ResetPassword, LoginUser
  <2>4. CASE Logins!EditUser
    <3>1. PICK active \in BOOLEAN, must \in {user.must, TRUE} :
              user' = [user EXCEPT !.active = active, !.must = must]
      BY <2>4 DEF Logins!EditUser
    <3>2. must \in BOOLEAN /\ admitted' = admitted
      BY <2>4, <3>1 DEF Logins!EditUser, LoginUser
    <3> QED
      BY <2>2, <3>1, <3>2, UserKept DEF LoginUser
  <2>5. CASE Logins!ToggleTenant
    BY <2>2, <2>5 DEF Logins!ToggleTenant, LoginUser
  <2> QED
    BY <1>3, <2>3, <2>4, <2>5
<1>4. CASE Logins!Tick
  <2>1. LoginPlaces'
    <3>1. \A b \in Browsers : age[b] \in 0..(PendingLife + 1)
      BY DEF LoginPlaces
    <3>2. \A b \in Browsers : age[b] > PendingLife \/ age[b] + 1 \in 0..(PendingLife + 1)
      BY <3>1, RecoveryAssumption
    <3> QED
      BY <1>4, <3>1, <3>2 DEF Logins!Tick, LoginPlaces
  <2>2. LoginCounter'
    BY <1>4, RecoveryAssumption DEF Logins!Tick, Logins!Down, LoginCounter
  <2>3. LoginUser'
    BY <1>4 DEF Logins!Tick, LoginUser
  <2> QED
    BY <2>1, <2>2, <2>3
<1> QED
  BY <1>1, <1>2, <1>3, <1>4 DEF Logins!Next

LEMMA LoginInit == Logins!Init => Logins!TypeOK
<1> SUFFICES ASSUME Logins!Init PROVE LoginPlaces /\ LoginUser /\ LoginCounter
  BY LoginParts
<1>1. place = [b \in Browsers |-> "out"] /\ back = place /\ age = [b \in Browsers |-> 0]
  BY DEF Logins!Init
<1>2. LoginPlaces
  BY <1>1, RecoveryAssumption DEF LoginPlaces, Logins!Places, Logins!Resting
<1>3. LoginCounter
  BY RecoveryAssumption DEF Logins!Init, LoginCounter
<1>4. LoginUser
  BY DEF Logins!Init, LoginUser
<1> QED
  BY <1>2, <1>3, <1>4

-------------------------------------------------------------------------------
(* Accounts.                                                               *)

BillProofs == INSTANCE Billing_proofs WITH Day <- BillDay

LEMMA BillsSpec == Bills!Init /\ [][Bills!Next]_billingVars => BillProofs!Spec
<1>1. Bills!Init => BillProofs!Init
  BY DEF Bills!Init, BillProofs!Init, Bills!NoTenant, BillProofs!NoTenant, Bills!Idle,
         BillProofs!Idle, Bills!NoUpdate, BillProofs!NoUpdate
<1>2. [Bills!Next]_billingVars => [BillProofs!Next]_(BillProofs!vars)
  BY DEF
      Bills!EnforceRead, BillProofs!EnforceRead, Bills!EnforceCommit,
      BillProofs!EnforceCommit, Bills!Register, BillProofs!Register, Bills!Checkout,
      BillProofs!Checkout, Bills!PayAgain, BillProofs!PayAgain, Bills!Pay, BillProofs!Pay,
      Bills!Ask, BillProofs!Ask, Bills!Load, BillProofs!Load, Bills!Process,
      BillProofs!Process, Bills!Administer, BillProofs!Administer, Bills!AddTenant,
      BillProofs!AddTenant, Bills!EditTenant, BillProofs!EditTenant, Bills!ToggleActive,
      BillProofs!ToggleActive, Bills!Trash, BillProofs!Trash, Bills!Restore,
      BillProofs!Restore, Bills!Purge, BillProofs!Purge, Bills!Tick, BillProofs!Tick,
      Bills!Enforce, BillProofs!Enforce, Bills!Client, BillProofs!Client, Bills!Payment,
      BillProofs!Payment, Bills!Admin, BillProofs!Admin, Bills!Next, BillProofs!Next,
      Bills!Changes, BillProofs!Changes, Bills!Commit, BillProofs!Commit, Bills!Judged,
      BillProofs!Judged, Bills!Overdue, BillProofs!Overdue, Bills!ShouldBlock,
      BillProofs!ShouldBlock, Bills!OverdueDays, BillProofs!OverdueDays, Bills!DueAt,
      BillProofs!DueAt, Bills!NewRow, BillProofs!NewRow, Bills!OnTrial, BillProofs!OnTrial,
      Bills!PendingPayment, BillProofs!PendingPayment, Bills!FromGateway,
      BillProofs!FromGateway, Bills!Settled, BillProofs!Settled, Bills!FreshSub,
      BillProofs!FreshSub, Bills!SubIds, BillProofs!SubIds, Bills!Restored,
      BillProofs!Restored, Bills!Exists, BillProofs!Exists, Bills!NoTenant,
      BillProofs!NoTenant, Bills!Purged, BillProofs!Purged, Bills!Idle, BillProofs!Idle,
      Bills!NoUpdate, BillProofs!NoUpdate, Bills!GatewayStatus, BillProofs!GatewayStatus,
      Bills!Cardinality, BillProofs!Cardinality, billingVars, BillProofs!vars
<1> QED
  BY <1>1, <1>2, PTL DEF BillProofs!Spec

-------------------------------------------------------------------------------
(* All of them.                                                            *)

\* What is not studied in a behaviour stands still, so every part has the steps of its
\* own specification.
LEMMA PartsAlone ==
    RecoverySpec =>
      /\ Daily!Init /\ [][Daily!Next]_dailyVars
      /\ Overlap!Init /\ [][Overlap!Next]_overlapVars
      /\ Bills!Init /\ [][Bills!Next]_billingVars
      /\ Logins!Init /\ [][Logins!Next]_loginVars
<1>1. RecoveryInit => Daily!Init /\ Overlap!Init /\ Bills!Init /\ Logins!Init
  BY DEF RecoveryInit
<1>2. [HealthPart \/ DailyPart \/ OverlapPart \/ BillingPart \/ LoginPart]_all
        => /\ [Daily!Next]_dailyVars /\ [Overlap!Next]_overlapVars
           /\ [Bills!Next]_billingVars /\ [Logins!Next]_loginVars
  BY DEF HealthPart, DailyPart, OverlapPart, BillingPart, LoginPart, all
<1> QED
  BY <1>1, <1>2, PTL DEF RecoverySpec

\* The schedules, accounts and logins keep their types whoever runs, dies or overlaps
\* with whom: no backup is put off for longer than a day (compute_next_daily_run_at), a
\* payment finds an identifier for its subscription (_activate_subscription), and no
\* counter of failures is left to end that counted nothing (_record_failed_login_attempt).
THEOREM RecoveryTypes == RecoverySpec => []RecoveryTyped
<1>1. BillProofs!BillingAssumption
  BY RecoveryAssumption DEF Bills!BillingAssumption, BillProofs!BillingAssumption,
     Bills!IsFiniteSet, BillProofs!IsFiniteSet
<1>2. RecoverySpec => []BillProofs!TypeOK
  <2>1. BillProofs!Spec => []BillProofs!TypeOK
    BY <1>1, BillProofs!BillingTypes
  <2> QED
    BY <2>1, PartsAlone, BillsSpec, PTL
<1>3. BillProofs!TypeOK => Bills!TypeOK
  BY DEF BillProofs!TypeOK, Bills!TypeOK, BillProofs!Rows, Bills!Rows,
         BillProofs!Statuses, Bills!Statuses, BillProofs!Dates, Bills!Dates,
         BillProofs!NoTenant, Bills!NoTenant, BillProofs!Purged, Bills!Purged,
         BillProofs!InvoiceStatus, Bills!InvoiceStatus, BillProofs!GatewayStatus,
         Bills!GatewayStatus, BillProofs!SubIds, Bills!SubIds, BillProofs!Idle,
         Bills!Idle, BillProofs!IsUpdate, Bills!IsUpdate, BillProofs!Columns,
         Bills!Columns, BillProofs!Cardinality, Bills!Cardinality
<1>4. RecoverySpec => []Daily!TypeOK
  BY DailyInit, DailyStep, DailyTyped, PartsAlone, PTL
<1>5. RecoverySpec => []Overlap!TypeOK
  BY OverlapInit, OverlapStep, OverlapTyped, PartsAlone, PTL
<1>6. RecoverySpec => []Logins!TypeOK
  BY LoginInit, LoginStep, PartsAlone, PTL
<1> QED
  BY <1>2, <1>3, <1>4, <1>5, <1>6, PTL DEF RecoveryTyped

\* Nobody gets in without a trial, an approved payment or an administrator who opened
\* the account, not even through the trash (restore_tenant): whatever the hourly
\* enforcement, the web processes and the gateway have read and not written yet.
THEOREM EntitledOnly == RecoverySpec => []OpenIsEntitled
<1>1. RecoverySpec => []BillProofs!OpenIsEntitled
  BY PartsAlone, BillsSpec, BillProofs!EntitledOnly, PTL
<1>2. BillProofs!OpenIsEntitled => OpenIsEntitled
  BY DEF BillProofs!OpenIsEntitled, OpenIsEntitled, Bills!OpenIsEntitled,
         BillProofs!Exists, Bills!Exists, BillProofs!NoTenant, Bills!NoTenant,
         BillProofs!Purged, Bills!Purged
<1> QED
  BY <1>1, <1>2, PTL
===============================================================================
