------------------------------- MODULE Recovery -------------------------------
(* What must come back: a jump host whose breaker is open, the daily backups, *)
(* the closing of a client that is late, an address that is locked.  Each is  *)
(* studied in behaviours of its own, in which the others stand still; the     *)
(* daily backups twice, with and without runs that overlap.                   *)
EXTENDS JumpHostHealth

CONSTANTS
    Devices, Runs, Jump, Day, Excluded, StopLife,                      \* daily backups
    Devices2, Runs2, Jump2, Day2,                                      \* overlapping runs
    Invoices, Handlers, BillDay, Period, Trial, Grace, Horizon, EditedStatus, Never,
    Browsers, MaxAttempts, Lockout, AttemptsLife, PendingLife

VARIABLES
    part,                                                            \* studied here
    clock, row, device, queued, run, stop,                           \* daily backups
    clock2, row2, device2, queued2, run2, stop2,                     \* overlapping runs
    tenant, invoice, gateway, subs, handler, enforcer, entitled, now,    \* billing
    place, back, age, user, admitted, attempts, ttl, block           \* login

dailyVars == <<clock, row, device, queued, run, stop>>
overlapVars == <<clock2, row2, device2, queued2, run2, stop2>>
billingVars == <<tenant, invoice, gateway, subs, handler, enforcer, entitled, now>>
loginVars == <<place, back, age, user, admitted, attempts, ttl, block>>
all == <<part, vars, dailyVars, overlapVars, billingVars, loginVars>>

Daily == INSTANCE ScheduledBackups
Overlap == INSTANCE ScheduledBackups WITH
    Devices <- Devices2, Runs <- Runs2, Jump <- Jump2, Day <- Day2,
    clock <- clock2, row <- row2, device <- device2, queued <- queued2, run <- run2, stop <- stop2

Bills == INSTANCE Billing WITH Day <- BillDay
Logins == INSTANCE Login WITH Max <- MaxAttempts, open <- admitted

\* A day has minutes, and the times of day, lengths and limits are whole numbers.
ASSUME RecoveryAssumption ==
    /\ Day \in Nat \ {0} /\ Day2 \in Nat \ {0} /\ StopLife \in Nat
    /\ MaxAttempts \in Nat /\ Lockout \in Nat /\ AttemptsLife \in Nat /\ PendingLife \in Nat
    /\ Bills!BillingAssumption

Choices == {"health", "daily", "overlap", "billing", "login"}
RecoveryInit ==
    /\ part \in Choices
    /\ Init /\ Bills!Init /\ Logins!Init /\ (part # "login" => user.admin)
    /\ Daily!Init /\ Overlap!Init /\ (part # "overlap" => clock2 = 0)

HealthPart ==
    /\ part = "health"
    /\ Next
    /\ UNCHANGED <<part, dailyVars, overlapVars, billingVars, loginVars>>
DailyPart ==
    /\ part = "daily"
    /\ Daily!Next
    /\ UNCHANGED <<part, vars, overlapVars, billingVars, loginVars>>
OverlapPart ==
    /\ part = "overlap"
    /\ Overlap!Next
    /\ UNCHANGED <<part, vars, dailyVars, billingVars, loginVars>>
BillingPart ==
    /\ part = "billing"
    /\ Bills!Next
    /\ UNCHANGED <<part, vars, dailyVars, overlapVars, loginVars>>
LoginPart ==
    /\ part = "login"
    /\ Logins!Next
    /\ UNCHANGED <<part, vars, dailyVars, overlapVars, billingVars>>

DailyFairness ==
    /\ WF_dailyVars(part = "daily" /\ Daily!Tick)
    /\ \A d \in Devices : WF_dailyVars(part = "daily" /\ Daily!Work(d))
    /\ \A r \in Runs : /\ WF_dailyVars(part = "daily" /\ Daily!ReadRows(r))
                       /\ WF_dailyVars(part = "daily" /\ Daily!SendTasks(r))
                       /\ WF_dailyVars(part = "daily" /\ Daily!Commit(r))
    /\ WF_overlapVars(part = "overlap" /\ Overlap!Tick)
    /\ \A d \in Devices2 : WF_overlapVars(part = "overlap" /\ Overlap!Work(d))
    /\ \A r \in Runs2 : /\ WF_overlapVars(part = "overlap" /\ Overlap!ReadRows(r))
                        /\ WF_overlapVars(part = "overlap" /\ Overlap!SendTasks(r))
                        /\ WF_overlapVars(part = "overlap" /\ Overlap!Commit(r))

BillingFairness ==
    /\ WF_billingVars(part = "billing" /\ Bills!Tick)
    /\ WF_billingVars(part = "billing" /\ Bills!EnforceRead)
    /\ WF_billingVars(part = "billing" /\ Bills!EnforceCommit)

RecoverySpec ==
    /\ RecoveryInit
    /\ [][HealthPart \/ DailyPart \/ OverlapPart \/ BillingPart \/ LoginPart]_all
    /\ WF_vars(part = "health" /\ Tick)
    /\ \A t \in Tasks : WF_vars(part = "health" /\ Step(t))
    /\ DailyFairness
    /\ BillingFairness
    /\ WF_loginVars(part = "login" /\ Logins!Tick)

-------------------------------------------------------------------------------
\* Each part keeps its types.
RecoveryTyped ==
    /\ Daily!TypeOK /\ Overlap!TypeOK
    /\ Bills!TypeOK /\ Logins!TypeOK

\* When workers no longer die, a jump host whose breaker opened lets a backup through
\* again and again (_check_jump_host_circuit_breaker).
BreakerCloses == part = "health" => BreakerReleases

\* Once users, deaths and overlapping runs are over, every device that is switched on
\* has backups queued day after day (run_scheduled_backups).
BackedUpDaily ==
    /\ part = "daily" => Daily!BackedUpDaily
    /\ part = "overlap" => Overlap!BackedUpDaily

\* An account that stays late beyond its grace is closed again and again, whoever
\* reopens it and whatever payments fail meanwhile (enforce_access_policy).
LateIsClosed == part = "billing" => Bills!LateIsClosed

\* Nobody gets in without a trial, an approved payment or an administrator who opened
\* the account, not even through the trash (restore_tenant).
OpenIsEntitled == Bills!OpenIsEntitled

\* The lock of an e-mail address ends again and again, whatever is tried meanwhile from
\* however many browsers (_is_login_blocked before the password).
LockoutEnds == part = "login" => Logins!LockoutEnds
===============================================================================
