# Backup Center: a verification project

Backup Center is a multi-tenant Flask and Celery application that backs up
network devices: it reaches them directly, through a shared SSH jump host, or
through a VPN of their group, one at a time, on a schedule or as a bulk batch.
Its hard part is not the dialogue with a device but everything around it:
several worker processes, in several containers, that share Redis locks, file
locks, one JSON document per batch, Celery chords and the network of their
machine, and that are killed at their time limits; web processes and periodic
tasks that read rows, decide and commit later; files and rows that have to agree.

## Inventory

Paths are below `src/app/`.

| Part | State | Operations | What makes it correct | Module |
|---|---|---|---|---|
| Jump host slots, `tasks/backups.py` 1903-2062 | one Redis lock with a time to live per slot, the number of slots | probe, wait, give up, release; stop request | a slot carries one backup; its key is the holder's; never more sessions than slots; every wait ends; a stop drains | `JumpHostSlots` |
| Jump host health, `tasks/backups.py` 340-383, 640-860, 1576-1800 | streaks, cooldown, hash of slots, outcome window, open key | adapt slots, record outcome, open, reset, window target | the number of slots within its bounds; a breaker that opened lets backups through again; a batch starts with a clean history | `JumpHostHealth` |
| Bulk backup, `tasks/backups.py` 450-461, 867-1135, 1485-1570, 2074-2920, 3530-3960, `web/tenant/devices.py` 1812-2330 | one document per batch and per task, the Celery state of the tasks, a decision key | launch, three phases joined by chords, heartbeats, finalization, follow-up | phases in order; finalized when everything is over; one follow-up | `BulkBackup` |
| Status and cancellation of a batch, `web/tenant/backups.py` | the document of the batch, the stop flag | refresh counters, cancel | completed only when over | `BulkBackup` |
| Tenant bulk lock, `services/realtime_backup_logs.py` 60-200 | a Redis key per tenant | acquire, judge, renew, release | one batch per tenant; the key always returns | `TenantBulkLock` |
| Backup of one device, `tasks/backups.py` 2074-2915, `web/tenant/devices.py` 1598-1730, `web/tenant/backups.py` 665-790 | a document, the Celery state and the returned value | send, run, retry, time limits, cancel, status page | the page says success only of a backup that succeeded | `DeviceTask` |
| Backup of a VPN group, `tasks/backups.py` 2918-3520 | a document, the devices still to do, an alarm per device | send, connect, back up one after another, stop | every device is accounted for in the result | `VpnGroupTask` |
| VPN sessions, `services/vpn_service.py` | lock files on a shared volume, the tunnels of each machine | lock, connect with retries, reset, clean, unlock | one session per group; its own tunnel and no other; every session ends | `VpnSession` |
| Backup executor, retention, `services/backup_executor.py`, `services/backup_service.py`, `tasks/backups.py` 4184-4290 | files, rows, the state of the device | run the script, pick and verify the file, quota, persist; purge | a recorded success names a file of its own time | `BackupStore` |
| Device scripts, `scripts/backup_scripts/` | a dialogue with a command line; files on a device and local copies | log in, page, collect, save; fetch, remove | what is saved is a whole answer; what is removed from a device was saved | `DeviceDialogue`, `DeviceTransfer` |
| Log lines, `services/realtime_backup_logs.py` 200-560 | Redis lists and a counter | append, prune, trim, clear, page | a page skips no line | `TaskLogs` |
| Scheduled backups, `tasks/backups.py` 3957-4170, `web/tenant/schedules.py` | `next_run_at` of schedules | collect due devices, send, commit; edit, stop all | every device is backed up day after day | `ScheduledBackups` |
| Billing and access, `services/billing_policy_service.py`, `web/billing/`, `web/superadmin/tenants.py` | the tenant's row, invoices, subscriptions | enforce every hour, pay, notify, edit, trash, restore, purge | nobody is open who neither paid nor was opened; who is late is closed | `Billing` |
| Plan limits, `services/plan_limits_service.py` | rows that are counted, a meter per month | count, add, remove | a plan is not exceeded step by step | `Quotas` |
| Login, `web/auth/routes.py` | counters and locks per address, the pending second factor | password, code, count, lock | a lock ends | `Login` |
| Connection audit, `tasks/monitoring.py`, `services/monitor_service.py` | a batch document without phases, a VPN test | probe, record | as for the batch; as for a session | in part: `TenantBulkLock`, `VpnSession` |
| Reports, activity, models, migrations, maintenance scripts, deployment | rows, files | views, CRUD, copies | - | not modelled |

The parts meet like this. A **launcher** (a request to `run_backup_all`, or the
automatic follow-up task) reserves the tenant, registers a document for the
batch and sends the direct tasks as a Celery chord. The chord's callback sends
the **jump host** tasks as another chord, whose callback sends one task per **VPN**
group. A task heartbeats on the batch, looks for a stop request, asks the jump
host's **health** record, takes a slot or a VPN session if it needs one, runs the
device's **script** through the **executor**, which leaves a file and a row, and at its
end asks whether the batch is over. The **status page** and the **cancellation** write
the same document from the web server. None of those writers holds a lock on it:
`update_task_meta` reads the whole document and writes the whole document back. Beat
sends the **scheduler** every five minutes, the **enforcement** of payments every hour
and the **purges**; each reads rows, works, and commits at the end.

Hard behaviours: keys that expire on their own, workers killed between two
steps (hard limit, `SIGTERM`), a soft limit or a `SIGALRM` raised anywhere in
Python code, lost updates on the documents, chords that never complete because a task was
killed, callbacks that race with the launcher that created them, locks that time
out, connections retried, leftovers of dead workers on a machine, two transactions
that count the same free place, a commit that is older than what it overwrites,
a device that answers late. `PROJECT.json` lists them line by line under `hazards`.

## Modules

| Module | What it is |
|---|---|
| `SlotPool` | abstract: users and slots, one to one. Implemented by the jump host slots (users: tasks, slots: slots) and by the VPN sessions (users: workers, slots: groups) |
| `BulkBatch` | abstract: tasks start phase by phase, one follow-up when all are over. Implemented by `BulkBackup` |
| `JumpHostSlots`, `JumpHostHealth` | the jump host: who may use it, and how many |
| `BulkBackup`, `TenantBulkLock` (with `TenantBulkLockConstants`), `TaskLogs` | what Redis keeps of batches and tasks |
| `DeviceTask`, `VpnGroupTask`, `VpnSession` | the tasks |
| `BackupStore`, `DeviceDialogue`, `DeviceTransfer` | one attempt, from the dialogue to the row |
| `ScheduledBackups`, `Billing`, `Quotas`, `Login` | the periodic tasks and the web processes beside them |
| `Locks`, `Recovery`, `Outcomes` | several modules in one specification, see below |
| `MCJumpHostSlots`, `MCBulkBackup`, `MCVpnSession`, `MCTenantBulkLock`, `MCLocks`, `MCRecovery`, `MCOutcomes` | values of the constants for TLC |
| `JumpHostSlots_proofs`, `JumpHostHealth_proofs`, `BulkBackup_proofs`, `VpnSession_proofs`, `Locks_proofs` (with those of `TenantBulkLock`), `Billing_proofs`, `Recovery_proofs` (with schedules and logins), `Outcomes_proofs` (with `Quotas` and the modules of one attempt) | theorems |

`Locks`, `Recovery` and `Outcomes` put several modules side by side: a variable
`part`, chosen in the initial state, says which one a behaviour is about, and the
variables of the others stand still in it. So each part has exactly the behaviours
of its module (`LocksAlone` proves it for `Locks`, `PartsAlone` for the other two), a property `part = "x" => P` is
`P` of that module, and fairness is stated for each part on its own variables.

### JumpHostSlots

`pc` is the place of each worker in the context manager: `check` (head of the
loop), `probe` (one `SET NX PX` per step), `sleep`, `running` (the `yield`), `leave`
(`owned()`) and `release`. `owner` and `ttl` are the Redis keys, `probe` and
`maxSlots` the loop variables, `limit` the number of slots the jump host has *now*:
the adaptive control and the window target may set it to anything at any time
(`SetLimit`), but a worker reads it once, in `Enter`. Time passes in ticks, for
all at once; `age`, `waited` and `ttl` are the clocks. `Timed` are the workers
that run `run_backup_task`, which Celery kills at its hard limit. The others run
`run_vpn_group_backups_task`, which has no Celery limit: only a `SIGALRM` bounds
the device they work on, and code that catches `Exception` may swallow it.

The assumption `RunLimit < SlotTtl` is the deployed one: 540 s against 660 s.
Both can be changed by the environment, and nothing in the code checks the one
against the other; without it `KeyOutlivesTask` fails.
The safety properties are therefore about `Timed`: for the others TLC finds a
slot used twice as soon as the alarm is swallowed, and the code offers nothing
better. Without Redis an attempt fails at once and never enters the model.

### JumpHostHealth

The record of one jump host in Redis: `slots` (the hash of adapted numbers),
`wins` and `fails` (the streaks), `cool` (the cooldown key), `outcomes` (the list of the
circuit breaker, counted by age) and `open`. A backup walks through `Look`,
`ReadWindow`, `Prune` and `Judge` (the breaker), `Run`, and then `Record`, `ReadSlots`,
`CheckCool`, `Count`, `Change`, `Settle` (the adaptive control): each is one Redis
command, what it read is kept in `known` and `window`, and other backups get in
between. `Prune` is `delete` and `rpush` of what was read, so outcomes recorded in
between are lost. `ResetOpen`, `ResetOutcomes` and `ResetAdaptive` are the start of a
batch, key by key. `Start` is what a jump host has before anything was adapted: the base or, where the
settings name the host, an override, which the code bounds by sixteen and not by the
boost (`AllowedMax`), so `Most` is the larger of the two. An `Ends` of an attempt stands for the texts the code
classifies. `WindowTarget` is the arithmetic of the backup window.

### BulkBackup

`meta` is the document of the batch, with the fields that decide something:
`is_bulk`, `child_task_ids`, `total_tasks`, `done_tasks`, `cancel_requested`,
`completed`, `force_cancelled_task_ids`. Counters per device, texts, groups and dates are
left out. `update_task_meta` is two steps, `Read` into `copy[a]` and a `Write` of
the copy with the caller's fields, so every lost update of the code is a behaviour
of the model. `plan[a]` holds what an actor worked out of an *earlier* read (the
snapshot of `_build_bulk_terminal_snapshot`, `_merge_existing_bulk_children`, the
callback's `merged_child_ids`, the page's refreshed document). `pc` of a task is
also its Celery state; `docDone` are the tasks whose own document says completed.
`kind` is the launcher, chosen once: a request (`backup_bulk`) or the automatic
follow-up (`backup_reprocess`), whose launcher announces the batch first and
overwrites where the other merges.
`decided` is the decision key, `followups` counts `apply_async` of the follow-up.

A device of a batch is never retried by Celery (`not bool(bulk_task_id)` in
the retry conditions), so there is no retry action. `Interrupt` is the soft limit of a
single device: it is an ordinary exception, swallowed by the heartbeat and by the
`except Exception` around the finalization. One place is left out: raised exactly
inside the `SET NX` of the decision key, the code would log it and go on without
the key. Redis and the broker are taken to be reachable, and no key reaches its
48 hours. `Kill` is the hard limit, a lost worker, and the termination of a
revoked task; a killed task never runs its `finally`.

The chord protocol itself is Celery's: a callback starts when all tasks of its
header have returned successfully, a failed header drops it (`Succeeded`).

### TenantBulkLock

`key` and `ttl` are the tenant's Redis key, `doc` what the lock reads of each batch's
document: `queued` is what `register_task` writes (no `is_bulk`), `active` an
announced batch, `completed` a finished one. `pc` walks a batch through
`acquire_tenant_bulk_lock` (`Look`, `Judge`, `Drop`, `Set`, one Redis command
each), the registration, the announcement (`Publish`, then the implicit
`Renew` of `_write_task_meta`), its end and `release_tenant_bulk_lock` (`AskOwner`,
`Release`). `beat` is a heartbeat with the copy it read, which may announce a
finished batch again, as may a cancellation (`Reopen`). `sched` is the scheduler
inside `_has_active_bulk_operation`. Simplified: one tenant; an audit has no
heartbeat; a heartbeat that starts after its batch ended is left out, and so is the
force-stop flag, which pauses the scheduler for half an hour at most; whether
the scheduler finds a batch stale is a free choice.

### TaskLogs

A log list and the page that follows it. `Number`, `Push`, `Peek`, `Pop` and `Trim` are
the Redis commands of `append_task_log` in their order: the number of a line comes from
`INCR`, the line is stored by a later `RPUSH`, so lines may be stored out of order.
`stream` is the list of a task or the list of all tenants, which is pruned by age
and rewritten without the lines of a tenant that clears its alerts (`ClearRead`,
`Rewrite`). `page` is `_scan_recent_entries`: the length, then one chunk after another from the
end of the list (`Span`), until a line is known, the page is full, or the list is over; a list
that became shorter than the next chunk ends the scan like its beginning does. `excused` are
the lines the design loses: stored after a later number, before what fills a page, before
a chunk that is gone, or stored again by a rewrite that is older than their removal.

### DeviceTask

`at` is the place of `run_backup_task` between its checks, the breaker, the slot, the
script and its end; `doc` the task's document, `celery` and `returned` what the result
backend knows. The request sends the task first and writes the document afterwards
(`Register`), so a fast task is overwritten by `queued`; Celery keeps `STARTED` of a
task whose worker died; `Page` is `task_status`, which guesses from all three.
`SoftLimit` may strike in any place, and does what the handlers around that place
do with it. `StopAll` and `Cancel` revoke, and only the second marks the document.
For a device behind a VPN (`mode = "group"`) the request sends
`run_vpn_group_backups_task` with that one device, and the same page shows it: `GroupChecks`,
`Connect`, `GroupDevice` and `GroupFails` are that task as the page sees it, `VpnGroupTask` is its
loop over the devices. Its value is an error or a count of successes (`Values`), and the page asks
whether it is `False`; so `SuccessIsTrue` leaves out a page that has nothing but the counts
(`CountOnly`), and `VpnSuccessIsTrue`, which does not, is violated. `off` is what keeps the
device from a backup: its schedule is asked by the group's task only.

### VpnGroupTask

One task for the devices of a group. `SendGroup` and `SendDevice` are
`run_backup_group_task` and the request of a single device; `Load` reads the devices once, after
which users go on editing them; `Connect` is the session; then the devices one by one, each
with an alarm (`armed`) that may or may not interrupt it; `Stop` is looked at before
each device. `doc.result` are the counts.

### VpnSession

One action per command that changes something: the two lock files, the cleanup
that starts a connection, the activation, the reset after a failure, the cleanup
that ends the session, and the two releases. A lock that times out
goes to the `finally` block with the session not connected, where the code
cleans the whole machine all the same. `tunnels` belongs to the host, because each container
has its own NetworkManager, and the locks to everybody, because
the lock directory is a shared volume. `Kill` drops the locks (`flock` of a dead process) and
leaves the tunnel up, unless the container is recycled with it. A stuck `nmcli`
(`TimeoutExpired`) cuts a cleanup short: any subset of the tunnels may remain
(`CleanupOf`). The VPN test of a group (`run_group_vpn_test_task`) connects and
disconnects without `vpn_session`, hence without a lock; on an isolated worker
it cannot meet a session of its own machine, but it can use the account of a
group whose session runs in another container. The pool of `ImplementsPool` is
of sessions only. `Groups` are groups with a VPN: for the others
`connect_group_vpn` returns at once. Isolated workers (`VPN_ISOLATED_WORKER=1`, concurrency
forced to 1 by `scripts/start_vpn_worker_isolated.sh`) take only the lock of the
group.

### BackupStore

One attempt of `run_backup_for_device_id` after another in `attempt`: the checks, the script
(which writes a file, names it or not, and may fail after it wrote), the search for
a fresh file in the directory, the verification, the quota, the row. A file is named by its
directory and its second, devices of one name share a directory (`Folder`), and some
scripts write below it where the search does not look (`Target`). The purges take files
first and commit the rows later; a crash in between leaves rows without files.
A row written twice after a dropped connection is `twin`.

### DeviceDialogue

A script is a sequence of methods (log in, prepare the terminal, send commands, keep
an answer), and `Scripts` describes the dialogue scripts of the repository by what they
do differently: whether an answer ends at a prompt or at a silence, whether what is left
of an earlier answer is thrown away before a command, whether a pause or a dropped line counts
as the end, and which answers are kept. The device is three queues: what is on its
way (`coming`), has arrived (`arrived`), and was read and not matched (`buffer`), of prompts, pager
stops and pieces of the answer to a command. A method that ends an answer at a silence
saves the `Pieces` of what it read: a prompt in the text is no configuration. `Pause` and `TimeOut` are a device that is slower
than the reader waits.

### DeviceTransfer

The scripts that fetch files. A Mikrotik execution lists the device's files, downloads them by
SFTP and may remove them there; an exception anywhere, in the command that removes a file too
(`Breaks`), makes it list, download and remove once more with `sshpass` and `scp` if they are
installed (`Again`). `remote` is the last version the device made of each file, `kept` what it still
has, `copy` are the local files, which stay from one execution to the next under the same names, and `begun` is
what there was when the execution began. `SuccessIsFetched` is about the files a success
counts. Each file is taken to have a local name of its own: the script stores them by base name, so two files of one name in
two directories of the device share a local file.

### ScheduledBackups

`row` holds the time of day of each device's schedule and the ticks to its next run,
`run` what an execution of `run_scheduled_backups` has read and sent. `ReadRows`, `SendTasks` and
`Commit` are apart, so a user's edit or another execution gets in between and a crash repeats or
loses the commit. `TenantTimes` is the vote for the most common time of a tenant. The
day has `Day` ticks; hours and zones are not modelled.

### Billing, Quotas, Login

A transaction in SQLAlchemy writes the columns it changed with respect to what it *read*
(`Changes`, `Commit`). `EnforceRead` and `EnforceCommit` are the enforcement of all tenants;
`Load`, `Process` are a web process that handles a notification of the gateway; the
administrators' actions are single steps, since they read and commit in one request
with nothing slow in between. `subs` are the rows of active subscriptions: a payment cancels those it
found when it read and adds one (`FreshSub`), so two that overlap leave two
(`SubscriptionsBounded`: never more than there are processes; the dashboard of
`web/superadmin/dashboard.py` counts these rows). `Quotas` is one kind of limited thing, chosen once (devices, users,
bytes stored, bytes downloaded): a request counts (`Claim`) and adds
later (`Commit`). A backup that fails its integrity check is not checked against the plan and keeps its file and its
row, whose bytes count for the next (`StoreFailed`, `unchecked`); they are removed after three days (`PurgeFailed`). `Login` is one user from several browsers, one Redis command per step, with
the counter, its expiry and the lock of the address.

## Runs

| Run | Bounds | Shows |
|---|---|---|
| `slots` | 2 timed tasks, 1 VPN group, at most 2 slots, ttl 2, all other limits 1 | all safety properties of the slots and the refinement of `SlotPool`; 1 086 820 states |
| `bulk_vpn` | 1 direct, 1 VPN, status page, cancellation | the types of the document, and the order of the phases with the page and a cancellation; 1 550 084 states |
| `bulk_phases` | 1 direct, 1 jump, 2 VPN groups, both launchers, no status page | one follow-up, finalized only when over, and the refinement, over all phases; 1.1 million states |
| `locks` | VPN: 2 isolated workers on 2 hosts, 2 groups, 2 attempts, with tests. Tenant: a batch and its follow-up, or a follow-up and an audit, a key that lives 1 tick, lock on. Slots: 1 task, 1 VPN group, 2 slots | a session sees its own tunnel; sessions end, keys return, the scheduler gets through, waits end, abandoned slots come back, a stop drains; 99 434 states |
| `recovery` | Health: 2 backups, an override of two slots above a base of one without boost, so that the number falls below what the override says and comes back, all times 1. Schedules: 2 devices and one execution, or 1 device and two that overlap. Billing: 1 invoice, 1 handler, 2 ticks. Login: 2 browsers, 2 attempts | the breaker closes again, every device is backed up daily, late accounts are closed, locks end; nobody is open without a payment or an administrator; 378 316 states |
| `outcomes` | two requests and a limit of 2; one task with one retry, or that of a VPN group; a group of 2 devices; 2 attempts at a device, 3 seconds, one row; every dialogue script with 2 commands of 2 pieces; 2 files of 2 versions, 2 executions; 3 workers on 2 hosts; a jump host with an override of three slots, of which the boost allows two; lists of 2 lines, 3 lines in all; one invoice and two processes that are told of payments | what the program reports is what happened; 1 987 749 states |
| `tenant_one_batch`, `bulk_reprocess_page`, `vpn_shared_host`, `device_vpn_page`, `billing_closes_paid`, `transfer_delete` | the smallest instance that shows it | the disagreements 1 to 6 |

Why these bounds are enough: a slot conflict needs two tasks and one slot, a
late probe beyond a lowered limit a second slot, an expiry under a running VPN group
the third worker. A time to live of two ticks and a run limit of one leave one tick in which a
key may outlive its task. A double follow-up needs two finalizers (the two VPN groups); a premature
finalization needs the last task of a phase and one task of the next; a lost update
two writers. The tenant's lock is lost between two requests, and the life of the key only
decides how soon it expires: one tick lets it go at every point. A stale answer needs
a command and the one before it; a whole answer needs two pieces to be incomplete.
A file of another attempt needs two attempts in one directory, and a file of yesterday one
second more than the tolerance. A success that counts what is not there needs a file that came by the first way, a removal
that broke, and the second way. A number of slots is lost between two backups that end together, and it leaves the
bounds at once if it does: an override one above the boost is enough for the way down, a boost of one for the way up. A plan is exceeded by two requests that count together, and a client has two subscriptions
after two payments that overlap. A line is
skipped by two writers that store out of order and a page that moved on. A breaker that stays
open needs one backup that keeps asking and one whose outcome comes late.
Counters that would grow for ever stop at named constants: `CountCap`,
`MaxTime`, `MaxRows`, `Horizon`, `Cap`, `MaxSeq`, `MaxAged`, `MaxVersion`, `MaxRuns`, `Enters`, `Pauses`.

`CHECK_DEADLOCK FALSE` is said where the system may really stop: a batch that is over,
(both bulk runs and `bulk_reprocess_page`), a task that is over (`device_vpn_page`), and the bounded clocks, rows and
lines of `recovery`, `outcomes`, `billing_closes_paid` and `transfer_delete`. The other runs check for deadlock.

Symmetry is used among the timed tasks (`slots`), the VPN groups (`bulk_phases`)
and the writers, requests and attempts (`outcomes`): nothing in those modules tells them apart, and these
runs have no liveness property.

**Fairness.**
`locks`: a worker inside a VPN session goes on, since each of its waits has a time-out in the
code. Requests, heartbeats and finalizations of a tenant's batches are
scheduled, the tasks of a batch end (they have time limits), Beat calls the scheduler every 300 s and Redis
expires keys. The workers at a slot are scheduled, time passes, and Celery kills a
task at its hard limit; that the body of a backup ends is part of `Step`
(`Finish`): its device timeouts are bounded.
`recovery`: time passes, backups at the jump host are scheduled, Beat sends the
scheduler (every 300 s) and the enforcement (at every full hour), their executions go on unless they die, and workers take tasks from the queue.
No new request, edit, payment, login, heartbeat, death or crash is assumed anywhere; where
they can go on for ever, the property says after what it holds (`BackedUpDaily`: once
users and deaths are over) or holds in spite of them (`LateIsClosed`, `LockoutEnds`).
`BulkBackup` has no fairness: the end of a batch is not promised by the
code, because a killed task leaves its chord incomplete and the batch open.

## Disagreements found

1. **A follow-up completes before it starts** (`bulk_reprocess_page`): the
   launcher publishes the batch with no tasks while it prepares it, and the
   status page takes `total_tasks <= 0` for the end.
2. **A waiter cleans the machine** (`vpn_shared_host`): with
   `VPN_ISOLATED_WORKER` off, a session that timed out on the global lock takes
   down the tunnel of the session that holds it. (A VPN test does the same at any
   time; the run has no tests, to show the first cause.) The script for isolated workers is not
   affected: there `TunnelIsMine` is proved.
3. **Two batches of one tenant** (`tenant_one_batch`): between `register_task` and the
   announcement the document of a batch exists and does not say `is_bulk`; a
   second request takes it for a leftover and deletes the key of the first. The
   launcher sends its tasks in between, so the window is as long as that takes.
4. **A failed VPN backup is shown as a success** (`device_vpn_page`): when the group's task is over
   before the request has written its document, the page goes by the returned value, tests its
   `success` with `is False` (`web/tenant/backups.py` 696), and gets the number of devices that were a success:
   zero is not `False`.
5. **A paid account is closed** (`billing_closes_paid`): a payment is committed between
   the reads of the enforcement and its one commit, which then closes the account. The next
   hour's execution does not open it.
6. **An original is removed without a copy** (`transfer_delete`): the script takes any
   local file of the name for a download, a broken one or one of an earlier execution included.

Met while modelling, and not made a run of its own:

- A client can exceed the storage of its plan without any concurrency. A file that fails its integrity check skips
  `check_storage_before_backup` (`backup_executor.py` 1034-1047: the check asks for `success`), is stored all the
  same with its size in a FAILED row (1109-1126), and `get_storage_used_bytes` sums rows of every status.
  So backup after backup that fails adds bytes beyond the limit until `purge_failed_backups_periodic` removes them
  three days later; meanwhile good backups are refused. `WithinPlan` bounds the bytes that were checked.
- The page calls the backup of a device behind a VPN a success ("Nenhum dispositivo elegivel para backup.") when its
  schedule is off or it was switched off meanwhile: the group's task backs up scheduled, active devices only
  (`tasks/backups.py` 3077-3083). `SuccessIsTrue` leaves that case out (`returned = "empty"`).
- `reset_circuit_breakers_for_new_batch` deletes keys by the pattern `backup_center:jump_host_adaptive:*`,
  and the reduced number of slots is in the hash `backup_center:jump_host_adaptive_slots`, so it survives the reset its
  docstring promises (`tasks/backups.py` 345). In `Reset` the number of slots stays.
- The scheduler looks for an active batch only through keys that are written when
  `BULK_TENANT_SINGLE_ACTIVE_LOCK_ENABLED` is on; it is off by default. `LockOff` proves that then nobody
  ever waits.
- Clearing a tenant's alerts rewrites the list of all tenants from a copy, so lines of other
  tenants stored in between are lost, although the comment of that code says it must not delete the
  data of other tenants. In `TaskLogs` such lines are `excused`.
- The number of a line is given before it is stored, so a line that is stored late is
  behind the cursor of a page that has seen its successor, and is never shown (`excused` as well).
- A page that is half way through the list of all tenants when a clearing rewrites it shorter
  than the next chunk takes the empty answer for the beginning of the list
  (`realtime_backup_logs.py` 387-388), goes on from the newest line it has, and never shows the
  lines in between. It needs a list of more than one chunk (500 lines), so the bounds of
  `outcomes` do not reach it; it came up with a list of 6 lines while the proof was
  prepared. These lines are `excused` too.
- With the status page open, the document of a batch can be finalized while a VPN task is
  queued: the callback adds its tasks to the document, the page reads it, a heartbeat restores
  an older one, and the page writes the number of tasks it counted from the first over the second
  (`web/tenant/backups.py` 850-854, 287, 384). It takes two direct tasks and two VPN
  groups, more than a run can hold. So `FinalizedWhenOver` and `ImplementsBatch` are checked
  and proved without the page (`~Watched`); `bulk_vpn` has the page and checks `PhasesInOrder`, which no document can break.
- `enqueue_jump_and_vpn_after_direct_phase_task` of a batch whose direct task was killed never runs; the batch stays
  announced with phases that never start.

## Proofs

`tlapm` checks every leaf. The theorems hold for every value of the constants that
satisfies the named assumptions of the modules (`SlotAssumption`, `BulkAssumption` with
`NoDocAssumption`, `VpnAssumption`, `LockAssumption`, `SlotsAssumption`, `HealthAssumption`, `QuotaAssumption`,
`BillingAssumption`, `RecoveryAssumption`, `OutcomesAssumption`, `HostAssumption`), which TLC evaluates on
the values of the runs. They cover every safety property that the passing runs check.
A property that is stated of one part of `Locks`, `Recovery` or `Outcomes` is proved of that part's
specification, and carries over because the other parts stand still. Where another proof module has the
theorem already, it is cited through an instance of that module, and a lemma (`SlotsSpec`, `BillsSpec`, ...)
shows that the two instances of the component have the same steps.

- `JumpHostSlots_proofs`. The inductive invariant is `SlotInv`: types, the slot of a worker
  is one it was told of, and `KeyAlive`: a timed holder owns its key and
  `ttl[slot] + age > RunLimit`. The last sum is what makes it inductive: a tick
  adds one to the age and takes one from the time to live, and a task whose age
  reached the limit does not see another tick, so a held key never reaches zero.
  From it follow `KeyOutlivesTask`, `ExclusiveUse` (two owners of one key are the same), the refinement of
  `SlotPool`, and `NoOverbooking`: `slot` is an injection of the running tasks into `1..n`,
  and the library's `FS_Injection` bounds their number. `OnlyOwnerFrees` is an action property proved by cases.
- `JumpHostHealth_proofs`. `HealthTypes`: a backup is given between one slot and `Most`, the larger of
  the boosted base and the override, and what is stored is at most the boosted base or one below the override.
  A backup writes what it computed from a number it read several commands ago; the types say that what it *read* is such a
  number too, and that is what makes them inductive. Nothing bounds the override but sixteen, as in the code. `WindowTargetBounds` is about the arithmetic alone.
- `BulkBackup_proofs`. What a batch *does* and what its document *says* have separate invariants.
  `Decision`: before the decision key is set nothing was scheduled; whoever is at `choose`
  came through the key alone. It does not mention the document at all, which is the
  point: no lost update can break it. `Order`, for `PhasesOrdered`: the tasks of a phase exist, and
  the callback that sends them runs, only when the phases before have succeeded as a whole.
  `DocInv`, for `DocumentTypes`: that a document never counts more tasks than there are is not
  inductive, because a callback adds the size of its phase and of those still to come to
  what it read. The sum is right as long as no document *and no copy of one, however stale*,
  knows a VPN group while the callback of the direct phase may still add them (`Sound`, `Waiting`); this
  in turn holds because the VPN callback waits for the jump host tasks, and they are not sent before
  that callback is done. The rest says which phases hold a plan that was worked out (`Holding`).
  `Finality`, for `FinalizedAtTheEnd`, looks from the other side: a document, or a copy of one, that lists
  as many tasks as it counts lists every VPN task and every task of the phases before that has not
  succeeded (`Suits`, `Full`). A finalizer goes by the first of these, that all tasks it lists are over, and has therefore
  found the batch over. It holds of every copy only if each writer works out list and
  number from one read; the status page does not, hence `~Watched`.
  `BulkImplementsBatch` combines the three: a step of the batch is a step of `BulkBatch` or a stutter.
- `VpnSession_proofs`. `LocksHeld` (who works with the machine holds the locks)
  gives one session per group in every setting and one in the system without
  isolation. `TunnelBuilt` needs isolation: no other worker touches the host's
  tunnels between the cleanup and the end of the session.
- `Locks_proofs`. `LockTypes` for any batches and any life of the key; `LockOff`: with the lock off no key
  is ever written and no phase of the lock is entered. `LocksTypes` adds to them `SessionTypes` and the
  `TypeCorrect` of the slots, for the three in one specification.
- `Billing_proofs`. `EntitledInv`, for `EntitledOnly`: whatever opens the account, or will, is vouched for
  (`Vouched`): the row, the row in the trash, a payment the gateway approved, a process that was told of it, and
  the columns a process is about to write. The enforcement writes none that opens. A purged
  tenant is not there to be open, and before there is one nobody works for it (`Untouched`).
  `OwnersInv`, for `OneSubscriptionEach`: every active row has a process that added it, no process has two,
  and a process that is about to write has seen its own (`Seen`), so it cancels that one before it adds the next.
  Of what a process has read the same must be known as of the rows. The
  owners are an injection into the processes, and `FS_Injection` counts.
  `BillingTypes` needs `OwnersInv`: only because rows and copies are that few is there an identifier for `FreshSub` that
  nobody has (`FreshExists`).
- `Recovery_proofs`. `EntitledOnly` is carried over. `RecoveryTypes` has one invariant for each of the schedules
  (`DailyInv`, `OverlapInv`, in which the copies of an execution are types too: what it sent, moved on or
  dropped is part of what it read) and one for the login. The counters of the login are not typed by themselves: `ttl > 0
  => attempts > 0` (`LoginCounter`) says that an expiry always belongs to a counter that counted.
- `Outcomes_proofs`, one invariant for each part.
  `Earned` (`SuccessHolds`): each of the three things the page goes by (document, value, state
  of Celery) says success only after the executor did or when a group had nothing to back up, and a task that Celery calls a success has
  returned a value. The last part is what a document overwritten by a late request needs.
  `GroupInv` (`GroupCountsAddUp`): while a group's task runs, what it counted and what is `left` are
  all the devices, and the device under way is among those left, wherever an alarm strikes.
  `Held` (`SuccessIsFresh`): an attempt that holds a success holds a recent file, and before it has
  picked one it holds none; so the time its script began, against which the file is measured,
  is not moved afterwards.
  `FetchInv` (`SuccessWasFetched`): a file that is counted is no longer to be fetched, so its copy stays
  whole; what the first way counted is forgotten when it breaks; the device's versions only grow; and originals are removed
  only after something was fetched.
  `DialogueInv` (`SavedWhole`): as long as nothing came late, what was read and what is still to
  come hold, up to the first prompt, the whole answer to the last command or none of it (`Complete`).
  It has to speak of the three queues as one, because a reader stops anywhere in them, and of every prompt, because a
  reader may take an earlier one for the end. That there *is* a first prompt is `Least`, the least number of
  a set, which takes the place of an induction.
  `LogInv` (`NoLineSkipped`): the list is in the order of its numbers but for excused lines (`Sorted`);
  behind the page's place everything below what it found was found (`Gathered`). The place is a
  number, and the list moves under it: a cut at the front only moves lines the page has passed out of its
  way, and for a rewrite `InPlace` says that a list of which nothing is gone keeps no line
  further forward than it stands. `NewestThatFit` is the counting argument for a page that is not full.
  `OneSessionAtATime` cites `SharedSession` of `VpnSession_proofs` through an instance, `SubscriptionsFew`
  `OneSubscriptionEach` of `Billing_proofs`.
  `PlanInv` (`PlanHolds`) counts what is under way as if it were there already: then a request that
  counted, a commit and a request that gives up all leave the sum where it was, and only
  `Claim` can raise it, having seen the room. Unchecked bytes only take room away.
  `OutcomesTypes` says of each part that its variables hold what the code stores in them. Some types need more than
  types: an execution that is about to leave a dump has left none (`DumpsCounted`); the result of a group fits
  because the counts add up (`GroupInv`); lines that are listed, kept for a rewrite or on their way have a number from one to the
  counter, and a list is no longer than the numbers given, since each has its own (`LinesKnown`, `LogCounted`); what a
  script holds as text is made of what the device sent, without a prompt (`QueuesTyped`). A search for the first
  prompt takes `Least`, or `RankExists`, where one would write an induction.

Only model-checked: the liveness properties (`SessionEnds`, `KeyReturns`, `SchedulerReturns`, `WaitEnds`,
`AbandonedSlotReturns`, `StopDrains`, `BreakerCloses`, `BackedUpDaily`, `LateIsClosed`, `LockoutEnds`): fairness is
beyond the prover. The six disagreements are counterexamples, which TLC finds.

## Not modelled

- Reports, comparison, the activity log: reads and formatting; one row at a time.
- Models, migrations, configuration, dashboards: declarations. Limits and times of the configuration are
  constants of the modules.
- Maintenance scripts: run by hand, one at a time, to read, copy and report.
- Most web pages: forms and views over rows. Those that change what a task, a schedule, a
  plan or an account depends on are actions (`EditDevice`, `SetDevice`, `ToggleTenant`, `EditTenant`, ...).
  The bulk page's filter of devices that are already in a batch, and its counters per
  group, only choose what is shown or sent.
- Inside of nmcli, ip, SSH, netmiko and the gateway's client: environment. What they may
  answer is chosen freely.
- Other device scripts: profiles over the same helpers, or one call of netmiko (`Silent`).
- The queues as lists. A task that a stop leaves in a queue is one that starts late.
- Documents and keys that reach their 48 hours or 90 days.
- The Zabbix script's pipe: whether a failing dump is noticed by `PIPESTATUS` is a matter of the shell that
  the remote host runs.

## Plan

1. Slots, batch and VPN sessions with their abstract specifications, first proofs: done.
2. The tenant's lock with its disagreements: done.
3. Jump host health, single and group tasks, executor and retention, device scripts, schedules,
   billing, limits, login, log lines: done.
4. Invariants for `FinalizedWhenOver`, the refinement of `BulkBatch`, `OpenIsEntitled`, `CountsAddUp`,
   `SavedIsWhole` and `NothingSkipped`: done.
5. `LocksTyped`, `RecoveryTyped` and `OutcomesTyped`, part by part, and the subscriptions of a client: done.
6. Next: the stop of everything as one process over the batch document of
   `BulkBackup`, with the queues; two tenants that share a jump host and its record.
