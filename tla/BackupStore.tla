------------------------------- MODULE BackupStore -------------------------------
(***************************************************************************)
(* What one attempt leaves behind: the executor (run_backup_for_device_id) *)
(* runs the script of the device, finds the file it made, checks it, holds *)
(* it against the quota and writes the row; the purges take files and rows *)
(* away again.  Files of devices of one name share a directory, and a file *)
(* is named by the second it is made in.                                   *)
(***************************************************************************)
EXTENDS Naturals, FiniteSets

CONSTANTS
    Devices,
    Folder,       \* directory of each device: tenant, group and name
    Target,       \* where its script writes: there, or below (prepare_backup_path)
    Attempts,     \* attempts that may be under way at once
    Tolerance,    \* script_started_wall = now - 5 s
    FailedLife,   \* days a failed row is kept
    Retention,    \* days any row is kept
    MaxTime,      \* bound on the clock
    MaxRows       \* bound on the rows

VARIABLES
    clock,
    files,    \* the files: directory, second and whether they pass the checks
    attempt,  \* what each attempt is at
    rows,     \* the backups of the database
    status,   \* last_backup_status of each device
    device,   \* on, off or deleted
    purge     \* the rows a purge has read and not yet deleted

vars == <<clock, files, attempt, rows, status, device, purge>>

NoFile == [none |-> "no file"]
Names == [folder: {Target[d] : d \in Devices}, time: 0..MaxTime]
Paths == Names \cup {NoFile}
Places == {"idle", "checks", "script", "pick", "verify", "quota", "persist"}

TypeOK ==
    /\ clock \in 0..MaxTime
    /\ files \subseteq [name: Names, good: BOOLEAN]
    /\ \A f, g \in files : f.name = g.name => f = g
    /\ attempt \in [Attempts -> [at: Places, device: Devices, began: 0..MaxTime,
                                 path: Paths, ok: BOOLEAN]]
    /\ rows \subseteq [device: Devices, ok: BOOLEAN, began: 0..MaxTime,
                       path: Paths, made: 0..MaxTime, twin: BOOLEAN]
    /\ status \in [Devices -> {"none", "success", "failure"}]
    /\ device \in [Devices -> {"on", "off", "gone"}]
    /\ purge \subseteq rows

Idle == [at |-> "idle", device |-> CHOOSE d \in Devices : TRUE, began |-> 0,
         path |-> NoFile, ok |-> FALSE]

Init ==
    /\ clock = 0 /\ files = {} /\ rows = {} /\ purge = {}
    /\ attempt = [a \in Attempts |-> Idle]
    /\ status = [d \in Devices |-> "none"]
    /\ device = [d \in Devices |-> "on"]

Exists(path) == \E f \in files : f.name = path
Good(path) == \E f \in files : f.name = path /\ f.good
Without(path) == {f \in files : f.name # path}
To(a, at) == attempt' = [attempt EXCEPT ![a].at = at]
Result(a, at, ok, path) ==
    attempt' = [attempt EXCEPT ![a].at = at, ![a].ok = ok, ![a].path = path]
database == <<rows, status, device, purge>>

-------------------------------------------------------------------------------
(* One attempt.                                                            *)

\* The device is read and its session closed before the script runs.
Start(a, d) ==
    /\ attempt[a].at = "idle" /\ device[d] # "gone"
    /\ Cardinality(rows) < MaxRows
    /\ attempt' = [attempt EXCEPT ![a] = [Idle EXCEPT !.at = "checks", !.device = d, !.began = clock]]
    /\ UNCHANGED <<clock, files, database>>

\* No script, a password that does not decrypt, a jump host without credentials, a
\* tunnel that fails, or a port that two probes do not reach.
Refuse(a) ==
    /\ attempt[a].at = "checks"
    /\ Result(a, "persist", FALSE, NoFile)
    /\ UNCHANGED <<clock, files, database>>

Precheck(a) ==
    /\ attempt[a].at = "checks"
    /\ attempt' = [attempt EXCEPT ![a].at = "script", ![a].began = clock]
    /\ UNCHANGED <<clock, files, database>>

Mine(a) == [folder |-> Target[attempt[a].device], time |-> clock]
\* A script that writes its file may still fail afterwards, or not name it.
WriteFile(a, good) ==
    /\ attempt[a].at = "script"
    /\ files' = Without(Mine(a)) \cup {[name |-> Mine(a), good |-> good]}
    /\ \/ Result(a, "verify", TRUE, Mine(a))
       \/ To(a, "pick")
       \/ Result(a, "persist", FALSE, NoFile)
    /\ UNCHANGED <<clock, database>>

NoNewFile(a) ==
    /\ attempt[a].at = "script"
    /\ To(a, "pick") \/ Result(a, "persist", FALSE, NoFile)
    /\ UNCHANGED <<clock, files, database>>

\* A script may name its directory (mikrotik_download_backups always does, grafana
\* when there are no dashboards): it cannot be read as a file, the attempt ends with
\* the exception, and no row tells of it.
NameDirectory(a) ==
    /\ attempt[a].at = "script"
    /\ attempt' = [attempt EXCEPT ![a] = Idle]
    /\ UNCHANGED <<clock, files, database>>

\* os.listdir looks no deeper.
Listed(a) == {f \in files : f.name.folder = Folder[attempt[a].device]}

\* Variant: the newest file of the directory, whenever it was made.
NewestOf(a) == {f.name : f \in Listed(a)}

\* The files of the directory that can be of this execution.
Fresh(a) == {f.name : f \in {g \in Listed(a) : g.name.time + Tolerance >= attempt[a].began}}

Pick(a) ==
    /\ attempt[a].at = "pick"
    /\ IF Fresh(a) = {} THEN Result(a, "persist", FALSE, NoFile)
       ELSE \E n \in Fresh(a) :
            /\ \A m \in Fresh(a) : m.time <= n.time
            /\ Result(a, "verify", TRUE, n)
    /\ UNCHANGED <<clock, files, database>>

\* A file that does not pass is kept, and the failed row names it.
Verify(a) ==
    /\ attempt[a].at = "verify"
    /\ IF Good(attempt[a].path) THEN To(a, "quota") ELSE Result(a, "persist", FALSE, attempt[a].path)
    /\ UNCHANGED <<clock, files, database>>

Quota(a) ==
    /\ attempt[a].at = "quota"
    /\ \/ To(a, "persist") /\ UNCHANGED files
       \/ /\ Result(a, "persist", FALSE, NoFile)
          /\ files' = Without(attempt[a].path)
    /\ UNCHANGED <<clock, database>>

\* The connection may drop after the commit: the second session writes it again.
\* Without the device there is no row, whatever the file.
Persist(a) ==
    LET mine == [device |-> attempt[a].device, ok |-> attempt[a].ok, began |-> attempt[a].began,
                 path |-> attempt[a].path, made |-> clock, twin |-> FALSE]
    IN /\ attempt[a].at = "persist"
       /\ IF device[mine.device] = "gone" THEN UNCHANGED <<rows, status>>
          ELSE /\ \E twice \in BOOLEAN :
                    rows' = rows \cup {mine} \cup (IF twice THEN {[mine EXCEPT !.twin = TRUE]} ELSE {})
               /\ status' = [status EXCEPT ![mine.device] = IF mine.ok THEN "success" ELSE "failure"]
       /\ attempt' = [attempt EXCEPT ![a] = Idle]
       /\ UNCHANGED <<clock, files, device, purge>>

\* The worker dies, or the database refuses the row: files stay, nothing says so.
Die(a) ==
    /\ attempt[a].at # "idle"
    /\ attempt' = [attempt EXCEPT ![a] = Idle]
    /\ UNCHANGED <<clock, files, database>>

-------------------------------------------------------------------------------
(* The purges: the files first, then the rows in one commit.               *)

Take(old) ==
    /\ purge = {} /\ old # {}
    /\ purge' = old
    /\ files' = {f \in files : \A r \in old : r.path # f.name}
    /\ UNCHANGED <<clock, attempt, rows, status, device>>

PurgeExpired == Take({r \in rows : r.made + Retention < clock /\ device[r.device] = "on"})
PurgeFailed == Take({r \in rows : ~r.ok /\ r.made + FailedLife < clock})
ClearFailed == Take({r \in rows : ~r.ok})
CommitPurge ==
    /\ purge # {}
    /\ rows' = rows \ purge /\ purge' = {}
    /\ UNCHANGED <<clock, files, attempt, status, device>>
CrashPurge ==
    /\ purge # {} /\ purge' = {}
    /\ UNCHANGED <<clock, files, attempt, rows, status, device>>

-------------------------------------------------------------------------------

\* Turned off, on, or deleted with its rows, which leaves the files.
SetDevice(d, to) ==
    /\ device[d] # "gone" /\ purge = {}
    /\ device' = [device EXCEPT ![d] = to]
    /\ rows' = IF to = "gone" THEN {r \in rows : r.device # d} ELSE rows
    /\ UNCHANGED <<clock, files, attempt, status, purge>>

Tick ==
    /\ clock < MaxTime /\ clock' = clock + 1
    /\ UNCHANGED <<files, attempt, database>>

Attempt(a) ==
    \/ \E d \in Devices : Start(a, d)
    \/ Refuse(a) \/ Precheck(a) \/ \E good \in BOOLEAN : WriteFile(a, good)
    \/ NoNewFile(a) \/ NameDirectory(a) \/ Pick(a) \/ Verify(a) \/ Quota(a) \/ Persist(a) \/ Die(a)
Purges == PurgeExpired \/ PurgeFailed \/ ClearFailed \/ CommitPurge \/ CrashPurge
Users == \E d \in Devices, to \in {"on", "off", "gone"} : SetDevice(d, to)
Next == Tick \/ Purges \/ Users \/ \E a \in Attempts : Attempt(a)
Spec == Init /\ [][Next]_vars

-------------------------------------------------------------------------------
(* Properties.                                                             *)

\* A backup recorded as a success names a file no older than the tolerance before
\* its script began, however many attempts, of devices of one name or of one
\* device, share the directory and whatever the purges took away meanwhile: a
\* configuration of an earlier day is never passed off as today's (execute_backup).
NoStaleSuccess ==
    \A r \in rows : r.ok => r.path # NoFile /\ r.path.time + Tolerance >= r.began
===============================================================================
