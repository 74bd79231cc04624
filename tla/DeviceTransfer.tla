------------------------------ MODULE DeviceTransfer ------------------------------
(***************************************************************************)
(* The scripts that fetch files instead of reading a command line:         *)
(* mikrotik_download_backups copies the backup files a RouterOS device     *)
(* keeps and may remove them there, grafana_backup fetches one document    *)
(* per dashboard, Zabbix_backup dumps a database into a remote file.       *)
(* Executions follow one another; local copies stay between them, under    *)
(* the names the files have on the device.                                 *)
(***************************************************************************)
EXTENDS Naturals

CONSTANTS
    Files,         \* names of files on the device
    Kinds,         \* scripts under study
    Delete,        \* the parameter delete_after_download
    MaxVersion,    \* bound on the times the device writes a file
    MaxRuns        \* bound on the executions

VARIABLES
    kind,
    remote,    \* the last version the device made of each file, 0 for none
    kept,      \* the files it still keeps
    begun,     \* history: the versions there were when the execution began
    copy,      \* the local copy of each file
    at,
    way,       \* how files are fetched: sftp, then scp
    listed, todo,
    fetched,   \* the files this execution downloaded
    lost,      \* history: versions removed from the device without a whole copy
    temp,      \* remote dumps nobody removed
    runs

session == <<at, way, listed, todo, fetched>>
device == <<remote, kept>>
vars == <<kind, device, begun, copy, session, lost, temp, runs>>

NoCopy == [version |-> 0, whole |-> FALSE]

TypeOK ==
    /\ kind \in Kinds
    /\ remote \in [Files -> 0..MaxVersion] /\ kept \subseteq Files
    /\ begun \in [Files -> 0..MaxVersion]
    /\ copy \in [Files -> [version: 0..MaxVersion, whole: BOOLEAN]]
    /\ at \in {"idle", "list", "fetch", "delete", "zip", "dump", "success", "failure"}
    /\ way \in {"sftp", "scp"}
    /\ listed \subseteq Files /\ todo \subseteq listed /\ fetched \subseteq listed
    /\ lost \subseteq Files /\ temp \in 0..MaxRuns /\ runs \in 0..MaxRuns

Init ==
    /\ kind \in Kinds
    /\ remote = [f \in Files |-> 0] /\ kept = {} /\ begun = remote
    /\ copy = [f \in Files |-> NoCopy]
    /\ at = "idle" /\ way = "sftp" /\ listed = {} /\ todo = {} /\ fetched = {}
    /\ lost = {} /\ temp = 0 /\ runs = 0

\* The device makes its next backup, under a name it used before or a new one.
Write(f) ==
    /\ remote[f] < MaxVersion
    /\ remote' = [remote EXCEPT ![f] = @ + 1] /\ kept' = kept \cup {f}
    /\ UNCHANGED <<kind, begun, copy, session, lost, temp, runs>>

Run ==
    /\ at \in {"idle", "success", "failure"} /\ runs < MaxRuns
    /\ runs' = runs + 1
    /\ at' = IF kind = "zabbix" THEN "dump" ELSE "list"
    /\ way' = "sftp" /\ listed' = {} /\ todo' = {} /\ fetched' = {}
    /\ begun' = remote
    /\ UNCHANGED <<kind, device, copy, lost, temp>>

\* An exception: RouterOS files are listed and fetched again with sshpass and scp, if
\* sshpass is there.
Again ==
    \/ kind = "mikrotik" /\ way = "sftp" /\ at' = "list" /\ way' = "scp"
    \/ at' = "failure" /\ UNCHANGED way

\* Variant: one counter for both ways.
RaisedCounting == Again /\ listed' = {} /\ todo' = {} /\ UNCHANGED fetched

Raised == Again /\ listed' = {} /\ todo' = {} /\ fetched' = {}

\* The list, the session for the files or a command that removes one breaks, the last
\* before or after the device obeyed.
Breaks ==
    /\ at \in {"list", "fetch", "delete"} /\ Raised
    /\ UNCHANGED <<kind, device, begun, copy, lost, temp, runs>>

\* Nothing to fetch is a success, and what is returned is the directory.
List ==
    /\ at = "list"
    /\ listed' = kept /\ todo' = kept
    /\ at' = IF kept = {} THEN "success" ELSE "fetch"
    /\ UNCHANGED <<kind, device, begun, copy, way, fetched, lost, temp, runs>>

-------------------------------------------------------------------------------
(* One file.                                                               *)

Fetch(f) ==
    /\ at = "fetch" /\ f \in todo /\ f \in kept
    /\ todo' = todo \ {f} /\ fetched' = fetched \cup {f}
    /\ copy' = [copy EXCEPT ![f] = [version |-> remote[f], whole |-> TRUE]]
    /\ UNCHANGED <<kind, device, begun, at, way, listed, lost, temp, runs>>

\* sftp.get opens the local file before it asks for the remote one, so a failure
\* leaves a part of it; scp may also fail before.  A dashboard is only skipped.
FetchFails(f) ==
    /\ at = "fetch" /\ f \in todo
    /\ todo' = todo \ {f}
    /\ \/ kind = "mikrotik" /\ copy' = [copy EXCEPT ![f] = [version |-> remote[f], whole |-> FALSE]]
       \/ (kind = "grafana" \/ way = "scp") /\ UNCHANGED copy
    /\ UNCHANGED <<kind, device, begun, at, way, listed, fetched, lost, temp, runs>>

Counted ==
    /\ at = "fetch" /\ todo = {} /\ kind = "mikrotik"
    /\ IF fetched = {} THEN Raised
       ELSE /\ at' = (IF Delete THEN "delete" ELSE "success")
            /\ todo' = (IF Delete THEN listed ELSE {})
            /\ UNCHANGED <<way, listed, fetched>>
    /\ UNCHANGED <<kind, device, begun, copy, lost, temp, runs>>

\* Whatever stands under the name of the file is taken for its copy.
Remove(f) ==
    /\ at = "delete" /\ f \in todo
    /\ todo' = todo \ {f}
    /\ \/ UNCHANGED <<kept, lost>>
       \/ /\ copy[f] # NoCopy
          /\ kept' = kept \ {f}
          /\ lost' = IF copy[f] = [version |-> remote[f], whole |-> TRUE] THEN lost ELSE lost \cup {f}
    /\ UNCHANGED <<kind, remote, begun, copy, at, way, listed, fetched, temp, runs>>

Removed ==
    /\ at = "delete" /\ todo = {} /\ at' = "success"
    /\ UNCHANGED <<kind, device, begun, copy, way, listed, todo, fetched, lost, temp, runs>>

\* Grafana packs what came, which may be nothing.
Zip ==
    /\ at = "fetch" /\ todo = {} /\ kind = "grafana"
    /\ at' \in {"success", "failure"}
    /\ UNCHANGED <<kind, device, begun, copy, way, listed, todo, fetched, lost, temp, runs>>

\* The status of gzip is read from PIPESTATUS after an assignment has reset it, so it
\* is the default 1: whatever the dump did, it is refused, and its file stays.
Dump ==
    /\ at = "dump" /\ at' = "failure"
    /\ temp' = temp + 1 \/ UNCHANGED temp
    /\ UNCHANGED <<kind, device, begun, copy, way, listed, todo, fetched, lost, runs>>

Next ==
    \/ Run \/ Breaks \/ List \/ Counted \/ Removed \/ Zip \/ Dump
    \/ \E f \in Files : Write(f) \/ Fetch(f) \/ FetchFails(f) \/ Remove(f)
Spec == Init /\ [][Next]_vars

-------------------------------------------------------------------------------
(* Properties.                                                             *)

\* What a success counts as downloaded are whole copies of what the device kept when the
\* execution began, or of something newer: neither the rest of a broken transfer nor a
\* copy of an earlier execution passes for one, and if anything was listed something
\* was downloaded, wherever the first way broke (_download_via_paramiko,
\* _download_via_sshpass).
SuccessIsFetched ==
    kind = "mikrotik" /\ at = "success" /\ listed # {} =>
        /\ fetched # {}
        /\ \A f \in fetched : copy[f].whole /\ copy[f].version >= begun[f]

\* "Apagando ficheiros do dispositivo apos o download": a file is removed from the
\* device only when this version of it was downloaded whole.
DeletedIsSaved == lost = {}
===============================================================================
