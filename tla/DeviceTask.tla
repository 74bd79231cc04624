-------------------------------- MODULE DeviceTask --------------------------------
(***************************************************************************)
(* The backup of one device that a user started from its page: the request *)
(* sends the task, for a device behind a VPN that of its group, and only   *)
(* then writes its document; the task runs, maybe twice, and the page      *)
(* guesses how far it is from the document and from the state and the      *)
(* value Celery keeps.  Users may cancel it or stop everything.            *)
(***************************************************************************)
EXTENDS Naturals

CONSTANTS
    MaxRetries  \* max_retries of run_backup_task

VARIABLES
    mode,       \* how the device is reached
    off,        \* what keeps the device from a backup
    at,         \* where the task is
    registered, \* the request has written the document
    tries,      \* retries so far
    doc,        \* the document: status and completed
    celery,     \* the state in the result backend
    returned,   \* what the returned value says, once there is one
    stop,       \* the global stop
    row,        \* a failed row says that the limit was hit
    worked      \* history: the executor reported success

vars == <<mode, off, at, registered, tries, doc, celery, returned, stop, row, worked>>

Modes == {"direct", "jump", "vpn on another queue", "vpn", "group"}
Reasons == {"nothing", "schedule", "device", "group"}
Status == {"none", "queued", "running", "retrying", "success", "failed", "stopped"}
Places == {"waiting", "checks", "breaker", "slot", "run", "failed", "connect", "device",
           "ending", "over"}
Final == {"SUCCESS", "FAILURE", "REVOKED"}
\* Of run_backup_task, success or not; of a group, an error, how many devices were a
\* success, or that there was none to back up.
Values == {"good", "bad", "count", "empty"}

TypeOK ==
    /\ mode \in Modes /\ off \in Reasons
    /\ at \in Places /\ registered \in BOOLEAN /\ tries \in 0..MaxRetries
    /\ doc \in [status: Status, done: BOOLEAN]
    /\ celery \in {"PENDING", "STARTED", "RETRY"} \cup Final
    /\ returned \in {"none"} \cup Values
    /\ stop \in BOOLEAN /\ row \in BOOLEAN /\ worked \in BOOLEAN

Init ==
    /\ mode \in Modes /\ off \in Reasons \ {"group"}
    /\ at = "waiting" /\ registered = FALSE /\ tries = 0
    /\ doc = [status |-> "none", done |-> FALSE]
    /\ celery = "PENDING" /\ returned = "none"
    /\ stop = FALSE /\ row = FALSE /\ worked = FALSE

Says(status, done) == doc' = [status |-> status, done |-> done]
environment == <<mode, off, registered, stop, row>>

-------------------------------------------------------------------------------
(* run_backup_task.                                                        *)

\* The document says how it ends, then the value is returned to Celery.
Return(status, value) ==
    /\ Says(status, TRUE)
    /\ at' = "ending" /\ returned' = value
    /\ UNCHANGED celery

Finish ==
    /\ at = "ending"
    /\ at' = "over" /\ celery' = "SUCCESS"
    /\ UNCHANGED <<environment, tries, doc, returned, worked>>

Begin ==
    /\ at = "waiting" /\ celery # "REVOKED"
    /\ at' = "checks" /\ celery' = "STARTED"
    /\ UNCHANGED <<environment, tries, doc, returned, worked>>

Blocked == off \in {"device", "group"}
Checks ==
    /\ at = "checks" /\ mode # "group"
    /\ \/ stop /\ Return("stopped", "bad")
       \/ ~stop /\ (Blocked \/ mode = "vpn on another queue") /\ Return("failed", "bad")
       \/ ~stop /\ ~Blocked /\ mode = "vpn" /\ Return("failed", "bad")   \* ensure_worker_ready
       \/ /\ ~stop /\ ~Blocked /\ mode # "vpn on another queue"
          /\ Says("running", FALSE)
          /\ at' = (IF mode = "jump" THEN "breaker" ELSE "run")
          /\ UNCHANGED <<celery, returned>>
    /\ UNCHANGED <<environment, tries, worked>>

\* The circuit breaker, then a slot: had, refused after the wait, or given up
\* because of the stop.
Breaker ==
    /\ at = "breaker"
    /\ \/ Return("failed", "bad")
       \/ at' = "slot" /\ UNCHANGED <<doc, celery, returned>>
    /\ UNCHANGED <<environment, tries, worked>>

Slot ==
    /\ at = "slot"
    /\ \/ at' = "run" /\ UNCHANGED <<doc, celery, returned>>
       \/ stop /\ Return("stopped", "bad")
       \/ Return("failed", "bad")
    /\ UNCHANGED <<environment, tries, worked>>

Run ==
    /\ at = "run"
    /\ \/ Return("success", "good") /\ worked' = TRUE
       \/ at' = "failed" /\ UNCHANGED <<doc, celery, returned, worked>>
       \/ Return("failed", "bad") /\ UNCHANGED worked      \* an exception
    /\ UNCHANGED <<environment, tries>>

\* A failure that may pass is tried once more, 30 seconds later.
Failed ==
    /\ at = "failed"
    /\ \/ /\ tries < MaxRetries /\ ~stop
          /\ tries' = tries + 1
          /\ Says("retrying", FALSE)
          /\ at' = "waiting" /\ celery' = "RETRY"
          /\ UNCHANGED returned
       \/ Return("failed", "bad") /\ UNCHANGED tries
    /\ UNCHANGED <<environment, worked>>

\* SoftTimeLimitExceeded is an Exception: inside the task or the executor it ends
\* as any failure does, and only outside their handlers does it reach the one that
\* writes a row for it.
SoftLimit ==
    /\ mode # "group"
    /\ \/ at \in {"breaker", "slot", "run"} /\ Return("failed", "bad") /\ UNCHANGED row
       \/ at = "run" /\ at' = "failed" /\ UNCHANGED <<doc, celery, returned, row>>
       \/ at \in {"checks", "failed", "ending"} /\ Return("failed", "bad") /\ row' \in {row, TRUE}
    /\ UNCHANGED <<mode, off, registered, stop, tries, worked>>

-------------------------------------------------------------------------------
(* run_vpn_group_backups_task, given one device; it has no limits of its own.  *)

\* Nothing to back up is a success; only a device with automatic backup counts.
GroupChecks ==
    /\ at = "checks" /\ mode = "group"
    /\ \/ off = "group" /\ Return("failed", "bad")
       \/ off \in {"schedule", "device"} /\ Return("success", "empty")
       \/ off = "nothing" /\ stop /\ Return("stopped", "count")
       \/ /\ off = "nothing" /\ ~stop
          /\ Says("running", FALSE)
          /\ at' = "connect" /\ UNCHANGED <<celery, returned>>
    /\ UNCHANGED <<environment, tries, worked>>

Connect ==
    /\ at = "connect"
    /\ at' = "device"
    /\ UNCHANGED <<environment, tries, doc, celery, returned, worked>>

\* The breaker, the slot, the alarm and the executor each refuse or fail it.
GroupDevice ==
    /\ at = "device"
    /\ \/ stop /\ Return("stopped", "count") /\ UNCHANGED worked
       \/ Return("failed", "count") /\ UNCHANGED worked
       \/ Return("success", "count") /\ worked' = TRUE
    /\ UNCHANGED <<environment, tries>>

\* The tunnel or anything else fails, at the end of the session too.
GroupFails ==
    /\ mode = "group" /\ at \in {"checks", "connect", "device"}
    /\ Return("failed", "bad")
    /\ worked' \in {worked, worked \/ at = "device"}
    /\ UNCHANGED <<environment, tries>>

-------------------------------------------------------------------------------
\* The hard limit, or the death of the worker, of which Celery may never learn.
Die ==
    /\ at \notin {"waiting", "over"}
    /\ at' = "over" /\ celery' \in {"STARTED", "FAILURE"}
    /\ UNCHANGED <<environment, tries, doc, returned, worked>>

-------------------------------------------------------------------------------
(* The pages.                                                              *)

\* run_backup: the task is already sent, and the document starts from nothing.
Register ==
    /\ ~registered /\ registered' = TRUE
    /\ Says("queued", FALSE)
    /\ UNCHANGED <<mode, off, at, tries, celery, returned, stop, row, worked>>

\* Revoked: a task that waits is dropped when a worker sees it, one that runs is
\* ended by SIGTERM or comes to its end first.
Revoke ==
    IF at = "over" THEN UNCHANGED <<at, celery>>
    ELSE \/ at' = "over" /\ celery' = "REVOKED"
         \/ UNCHANGED <<at, celery>>

Cancel ==
    /\ registered
    /\ Revoke
    /\ stop' = TRUE /\ Says("stopped", TRUE)
    /\ UNCHANGED <<mode, off, registered, tries, returned, row, worked>>

\* Only the documents of batches are marked; a task taken out of the queue leaves
\* its own as it was.  A group that runs is not ended, for the sake of its tunnel.
StopAll ==
    /\ IF mode = "group" /\ at # "waiting" THEN UNCHANGED <<at, celery>>
       ELSE Revoke \/ (at = "waiting" /\ mode # "jump" /\ at' = "over" /\ UNCHANGED celery)
    /\ stop' = TRUE
    /\ UNCHANGED <<mode, off, registered, tries, doc, returned, row, worked>>

\* It expires, or the next manual backup removes it.
Unstop ==
    /\ stop /\ stop' = FALSE
    /\ UNCHANGED <<mode, off, at, registered, tries, doc, celery, returned, row, worked>>

Edit ==
    /\ off' \in Reasons \ {off}
    /\ UNCHANGED <<mode, at, registered, tries, doc, celery, returned, stop, row, worked>>

\* Variant: a task that Celery calls a success is one.
PageTrusting ==
    CASE celery = "SUCCESS" /\ ~doc.done -> [status |-> "success", done |-> TRUE]
      [] celery = "FAILURE" -> [status |-> "failed", done |-> TRUE]
      [] OTHER -> doc

Early == {"queued", "retrying"}     \* no progress yet

\* task_status: the document, or what the value and the state of the task tell.  A
\* value that counts is not False, be the count zero.
Page ==
    CASE celery = "STARTED" /\ doc.status \in Early -> [doc EXCEPT !.status = "running"]
      [] celery = "SUCCESS" /\ ~doc.done ->
           [status |-> IF returned = "bad" THEN "failed" ELSE "success", done |-> TRUE]
      [] celery = "FAILURE" -> [status |-> "failed", done |-> TRUE]
      [] OTHER -> doc

Group == GroupChecks \/ Connect \/ GroupDevice \/ GroupFails
Task ==
    \/ Begin \/ Checks \/ Breaker \/ Slot \/ Run \/ Failed \/ SoftLimit \/ Group
    \/ Finish \/ Die
Users == Register \/ Cancel \/ StopAll \/ Unstop \/ Edit
Next == Task \/ Users
Spec == Init /\ [][Next]_vars

-------------------------------------------------------------------------------
(* Properties.                                                             *)

\* What the page knows of a VPN group that says how many devices were a success, when its
\* document was overwritten.
CountOnly == returned = "count" /\ ~doc.done

\* Whatever overtakes what, the request its own task, a user the end of it, the page
\* never calls a backup a success that no attempt made: but for a group in which there
\* was nothing to back up, and one of which it only has the counts (task_status).
SuccessIsTrue == Page.status = "success" => worked \/ returned = "empty" \/ CountOnly

\* "Falhou" is for a task that failed, "Concluído" for one that did not: the page calls
\* no backup of a VPN group a success that had a device to back up and failed.
VpnSuccessIsTrue ==
    Page.status = "success" /\ mode = "group" => worked \/ returned = "empty"
===============================================================================
