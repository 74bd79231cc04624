------------------------------- MODULE VpnGroupTask -------------------------------
(***************************************************************************)
(* The task that backs up the devices of one group in a row, inside one    *)
(* VPN session when any of them needs it (run_vpn_group_backups_task), and *)
(* how the backup of a whole group is sent (run_backup_group_task).  It    *)
(* reads the group once; users go on editing it and may stop it.           *)
(***************************************************************************)
EXTENDS Naturals, FiniteSets

CONSTANTS
    Devices,
    NeedsVpn,   \* devices whose mode is the tunnel
    NeedsJump,  \* devices behind the jump host
    Force       \* force_vpn of the subgroup

VARIABLES
    groupOn,    \* the group is active
    device,     \* active and in the routine, active only, or off
    sent,       \* the devices the task was sent with
    single,     \* devices a task of their own was sent for
    at,         \* where the task is
    left,       \* devices it has loaded and not gone through
    now,        \* the device it is at
    armed,      \* the alarm of that device has not gone off
    stop,       \* the global stop, or the one of the batch
    doc         \* the document, with its result if there is one

vars == <<groupOn, device, sent, single, at, left, now, armed, stop, doc>>

NoDevice == "no device"
Places == {"none", "queued", "loaded", "connect", "device", "guarded", "close", "over"}
Count == 0..Cardinality(Devices)
NoResult == [none |-> "no result"]
Results == [total: Count, good: Count, bad: Count]

TypeOK ==
    /\ groupOn \in BOOLEAN /\ device \in [Devices -> {"in", "out", "off"}]
    /\ sent \subseteq Devices /\ single \subseteq Devices
    /\ at \in Places /\ left \subseteq Devices /\ now \in Devices \cup {NoDevice}
    /\ armed \in BOOLEAN /\ stop \in BOOLEAN
    /\ doc.status \in {"none", "running", "success", "failed", "stopped"}
    /\ doc.result \in Results \cup {NoResult}

Init ==
    /\ groupOn = TRUE /\ device = [d \in Devices |-> "in"]
    /\ sent = {} /\ single = {} /\ at = "none" /\ left = {} /\ now = NoDevice
    /\ armed = FALSE /\ stop = FALSE
    /\ doc = [status |-> "none", result |-> NoResult]

settings == <<groupOn, device, sent, single>>
Says(status, result) == doc' = [status |-> status, result |-> result]
End(status, result) ==
    /\ Says(status, result)
    /\ at' = "over" /\ left' = {} /\ now' = NoDevice /\ armed' = FALSE

-------------------------------------------------------------------------------
(* Sending.                                                                *)

Active == {d \in Devices : device[d] # "off"}
Scheduled == {d \in Devices : device[d] = "in"}
\* run_backup_group_task: one task for all when the group itself uses the tunnel.
SendGroup(tunnel) ==
    /\ at = "none" /\ groupOn
    /\ IF tunnel /\ Scheduled # {}
       THEN sent' = Scheduled /\ at' = "queued" /\ UNCHANGED single
       ELSE single' = Scheduled /\ UNCHANGED <<sent, at>>
    /\ UNCHANGED <<groupOn, device, left, now, armed, stop, doc>>

\* run_backup of a device behind the tunnel: in the routine or not.
SendDevice ==
    /\ at = "none" /\ groupOn
    /\ \E d \in Active : sent' = {d}
    /\ at' = "queued"
    /\ UNCHANGED <<groupOn, device, single, left, now, armed, stop, doc>>

-------------------------------------------------------------------------------
(* The task.                                                               *)

Load ==
    /\ at = "queued"
    /\ IF ~groupOn THEN End("failed", NoResult)
       ELSE IF sent \cap Scheduled = {}
       THEN End("success", [total |-> 0, good |-> 0, bad |-> 0])
       ELSE at' = "loaded" /\ left' = sent \cap Scheduled /\ UNCHANGED <<now, armed, doc>>
    /\ UNCHANGED <<settings, stop>>

All == Cardinality(left)
Start ==
    /\ at = "loaded"
    /\ IF stop THEN End("stopped", [total |-> All, good |-> 0, bad |-> All])
       ELSE /\ Says("running", [total |-> All, good |-> 0, bad |-> 0])
            /\ at' = (IF Force \/ left \cap NeedsVpn # {} THEN "connect" ELSE "device")
            /\ UNCHANGED <<left, now, armed>>
    /\ UNCHANGED <<settings, stop>>

\* VpnError, from the check of the worker or from the session: every device failed.
VpnFails ==
    /\ at = "connect"
    /\ End("failed", [doc.result EXCEPT !.good = 0, !.bad = doc.result.total])
    /\ UNCHANGED <<settings, stop>>

Connect ==
    /\ at = "connect" /\ at' = "device"
    /\ UNCHANGED <<settings, left, now, armed, stop, doc>>

\* Variant: the device that would be next is left out of those given up.
GiveUpLater(r) == [r EXCEPT !.bad = @ + Cardinality(left \ {now}) - 1]

\* What a stop leaves undone counts as failed.
GiveUp(r) == [r EXCEPT !.bad = @ + Cardinality(left)]

NextDevice ==
    /\ at = "device" /\ left # {}
    /\ IF stop THEN End("stopped", GiveUp(doc.result))
       ELSE \E d \in left :
            /\ now' = d /\ at' = "guarded" /\ armed' = TRUE
            /\ UNCHANGED <<left, doc>>
    /\ UNCHANGED <<settings, stop>>

Outcome(good) ==
    /\ at = "guarded"
    /\ doc' = [doc EXCEPT !.result.good = IF good THEN @ + 1 ELSE @,
                          !.result.bad = IF good THEN @ ELSE @ + 1]
    /\ left' = left \ {now} /\ now' = NoDevice /\ armed' = FALSE /\ at' = "device"
    /\ UNCHANGED <<settings, stop>>

\* The breaker refuses it, no slot is had in time or before a stop, or the backup
\* itself ends.
Refused == now \in NeedsJump /\ Outcome(FALSE)
Backup == \E good \in BOOLEAN : Outcome(good)

\* The alarm is an exception like any other: it ends the device unless a handler in
\* the script takes it, and then it does not come again.
Alarm ==
    /\ at = "guarded" /\ armed
    /\ \/ Outcome(FALSE)
       \/ armed' = FALSE /\ UNCHANGED <<settings, at, left, now, stop, doc>>

Error ==
    /\ at \in {"queued", "loaded", "connect", "device", "guarded", "close"}
    /\ End("failed", doc.result)
    /\ UNCHANGED <<settings, stop>>

Disconnect ==
    /\ at = "device" /\ left = {}
    /\ at' = "close"
    /\ UNCHANGED <<settings, left, now, armed, stop, doc>>

Finish ==
    /\ at = "close"
    /\ End(IF doc.result.bad = 0 THEN "success" ELSE "failed", doc.result)
    /\ UNCHANGED <<settings, stop>>

-------------------------------------------------------------------------------

EditGroup == groupOn' = ~groupOn /\ UNCHANGED <<device, sent, single, at, left, now, armed, stop, doc>>
EditDevice ==
    /\ \E d \in Devices, to \in {"in", "out", "off"} : device' = [device EXCEPT ![d] = to]
    /\ UNCHANGED <<groupOn, sent, single, at, left, now, armed, stop, doc>>
Stop == stop' = ~stop /\ UNCHANGED <<settings, at, left, now, armed, doc>>

Send == SendDevice \/ \E tunnel \in BOOLEAN : SendGroup(tunnel)
Task ==
    \/ Load \/ Start \/ VpnFails \/ Connect \/ NextDevice \/ Refused \/ Backup
    \/ Alarm \/ Error \/ Disconnect \/ Finish
Users == EditGroup \/ EditDevice \/ Stop
Next == Send \/ Task \/ Users
Spec == Init /\ [][Next]_vars

-------------------------------------------------------------------------------
(* Properties.                                                             *)

\* Whatever ends the task, a stop at any device, the tunnel, the alarms or the last
\* device, the devices of the result are all accounted for: those that are over
\* while it runs, every one when it ends by itself (run_vpn_group_backups_task).
CountsAddUp ==
    doc.result # NoResult =>
        LET r == doc.result IN
        CASE doc.status = "running" -> r.good + r.bad + Cardinality(left) = r.total
          [] doc.status \in {"success", "stopped"} -> r.good + r.bad = r.total
          [] OTHER -> r.good + r.bad <= r.total
===============================================================================
