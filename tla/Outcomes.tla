-------------------------------- MODULE Outcomes --------------------------------
(* What the program says of its work: that a backup is a success, how many    *)
(* devices failed, what was saved or fetched, which lines a page was given,   *)
(* how much of a plan is used, who is connected.  Each part has behaviours of *)
(* its own, in which the others stand still.                                  *)
EXTENDS Quotas

CONSTANTS
    MaxRetries,                                                          \* DeviceTask
    Members, NeedsVpn, NeedsJump, ForceVpn,                              \* VpnGroupTask
    Devices, Folder, Target, Attempts, Tolerance, FailedLife, Retention,
    MaxTime, MaxRows,                                                    \* BackupStore
    Cmds, Parts, Enters, Pauses,                                         \* DeviceDialogue
    Files, FetchKinds, Delete, MaxVersion, MaxRuns,                      \* DeviceTransfer
    Workers, Groups, Hosts, HostOf, Retries, None,                       \* VpnSession
    Tasks, BaseSlots, Override, MaxBoost, SuccessStreak, FailStreak, SevereStreak,
    DropToOne, CoolTime, SevereCoolTime, MinWindowSlots, Window, MinSamples, Threshold,
    OpenTime, CountCap,                                                  \* JumpHostHealth
    Writers, MaxLines, Limit, Chunk, MaxSeq, MaxAged,                    \* TaskLogs
    Invoices, Handlers, Day, Period, Trial, Grace, Horizon, EditedStatus, Never
                                                                         \* Billing

VARIABLES
    part,                                                                \* studied here
    mode, off, taskAt, registered, taskTries, taskDoc, celery, returned,
    taskStop, taskRow, worked,                                           \* DeviceTask
    groupOn, member, sent, single, groupAt, left, current, armed, groupStop,
    groupDoc,                                                            \* VpnGroupTask
    clock, files, attempt, rows, status, device, purge,                  \* BackupStore
    script, at, opens, cmd, coming, arrived, buffer, got, ok, best, saved,
    enters, pauses, cut, late,                                           \* DeviceDialogue
    fetchKind, remote, kept, begun, copy, fetchAt, way, listed, todo, fetched, lost, temp, runs,
                                                                         \* DeviceTransfer
    pc, group, tries, groupLock, globalLock, tunnels,                    \* VpnSession
    healthAt, verdict, known, window, slots, wins, fails, cool, outcomes, open,
    reset,                                                               \* JumpHostHealth
    stream, aged, counter, log, top, writer, page, cursor, shown, excused,
    clear,                                                               \* TaskLogs
    tenant, invoice, gateway, subs, handler, enforcer, entitled, now     \* Billing

taskVars == <<mode, off, taskAt, registered, taskTries, taskDoc, celery, returned,
              taskStop, taskRow, worked>>
groupVars == <<groupOn, member, sent, single, groupAt, left, current, armed, groupStop, groupDoc>>
storeVars == <<clock, files, attempt, rows, status, device, purge>>
dialogueVars == <<script, at, opens, cmd, coming, arrived, buffer, got, ok, best, saved,
                  enters, pauses, cut, late>>
transferVars == <<fetchKind, remote, kept, begun, copy, fetchAt, way, listed, todo, fetched, lost,
                  temp, runs>>
sessionVars == <<pc, group, tries, groupLock, globalLock, tunnels>>
healthVars == <<healthAt, verdict, known, window, slots, wins, fails, cool, outcomes, open, reset>>
logVars == <<stream, aged, counter, log, top, writer, page, cursor, shown, excused, clear>>
billingVars == <<tenant, invoice, gateway, subs, handler, enforcer, entitled, now>>
all == <<part, vars, taskVars, groupVars, storeVars, dialogueVars, transferVars,
         sessionVars, healthVars, logVars, billingVars>>

Choices == {"quota", "task", "group", "store", "dialogue", "transfer", "sessions", "health", "logs",
            "billing"}

Task == INSTANCE DeviceTask WITH
    at <- taskAt, tries <- taskTries, doc <- taskDoc, stop <- taskStop, row <- taskRow
Group == INSTANCE VpnGroupTask WITH
    Devices <- Members, Force <- ForceVpn,
    device <- member, at <- groupAt, now <- current, stop <- groupStop, doc <- groupDoc
Store == INSTANCE BackupStore
Dialogue == INSTANCE DeviceDialogue
Transfer == INSTANCE DeviceTransfer WITH Kinds <- FetchKinds, kind <- fetchKind, at <- fetchAt
\* Containers that are not isolated share their tunnels.
Sessions == INSTANCE VpnSession WITH Testers <- {}, Isolated <- FALSE
Health == INSTANCE JumpHostHealth WITH at <- healthAt
Logs == INSTANCE TaskLogs
Bills == INSTANCE Billing

\* The group and the handlers of payments are finite, a batch has devices, times, lengths
\* and bounds are numbers, and all workers of a container that is not isolated run in it.
ASSUME OutcomesAssumption ==
    /\ MaxRetries \in Nat /\ IsFiniteSet(Members)
    /\ Devices # {} /\ Tolerance \in Nat /\ MaxTime \in Nat
    /\ Cmds \in Nat \ {0} /\ Parts \in Nat \ {0} /\ Enters \in Nat /\ Pauses \in Nat
    /\ MaxVersion \in Nat /\ MaxRuns \in Nat
    /\ HostOf \in [Workers -> Hosts] /\ Retries \in Nat \ {0} /\ None \notin Workers
    /\ MaxLines \in Nat /\ Limit \in Nat /\ Chunk \in Nat /\ MaxSeq \in Nat /\ MaxAged \in Nat
    /\ IsFiniteSet(Handlers) /\ Period \in Nat /\ Trial \in Nat /\ Horizon \in Nat
    /\ EditedStatus \subseteq Bills!Statuses

\* What JumpHostHealth asks of its limits.
ASSUME HostAssumption ==
    /\ {BaseSlots, SuccessStreak, FailStreak, SevereStreak} \subseteq Nat \ {0}
    /\ {Window, MinSamples, OpenTime, MinWindowSlots} \subseteq Nat \ {0}
    /\ {MaxBoost, CoolTime, SevereCoolTime, Threshold} \subseteq Nat
    /\ BaseSlots <= 16 /\ Override \in 0..16
    /\ CountCap \in Nat /\ CountCap >= SuccessStreak /\ CountCap >= FailStreak
    /\ DropToOne \in BOOLEAN

\* A part that is not studied has one initial state.
OutcomesInit ==
    /\ part \in Choices
    /\ Init /\ (part # "quota" => kind = "devices" /\ limit = 1)
    /\ Task!Init /\ (part # "task" => mode = "direct" /\ off = "nothing")
    /\ Group!Init /\ Store!Init /\ Health!Init
    /\ Dialogue!Init /\ (part # "dialogue" => script = Dialogue!Basic)
    /\ Transfer!Init /\ (part # "transfer" => fetchKind = "grafana")
    /\ Sessions!Init /\ (part # "sessions" => group = [w \in Workers |-> CHOOSE g \in Groups : TRUE])
    /\ Logs!Init /\ (part # "logs" => stream = "task")
    /\ Bills!Init

QuotaPart ==
    /\ part = "quota" /\ Next
    /\ UNCHANGED <<part, taskVars, groupVars, storeVars, dialogueVars, transferVars,
                   sessionVars, healthVars, logVars, billingVars>>
TaskPart ==
    /\ part = "task" /\ Task!Next
    /\ UNCHANGED <<part, vars, groupVars, storeVars, dialogueVars, transferVars,
                   sessionVars, healthVars, logVars, billingVars>>
GroupPart ==
    /\ part = "group" /\ Group!Next
    /\ UNCHANGED <<part, vars, taskVars, storeVars, dialogueVars, transferVars,
                   sessionVars, healthVars, logVars, billingVars>>
StorePart ==
    /\ part = "store" /\ Store!Next
    /\ UNCHANGED <<part, vars, taskVars, groupVars, dialogueVars, transferVars,
                   sessionVars, healthVars, logVars, billingVars>>
DialoguePart ==
    /\ part = "dialogue" /\ Dialogue!Next
    /\ UNCHANGED <<part, vars, taskVars, groupVars, storeVars, transferVars,
                   sessionVars, healthVars, logVars, billingVars>>
TransferPart ==
    /\ part = "transfer" /\ Transfer!Next
    /\ UNCHANGED <<part, vars, taskVars, groupVars, storeVars, dialogueVars,
                   sessionVars, healthVars, logVars, billingVars>>
SessionsPart ==
    /\ part = "sessions" /\ Sessions!Next
    /\ UNCHANGED <<part, vars, taskVars, groupVars, storeVars, dialogueVars,
                   transferVars, healthVars, logVars, billingVars>>
HealthPart ==
    /\ part = "health" /\ Health!Next
    /\ UNCHANGED <<part, vars, taskVars, groupVars, storeVars, dialogueVars,
                   transferVars, sessionVars, logVars, billingVars>>
LogsPart ==
    /\ part = "logs" /\ Logs!Next
    /\ UNCHANGED <<part, vars, taskVars, groupVars, storeVars, dialogueVars,
                   transferVars, sessionVars, healthVars, billingVars>>
BillingPart ==
    /\ part = "billing" /\ Bills!Next
    /\ UNCHANGED <<part, vars, taskVars, groupVars, storeVars, dialogueVars,
                   transferVars, sessionVars, healthVars, logVars>>

OutcomesNext ==
    \/ QuotaPart \/ TaskPart \/ GroupPart \/ StorePart \/ DialoguePart
    \/ TransferPart \/ SessionsPart \/ HealthPart \/ LogsPart \/ BillingPart
OutcomesSpec == OutcomesInit /\ [][OutcomesNext]_all

-------------------------------------------------------------------------------
\* Each part keeps its types.
OutcomesTyped ==
    CASE part = "quota" -> TypeOK
      [] part = "task" -> Task!TypeOK
      [] part = "group" -> Group!TypeOK
      [] part = "store" -> Store!TypeOK
      [] part = "dialogue" -> Dialogue!TypeOK
      [] part = "transfer" -> Transfer!TypeOK
      [] part = "sessions" -> Sessions!TypeOK
      [] part = "health" -> Health!TypeOK
      [] part = "logs" -> Logs!TypeOK
      [] part = "billing" -> Bills!TypeOK

\* The page never calls a backup a success that no attempt made, whichever of the
\* request, the task and a user who stops it comes first, but for a group with nothing
\* to back up and one of which the page only has the counts (task_status).
SuccessIsTrue == part = "task" => Task!SuccessIsTrue

\* The counts of a group's result account for every device, wherever a stop, the
\* tunnel, the alarms or the last device end the task (run_vpn_group_backups_task).
CountsAddUp == part = "group" => Group!CountsAddUp

\* A recorded success names a file made in its own attempt's time, whatever other
\* attempts and the purges do to the directory they share (execute_backup).
NoStaleSuccess == part = "store" => Store!NoStaleSuccess

\* What is saved by a script that asks how an answer ended is one whole answer
\* (run_olt_cli_backup, _collect_telnet_command_with_pager).
SavedIsWhole == part = "dialogue" => Dialogue!SavedIsWhole

\* What a success counts as downloaded are whole copies of what the device kept when the
\* execution began or later, wherever the first of its two ways broke
\* (_download_via_paramiko, _download_via_sshpass).
SuccessIsFetched == part = "transfer" => Transfer!SuccessIsFetched

\* Without isolated workers one session of vpn_session is open in the whole system,
\* although locks time out and workers are killed (acquire_lock).
OneSession == part = "sessions" => Sessions!OneSession

\* A page is given every line it passes, while workers append, prune and clear the
\* list it reads in pieces: but for lines stored late, passed over or stored anew
\* (_scan_recent_entries).
NothingSkipped == part = "logs" => Logs!NothingSkipped

\* However many payments are processed at once, no client is left with more ACTIVE
\* subscriptions than there are processes (_activate_subscription).
SubscriptionsBounded == part = "billing" => Bills!SubscriptionsBounded
===============================================================================
