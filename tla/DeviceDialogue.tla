------------------------------ MODULE DeviceDialogue ------------------------------
(***************************************************************************)
(* The dialogue of a backup script with the command line of a device.      *)
(* A script is a sequence of methods, each tried when the one before it    *)
(* failed.  A method logs in, prepares the terminal and sends commands     *)
(* until the answer of one will do.  The device answers when it likes: the *)
(* queues below hold what is on its way, what has arrived, and what        *)
(* pexpect has read and not yet matched.  A method that ends an answer at  *)
(* a prompt takes the first prompt it meets, whoever it was for; one that  *)
(* ends it at a silence (netmiko) cannot tell a slow device from the end.  *)
(***************************************************************************)
EXTENDS Naturals, Sequences, SequencesExt, FiniteSets

CONSTANTS
    Cmds,      \* backup commands of a method
    Parts,     \* pieces of an answer
    Enters,    \* bound on the empty lines sent to a device that is silent or asks
    Pauses     \* bound on the pauses longer than one wait of the reader

VARIABLES
    script,    \* the methods still to try, the current one first
    at,
    opens,     \* connections the method may still open
    cmd,       \* 0 while the terminal is prepared, then the backup command
    coming, arrived, buffer,
    got, ok,   \* the text of the command and whether its end was seen
    best,      \* the longest text so far, and whether it looks like a configuration
    saved,
    enters, pauses,
    cut,       \* history: the line dropped
    late       \* history: a command was sent with an earlier answer unread

dialogue == <<coming, arrived, buffer>>
result == <<got, ok, best, saved>>
bounds == <<enters, pauses, cut, late>>
vars == <<script, at, opens, cmd, dialogue, result, bounds>>

-------------------------------------------------------------------------------
(* What the scripts do differently.                                        *)

\* Patient: silence at the login is answered with an empty line.
Login(patient, opens_) == [patient |-> patient, opens |-> opens_]
\* Sync: what is done before a command is sent (nothing, what has arrived is thrown
\* away, or an empty line is sent and its prompt awaited).  Waits: a pause longer
\* than one wait is waited out.  Eof: a dropped line counts as the end.  Asks: what
\* looks like a question is answered with an empty line.
Reads(sync, waits, eof, asks) ==
    [ends |-> "prompt", sync |-> sync, waits |-> waits, eof |-> eof, asks |-> asks]
\* Stops: the answers that let a method stop at a command.  Keeps: the answers among
\* which it remembers the longest.  Writes: the answer it stopped at, or the longest.
Keeps(stops, keeps, writes) == [stops |-> stops, keeps |-> keeps, writes |-> writes]

Silent == [ends |-> "silence", sync |-> "none", waits |-> FALSE, eof |-> FALSE, asks |-> TRUE]
Method(login, reads, keeps, http) == [login |-> login, reads |-> reads, keeps |-> keeps, http |-> http]

\* cianet, parks, maxprint and tplink run the shared olt_cli script.
OltCliLogin == Login(TRUE, 1)
OltCliReads == Reads("blank", TRUE, TRUE, TRUE)
OltCliKeeps == Keeps("ended", "ended", "best")
OltCli == <<Method(OltCliLogin, OltCliReads, OltCliKeeps, FALSE)>>
\* vsol has the same session, keeps whatever looks good, and has a second way out.
VsolKeeps == Keeps("any", "none", "got")
Vsol == <<Method(OltCliLogin, OltCliReads, VsolKeeps, TRUE)>>

HuaweiLogin == Login(TRUE, 2)
HuaweiReads == Reads("none", TRUE, TRUE, TRUE)
HuaweiKeeps == Keeps("ended", "any", "got")
HuaweiOlt == <<Method(HuaweiLogin, HuaweiReads, HuaweiKeeps, FALSE)>>

ZteLogin == Login(TRUE, 1)
ZteReads == Reads("drain", TRUE, TRUE, TRUE)
ZteKeeps == Keeps("any", "any", "best")
ZteOlt == <<Method(ZteLogin, ZteReads, ZteKeeps, FALSE)>>

DigistarLogin == Login(TRUE, 1)
DigistarReads == Reads("drain", TRUE, TRUE, TRUE)
DigistarKeeps == Keeps("any", "any", "best")
DigistarOlt == <<Method(DigistarLogin, DigistarReads, DigistarKeeps, FALSE)>>

IntelbrasLogin == Login(TRUE, 2)
IntelbrasReads == Reads("none", FALSE, TRUE, TRUE)
IntelbrasKeeps == Keeps("ended", "any", "best")
IntelbrasTelnet == <<Method(IntelbrasLogin, IntelbrasReads, IntelbrasKeeps, FALSE)>>
IntelbrasSsh == <<Method(Login(FALSE, 1), Silent, Keeps("any", "any", "best"), FALSE)>>

\* Switches of Huawei whose old SSH no library speaks: ssh itself, under pexpect.
LegacyLogin == Login(TRUE, 1)
LegacyReads == Reads("none", TRUE, TRUE, TRUE)
SwitchHuaweiLegacy == <<Method(LegacyLogin, LegacyReads, IntelbrasKeeps, FALSE)>>

\* Fiberhome reads by silence first; its second method wants a prompt and nothing else.
FiberhomeNetmiko == Method(Login(FALSE, 2), Silent, Keeps("any", "none", "got"), FALSE)
FiberhomeLogin == Login(FALSE, 1)
FiberhomeReads == Reads("none", TRUE, FALSE, FALSE)
FiberhomePexpect == Method(FiberhomeLogin, FiberhomeReads, Keeps("ended", "none", "got"), FALSE)
FiberhomeOlt == <<FiberhomeNetmiko, FiberhomePexpect>>

CiscoNetmiko == Method(Login(FALSE, 2), Silent, Keeps("any", "any", "best"), FALSE)
CiscoTelnet == Method(Login(TRUE, 1), Reads("none", FALSE, TRUE, TRUE), Keeps("any", "any", "best"), FALSE)
SwitchCisco == <<CiscoNetmiko, CiscoTelnet>>

\* The rest tries device types until one connects, and reads by silence.
Longer == Keeps("any", "any", "best")
ProfileReads == Silent
ByProfile == <<Method(Login(FALSE, 2), ProfileReads, Longer, FALSE)>>
SwitchHuaweiKeeps == Longer
SwitchHuawei == <<Method(Login(FALSE, 2), Silent, SwitchHuaweiKeeps, FALSE)>>
\* The main configuration of a router; those of its virtual systems are read the same
\* way afterwards, and one that fails is only named in the message of the success.
HuaweiNeKeeps == Longer
HuaweiNe == <<Method(Login(FALSE, 3), Silent, HuaweiNeKeeps, FALSE)>>
DatacomOlt == <<Method(Login(FALSE, 2), Silent, Longer, FALSE)>>
SwitchDatacom == <<Method(Login(FALSE, 2), Silent, Longer, FALSE)>>
SwitchTplink == <<Method(Login(FALSE, 2), Silent, Longer, FALSE)>>
MikrotikRos == <<Method(Login(FALSE, 2), Silent, Keeps("any", "none", "got"), FALSE)>>
Basic == <<Method(Login(FALSE, 2), Silent, Keeps("any", "none", "got"), FALSE)>>

Scripts == {OltCli, Vsol, HuaweiOlt, ZteOlt, DigistarOlt, IntelbrasTelnet, IntelbrasSsh,
            FiberhomeOlt, SwitchCisco, ByProfile, SwitchHuaweiLegacy, SwitchHuawei, HuaweiNe,
            DatacomOlt, SwitchDatacom, SwitchTplink, MikrotikRos, Basic}
method == Head(script)

-------------------------------------------------------------------------------
(* The device.                                                             *)

Prompt == [cmd |-> 0, part |-> 0]
Answer(c) == [i \in 1..(IF c = 0 THEN 1 ELSE Parts) |-> [cmd |-> c, part |-> i]]
\* A command the device does not know returns no configuration.
Replies(c) == {Answer(c) \o <<Prompt>>, <<Prompt>>}
NoText == [text |-> <<>>, good |-> FALSE]

TypeOK ==
    /\ script # <<>> /\ \A i \in DOMAIN script : \E s \in Scripts : script[i] \in ToSet(s)
    /\ at \in {"open", "login", "ready", "sync", "reading", "judge", "choose", "done", "failed"}
    /\ opens \in 0..3 /\ cmd \in 0..Cmds
    /\ \A q \in {coming, arrived, buffer, got, best.text, saved} :
         \A i \in DOMAIN q : q[i] \in [cmd : 0..Cmds, part : 0..Parts]
    /\ \A q \in {got, best.text, saved} : Prompt \notin ToSet(q)
    /\ ok \in BOOLEAN /\ best.good \in BOOLEAN
    /\ enters \in 0..Enters /\ pauses \in 0..Pauses /\ cut \in BOOLEAN /\ late \in BOOLEAN

Init ==
    /\ script \in Scripts
    /\ at = "open" /\ opens = method.login.opens /\ cmd = 0
    /\ coming = <<>> /\ arrived = <<>> /\ buffer = <<>>
    /\ got = <<>> /\ ok = FALSE /\ best = NoText /\ saved = <<>>
    /\ enters = 0 /\ pauses = 0 /\ cut = FALSE /\ late = FALSE

Online == at \in {"login", "ready", "sync", "reading"}
Arrive ==
    /\ coming # <<>> /\ Online
    /\ arrived' = Append(arrived, Head(coming)) /\ coming' = Tail(coming)
    /\ UNCHANGED <<script, at, opens, cmd, buffer, result, bounds>>

\* The device closes the session, or the line drops.
Cut ==
    /\ Online /\ ~cut
    /\ cut' = TRUE /\ coming' = <<>>
    /\ UNCHANGED <<script, at, opens, cmd, arrived, buffer, result, enters, pauses, late>>

-------------------------------------------------------------------------------
(* The session.                                                            *)

Close == coming' = <<>> /\ arrived' = <<>> /\ buffer' = <<>>

\* The next method starts from nothing; after the last one the script has failed.
NextMethod ==
    /\ IF Len(script) > 1 THEN script' = Tail(script) /\ at' = "open" /\ opens' = script[2].login.opens
       ELSE at' = "failed" /\ UNCHANGED <<script, opens>>
    /\ Close /\ cmd' = 0
    /\ got' = <<>> /\ ok' = FALSE /\ best' = NoText
    /\ cut' = FALSE /\ late' = FALSE /\ UNCHANGED <<saved, enters, pauses>>

Open ==
    /\ at = "open" /\ opens > 0
    /\ at' = "login" /\ opens' = opens - 1 /\ coming' = <<Prompt>>
    /\ arrived' = <<>> /\ buffer' = <<>> /\ cut' = FALSE
    /\ UNCHANGED <<script, cmd, result, enters, pauses, late>>

\* Refused, unreachable, or closed before or during the login.
OpenFails ==
    /\ at = "open" \/ (at = "login" /\ cut)
    /\ IF opens > 0 THEN /\ at' = "open"
                         /\ opens' = IF at = "open" THEN opens - 1 ELSE opens
                         /\ UNCHANGED <<script, cmd, dialogue, result, bounds>>
       ELSE NextMethod

Nudge ==
    /\ at = "login" /\ method.login.patient /\ enters < Enters /\ ~cut
    /\ enters' = enters + 1 /\ coming' = Append(coming, Prompt)
    /\ UNCHANGED <<script, at, opens, cmd, arrived, buffer, result, pauses, cut, late>>

\* All that has arrived, up to the first prompt; the rest was read with it or not.
Waiting == buffer \o arrived
PromptSeen == Prompt \in ToSet(Waiting)
TakeToPrompt ==
    LET end == CHOOSE i \in DOMAIN Waiting : Waiting[i] = Prompt /\ \A j \in 1..(i - 1) : Waiting[j] # Prompt
        rest == SubSeq(Waiting, end + 1, Len(Waiting))
    IN /\ \/ buffer' = rest /\ arrived' = <<>>
          \/ buffer' = <<>> /\ arrived' = rest
       /\ got' = got \o SubSeq(Waiting, 1, end - 1)

LoggedIn ==
    /\ at = "login" /\ PromptSeen
    /\ TakeToPrompt /\ at' = "ready"
    /\ UNCHANGED <<script, opens, cmd, coming, ok, best, saved, bounds>>

-------------------------------------------------------------------------------
(* One command.                                                            *)

\* pexpect's own buffer is not part of what is thrown away.
Blank ==
    /\ at = "ready" /\ method.reads.sync = "blank" /\ ~ok
    /\ at' = "sync" /\ got' = <<>> /\ arrived' = <<>>
    /\ coming' = IF cut THEN coming ELSE Append(coming, Prompt)
    /\ UNCHANGED <<script, opens, cmd, buffer, ok, best, saved, bounds>>

\* The prompt of the empty line, another one, or two seconds without any.
Synced ==
    /\ at = "sync"
    /\ IF PromptSeen THEN TakeToPrompt ELSE buffer' = Waiting /\ arrived' = <<>> /\ UNCHANGED got
    /\ at' = "ready" /\ ok' = TRUE
    /\ UNCHANGED <<script, opens, cmd, coming, best, saved, bounds>>

Send ==
    /\ at = "ready" /\ (method.reads.sync = "blank" => ok)
    /\ at' = "reading" /\ got' = <<>> /\ ok' = FALSE
    /\ arrived' = IF method.reads.sync = "none" THEN arrived ELSE <<>>
    /\ late' = (late \/ coming \o buffer \o arrived' # <<>>)
    /\ IF cut THEN UNCHANGED coming ELSE \E r \in Replies(cmd) : coming' = coming \o r
    /\ UNCHANGED <<script, opens, cmd, buffer, best, saved, enters, pauses, cut>>

Reading == at = "reading" /\ method.reads.ends = "prompt"
Ended(seen) == at' = "judge" /\ ok' = seen

Match ==
    /\ Reading /\ PromptSeen
    /\ TakeToPrompt /\ Ended(TRUE)
    /\ UNCHANGED <<script, opens, cmd, coming, best, saved, bounds>>

\* A pager mark, or what is taken for a question: what came before it is text.
Page ==
    /\ Reading /\ ~PromptSeen /\ Waiting # <<>>
    /\ got' = got \o Waiting /\ buffer' = <<>> /\ arrived' = <<>>
    /\ \/ UNCHANGED <<coming, enters>>
       \/ /\ method.reads.asks /\ enters < Enters /\ ~cut
          /\ enters' = enters + 1 /\ coming' = Append(coming, Prompt)
    /\ UNCHANGED <<script, at, opens, cmd, ok, best, saved, pauses, cut, late>>

\* A wait ends without a match: pexpect reports what it holds and goes on holding it.
Pause ==
    /\ Reading /\ method.reads.waits /\ ~PromptSeen /\ pauses < Pauses
    /\ got' = got \o Waiting /\ buffer' = Waiting /\ arrived' = <<>>
    /\ pauses' = pauses + 1
    /\ UNCHANGED <<script, at, opens, cmd, coming, ok, best, saved, enters, cut, late>>

\* The time of the command is over; only fiberhome takes that for a failure.
TimeOut ==
    /\ Reading /\ ~PromptSeen
    /\ IF method.reads.eof THEN /\ got' = got \o Waiting /\ buffer' = Waiting /\ arrived' = <<>>
                                /\ Ended(FALSE)
                                /\ UNCHANGED <<script, opens, cmd, coming, best, saved, bounds>>
       ELSE NextMethod

Eof ==
    /\ Reading /\ cut /\ ~PromptSeen
    /\ IF method.reads.eof THEN /\ got' = got \o Waiting /\ buffer' = <<>> /\ arrived' = <<>>
                                /\ Ended(TRUE)
                                /\ UNCHANGED <<script, opens, cmd, coming, best, saved, bounds>>
       ELSE NextMethod

\* The pieces of answers in what was read: a prompt in the text is no configuration.
Pieces(q) ==
    LET places == {i \in DOMAIN q : q[i] # Prompt}
        Nth(k) == CHOOSE i \in places : Cardinality({j \in places : j <= i}) = k
    IN  [k \in 1..Cardinality(places) |-> q[Nth(k)]]

\* netmiko: nothing new for a while.
Silence ==
    /\ at = "reading" /\ method.reads.ends = "silence"
    /\ got' = got \o Pieces(Waiting)
    /\ buffer' = <<>> /\ arrived' = <<>> /\ Ended(TRUE)
    /\ UNCHANGED <<script, opens, cmd, coming, best, saved, bounds>>

-------------------------------------------------------------------------------
(* What becomes of the text.                                               *)

\* Variant: how the answer ended is not asked.
AllowsUnfinished(policy) == policy # "none"

Allows(policy) == policy = "any" \/ (policy = "ended" /\ ok)

Longest(good) ==
    IF cmd > 0 /\ Allows(method.keeps.keeps) /\ Len(got) > Len(best.text)
    THEN [text |-> got, good |-> good] ELSE best

\* An answer that is short, rejected or unlike a configuration is not good.
Judge ==
    /\ at = "judge"
    /\ \E good \in BOOLEAN :
         /\ good => got # <<>>
         /\ best' = Longest(good)
         /\ IF cmd > 0 /\ good /\ Allows(method.keeps.stops) THEN
               /\ UNCHANGED cmd
               /\ IF method.keeps.writes = "got" THEN saved' = got /\ at' = "done" /\ Close
                  ELSE at' = "choose" /\ UNCHANGED <<saved, dialogue>>
            ELSE /\ UNCHANGED <<saved, dialogue>>
                 /\ IF cmd < Cmds THEN cmd' = cmd + 1 /\ at' = "ready"
                    ELSE at' = "choose" /\ UNCHANGED cmd
    /\ ok' = FALSE /\ got' = <<>>
    /\ UNCHANGED <<script, opens, bounds>>

\* The longest answer, if it is good; a longer bad one hides it.
Choose ==
    /\ at = "choose" /\ ~method.http
    /\ IF best.good THEN /\ saved' = best.text /\ at' = "done" /\ Close
                         /\ UNCHANGED <<script, opens, cmd, got, ok, best, bounds>>
       ELSE NextMethod

\* vsol asks the device to send the file itself, to an address known by a token.
Upload ==
    /\ at = "choose" /\ method.http
    /\ \/ saved' = Answer(1) /\ at' = "done"
       \/ at' = "failed" /\ UNCHANGED saved
    /\ Close
    /\ UNCHANGED <<script, opens, cmd, got, ok, best, bounds>>

Session == Open \/ OpenFails \/ Nudge \/ LoggedIn
Command == Blank \/ Synced \/ Send \/ Match \/ Page \/ Pause \/ TimeOut \/ Eof \/ Silence
Next == Arrive \/ Cut \/ Session \/ Command \/ Judge \/ Choose \/ Upload
Spec == Init /\ [][Next]_vars

-------------------------------------------------------------------------------
(* Properties.                                                             *)

\* The scripts that ask how an answer ended save no part of an answer: what they
\* write holds every piece of one command's answer and no other, unless a command was
\* sent while an earlier answer was still unread, or the script takes a dropped
\* line for the end (run_olt_cli_backup, _collect_telnet_command_with_pager).
SavedIsWhole ==
    saved # <<>> /\ method.keeps.stops = "ended" /\ method.keeps.keeps # "any"
      /\ ~late /\ (cut => ~method.reads.eof)
      => \E c \in 1..Cmds : ToSet(saved) = ToSet(Answer(c))
===============================================================================
