--------------------------------- MODULE TaskLogs ---------------------------------
(***************************************************************************)
(* The live log lines of services/realtime_backup_logs.py: Redis lists     *)
(* that many workers append to, one for each task and one for all tenants, *)
(* and a page that asks every few seconds for what came after the last     *)
(* line it was given.  Lines carry a number from a counter; numbering a    *)
(* line and storing it are two commands, so lines may be stored out of     *)
(* order.  The list of all tenants is pruned by age and rewritten without  *)
(* the lines of a tenant who clears its alerts.                            *)
(***************************************************************************)
EXTENDS Integers, SequencesExt

CONSTANTS
    Writers,     \* workers that log
    MaxLines,    \* *_LOG_MAX_ENTRIES
    Limit,       \* lines a page is given at once
    Chunk,       \* chunk_size, at least Limit
    MaxSeq,      \* bound on the lines ever logged
    MaxAged      \* bound on the lines that outlive REALTIME_LOG_RETENTION_DAYS

VARIABLES
    stream,     \* the list under study: "task" (of one task) or "global"
    aged,       \* the lines up to this number are older than the retention
    counter,    \* the key of the numbers given out
    log,
    top,        \* history: the highest number stored
    writer,     \* each worker's place in append_task_log, and its line
    page,       \* the page's place in _scan_recent_entries
    cursor,     \* last_seq, as the page knows it
    shown,      \* the lines the page was given
    excused,    \* history: lines that were stored late, passed over or stored again
    clear       \* a clearing under way, and the lines it keeps

readers == <<page, cursor, shown>>
vars == <<stream, aged, counter, log, top, writer, readers, excused, clear>>

Line == [seq: 0..MaxSeq, mine: BOOLEAN]
NoLine == [seq |-> 0, mine |-> TRUE]
Quiet == [at |-> "idle", line |-> NoLine]
NoPage == [at |-> "idle", end |-> 0, found |-> {}, room |-> 0]
NoClear == [at |-> "idle", keep |-> <<>>]

Numbers(S) == {l.seq : l \in S}
Old(l) == l.seq <= aged

TypeOK ==
    /\ stream \in {"task", "global"} /\ aged \in 0..MaxAged
    /\ counter \in 0..MaxSeq /\ top \in 0..counter /\ cursor \in 0..counter
    /\ ToSet(log) \subseteq Line /\ Len(log) = Cardinality(Numbers(ToSet(log)))
    /\ writer \in [Writers -> [at: {"idle", "push", "peek", "pop", "trim"}, line: Line]]
    /\ page \in [at: {"idle", "count", "scan"}, end: 0..MaxSeq, found: SUBSET (1..MaxSeq), room: 0..Limit]
    /\ shown \subseteq 1..counter /\ excused \subseteq 1..counter
    /\ clear.at \in {"idle", "rewrite"} /\ ToSet(clear.keep) \subseteq Line

Init ==
    /\ stream \in {"task", "global"} /\ aged = 0
    /\ counter = 0 /\ log = <<>> /\ top = 0 /\ writer = [w \in Writers |-> Quiet]
    /\ page = NoPage /\ cursor = 0 /\ shown = {} /\ excused = {} /\ clear = NoClear

-------------------------------------------------------------------------------
(* append_task_log *)

Go(w, to) == writer' = [writer EXCEPT ![w].at = to]

\* INCR.  The list of a task holds lines of its own tenant only.
Number(w, mine) ==
    /\ writer[w].at = "idle" /\ counter < MaxSeq /\ (stream = "task" => mine)
    /\ counter' = counter + 1
    /\ writer' = [writer EXCEPT ![w] =
           [at |-> "push", line |-> [seq |-> counter + 1, mine |-> mine]]]
    /\ UNCHANGED <<stream, aged, log, top, readers, excused, clear>>

\* RPUSH.  A process prunes the list of all tenants once in an interval.
Push(w) ==
    LET line == writer[w].line
        overtaken == {l \in ToSet(log) : l.seq > line.seq}
    IN  /\ writer[w].at = "push"
        /\ log' = Append(log, line)
        /\ top' = Max({top, line.seq})
        /\ excused' = IF line.seq < top THEN excused \cup {line.seq} \cup Numbers(overtaken)
                                        ELSE excused
        /\ \/ stream = "global" /\ Go(w, "peek")
           \/ Go(w, "trim")
        /\ UNCHANGED <<stream, aged, counter, readers, clear>>

\* LINDEX 0: an old line is to go.
Peek(w) ==
    /\ writer[w].at = "peek"
    /\ IF log # <<>> /\ Old(log[1]) THEN Go(w, "pop") ELSE Go(w, "trim")
    /\ UNCHANGED <<stream, aged, counter, log, top, readers, excused, clear>>

\* LPOP, whatever is first by now.
Pop(w) ==
    /\ writer[w].at = "pop"
    /\ log' = SubSeq(log, 2, Len(log))
    /\ Go(w, "peek")
    /\ UNCHANGED <<stream, aged, counter, top, readers, excused, clear>>

Trim(w) ==
    /\ writer[w].at = "trim"
    /\ log' = SubSeq(log, Max({1, Len(log) - MaxLines + 1}), Len(log))
    /\ writer' = [writer EXCEPT ![w] = Quiet]
    /\ UNCHANGED <<stream, aged, counter, top, readers, excused, clear>>

\* Redis fails, and the line is given up; or the worker dies.  A failure of the
\* pruning alone is followed by the trim.
Fail(w) ==
    /\ writer[w].at # "idle"
    /\ \/ writer' = [writer EXCEPT ![w] = Quiet]
       \/ writer[w].at \in {"peek", "pop"} /\ Go(w, "trim")
    /\ UNCHANGED <<stream, aged, counter, log, top, readers, excused, clear>>

-------------------------------------------------------------------------------
(* _scan_recent_entries, for the page of one tenant or of one task *)

\* The counter says whether there is anything after the cursor.
Ask ==
    /\ page.at = "idle"
    /\ IF counter > 0 /\ cursor >= counter
       THEN cursor' = counter /\ UNCHANGED page
       ELSE page' = [page EXCEPT !.at = "count"] /\ UNCHANGED cursor
    /\ UNCHANGED <<stream, aged, counter, log, top, writer, shown, excused, clear>>

CountLines ==
    /\ page.at = "count"
    /\ page' = IF log = <<>> THEN NoPage
               ELSE [at |-> "scan", end |-> Len(log), found |-> {}, room |-> Limit]
    /\ UNCHANGED <<stream, aged, counter, log, top, writer, cursor, shown, excused, clear>>

\* The places read by one LRANGE, those before the first line that is known, and the
\* newest of them that fit.
Span == Max({1, page.end - Chunk + 1})..Min({page.end, Len(log)})
Known == {p \in Span : log[p].seq <= cursor}
Ahead == {p \in Span : log[p].mine /\ \A k \in Known : p > k}
Taken == {p \in Ahead : Cardinality({q \in Ahead : q >= p}) <= page.room}

\* A plausible error: to go on from the counter, not from the lines given.
CursorOfCounter(found) == Max({counter, cursor} \cup found)

NewCursor(found) == Max({cursor} \cup found)

\* The next chunk towards the start of the list.  A list that has become shorter than
\* that ends the scan like its start does, and what lies before is passed over.
Scan ==
    LET found == page.found \cup {log[p].seq : p \in Taken}
        full == Cardinality(Taken) = page.room
    IN  /\ page.at = "scan"
        /\ IF full \/ Known # {} \/ Span = {} \/ page.end <= Chunk
           THEN /\ page' = NoPage
                /\ cursor' = NewCursor(found)
                /\ shown' = shown \cup found
                /\ excused' = IF full \/ Span = {}
                              THEN excused \cup Numbers({l \in ToSet(log) : l.seq < cursor'})
                              ELSE excused
           ELSE /\ page' = [page EXCEPT !.end = @ - Chunk, !.found = found, !.room = @ - Cardinality(Taken)]
                /\ UNCHANGED <<cursor, shown, excused>>
        /\ UNCHANGED <<stream, aged, counter, log, top, writer, clear>>

\* A command that fails: an empty answer, and the cursor the page sent.
AskFails ==
    /\ page.at # "idle"
    /\ page' = NoPage
    /\ UNCHANGED <<stream, aged, counter, log, top, writer, cursor, shown, excused, clear>>

-------------------------------------------------------------------------------
(* clear_tenant_global_logs, by this tenant or another, and the maintenance
   script's prune_global_logs *)

Keeps(who, l) == CASE who = "me" -> ~l.mine [] who = "other" -> l.mine [] who = "script" -> ~Old(l)

\* The lines that are kept, in their order.
Kept(who) ==
    LET places == {i \in DOMAIN log : Keeps(who, log[i])}
        Nth(k) == CHOOSE i \in places : Cardinality({j \in places : j <= i}) = k
    IN  [k \in 1..Cardinality(places) |-> log[Nth(k)]]

\* LRANGE of the whole list.  A tenant without a line changes nothing.
ClearRead(who) ==
    /\ stream = "global" /\ clear.at = "idle" /\ log # <<>>
    /\ who = "script" \/ \E l \in ToSet(log) : ~Keeps(who, l)
    /\ clear' = [at |-> "rewrite", keep |-> Kept(who)]
    /\ UNCHANGED <<stream, aged, counter, log, top, writer, readers, excused>>

\* MULTI, DELETE and RPUSH of what was read; or it fails.
Rewrite ==
    /\ clear.at = "rewrite" /\ clear' = NoClear
    /\ \/ /\ log' = clear.keep
          /\ excused' = IF ToSet(clear.keep) \subseteq ToSet(log) THEN excused
                        ELSE excused \cup Numbers(ToSet(clear.keep))
       \/ UNCHANGED <<log, excused>>
    /\ UNCHANGED <<stream, aged, counter, top, writer, readers>>

Age ==
    /\ aged < MaxAged /\ aged < counter /\ aged' = aged + 1
    /\ UNCHANGED <<stream, counter, log, top, writer, readers, excused, clear>>

Next ==
    \/ \E w \in Writers : \/ \E mine \in BOOLEAN : Number(w, mine)
                          \/ Push(w) \/ Peek(w) \/ Pop(w) \/ Trim(w) \/ Fail(w)
    \/ Ask \/ CountLines \/ Scan \/ AskFails
    \/ \E who \in {"me", "other", "script"} : ClearRead(who)
    \/ Rewrite \/ Age

Spec == Init /\ [][Next]_vars

-------------------------------------------------------------------------------
\* A line the page has passed was given to it, although the list is cut, popped and
\* rewritten between its commands: but for lines stored out of order, more than a page
\* holds, stored anew by a clearing that had read what was removed since, or before a
\* chunk that a shorter list no longer has (_scan_recent_entries).
NothingSkipped ==
    \A l \in ToSet(log) : l.mine /\ l.seq <= cursor => l.seq \in shown \cup excused

===================================================================================
