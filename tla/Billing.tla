------------------------------- MODULE Billing --------------------------------
(***************************************************************************)
(* One client's account: its plan and trial, the invoices it pays at the   *)
(* gateway, the hourly enforcement that closes it when it is late, and the *)
(* administrators who edit it, put it in the trash and take it out again.  *)
(* A transaction reads a row, computes, and at its commit writes only the  *)
(* columns it changed with respect to what it READ (SQLAlchemy).           *)
(***************************************************************************)
EXTENDS Naturals, FiniteSets

CONSTANTS
    Invoices,       \* the invoices the client may come to have
    Handlers,       \* web processes that process a payment: webhook, return page
    Day,            \* ticks of a day
    Period,         \* plan_period_days, in ticks
    Trial,          \* trial_days, in ticks, 0: no end
    Grace,          \* plan_grace_days
    Horizon,        \* bound of the model: the clock stops here
    EditedStatus,   \* statuses an administrator picks in the form
    Never           \* NULL for a date

VARIABLES
    tenant,     \* the row, or NoTenant
    invoice,    \* period_end and status of each invoice
    gateway,    \* what the gateway says of the payment of each invoice
    subs,       \* the ACTIVE subscription rows
    handler,    \* what each process has read
    enforcer,   \* what the enforcement has read
    entitled,   \* history: a payment was approved, or an administrator opened the account
    now

vars == <<tenant, invoice, gateway, subs, handler, enforcer, entitled, now>>

\* Lengths of time are counted in days, and the form offers the program's own statuses.
BillingAssumption ==
    /\ IsFiniteSet(Handlers) /\ Period \in Nat /\ Trial \in Nat /\ Horizon \in Nat
    /\ EditedStatus \subseteq {"trial", "active", "pending_payment", "past_due", "canceled"}

Statuses == {"trial", "active", "pending_payment", "past_due", "canceled"}
InvoiceStatus == {"none", "pending", "paid", "failed", "cancelled"}
GatewayStatus == {"none", "pending", "approved", "rejected", "refunded"}
Dates == Nat \cup {Never}
Rows == [open: BOOLEAN, status: Statuses, period: Dates, trial: Dates, blocked: BOOLEAN,
         deleted: BOOLEAN, wasOpen: BOOLEAN, unlimited: BOOLEAN]
NoTenant == [none |-> "not yet"]
Purged == [none |-> "any more"]
\* Bound of the model: a payment finds no more rows than one per process, now or then.
SubIds == 1..(Cardinality(Handlers) * (Cardinality(Handlers) + 1) + 1)
Idle == [at |-> "idle"]
\* What an UPDATE may write: some of the columns.
Columns == [open |-> BOOLEAN, status |-> Statuses, period |-> Dates, blocked |-> BOOLEAN]
IsUpdate(u) == DOMAIN u \subseteq DOMAIN Columns /\ \A f \in DOMAIN u : u[f] \in Columns[f]
NoUpdate == [f \in {} |-> TRUE]

TypeOK ==
    /\ tenant \in Rows \cup {NoTenant, Purged}
    /\ invoice \in [Invoices -> [end: Nat, status: InvoiceStatus]]
    /\ gateway \in [Invoices -> GatewayStatus]
    /\ subs \subseteq SubIds
    /\ \A h \in Handlers :
         LET w == handler[h] IN
         \/ w = Idle
         \/ w \in [at: {"load"}, invoice: Invoices, says: GatewayStatus]
         \/ /\ w.at = "commit" /\ w.invoice \in Invoices
            /\ w.status \in InvoiceStatus \ {"none"} /\ w.same \in BOOLEAN
            /\ IsUpdate(w.update) /\ w.subs \subseteq SubIds
    /\ IsUpdate(enforcer)
    /\ entitled \in BOOLEAN
    /\ now \in 0..Horizon

Init ==
    /\ tenant = NoTenant
    /\ invoice = [i \in Invoices |-> [end |-> 0, status |-> "none"]]
    /\ gateway = [i \in Invoices |-> "none"]
    /\ subs = {} /\ handler = [h \in Handlers |-> Idle] /\ enforcer = NoUpdate
    /\ entitled = FALSE /\ now = 0

Exists == tenant \notin {NoTenant, Purged}
\* The unit of work: a column equal to what was loaded is not in the UPDATE.
Changes(read, new) == [f \in {f \in DOMAIN new : new[f] # read[f]} |-> new[f]]
Commit(update) == tenant' = [f \in DOMAIN tenant |-> IF f \in DOMAIN update THEN update[f] ELSE tenant[f]]

-------------------------------------------------------------------------------
(* The policy.                                                             *)

DueAt(row) == IF row.period # Never THEN row.period ELSE row.trial
Overdue(row, time) == DueAt(row) # Never /\ time > DueAt(row)
OverdueDays(row, time) == (time - DueAt(row)) \div Day + 1
ShouldBlock(row, time) == Overdue(row, time) /\ OverdueDays(row, time) > Grace

\* Variant: an account that was already canceled is skipped.
JudgedOnce(row, time) ==
    IF row.status = "canceled" THEN row
    ELSE IF ShouldBlock(row, time)
    THEN [row EXCEPT !.open = FALSE, !.status = "canceled", !.blocked = TRUE]
    ELSE IF Overdue(row, time) THEN [row EXCEPT !.status = "past_due"] ELSE row

Judged(row, time) ==
    CASE ShouldBlock(row, time) ->
           [row EXCEPT !.open = FALSE, !.status = "canceled", !.blocked = TRUE]
      [] Overdue(row, time) /\ ~ShouldBlock(row, time) ->
           [row EXCEPT !.status = IF @ \in {"active", "trial", "past_due"} THEN "past_due" ELSE @]
      [] OTHER -> [row EXCEPT !.blocked = @ /\ ~row.open]

\* The warning on every page of a client that is late and not yet blocked: the
\* days it still has, or none when the account needs no warning.
DaysUntilBlock(row, time) == 
    IF row.unlimited \/ ~Overdue(row, time) \/ ShouldBlock(row, time) THEN {}
    ELSE {Grace - OverdueDays(row, time)}

EnforceRead ==
    /\ enforcer = NoUpdate
    /\ Exists /\ ~tenant.unlimited /\ ~tenant.deleted
    /\ enforcer' = Changes(tenant, Judged(tenant, now))
    /\ UNCHANGED <<tenant, invoice, gateway, subs, handler, entitled, now>>

\* A row that was purged meanwhile fails the commit, for every client.
EnforceCommit ==
    /\ enforcer # NoUpdate
    /\ IF Exists THEN Commit(enforcer) ELSE UNCHANGED tenant
    /\ enforcer' = NoUpdate
    /\ UNCHANGED <<invoice, gateway, subs, handler, entitled, now>>

-------------------------------------------------------------------------------
(* Registration, checkout and payments.                                    *)

NewRow == [open |-> TRUE, status |-> "trial", period |-> Never, trial |-> Never,
           blocked |-> FALSE, deleted |-> FALSE, wasOpen |-> FALSE, unlimited |-> FALSE]
OnTrial == [NewRow EXCEPT !.trial = IF Trial > 0 THEN now + Trial ELSE Never]
PendingPayment == [NewRow EXCEPT !.open = FALSE, !.status = "pending_payment"]

\* With payments configured the account is committed before the checkout is made.
Register ==
    /\ tenant = NoTenant
    /\ tenant' \in {OnTrial, PendingPayment}
    /\ entitled' = tenant'.open
    /\ UNCHANGED <<invoice, gateway, subs, handler, enforcer, now>>

\* The invoice is committed with the preference the gateway returned, or not at all.
Checkout(i) ==
    /\ Exists /\ invoice[i].status = "none"
    /\ tenant.open \/ tenant.status = "pending_payment"
    /\ invoice' = [invoice EXCEPT ![i] = [end |-> now + Period, status |-> "pending"]]
    /\ UNCHANGED <<tenant, gateway, subs, handler, enforcer, entitled, now>>

PayAgain(i) ==
    /\ Exists /\ tenant.open
    /\ invoice[i].status \notin {"none", "paid"}
    /\ invoice' = [invoice EXCEPT ![i].status = "pending"]
    /\ UNCHANGED <<tenant, gateway, subs, handler, enforcer, entitled, now>>

\* External: the gateway moves a payment along.
Pay(i) ==
    /\ invoice[i].status # "none"
    /\ \E says \in GatewayStatus :
        /\ <<gateway[i], says>> \in
             ({"none", "pending", "rejected"} \X {"pending", "approved", "rejected"})
             \cup {<<"approved", "refunded">>}
        /\ gateway' = [gateway EXCEPT ![i] = says]
        /\ entitled' = (entitled \/ says = "approved")
    /\ UNCHANGED <<tenant, invoice, subs, handler, enforcer, now>>

FromGateway(says) ==
    CASE says = "approved" -> "paid" [] says = "pending" -> "pending"
      [] says = "refunded" -> "cancelled" [] OTHER -> "failed"

\* The gateway is asked before the transaction starts.
Ask(h, i) ==
    /\ handler[h] = Idle /\ gateway[i] # "none"
    /\ handler' = [handler EXCEPT ![h] = [at |-> "load", invoice |-> i, says |-> gateway[i]]]
    /\ UNCHANGED <<tenant, invoice, gateway, subs, enforcer, entitled, now>>

\* _activate_subscription, or past_due when the payment failed or was returned.
Settled(row, status, end) ==
    CASE status = "paid" ->
           [row EXCEPT !.open = TRUE, !.status = "active", !.period = end, !.blocked = FALSE]
      [] status \in {"failed", "cancelled"} -> [row EXCEPT !.status = "past_due"]
      [] OTHER -> row

Load(h) ==
    LET i == handler[h].invoice
        status == FromGateway(handler[h].says)
    IN
    /\ handler[h].at = "load"
    /\ handler' = [handler EXCEPT ![h] =
         IF ~Exists \/ invoice[i].status = "none" THEN Idle
         ELSE [at |-> "commit", invoice |-> i, status |-> status,
               same |-> status = invoice[i].status, subs |-> subs,
               update |-> Changes(tenant, Settled(tenant, status, invoice[i].end))]]
    /\ UNCHANGED <<tenant, invoice, gateway, subs, enforcer, entitled, now>>

FreshSub == CHOOSE s \in SubIds :
    s \notin subs \cup UNION {handler[h].subs : h \in {h \in Handlers : handler[h].at = "commit"}}

\* Variant: the subscriptions of earlier payments stay active.
ProcessAdds(h) ==
    LET w == handler[h] IN
    /\ w.at = "commit"
    /\ handler' = [handler EXCEPT ![h] = Idle]
    /\ IF Exists
       THEN /\ Commit(w.update)
            /\ invoice' = IF w.same THEN invoice ELSE [invoice EXCEPT ![w.invoice].status = w.status]
            /\ subs' = IF w.status = "paid" THEN subs \cup {FreshSub} ELSE subs
       ELSE UNCHANGED <<tenant, invoice, subs>>
    /\ UNCHANGED <<gateway, enforcer, entitled, now>>

Process(h) ==
    LET w == handler[h] IN
    /\ w.at = "commit"
    /\ handler' = [handler EXCEPT ![h] = Idle]
    /\ IF Exists
       THEN /\ Commit(w.update)
            /\ invoice' = IF w.same THEN invoice ELSE [invoice EXCEPT ![w.invoice].status = w.status]
            /\ subs' = IF w.status = "paid" THEN (subs \ w.subs) \cup {FreshSub} ELSE subs
       ELSE UNCHANGED <<tenant, invoice, subs>>
    /\ UNCHANGED <<gateway, enforcer, entitled, now>>

-------------------------------------------------------------------------------
(* Administrators.                                                         *)

Administer(new) == tenant' = new /\ UNCHANGED <<invoice, gateway, subs, handler, enforcer, now>>

AddTenant ==
    /\ tenant = NoTenant
    /\ \E unlimited \in BOOLEAN, planned \in BOOLEAN :
        /\ unlimited \/ planned
        /\ Administer([(IF planned THEN OnTrial ELSE NewRow) EXCEPT !.unlimited = unlimited])
    /\ entitled' = TRUE

EditTenant ==
    /\ Exists /\ ~tenant.deleted
    /\ \E open \in BOOLEAN, unlimited \in BOOLEAN, status \in EditedStatus :
        /\ Administer([tenant EXCEPT !.open = open, !.unlimited = unlimited, !.status = status])
        /\ entitled' = (entitled \/ open)

ToggleActive ==
    /\ Exists /\ ~tenant.deleted
    /\ Administer([tenant EXCEPT !.open = ~@])
    /\ entitled' = (entitled \/ ~tenant.open)

Trash ==
    /\ Exists /\ ~tenant.deleted
    /\ Administer([tenant EXCEPT !.wasOpen = tenant.open, !.open = FALSE, !.deleted = TRUE])
    /\ UNCHANGED entitled

\* Variant: whoever leaves the trash is open.
RestoredOpen(row) == [row EXCEPT !.deleted = FALSE, !.wasOpen = FALSE, !.open = TRUE]

Restored(row) ==
    [row EXCEPT !.deleted = FALSE, !.wasOpen = FALSE,
       !.open = row.wasOpen /\ ~row.blocked /\ row.status \notin {"pending_payment", "canceled"}]

Restore ==
    /\ Exists /\ tenant.deleted
    /\ Administer(Restored(tenant))
    /\ UNCHANGED entitled

Purge ==
    /\ Exists /\ tenant.deleted
    /\ tenant' = Purged
    /\ invoice' = [i \in Invoices |-> [end |-> 0, status |-> "none"]]
    /\ subs' = {} /\ entitled' = FALSE
    /\ UNCHANGED <<gateway, handler, enforcer, now>>

Tick ==
    /\ now < Horizon /\ now' = now + 1
    /\ UNCHANGED <<tenant, invoice, gateway, subs, handler, enforcer, entitled>>

Enforce == EnforceRead \/ EnforceCommit
Client == \/ Register
          \/ \E i \in Invoices : Checkout(i) \/ PayAgain(i) \/ Pay(i)
Payment(h) == (\E i \in Invoices : Ask(h, i)) \/ Load(h) \/ Process(h)
Admin == AddTenant \/ EditTenant \/ ToggleActive \/ Trash \/ Restore \/ Purge
Next == Client \/ Enforce \/ (\E h \in Handlers : Payment(h)) \/ Admin \/ Tick
Spec == Init /\ [][Next]_vars
FairSpec == Spec /\ WF_vars(Tick) /\ WF_vars(EnforceRead) /\ WF_vars(EnforceCommit)

-------------------------------------------------------------------------------
(* Properties.                                                             *)

Late == Exists /\ ~tenant.unlimited /\ ~tenant.deleted /\ ShouldBlock(tenant, now)

\* An account that stays late beyond its grace is closed again and again, whoever
\* reopens it and whatever payments fail meanwhile (enforce_access_policy).
LateIsClosed == <>[]Late => []<>~(Exists /\ tenant.open)

\* Nobody gets in without a trial, an approved payment or an administrator who
\* opened the account, not even through the trash (restore_tenant).
OpenIsEntitled == Exists /\ tenant.open => entitled

\* However many payments are processed at once, and whatever else happens meanwhile,
\* no client is left with more ACTIVE subscriptions than there are processes: each
\* cancels what it finds, so one that does not overlap another leaves one
\* (_activate_subscription).  The superadmin's dashboard counts these rows.
SubscriptionsBounded == Cardinality(subs) <= Cardinality(Handlers)

\* The enforcement closes an account only after the end of its window, as the
\* docstring of enforce_tenant_billing_access says.
ClosesAfterWindow ==
    [][EnforceCommit /\ Exists /\ tenant.open /\ ~tenant'.open => ShouldBlock(tenant, now)]_vars
===============================================================================
