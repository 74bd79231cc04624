---------------------------- MODULE Billing_proofs -----------------------------
(* Nobody gets into an account without a trial, a payment or an administrator *)
(* who opened it: for any invoices, processes, periods and statuses.          *)
EXTENDS Billing, FiniteSetTheorems, TLAPS

USE DEF NoTenant, Purged

Fields == {"open", "status", "period", "trial", "blocked", "deleted", "wasOpen", "unlimited"}
Opens(update) == "open" \in DOMAIN update /\ update["open"]

\* A client that was never there has nothing, and nobody works for it.
Untouched ==
    /\ \A i \in Invoices : invoice[i].status = "none" /\ gateway[i] = "none"
    /\ \A h \in Handlers : handler[h].at = "idle"

\* What would open the account, or has: the row, the trash, a payment the gateway
\* approved, a process that was told of it, the columns it is about to write.
Vouched ==
    /\ Exists => (tenant.open => entitled) /\ (tenant.wasOpen => entitled)
    /\ \A i \in Invoices : gateway[i] = "approved" => entitled
    /\ \A h \in Handlers :
          /\ handler[h].at = "load" /\ handler[h].says = "approved" => entitled
          /\ handler[h].at = "commit" /\ Opens(handler[h].update) => entitled

EntitledInv ==
    /\ tenant \in {NoTenant, Purged} \/ DOMAIN tenant = Fields
    /\ DOMAIN handler = Handlers /\ DOMAIN invoice = Invoices /\ DOMAIN gateway = Invoices
    /\ \A h \in Handlers :
          handler[h].at = "commit" => "wasOpen" \notin DOMAIN handler[h].update
    /\ ~Opens(enforcer) /\ "wasOpen" \notin DOMAIN enforcer
    /\ tenant = NoTenant => Untouched
    /\ tenant # Purged => Vouched

\* Rows are told from no row by their columns.
LEMMA RowExists ==
    ASSUME NEW account, DOMAIN account = Fields
    PROVE  account # NoTenant /\ account # Purged
<1>1. DOMAIN NoTenant = {"none"} /\ DOMAIN Purged = {"none"}
  OBVIOUS
<1>2. "open" \in DOMAIN account /\ "open" \notin {"none"}
  BY DEF Fields
<1> QED
  BY <1>1, <1>2

LEMMA NoneOrPurged == NoTenant # Purged
<1>1. NoTenant.none # Purged.none
  OBVIOUS
<1> QED
  BY <1>1

LEMMA EntitledInit == Init => EntitledInv
<1> SUFFICES ASSUME Init PROVE EntitledInv
  OBVIOUS
<1>1. /\ tenant = NoTenant /\ enforcer = NoUpdate
      /\ handler = [h \in Handlers |-> Idle]
      /\ invoice = [i \in Invoices |-> [end |-> 0, status |-> "none"]]
      /\ gateway = [i \in Invoices |-> "none"]
  BY DEF Init
<1>2. DOMAIN enforcer = {}
  BY <1>1 DEF NoUpdate
<1>3. \A h \in Handlers : handler[h].at = "idle"
  BY <1>1 DEF Idle
<1>4. ~Exists
  BY <1>1 DEF Exists
<1> QED
  BY <1>1, <1>2, <1>3, <1>4, NoneOrPurged DEF EntitledInv, Untouched, Vouched, Opens

\* The columns an UPDATE writes, and the row it leaves.
LEMMA ChangesFields ==
    ASSUME NEW read, NEW new, DOMAIN new = Fields, new["wasOpen"] = read["wasOpen"]
    PROVE  /\ "wasOpen" \notin DOMAIN Changes(read, new)
           /\ Opens(Changes(read, new)) => new["open"]
BY DEF Changes, Opens

LEMMA CommitFields ==
    ASSUME NEW update, Commit(update), DOMAIN tenant = Fields,
           "wasOpen" \notin DOMAIN update
    PROVE  /\ DOMAIN tenant' = Fields
           /\ tenant'.wasOpen = tenant.wasOpen
           /\ tenant'.open => tenant.open \/ Opens(update)
BY DEF Commit, Opens, Fields

\* The policy never opens an account (enforce_access_policy).
LEMMA JudgedFields ==
    ASSUME NEW account, DOMAIN account = Fields, NEW time
    PROVE  LET new == Judged(account, time)
           IN  /\ DOMAIN new = Fields /\ new["wasOpen"] = account["wasOpen"]
               /\ new["open"] = account["open"] \/ new["open"] = FALSE
BY DEF Judged, Fields

\* A payment opens the account when it was approved (_activate_subscription).
LEMMA SettledFields ==
    ASSUME NEW account, DOMAIN account = Fields, NEW status, NEW end
    PROVE  LET new == Settled(account, status, end)
           IN  /\ DOMAIN new = Fields /\ new["wasOpen"] = account["wasOpen"]
               /\ new["open"] = account["open"] \/ status = "paid"
BY DEF Settled, Fields

-------------------------------------------------------------------------------

\* The enforcement reads, and writes what it worked out then over what is there now.
LEMMA EnforceKeeps ==
    ASSUME EntitledInv, Enforce
    PROVE  EntitledInv'
<1>1. CASE EnforceRead
  <2>1. /\ enforcer' = Changes(tenant, Judged(tenant, now)) /\ Exists
        /\ UNCHANGED <<tenant, invoice, gateway, handler, entitled>>
    BY <1>1 DEF EnforceRead
  <2>2. DOMAIN tenant = Fields
    BY <2>1 DEF EntitledInv, Exists
  <2> DEFINE new == Judged(tenant, now)
  <2>3. /\ DOMAIN new = Fields /\ new["wasOpen"] = tenant["wasOpen"]
        /\ new["open"] = tenant["open"] \/ new["open"] = FALSE
    BY <2>2, JudgedFields
  <2> HIDE DEF new
  <2>4. "wasOpen" \notin DOMAIN Changes(tenant, new) /\ ~Opens(Changes(tenant, new))
    BY <2>3 DEF Changes, Opens
  <2> QED
    BY <2>1, <2>4 DEF EntitledInv, Untouched, Vouched, Exists, new
<1>2. CASE EnforceCommit
  <2>1. /\ enforcer' = NoUpdate
        /\ IF Exists THEN Commit(enforcer) ELSE UNCHANGED tenant
        /\ UNCHANGED <<invoice, gateway, handler, entitled>>
    BY <1>2 DEF EnforceCommit
  <2>2. DOMAIN enforcer' = {}
    BY <2>1 DEF NoUpdate
  <2>3. CASE ~Exists
    BY <2>1, <2>2, <2>3 DEF EntitledInv, Untouched, Vouched, Exists, Opens
  <2>4. CASE Exists
    <3>1. /\ DOMAIN tenant = Fields /\ DOMAIN tenant' = Fields
          /\ tenant'.wasOpen = tenant.wasOpen /\ (tenant'.open => tenant.open)
      BY <2>1, <2>4, CommitFields DEF EntitledInv, Exists
    <3>2. tenant' \notin {NoTenant, Purged}
      BY <3>1, RowExists
    <3> QED
      BY <2>1, <2>2, <2>4, <3>1, <3>2 DEF EntitledInv, Untouched, Vouched, Exists, Opens
  <2> QED
    BY <2>3, <2>4
<1> QED
  BY <1>1, <1>2 DEF Enforce

\* Registration: with a trial, or closed until it is paid.
LEMMA ClientKeeps ==
    ASSUME EntitledInv, Client
    PROVE  EntitledInv'
<1>1. CASE Register
  <2>1. /\ tenant = NoTenant /\ tenant' \in {OnTrial, PendingPayment}
        /\ entitled' = tenant'.open /\ UNCHANGED <<invoice, gateway, handler, enforcer>>
    BY <1>1 DEF Register
  <2>2. DOMAIN tenant' = Fields /\ tenant'.wasOpen = FALSE
    BY <2>1 DEF OnTrial, PendingPayment, NewRow, Fields
  <2>3. tenant' \notin {NoTenant, Purged}
    BY <2>2, RowExists
  <2> QED
    BY <2>1, <2>2, <2>3 DEF EntitledInv, Untouched, Vouched, Exists
<1>2. ASSUME NEW i \in Invoices, Checkout(i) \/ PayAgain(i)
      PROVE  EntitledInv'
  <2>1. Exists /\ DOMAIN invoice' = Invoices
        /\ UNCHANGED <<tenant, gateway, handler, enforcer, entitled>>
    BY <1>2 DEF Checkout, PayAgain, EntitledInv
  <2> QED
    BY <2>1 DEF EntitledInv, Untouched, Vouched, Exists
<1>3. ASSUME NEW i \in Invoices, Pay(i)
      PROVE  EntitledInv'
  <2>1. PICK says \in GatewayStatus :
            /\ gateway' = [gateway EXCEPT ![i] = says]
            /\ entitled' = (entitled \/ says = "approved")
    BY <1>3 DEF Pay
  <2>2. invoice[i].status # "none" /\ UNCHANGED <<tenant, invoice, handler, enforcer>>
    BY <1>3 DEF Pay
  <2> QED
    BY <2>1, <2>2 DEF EntitledInv, Untouched, Vouched, Exists
<1> QED
  BY <1>1, <1>2, <1>3 DEF Client

\* A payment: what the gateway said, and what that makes of the row read then.
LEMMA PaymentKeeps ==
    ASSUME EntitledInv, NEW h \in Handlers, Payment(h)
    PROVE  EntitledInv'
<1>1. ASSUME NEW i \in Invoices, Ask(h, i)
      PROVE  EntitledInv'
  <2>1. /\ gateway[i] # "none"
        /\ handler' = [handler EXCEPT ![h] = [at |-> "load", invoice |-> i, says |-> gateway[i]]]
        /\ UNCHANGED <<tenant, invoice, gateway, enforcer, entitled>>
    BY <1>1 DEF Ask
  <2>2. /\ handler'[h].at = "load" /\ handler'[h].says = gateway[i]
        /\ \A g \in Handlers \ {h} : handler'[g] = handler[g]
        /\ DOMAIN handler' = Handlers
    BY <2>1 DEF EntitledInv
  <2> QED
    BY <2>1, <2>2 DEF EntitledInv, Untouched, Vouched, Exists
<1>2. CASE Load(h)
  <2> DEFINE i == handler[h].invoice
             status == FromGateway(handler[h].says)
             new == Settled(tenant, status, invoice[i].end)
             update == Changes(tenant, new)
             next == [at |-> "commit", invoice |-> i, status |-> status,
                      same |-> status = invoice[i].status, subs |-> subs, update |-> update]
  <2>1. /\ handler[h].at = "load" /\ UNCHANGED <<tenant, invoice, gateway, enforcer, entitled>>
        /\ handler' = [handler EXCEPT ![h] = IF ~Exists \/ invoice[i].status = "none"
                                             THEN Idle ELSE next]
    BY <1>2 DEF Load
  <2>2. DOMAIN handler' = Handlers /\ \A g \in Handlers \ {h} : handler'[g] = handler[g]
    BY <2>1 DEF EntitledInv
  <2>3. CASE handler'[h] = Idle
    <3>1. handler'[h].at = "idle"
      BY <2>3 DEF Idle
    <3> QED
      BY <2>1, <2>2, <3>1 DEF EntitledInv, Untouched, Vouched, Exists
  <2>4. CASE Exists /\ handler'[h] = next
    <3>1. DOMAIN tenant = Fields
      BY <2>4 DEF EntitledInv, Exists
    <3>2. /\ DOMAIN new = Fields /\ new["wasOpen"] = tenant["wasOpen"]
          /\ new["open"] = tenant["open"] \/ status = "paid"
      BY <3>1, SettledFields
    <3>3. status = "paid" => handler[h].says = "approved"
      BY DEF FromGateway
    <3> HIDE DEF new
    <3>4. "wasOpen" \notin DOMAIN update /\ (Opens(update) => status = "paid")
      BY <3>2 DEF Changes, Opens
    <3> HIDE DEF update, status
    <3>5. handler'[h].at = "commit" /\ handler'[h].update = update
      BY <2>4
    <3> QED
      BY <2>1, <2>2, <2>4, <3>3, <3>4, <3>5 DEF EntitledInv, Untouched, Vouched, Exists
  <2> QED
    BY <2>1, <2>3, <2>4 DEF EntitledInv
<1>3. CASE Process(h)
  <2>1. /\ handler[h].at = "commit" /\ handler' = [handler EXCEPT ![h] = Idle]
        /\ IF Exists
           THEN /\ Commit(handler[h].update)
                /\ \/ invoice' = invoice
                   \/ invoice' = [invoice EXCEPT ![handler[h].invoice].status = handler[h].status]
           ELSE UNCHANGED <<tenant, invoice>>
        /\ UNCHANGED <<gateway, enforcer, entitled>>
    BY <1>3 DEF Process
  <2>2. /\ DOMAIN handler' = Handlers /\ \A g \in Handlers \ {h} : handler'[g] = handler[g]
        /\ handler'[h].at = "idle" /\ DOMAIN invoice' = Invoices
    BY <2>1 DEF EntitledInv, Idle
  <2>3. CASE ~Exists
    BY <2>1, <2>2, <2>3 DEF EntitledInv, Untouched, Vouched, Exists
  <2>4. CASE Exists
    <3>1. /\ DOMAIN tenant = Fields /\ DOMAIN tenant' = Fields
          /\ tenant'.wasOpen = tenant.wasOpen
          /\ tenant'.open => tenant.open \/ Opens(handler[h].update)
      BY <2>1, <2>4, CommitFields DEF EntitledInv, Exists
    <3>2. tenant' \notin {NoTenant, Purged}
      BY <3>1, RowExists
    <3> QED
      BY <2>1, <2>2, <2>4, <3>1, <3>2 DEF EntitledInv, Untouched, Vouched, Exists
  <2> QED
    BY <2>3, <2>4
<1> QED
  BY <1>1, <1>2, <1>3 DEF Payment

\* Administrators open and close accounts, and the trash remembers which were open.
LEMMA AdminKeeps ==
    ASSUME EntitledInv, Admin
    PROVE  EntitledInv'
<1>1. ASSUME DOMAIN tenant' = Fields, tenant # Purged, tenant = NoTenant => Untouched,
             UNCHANGED <<invoice, gateway, handler, enforcer>>,
             tenant'["open"] => entitled', tenant'["wasOpen"] => entitled', entitled => entitled'
      PROVE  EntitledInv'
  <2>1. tenant' \notin {NoTenant, Purged}
    BY <1>1, RowExists
  <2>2. /\ Exists' => (tenant'.open => entitled') /\ (tenant'.wasOpen => entitled')
        /\ \A i \in Invoices : gateway'[i] = "approved" => entitled'
        /\ \A h \in Handlers :
              /\ handler'[h].at = "load" /\ handler'[h].says = "approved" => entitled'
              /\ handler'[h].at = "commit" /\ Opens(handler'[h].update) => entitled'
    BY <1>1 DEF EntitledInv, Vouched
  <2> QED
    BY <1>1, <2>1, <2>2 DEF EntitledInv, Vouched, Opens
<1>2. ASSUME Exists PROVE DOMAIN tenant = Fields /\ Vouched /\ tenant # Purged
                                /\ tenant # NoTenant
  BY <1>2 DEF EntitledInv, Exists
<1>3. ASSUME Exists
      PROVE  (tenant["open"] => entitled) /\ (tenant["wasOpen"] => entitled)
  BY <1>2, <1>3 DEF Vouched
<1>4. CASE AddTenant
  <2>1. PICK unlimited \in BOOLEAN, planned \in BOOLEAN :
            Administer([(IF planned THEN OnTrial ELSE NewRow)
                              EXCEPT !.unlimited = unlimited])
    BY <1>4 DEF AddTenant
  <2>2. /\ tenant' = [(IF planned THEN OnTrial ELSE NewRow) EXCEPT !.unlimited = unlimited]
        /\ UNCHANGED <<invoice, gateway, handler, enforcer>>
    BY <2>1 DEF Administer
  <2>3. tenant = NoTenant /\ entitled' = TRUE
    BY <1>4 DEF AddTenant
  <2>4. DOMAIN tenant' = Fields
    BY <2>2 DEF OnTrial, NewRow, Fields
  <2> QED
    BY <1>1, <2>2, <2>3, <2>4, NoneOrPurged DEF EntitledInv
<1>5. CASE EditTenant
  <2>1. PICK active \in BOOLEAN, unlimited \in BOOLEAN, status \in EditedStatus :
            /\ Administer([tenant EXCEPT !.open = active, !.unlimited = unlimited, !.status = status])
            /\ entitled' = (entitled \/ active)
    BY <1>5 DEF EditTenant
  <2>2. /\ tenant' = [tenant EXCEPT !.open = active, !.unlimited = unlimited, !.status = status]
        /\ UNCHANGED <<invoice, gateway, handler, enforcer>> /\ Exists
    BY <1>5, <2>1 DEF Administer, EditTenant
  <2>3. DOMAIN tenant' = Fields /\ tenant'["open"] = active /\ tenant'["wasOpen"] = tenant["wasOpen"]
    BY <1>2, <2>2 DEF Fields
  <2> QED
    BY <1>1, <1>2, <1>3, <2>1, <2>2, <2>3
<1>6. CASE ToggleActive
  <2>1. /\ tenant' = [tenant EXCEPT !.open = ~@] /\ Exists
        /\ entitled' = (entitled \/ ~tenant.open)
        /\ UNCHANGED <<invoice, gateway, handler, enforcer>>
    BY <1>6 DEF Administer, ToggleActive
  <2>2. DOMAIN tenant' = Fields /\ tenant'["open"] = ~tenant["open"]
        /\ tenant'["wasOpen"] = tenant["wasOpen"]
    BY <1>2, <2>1 DEF Fields
  <2> QED
    BY <1>1, <1>2, <1>3, <2>1, <2>2
<1>7. CASE Trash
  <2>1. /\ tenant' = [tenant EXCEPT !.wasOpen = tenant.open, !.open = FALSE, !.deleted = TRUE]
        /\ Exists /\ UNCHANGED <<entitled, invoice, gateway, handler, enforcer>>
    BY <1>7 DEF Administer, Trash
  <2>2. DOMAIN tenant' = Fields /\ tenant'["open"] = FALSE /\ tenant'["wasOpen"] = tenant["open"]
    BY <1>2, <2>1 DEF Fields
  <2> QED
    BY <1>1, <1>2, <1>3, <2>1, <2>2
<1>8. CASE Restore
  <2>1. /\ tenant' = Restored(tenant)
        /\ Exists /\ UNCHANGED <<entitled, invoice, gateway, handler, enforcer>>
    BY <1>8 DEF Administer, Restore
  <2>2. DOMAIN tenant' = Fields /\ tenant'["wasOpen"] = FALSE
        /\ (tenant'["open"] => tenant["wasOpen"])
    BY <1>2, <2>1 DEF Fields, Restored
  <2> QED
    BY <1>1, <1>2, <1>3, <2>1, <2>2
<1>9. CASE Purge
  <2>1. /\ tenant' = Purged /\ UNCHANGED <<gateway, handler, enforcer>>
        /\ invoice' = [i \in Invoices |-> [end |-> 0, status |-> "none"]]
    BY <1>9 DEF Purge
  <2>2. DOMAIN invoice' = Invoices /\ tenant' # NoTenant
    BY <2>1, NoneOrPurged
  <2> QED
    BY <2>1, <2>2 DEF EntitledInv, Opens
<1> QED
  BY <1>4, <1>5, <1>6, <1>7, <1>8, <1>9 DEF Admin

-------------------------------------------------------------------------------

LEMMA EntitledStep == EntitledInv /\ [Next]_vars => EntitledInv'
<1> SUFFICES ASSUME EntitledInv, [Next]_vars PROVE EntitledInv'
  OBVIOUS
<1>1. ASSUME UNCHANGED <<tenant, invoice, gateway, handler, enforcer, entitled>>
      PROVE  EntitledInv'
  BY <1>1 DEF EntitledInv, Untouched, Vouched, Exists
<1>2. CASE Tick
  BY <1>1, <1>2 DEF Tick
<1>3. CASE UNCHANGED vars
  BY <1>1, <1>3 DEF vars
<1> QED
  BY <1>2, <1>3, EnforceKeeps, ClientKeeps, PaymentKeeps, AdminKeeps DEF Next

\* Nobody gets in without a trial, an approved payment or an administrator who opened
\* the account, not even through the trash (restore_tenant): whatever the hourly
\* enforcement, the web processes and the gateway have read and not written yet.
THEOREM EntitledOnly == Spec => []OpenIsEntitled
<1>1. EntitledInv => OpenIsEntitled
  BY DEF EntitledInv, Vouched, OpenIsEntitled, Exists
<1> QED
  BY <1>1, EntitledInit, EntitledStep, PTL DEF Spec

-------------------------------------------------------------------------------
(* The ACTIVE subscriptions.                                               *)

\* Each row is told from the others by the process that added it.
OneEach(S, owner) == owner \in [S -> Handlers] /\ \A s, t \in S : owner[s] = owner[t] => s = t

\* A process adds one row, and by the next one it adds it has found the last.
Seen(S, owner, process) ==
    \A s \in S : process[owner[s]].at = "commit" => s \in process[owner[s]].subs
OwnersInv ==
    /\ DOMAIN handler = Handlers
    /\ \E owner : OneEach(subs, owner) /\ Seen(subs, owner, handler)
    /\ \A h \in Handlers :
          handler[h].at = "commit" => \E owner : OneEach(handler[h].subs, owner)

LEMMA OwnersInit == Init => OwnersInv
<1> SUFFICES ASSUME Init PROVE OwnersInv
  OBVIOUS
<1>1. subs = {} /\ handler = [h \in Handlers |-> Idle] /\ Idle.at = "idle"
  BY DEF Init, Idle
<1>2. OneEach(subs, [s \in {} |-> s]) /\ Seen(subs, [s \in {} |-> s], handler)
  BY <1>1 DEF OneEach, Seen
<1> QED
  BY <1>1, <1>2 DEF OwnersInv

\* A process that stands still, or has asked, has no copy of the rows.
LEMMA OwnersAsk ==
    ASSUME OwnersInv, NEW h \in Handlers, NEW i \in Invoices, Ask(h, i)
    PROVE  OwnersInv'
<1>1. /\ handler' = [handler EXCEPT ![h] = [at |-> "load", invoice |-> i, says |-> gateway[i]]]
      /\ subs' = subs
  BY DEF Ask
<1>2. /\ DOMAIN handler' = Handlers /\ handler'[h].at = "load"
      /\ \A g \in Handlers \ {h} : handler'[g] = handler[g]
  BY <1>1 DEF OwnersInv
<1>3. PICK owner : OneEach(subs, owner) /\ Seen(subs, owner, handler)
  BY DEF OwnersInv
<1>4. OneEach(subs', owner) /\ Seen(subs', owner, handler')
  BY <1>1, <1>2, <1>3 DEF OneEach, Seen
<1>5. ASSUME NEW g \in Handlers, handler'[g].at = "commit"
      PROVE  \E own : OneEach(handler'[g].subs, own)
  BY <1>2, <1>5 DEF OwnersInv
<1> QED
  BY <1>2, <1>4, <1>5 DEF OwnersInv, OneEach

\* A process that reads the rows knows them all, its own last one among them.
LEMMA OwnersLoad ==
    ASSUME OwnersInv, NEW h \in Handlers, Load(h)
    PROVE  OwnersInv'
<1>1. /\ subs' = subs /\ DOMAIN handler' = Handlers
      /\ \A g \in Handlers \ {h} : handler'[g] = handler[g]
      /\ handler'[h].at = "commit" => handler'[h].subs = subs
  BY DEF Load, OwnersInv, Idle
<1>2. PICK owner : OneEach(subs, owner) /\ Seen(subs, owner, handler)
  BY DEF OwnersInv
<1>3. OneEach(subs', owner) /\ Seen(subs', owner, handler')
  <2>1. ASSUME NEW s \in subs, handler'[owner[s]].at = "commit"
        PROVE  s \in handler'[owner[s]].subs
    <3>1. owner[s] \in Handlers
      BY <1>2 DEF OneEach
    <3>2. CASE owner[s] = h
      BY <1>1, <2>1, <3>2
    <3>3. CASE owner[s] # h
      BY <1>1, <1>2, <2>1, <3>1, <3>3 DEF Seen
    <3> QED
      BY <3>2, <3>3
  <2> QED
    BY <1>1, <1>2, <2>1 DEF OneEach, Seen
<1>4. ASSUME NEW g \in Handlers, handler'[g].at = "commit"
      PROVE  \E own : OneEach(handler'[g].subs, own)
  <2>1. CASE g = h
    BY <1>1, <1>2, <1>4, <2>1
  <2>2. CASE g # h
    BY <1>1, <1>4, <2>2 DEF OwnersInv
  <2> QED
    BY <2>1, <2>2
<1> QED
  BY <1>1, <1>3, <1>4 DEF OwnersInv, OneEach

\* A process that writes takes its own last row away, and adds one.
LEMMA OwnersProcess ==
    ASSUME OwnersInv, NEW h \in Handlers, Process(h)
    PROVE  OwnersInv'
<1>1. /\ handler[h].at = "commit" /\ handler' = [handler EXCEPT ![h] = Idle]
      /\ \/ subs' = subs
         \/ subs' = (subs \ handler[h].subs) \cup {FreshSub}
  BY DEF Process
<1>2. /\ DOMAIN handler' = Handlers /\ handler'[h].at = "idle"
      /\ \A g \in Handlers \ {h} : handler'[g] = handler[g]
  BY <1>1 DEF OwnersInv, Idle
<1>3. PICK owner : OneEach(subs, owner) /\ Seen(subs, owner, handler)
  BY DEF OwnersInv
<1>4. ASSUME NEW g \in Handlers, handler'[g].at = "commit"
      PROVE  \E own : OneEach(handler'[g].subs, own)
  BY <1>2, <1>4 DEF OwnersInv
<1>5. CASE subs' = subs
  <2>1. OneEach(subs', owner) /\ Seen(subs', owner, handler')
    BY <1>2, <1>3, <1>5 DEF OneEach, Seen
  <2> QED
    BY <1>2, <1>4, <2>1 DEF OwnersInv, OneEach
<1>6. CASE subs' = (subs \ handler[h].subs) \cup {FreshSub}
  <2> DEFINE new == [s \in subs' |-> IF s = FreshSub THEN h ELSE owner[s]]
  <2>1. ASSUME NEW s \in subs', s # FreshSub
        PROVE  s \in subs /\ owner[s] # h /\ new[s] = owner[s] /\ owner[s] \in Handlers
    BY <1>1, <1>3, <1>6, <2>1 DEF OneEach, Seen
  <2>2. new[FreshSub] = h
    BY <1>6
  <2> HIDE DEF new
  <2>3. new \in [subs' -> Handlers]
    <3>1. \A s \in subs' : new[s] \in Handlers
      BY <2>1, <2>2
    <3> QED
      BY <3>1 DEF new
  <2>4. ASSUME NEW s \in subs', NEW t \in subs', new[s] = new[t]
        PROVE  s = t
    BY <1>3, <2>1, <2>2, <2>4 DEF OneEach
  <2>5. Seen(subs', new, handler')
    BY <1>2, <1>3, <2>1, <2>2 DEF Seen
  <2>6. OneEach(subs', new)
    BY <2>3, <2>4 DEF OneEach
  <2> QED
    BY <1>2, <1>4, <2>5, <2>6 DEF OwnersInv, OneEach
<1> QED
  BY <1>1, <1>5, <1>6

LEMMA OwnersStep == OwnersInv /\ [Next]_vars => OwnersInv'
<1> SUFFICES ASSUME OwnersInv, [Next]_vars PROVE OwnersInv'
  OBVIOUS
<1>1. ASSUME subs' \in {subs, {}}, handler' = handler
      PROVE  OwnersInv'
  <2>1. PICK owner : OneEach(subs, owner) /\ Seen(subs, owner, handler)
    BY DEF OwnersInv
  <2>2. CASE subs' = subs
    BY <1>1, <2>2 DEF OwnersInv, OneEach, Seen
  <2>3. CASE subs' = {}
    <3>1. OneEach(subs', [s \in {} |-> s]) /\ Seen(subs', [s \in {} |-> s], handler')
      BY <2>3 DEF OneEach, Seen
    <3>2. \E own : OneEach(subs', own) /\ Seen(subs', own, handler')
      BY <3>1
    <3> QED
      BY <1>1, <3>2 DEF OwnersInv, OneEach
  <2> QED
    BY <1>1, <2>2, <2>3
<1>2. CASE Client \/ Enforce \/ Tick \/ UNCHANGED vars
  BY <1>1, <1>2 DEF Client, Register, Checkout, PayAgain, Pay, Enforce, EnforceRead, EnforceCommit,
                    Tick, vars
<1>3. CASE Admin
  BY <1>1, <1>3 DEF Admin, AddTenant, EditTenant, ToggleActive, Trash, Restore, Purge, Administer
<1>4. ASSUME NEW h \in Handlers, Payment(h)
      PROVE  OwnersInv'
  BY <1>4, OwnersAsk, OwnersLoad, OwnersProcess DEF Payment
<1> QED
  BY <1>2, <1>3, <1>4 DEF Next

LEMMA OneEachCounts ==
    ASSUME IsFiniteSet(Handlers), NEW S, NEW owner, OneEach(S, owner)
    PROVE  IsFiniteSet(S) /\ Cardinality(S) <= Cardinality(Handlers)
<1>1. owner \in Injection(S, Handlers)
  BY DEF OneEach, Injection, IsInjective
<1> QED
  BY <1>1, FS_Injection, Zenon

\* However many payments are processed at once, and whatever else happens meanwhile, no
\* client is left with more ACTIVE subscriptions than there are processes
\* (_activate_subscription): with one process, with one at most.
THEOREM OneSubscriptionEach ==
    ASSUME IsFiniteSet(Handlers)
    PROVE  Spec => []SubscriptionsBounded
<1>1. OwnersInv => SubscriptionsBounded
  BY OneEachCounts DEF OwnersInv, SubscriptionsBounded
<1> QED
  BY <1>1, OwnersInit, OwnersStep, PTL DEF Spec
-------------------------------------------------------------------------------
(* Types.                                                                  *)

\* A row is its columns.
RowFields(r) ==
    /\ r = [f \in Fields |-> r[f]]
    /\ r.open \in BOOLEAN /\ r.status \in Statuses /\ r.period \in Dates /\ r.trial \in Dates
    /\ r.blocked \in BOOLEAN /\ r.deleted \in BOOLEAN /\ r.wasOpen \in BOOLEAN
    /\ r.unlimited \in BOOLEAN
LEMMA RowTypes == ASSUME NEW r PROVE r \in Rows <=> RowFields(r)
<1>1. r \in Rows => RowFields(r)
  BY Zenon DEF Rows, RowFields, Fields
<1>2. RowFields(r) => r \in Rows
  BY Zenon DEF Rows, RowFields, Fields
<1> QED
  BY <1>1, <1>2

LEMMA NoRowIsNoRow == NoTenant \notin Rows /\ Purged \notin Rows
<1>1. ASSUME NEW r \in Rows PROVE r # NoTenant /\ r # Purged
  <2>1. DOMAIN r = Fields
    BY <1>1, RowTypes DEF RowFields
  <2> QED
    BY <2>1, RowExists
<1> QED
  BY <1>1

LEMMA ExistingRow ==
    ASSUME tenant \in Rows \cup {NoTenant, Purged}
    PROVE  Exists <=> RowFields(tenant)
BY RowTypes, NoRowIsNoRow DEF Exists

\* What a transaction that changes a few columns writes, and what it leaves.
LEMMA ChangesTyped ==
    ASSUME NEW read, NEW new, RowFields(read), RowFields(new),
           new["trial"] = read["trial"], new["deleted"] = read["deleted"],
           new["wasOpen"] = read["wasOpen"], new["unlimited"] = read["unlimited"]
    PROVE  IsUpdate(Changes(read, new))
<1>1. DOMAIN Columns = {"open", "status", "period", "blocked"}
      /\ Columns["open"] = BOOLEAN /\ Columns["status"] = Statuses
      /\ Columns["period"] = Dates /\ Columns["blocked"] = BOOLEAN
  BY DEF Columns
<1>2. DOMAIN Changes(read, new) = {f \in Fields : new[f] # read[f]}
  BY DEF Changes, RowFields
<1>3. DOMAIN Changes(read, new) \subseteq DOMAIN Columns
  BY <1>1, <1>2 DEF Fields
<1>4. ASSUME NEW f \in DOMAIN Changes(read, new)
      PROVE  Changes(read, new)[f] = new[f]
  BY <1>4 DEF Changes
<1>5. ASSUME NEW f \in DOMAIN Columns
      PROVE  new[f] \in Columns[f]
  BY <1>1, <1>5, Zenon DEF RowFields
<1> QED
  BY <1>3, <1>4, <1>5 DEF IsUpdate

LEMMA CommitTyped ==
    ASSUME NEW update, IsUpdate(update), Commit(update), RowFields(tenant)
    PROVE  tenant' \in Rows
<1>1. /\ DOMAIN Columns = {"open", "status", "period", "blocked"}
      /\ Columns["open"] = BOOLEAN /\ Columns["status"] = Statuses
      /\ Columns["period"] = Dates /\ Columns["blocked"] = BOOLEAN
  BY DEF Columns
<1>2. DOMAIN tenant = Fields
  BY DEF RowFields
<1>3. tenant' = [f \in Fields |-> IF f \in DOMAIN update THEN update[f] ELSE tenant[f]]
  BY <1>2 DEF Commit
<1>4. /\ tenant'.open \in {update["open"], tenant.open}
      /\ tenant'.status \in {update["status"], tenant.status}
      /\ tenant'.period \in {update["period"], tenant.period}
      /\ tenant'.blocked \in {update["blocked"], tenant.blocked}
  BY <1>3 DEF Fields
<1>5. /\ "open" \in DOMAIN update => update["open"] \in BOOLEAN
      /\ "status" \in DOMAIN update => update["status"] \in Statuses
      /\ "period" \in DOMAIN update => update["period"] \in Dates
      /\ "blocked" \in DOMAIN update => update["blocked"] \in BOOLEAN
  BY <1>1, Zenon DEF IsUpdate
<1>6. DOMAIN update \cap {"trial", "deleted", "wasOpen", "unlimited"} = {}
  BY <1>1 DEF IsUpdate
<1>7. /\ tenant'.open = IF "open" \in DOMAIN update THEN update["open"] ELSE tenant.open
      /\ tenant'.status = IF "status" \in DOMAIN update THEN update["status"] ELSE tenant.status
      /\ tenant'.period = IF "period" \in DOMAIN update THEN update["period"] ELSE tenant.period
      /\ tenant'.blocked = IF "blocked" \in DOMAIN update THEN update["blocked"] ELSE tenant.blocked
      /\ tenant'.trial = tenant.trial /\ tenant'.deleted = tenant.deleted
      /\ tenant'.wasOpen = tenant.wasOpen /\ tenant'.unlimited = tenant.unlimited
  BY <1>3, <1>6 DEF Fields
<1>8. tenant' = [f \in Fields |-> tenant'[f]]
  BY <1>3
<1>9. RowFields(tenant')
  BY <1>5, <1>7, <1>8, Zenon DEF RowFields
<1> QED
  BY <1>9, RowTypes

LEMMA NoUpdateTyped == IsUpdate(NoUpdate)
BY DEF IsUpdate, NoUpdate

LEMMA JudgedTyped ==
    ASSUME NEW r, RowFields(r), NEW time
    PROVE  LET new == Judged(r, time)
           IN  /\ RowFields(new)
               /\ new["trial"] = r["trial"] /\ new["deleted"] = r["deleted"]
               /\ new["wasOpen"] = r["wasOpen"] /\ new["unlimited"] = r["unlimited"]
<1>1. CASE Judged(r, time) = [r EXCEPT !.open = FALSE, !.status = "canceled", !.blocked = TRUE]
  BY <1>1 DEF RowFields, Fields, Statuses
<1>2. CASE Judged(r, time) = [r EXCEPT !.status = IF @ \in {"active", "trial", "past_due"}
                                                  THEN "past_due" ELSE @]
  BY <1>2 DEF RowFields, Fields, Statuses
<1>3. CASE Judged(r, time) = [r EXCEPT !.blocked = @ /\ ~r.open]
  BY <1>3 DEF RowFields, Fields, Statuses
<1> QED
  BY <1>1, <1>2, <1>3 DEF Judged

LEMMA SettledTyped ==
    ASSUME NEW r, RowFields(r), NEW status, NEW end \in Nat
    PROVE  LET new == Settled(r, status, end)
           IN  /\ RowFields(new)
               /\ new["trial"] = r["trial"] /\ new["deleted"] = r["deleted"]
               /\ new["wasOpen"] = r["wasOpen"] /\ new["unlimited"] = r["unlimited"]
<1>1. CASE Settled(r, status, end)
             = [r EXCEPT !.open = TRUE, !.status = "active", !.period = end, !.blocked = FALSE]
  BY <1>1 DEF RowFields, Fields, Statuses, Dates
<1>2. CASE Settled(r, status, end) = [r EXCEPT !.status = "past_due"]
  BY <1>2 DEF RowFields, Fields, Statuses
<1>3. CASE Settled(r, status, end) = r
  BY <1>3
<1> QED
  BY <1>1, <1>2, <1>3 DEF Settled

\* There is always a row that nobody has: each process has a copy of no more rows than
\* there are processes.
LEMMA FreshExists ==
    ASSUME IsFiniteSet(Handlers), OwnersInv
    PROVE  FreshSub \in SubIds
<1> DEFINE busy == {h \in Handlers : handler[h].at = "commit"}
           held == subs \cup UNION {handler[h].subs : h \in busy}
           from(s) == CHOOSE h \in busy : s \in handler[h].subs
           copy(h) == CHOOSE owner : OneEach(handler[h].subs, owner)
           n == Cardinality(Handlers)
<1>1. SUFFICES ASSUME SubIds \subseteq held PROVE FALSE
  <2>1. \E s \in SubIds : s \notin held
    BY <1>1
  <2> QED
    BY <2>1 DEF FreshSub
<1>2. PICK owner : OneEach(subs, owner)
  BY DEF OwnersInv
<1>3. PICK x : x \notin Handlers
  BY NoSetContainsEverything
<1> DEFINE T == (Handlers \cup {x}) \X Handlers
           f == [s \in SubIds |-> IF s \in subs THEN <<x, owner[s]>>
                                  ELSE <<from(s), copy(from(s))[s]>>]
<1>4. ASSUME NEW s \in SubIds, s \notin subs
      PROVE  from(s) \in Handlers /\ s \in handler[from(s)].subs
             /\ OneEach(handler[from(s)].subs, copy(from(s)))
  <2>1. \E h \in busy : s \in handler[h].subs
    BY <1>1, <1>4
  <2>2. from(s) \in busy /\ s \in handler[from(s)].subs
    BY <2>1
  <2>3. \E own : OneEach(handler[from(s)].subs, own)
    BY <2>2 DEF OwnersInv
  <2> QED
    BY <2>2, <2>3
<1> HIDE DEF from, copy
<1>5. ASSUME NEW s \in SubIds PROVE f[s] \in T
  BY <1>2, <1>4, <1>5 DEF OneEach
<1>6. ASSUME NEW s \in SubIds, NEW t \in SubIds, f[s] = f[t] PROVE s = t
  <2>1. CASE s \in subs
    BY <1>2, <1>3, <1>4, <1>6, <2>1 DEF OneEach
  <2>2. CASE t \in subs
    BY <1>2, <1>3, <1>4, <1>6, <2>2 DEF OneEach
  <2>3. CASE s \notin subs /\ t \notin subs
    <3>1. from(s) = from(t) /\ copy(from(s))[s] = copy(from(t))[t]
      BY <1>6, <2>3
    <3> QED
      BY <1>4, <2>3, <3>1 DEF OneEach
  <2> QED
    BY <2>1, <2>2, <2>3
<1>7. f \in [SubIds -> T]
  BY <1>5
<1> HIDE DEF f
<1>8. n \in Nat
  BY FS_CardinalityType
<1>9. IsFiniteSet(Handlers \cup {x}) /\ Cardinality(Handlers \cup {x}) = n + 1
  BY <1>3, FS_AddElement
<1>10. IsFiniteSet(T) /\ Cardinality(T) = (n + 1) * n
  BY <1>9, FS_Product
<1>11. n * (n + 1) \in Nat /\ (n + 1) * n = n * (n + 1)
  BY <1>8
<1>12. IsFiniteSet(SubIds) /\ Cardinality(SubIds) = n * (n + 1) + 1
  <2> DEFINE m == n * (n + 1)
  <2>1. m + 1 \in Int /\ 1 \in Int /\ ~(1 > m + 1) /\ (m + 1) - 1 + 1 = m + 1
    BY <1>11
  <2> HIDE DEF m
  <2>2. IsFiniteSet(1..(m + 1)) /\ Cardinality(1..(m + 1)) = m + 1
    BY <2>1, FS_Interval
  <2> QED
    BY <2>2 DEF m, SubIds
<1>13. Cardinality(T) < Cardinality(SubIds)
  BY <1>10, <1>11, <1>12
<1>14. \E s, t \in SubIds : s # t /\ f[s] = f[t]
  <2> HIDE DEF T
  <2> QED
    BY <1>7, <1>10, <1>12, <1>13, FS_PigeonHole
<1> QED
  BY <1>6, <1>14
-------------------------------------------------------------------------------
(* Types, step by step.                                                    *)

HandlerTyped(w) ==
    \/ w = Idle
    \/ w \in [at: {"load"}, invoice: Invoices, says: GatewayStatus]
    \/ /\ w.at = "commit" /\ w.invoice \in Invoices
       /\ w.status \in InvoiceStatus \ {"none"} /\ w.same \in BOOLEAN
       /\ IsUpdate(w.update) /\ w.subs \subseteq SubIds

\* The row, and what each process holds, apart from the rest.
Kept ==
    /\ tenant \in Rows \cup {NoTenant, Purged} /\ entitled \in BOOLEAN
    /\ \A h \in Handlers : HandlerTyped(handler[h])
    /\ IsUpdate(enforcer)
Ledger ==
    /\ invoice \in [Invoices -> [end: Nat, status: InvoiceStatus]]
    /\ gateway \in [Invoices -> GatewayStatus]
    /\ subs \subseteq SubIds
    /\ now \in 0..Horizon

LEMMA TypeParts == (TypeOK <=> Kept /\ Ledger) /\ (Kept' /\ Ledger' => TypeOK')
BY DEF TypeOK, Kept, Ledger, HandlerTyped

LEMMA NewRows ==
    ASSUME BillingAssumption, TypeOK
    PROVE  OnTrial \in Rows /\ PendingPayment \in Rows /\ NewRow \in Rows
<1>1. Trial \in Nat /\ now \in Nat /\ now + Trial \in Nat
  BY TypeParts DEF BillingAssumption, Ledger
<1>2. RowFields(NewRow)
  BY DEF NewRow, RowFields, Fields, Statuses, Dates
<1>3. RowFields(OnTrial)
  BY <1>1 DEF OnTrial, NewRow, RowFields, Fields, Statuses, Dates
<1>4. RowFields(PendingPayment)
  BY DEF PendingPayment, NewRow, RowFields, Fields, Statuses, Dates
<1> QED
  BY <1>2, <1>3, <1>4, RowTypes

LEMMA EnforceTyped ==
    ASSUME TypeOK, Enforce
    PROVE  TypeOK'
<1>1. CASE EnforceRead
  <2>1. /\ enforcer' = Changes(tenant, Judged(tenant, now)) /\ Exists
        /\ UNCHANGED <<tenant, invoice, gateway, subs, handler, entitled, now>>
    BY <1>1 DEF EnforceRead
  <2>2. RowFields(tenant)
    BY <2>1, ExistingRow DEF TypeOK
  <2> DEFINE new == Judged(tenant, now)
  <2>3. /\ RowFields(new)
        /\ new["trial"] = tenant["trial"] /\ new["deleted"] = tenant["deleted"]
        /\ new["wasOpen"] = tenant["wasOpen"] /\ new["unlimited"] = tenant["unlimited"]
    BY <2>2, JudgedTyped
  <2> HIDE DEF new
  <2>4. IsUpdate(Changes(tenant, new))
    BY <2>2, <2>3, ChangesTyped
  <2>5. IsUpdate(enforcer')
    BY <2>1, <2>4 DEF new
  <2> QED
    BY <2>1, <2>5, TypeParts DEF Kept, Ledger
<1>2. CASE EnforceCommit
  <2>1. /\ enforcer' = NoUpdate
        /\ IF Exists THEN Commit(enforcer) ELSE UNCHANGED tenant
        /\ UNCHANGED <<invoice, gateway, subs, handler, entitled, now>>
    BY <1>2 DEF EnforceCommit
  <2>2. tenant' \in Rows \cup {NoTenant, Purged}
    <3>1. CASE Exists
      <4>1. RowFields(tenant) /\ Commit(enforcer) /\ IsUpdate(enforcer)
        BY <2>1, <3>1, ExistingRow DEF TypeOK
      <4> QED
        BY <4>1, CommitTyped
    <3>2. CASE ~Exists
      BY <2>1, <3>2 DEF TypeOK
    <3> QED
      BY <3>1, <3>2
  <2> QED
    BY <2>1, <2>2, NoUpdateTyped, TypeParts DEF Kept, Ledger
<1> QED
  BY <1>1, <1>2 DEF Enforce

LEMMA ClientTyped ==
    ASSUME BillingAssumption, TypeOK, Client
    PROVE  TypeOK'
<1>1. CASE Register
  <2>1. /\ tenant' \in {OnTrial, PendingPayment} /\ entitled' = tenant'.open
        /\ UNCHANGED <<invoice, gateway, subs, handler, enforcer, now>>
    BY <1>1 DEF Register
  <2>2. tenant' \in Rows
    BY <2>1, NewRows
  <2>3. entitled' \in BOOLEAN
    BY <2>1, <2>2, RowTypes DEF RowFields
  <2> QED
    BY <2>1, <2>2, <2>3, TypeParts DEF Kept, Ledger
<1>2. ASSUME NEW i \in Invoices, Checkout(i) \/ PayAgain(i)
      PROVE  TypeOK'
  <2>1. /\ UNCHANGED <<tenant, gateway, subs, handler, enforcer, entitled, now>>
        /\ \/ invoice' = [invoice EXCEPT ![i] = [end |-> now + Period, status |-> "pending"]]
           \/ invoice' = [invoice EXCEPT ![i].status = "pending"]
    BY <1>2 DEF Checkout, PayAgain
  <2>2. now + Period \in Nat
    BY TypeParts DEF Ledger, BillingAssumption
  <2>3. invoice' \in [Invoices -> [end: Nat, status: InvoiceStatus]]
    BY <2>1, <2>2, TypeParts DEF Ledger, InvoiceStatus
  <2> QED
    BY <2>1, <2>3, TypeParts DEF Kept, Ledger
<1>3. ASSUME NEW i \in Invoices, Pay(i)
      PROVE  TypeOK'
  <2>1. PICK says \in GatewayStatus :
            gateway' = [gateway EXCEPT ![i] = says] /\ entitled' = (entitled \/ says = "approved")
    BY <1>3 DEF Pay
  <2>2. UNCHANGED <<tenant, invoice, subs, handler, enforcer, now>>
    BY <1>3 DEF Pay
  <2>3. gateway' \in [Invoices -> GatewayStatus]
    BY <2>1 DEF TypeOK
  <2>4. entitled' \in BOOLEAN
    BY <2>1, Zenon
  <2> QED
    BY <2>2, <2>3, <2>4, TypeParts DEF Kept, Ledger
<1> QED
  BY <1>1, <1>2, <1>3 DEF Client

LEMMA PaymentTyped ==
    ASSUME BillingAssumption, TypeOK, OwnersInv, NEW h \in Handlers, Payment(h)
    PROVE  TypeOK'
<1>1. ASSUME NEW i \in Invoices, Ask(h, i)
      PROVE  TypeOK'
  <2> DEFINE w == [at |-> "load", invoice |-> i, says |-> gateway[i]]
  <2>1. /\ handler' = [handler EXCEPT ![h] = w]
        /\ UNCHANGED <<tenant, invoice, gateway, subs, enforcer, entitled, now>>
    BY <1>1 DEF Ask
  <2>2. HandlerTyped(w)
    BY DEF TypeOK, HandlerTyped
  <2>3. \A g \in Handlers : handler'[g] \in {w, handler[g]}
    BY <2>1 DEF OwnersInv
  <2>4. \A g \in Handlers : HandlerTyped(handler'[g])
    BY <2>2, <2>3, TypeParts DEF Kept
  <2> QED
    BY <2>1, <2>4, TypeParts DEF Kept, Ledger
<1>2. CASE Load(h)
  <2> DEFINE i == handler[h].invoice
             status == FromGateway(handler[h].says)
             new == Settled(tenant, status, invoice[i].end)
             w == [at |-> "commit", invoice |-> i, status |-> status,
                   same |-> status = invoice[i].status, subs |-> subs,
                   update |-> Changes(tenant, new)]
  <2>1. /\ handler[h].at = "load"
        /\ handler' = [handler EXCEPT ![h] = IF ~Exists \/ invoice[i].status = "none"
                                             THEN Idle ELSE w]
        /\ UNCHANGED <<tenant, invoice, gateway, subs, enforcer, entitled, now>>
    BY <1>2 DEF Load
  <2>2. i \in Invoices /\ handler[h].says \in GatewayStatus
    <3>1. handler[h].at = "load"
      BY <2>1
    <3>2. handler[h] # Idle /\ handler[h].at # "commit"
      BY <3>1 DEF Idle
    <3>3. HandlerTyped(handler[h])
      BY TypeParts, Zenon DEF Kept
    <3>4. handler[h] \in [at: {"load"}, invoice: Invoices, says: GatewayStatus]
      BY <3>2, <3>3 DEF HandlerTyped
    <3> QED
      BY <3>4
  <2>3. ASSUME Exists
        PROVE  HandlerTyped(w)
    <3>1. RowFields(tenant) /\ invoice[i].end \in Nat
      BY <2>2, <2>3, ExistingRow DEF TypeOK
    <3>2. /\ RowFields(new)
          /\ new["trial"] = tenant["trial"] /\ new["deleted"] = tenant["deleted"]
          /\ new["wasOpen"] = tenant["wasOpen"] /\ new["unlimited"] = tenant["unlimited"]
      <4> HIDE DEF status, i
      <4> QED
        BY <3>1, SettledTyped
    <3>3. status \in InvoiceStatus \ {"none"}
      BY <2>2 DEF FromGateway, InvoiceStatus
    <3> HIDE DEF new, status, i
    <3>4. IsUpdate(Changes(tenant, new))
      BY <3>1, <3>2, ChangesTyped
    <3>5. /\ w.at = "commit" /\ w.invoice = i /\ w.status = status /\ w.subs = subs
          /\ w.update = Changes(tenant, new)
      OBVIOUS
    <3>6. w.same \in BOOLEAN
      BY Zenon
    <3> HIDE DEF w
    <3> QED
      BY <2>2, <3>3, <3>4, <3>5, <3>6 DEF HandlerTyped, TypeOK
  <2> HIDE DEF w
  <2>4. \A g \in Handlers : handler'[g] \in {Idle, handler[g]} \/ (Exists /\ handler'[g] = w)
    BY <2>1 DEF OwnersInv
  <2>5. \A g \in Handlers : HandlerTyped(handler'[g])
    BY <2>3, <2>4, TypeParts DEF Kept, HandlerTyped
  <2> QED
    BY <2>1, <2>5, TypeParts DEF Kept, Ledger
<1>3. CASE Process(h)
  <2> DEFINE w == handler[h]
  <2>1. /\ w.at = "commit" /\ handler' = [handler EXCEPT ![h] = Idle]
        /\ IF Exists THEN Commit(w.update) ELSE tenant' = tenant
        /\ \/ invoice' = invoice
           \/ invoice' = [invoice EXCEPT ![w.invoice].status = w.status]
        /\ \/ subs' = subs
           \/ subs' = (subs \ w.subs) \cup {FreshSub}
        /\ UNCHANGED <<gateway, enforcer, entitled, now>>
    BY <1>3 DEF Process
  <2>2. /\ w.invoice \in Invoices /\ w.status \in InvoiceStatus /\ IsUpdate(w.update)
        /\ w.subs \subseteq SubIds
    <3>1. w.at = "commit"
      BY <2>1
    <3>2. HandlerTyped(w)
      BY TypeParts, Zenon DEF Kept
    <3> HIDE DEF w
    <3>3. w # Idle /\ w \notin [at: {"load"}, invoice: Invoices, says: GatewayStatus]
      BY <3>1 DEF Idle
    <3> QED
      BY <3>2, <3>3 DEF HandlerTyped
  <2>3. tenant' \in Rows \cup {NoTenant, Purged}
    <3>1. CASE Exists
      BY <2>1, <2>2, <3>1, CommitTyped, ExistingRow DEF TypeOK
    <3>2. CASE ~Exists
      BY <2>1, <3>2 DEF TypeOK
    <3> QED
      BY <3>1, <3>2
  <2>4. subs' \subseteq SubIds
    BY <2>1, FreshExists DEF TypeOK, BillingAssumption
  <2>5. invoice' \in [Invoices -> [end: Nat, status: InvoiceStatus]]
    BY <2>1, <2>2 DEF TypeOK
  <2>6. \A g \in Handlers : handler'[g] \in {Idle, handler[g]}
    BY <2>1 DEF OwnersInv
  <2>7. \A g \in Handlers : HandlerTyped(handler'[g])
    BY <2>6, TypeParts DEF Kept, HandlerTyped
  <2> QED
    BY <2>1, <2>3, <2>4, <2>5, <2>7, TypeParts DEF Kept, Ledger
<1> QED
  BY <1>1, <1>2, <1>3 DEF Payment

LEMMA AdminTyped ==
    ASSUME BillingAssumption, TypeOK, Admin
    PROVE  TypeOK'
<1>1. ASSUME tenant' \in Rows, entitled' \in BOOLEAN,
             UNCHANGED <<invoice, gateway, subs, handler, enforcer, now>>
      PROVE  TypeOK'
  BY <1>1, TypeParts DEF Kept, Ledger
<1>2. Exists => RowFields(tenant)
  BY ExistingRow DEF TypeOK
<1>3. CASE AddTenant
  <2>1. PICK unlimited \in BOOLEAN, planned \in BOOLEAN :
            Administer([(IF planned THEN OnTrial ELSE NewRow) EXCEPT !.unlimited = unlimited])
    BY <1>3 DEF AddTenant
  <2> DEFINE r == IF planned THEN OnTrial ELSE NewRow
  <2>2. RowFields(r)
    BY NewRows, RowTypes
  <2>3. tenant' = [r EXCEPT !.unlimited = unlimited] /\ entitled' = TRUE
        /\ UNCHANGED <<invoice, gateway, subs, handler, enforcer, now>>
    BY <1>3, <2>1 DEF Administer, AddTenant
  <2> HIDE DEF r
  <2>4. RowFields(tenant')
    BY <2>2, <2>3 DEF RowFields, Fields
  <2> QED
    BY <1>1, <2>3, <2>4, RowTypes
<1>4. CASE EditTenant
  <2>1. PICK active \in BOOLEAN, unlimited \in BOOLEAN, status \in EditedStatus :
            /\ Administer([tenant EXCEPT !.open = active, !.unlimited = unlimited, !.status = status])
            /\ entitled' = (entitled \/ active)
    BY <1>4 DEF EditTenant
  <2>2. /\ tenant' = [tenant EXCEPT !.open = active, !.unlimited = unlimited, !.status = status]
        /\ UNCHANGED <<invoice, gateway, subs, handler, enforcer, now>> /\ Exists
    BY <1>4, <2>1 DEF Administer, EditTenant
  <2>3. status \in Statuses
    BY DEF BillingAssumption, Statuses
  <2>4. RowFields(tenant')
    BY <1>2, <2>2, <2>3 DEF RowFields, Fields
  <2>5. entitled' \in BOOLEAN
    BY <2>1, Zenon
  <2> QED
    BY <1>1, <2>2, <2>4, <2>5, RowTypes
<1>5. CASE ToggleActive
  <2>1. /\ tenant' = [tenant EXCEPT !.open = ~@] /\ Exists
        /\ entitled' = (entitled \/ ~tenant.open)
        /\ UNCHANGED <<invoice, gateway, subs, handler, enforcer, now>>
    BY <1>5 DEF Administer, ToggleActive
  <2>2. RowFields(tenant')
    BY <1>2, <2>1 DEF RowFields, Fields
  <2>3. entitled' \in BOOLEAN
    BY <2>1, Zenon
  <2> QED
    BY <1>1, <2>1, <2>2, <2>3, RowTypes
<1>6. CASE Trash
  <2>1. /\ tenant' = [tenant EXCEPT !.wasOpen = tenant.open, !.open = FALSE, !.deleted = TRUE]
        /\ Exists /\ UNCHANGED <<entitled, invoice, gateway, subs, handler, enforcer, now>>
    BY <1>6 DEF Administer, Trash
  <2>2. RowFields(tenant')
    BY <1>2, <2>1 DEF RowFields, Fields
  <2> QED
    BY <1>1, <2>1, <2>2, RowTypes DEF TypeOK
<1>7. CASE Restore
  <2>1. /\ tenant' = Restored(tenant)
        /\ Exists /\ UNCHANGED <<entitled, invoice, gateway, subs, handler, enforcer, now>>
    BY <1>7 DEF Administer, Restore
  <2>2. RowFields(tenant')
    BY <1>2, <2>1 DEF RowFields, Fields, Restored
  <2> QED
    BY <1>1, <2>1, <2>2, RowTypes DEF TypeOK
<1>8. CASE Purge
  <2>1. /\ tenant' = Purged /\ UNCHANGED <<gateway, handler, enforcer, now>>
        /\ invoice' = [i \in Invoices |-> [end |-> 0, status |-> "none"]]
        /\ subs' = {} /\ entitled' = FALSE
    BY <1>8 DEF Purge
  <2>2. invoice' \in [Invoices -> [end: Nat, status: InvoiceStatus]]
    BY <2>1 DEF InvoiceStatus
  <2> QED
    BY <2>1, <2>2, TypeParts DEF Kept, Ledger
<1> QED
  BY <1>3, <1>4, <1>5, <1>6, <1>7, <1>8 DEF Admin

LEMMA BillingTypesInit == BillingAssumption /\ Init => TypeOK
<1> SUFFICES ASSUME BillingAssumption, Init PROVE TypeOK
  OBVIOUS
<1>1. /\ tenant = NoTenant /\ enforcer = NoUpdate /\ entitled = FALSE
      /\ handler = [h \in Handlers |-> Idle] /\ subs = {} /\ now = 0
      /\ invoice = [i \in Invoices |-> [end |-> 0, status |-> "none"]]
      /\ gateway = [i \in Invoices |-> "none"]
  BY DEF Init
<1>2. Kept
  BY <1>1, NoUpdateTyped DEF Kept, HandlerTyped
<1>3. Ledger
  <2>1. invoice \in [Invoices -> [end: Nat, status: InvoiceStatus]]
    BY <1>1 DEF InvoiceStatus
  <2>2. gateway \in [Invoices -> GatewayStatus]
    BY <1>1 DEF GatewayStatus
  <2>3. now \in 0..Horizon /\ subs \subseteq SubIds
    <3>1. Horizon \in Nat /\ 0 \in 0..Horizon
      BY DEF BillingAssumption
    <3> QED
      BY <1>1, <3>1, Zenon
  <2> QED
    BY <2>1, <2>2, <2>3 DEF Ledger
<1> QED
  BY <1>2, <1>3, TypeParts

LEMMA BillingTypesStep ==
    BillingAssumption /\ TypeOK /\ OwnersInv /\ [Next]_vars => TypeOK'
<1> SUFFICES ASSUME BillingAssumption, TypeOK, OwnersInv, [Next]_vars PROVE TypeOK'
  OBVIOUS
<1>1. CASE Tick
  <2>1. now' \in 0..Horizon
    BY <1>1, TypeParts DEF Tick, Ledger, BillingAssumption
  <2>2. UNCHANGED <<tenant, invoice, gateway, subs, handler, enforcer, entitled>>
    BY <1>1 DEF Tick
  <2> QED
    BY <2>1, <2>2, TypeParts DEF Kept, Ledger
<1>2. CASE UNCHANGED vars
  BY <1>2, TypeParts DEF Kept, Ledger, vars
<1> QED
  BY <1>1, <1>2, EnforceTyped, ClientTyped, PaymentTyped, AdminTyped DEF Next

\* Whatever is written over what, every row keeps its columns and every column its type,
\* and a payment always finds an identifier that nobody has (_activate_subscription).
THEOREM BillingTypes ==
    ASSUME BillingAssumption
    PROVE  Spec => []TypeOK
<1> QED
  BY BillingTypesInit, BillingTypesStep, OwnersInit, OwnersStep, PTL DEF Spec
===============================================================================
