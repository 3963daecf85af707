------------------------------- MODULE TabPay -------------------------------
(***************************************************************************)
(* Balance top-up through the TabPay provider.                             *)
(*                                                                         *)
(* Three kinds of actor work on one payment row: webhook handlers (any     *)
(* number, the HTTP answer is sent before they start), API checks (the     *)
(* background reconciliation loop and the manual check in the cabinet),    *)
(* and the provider.  A worker is split exactly where the code releases    *)
(* control with the database visible to others: between the unlocked read  *)
(* and the row lock, around the API call, and between the row lock and the *)
(* lock of the user row.  Everything between two such points is one        *)
(* database transaction.                                                   *)
(***************************************************************************)
EXTENDS Integers

CONSTANTS
    Payment,    \* invoices the bot issues
    User,       \* users that top up
    Hook,       \* webhook handler tasks that may run at the same time
    Checker,    \* API checks that may run at the same time
    Owner,      \* [Payment -> User]
    Amount,     \* [Payment -> Nat]
    Opening,    \* [User -> Nat], balances before the first invoice
    Price       \* what other services charge a balance

Worker == Hook \cup Checker

ASSUME ConstantsAssumption ==
    /\ Hook \cap Checker = {}
    /\ Owner \in [Payment -> User]
    /\ Amount \in [Payment -> Nat]
    /\ Opening \in [User -> Nat]
    /\ Price \subseteq Nat

\* TABPAY_STATUS_MAP: what the provider says, and the status stored for it.
StatusMap ==
    [CREATED |-> "pending", PENDING |-> "processing", SUCCESS |-> "success",
     FAILED |-> "declined", EXPIRED |-> "expired", REFUNDED |-> "refunded",
     CANCELED |-> "canceled"]

Event == DOMAIN StatusMap

\* What the provider reports in "test" and "amountKopecks": an honest payment,
\* a sandbox payment, a payment of another amount than the invoice.
Kind == {"live", "test", "short"}

FinalStatus == {"refunded", "canceled", "amount_mismatch"}

PendingStatus == {"pending", "processing", "created"}

Status == {StatusMap[e] : e \in Event} \cup FinalStatus

\* TabPayPayment: the columns the handlers read.  "none" stands for no row.
Row == [status   : Status \cup {"none"},
        paid     : BOOLEAN,     \* is_paid
        linked   : BOOLEAN,     \* transaction_id is set
        credited : BOOLEAN,     \* metadata_json['balance_credited']
        test     : BOOLEAN,     \* is_test
        events   : SUBSET Event] \* processed_events

NoRow == [status |-> "none", paid |-> FALSE, linked |-> FALSE,
          credited |-> FALSE, test |-> FALSE, events |-> {}]

VARIABLES
    kind,       \* live, from the provider's test shop, or paid a wrong amount
    prov,       \* the payment's status at the provider
    sent,       \* the statuses the provider has announced by webhook
    row,        \* the committed tabpay_payments rows
    txns,       \* payments with a DEPOSIT row in transactions
    balance,    \* users.balance_kopeks
    recent,     \* payments younger than PENDING_MAX_AGE
    job         \* what each worker is doing

vars == <<kind, prov, sent, row, txns, balance, recent, job>>
db == <<row, txns, balance>>
world == <<kind, prov, sent, recent>>

Idle == [pc |-> "idle"]

\* A worker remembers what it read before it last gave up control.
Job ==
    {Idle}
    \cup [pc : {"lock"}, p : Payment, ev : Event]
    \cup [pc : {"loaded"}, p : Payment, status : Status, test : BOOLEAN]
    \cup [pc : {"fetched"}, p : Payment, status : Status, test : BOOLEAN,
          ev : Event]
    \cup [pc : {"credit"}, p : Payment, was : Row, now : Row,
          existing : BOOLEAN, seen : Nat]
    \cup [pc : {"after"}, p : Payment]

TypeOK ==
    /\ kind \in [Payment -> Kind]
    /\ prov \in [Payment -> Event \cup {"none"}]
    /\ sent \in [Payment -> SUBSET Event]
    /\ row \in [Payment -> Row]
    /\ txns \subseteq Payment
    /\ balance \in [User -> Nat]
    /\ recent \subseteq Payment
    /\ job \in [Worker -> Job]

Init ==
    /\ kind \in [Payment -> Kind]
    /\ prov = [p \in Payment |-> "none"]
    /\ sent = [p \in Payment |-> {}]
    /\ row = [p \in Payment |-> NoRow]
    /\ txns = {}
    /\ balance = Opening
    /\ recent = Payment
    /\ job = [w \in Worker |-> Idle]

-----------------------------------------------------------------------------
(* The provider, from the comments and tests of the integration.           *)

Moves ==
    [none |-> {"CREATED"}, CREATED |-> {"PENDING", "CANCELED"},
     PENDING |-> {"SUCCESS", "FAILED", "EXPIRED", "CANCELED"},
     SUCCESS |-> {"REFUNDED"}, FAILED |-> {"SUCCESS"},
     EXPIRED |-> {"SUCCESS"}, REFUNDED |-> {}, CANCELED |-> {}]

\* The buyer has the link, and so can move the payment, only once the row is
\* stored.  Every status is announced by webhook; delivery is up to Deliver.
ProviderStep(p) ==
    /\ prov[p] # "none" => row[p].status # "none"
    /\ \E s \in Moves[prov[p]] :
          /\ prov' = [prov EXCEPT ![p] = s]
          /\ sent' = [sent EXCEPT ![p] = @ \cup {s}]
    /\ UNCHANGED <<kind, db, recent, job>>

-----------------------------------------------------------------------------
(* create_tabpay_payment: the invoice exists at the provider before the    *)
(* row does; a crash in between leaves it without a row for good.          *)

InsertRow(p) ==
    /\ prov[p] # "none"
    /\ row[p].status = "none"
    /\ \E test \in BOOLEAN :
          /\ test => kind[p] = "test"
          /\ row' = [row EXCEPT ![p] = [NoRow EXCEPT !.status = "pending",
                                                     !.test = test]]
    /\ UNCHANGED <<world, txns, balance, job>>

\* The payment leaves the window the reconciliation loop looks at.
GrowOld(p) ==
    /\ p \in recent
    /\ row[p].status # "none"
    /\ recent' = recent \ {p}
    /\ UNCHANGED <<kind, prov, sent, db, job>>

-----------------------------------------------------------------------------
(* Row locks.  A worker holds the payment's row lock while it is about to  *)
(* credit; every other critical section on the row is a single step.       *)

LockFree(p) == \A w \in Worker : job[w].pc = "credit" => job[w].p # p

\* Mutant: the balance is raised from the user the session had loaded before.
LockedBalance_Stale(w) == job[w].seen

\* lock_user_for_update re-reads the balance under its lock
\* (populate_existing), whatever the session had loaded before.
LockedBalance(w) == balance[Owner[job[w].p]]

Become(w, j) == job' = [job EXCEPT ![w] = j]

Store(p, r) == row' = [row EXCEPT ![p] = r]

Remember(r, e) == [r EXCEPT !.events = @ \cup {e}]

MarkPaid(r) == [r EXCEPT !.status = "success", !.paid = TRUE]

\* Flush of the paid row and the first half of _finalize_tabpay_payment, up to
\* the point where it waits for the user row: nothing is committed yet.
BeginCredit(w, p, r) ==
    Become(w, [pc |-> "credit", p |-> p, was |-> row[p], now |-> r,
               existing |-> p \in txns, seen |-> balance[Owner[p]]])

-----------------------------------------------------------------------------
(* process_tabpay_callback                                                 *)

\* The webhook is acknowledged and its handler has read the row without a
\* lock.  Any announced event may arrive, in any order and any number of
\* times; one for a payment without a row or already processed ends here.
Deliver(h, p, e) ==
    /\ job[h] = Idle
    /\ e \in sent[p]
    /\ row[p].status # "none"
    /\ e \notin row[p].events
    /\ Become(h, [pc |-> "lock", p |-> p, ev |-> e])
    /\ UNCHANGED <<world, db>>

\* The handler has the row lock and a fresh row.
Locked(h) ==
    /\ job[h].pc = "lock"
    /\ LockFree(job[h].p)

HookDuplicate(h) ==
    /\ Locked(h)
    /\ job[h].ev \in row[job[h].p].events
    /\ Become(h, Idle)
    /\ UNCHANGED <<world, db>>

\* Mutant: the status is not looked at again under the lock.
Accepted_AnyStatus(h) ==
    /\ Locked(h)
    /\ job[h].ev \notin row[job[h].p].events

\* The event is new and the payment is not in a final status.
Accepted(h) ==
    /\ Locked(h)
    /\ job[h].ev \notin row[job[h].p].events
    /\ row[job[h].p].status \notin FinalStatus

HookIgnoreFinal(h) ==
    /\ Locked(h)
    /\ job[h].ev \notin row[job[h].p].events
    /\ row[job[h].p].status \in FinalStatus
    /\ Store(job[h].p, Remember(row[job[h].p], job[h].ev))
    /\ Become(h, Idle)
    /\ UNCHANGED <<world, txns, balance>>

HookSandbox(h) ==
    LET p == job[h].p IN
    /\ Accepted(h)
    /\ kind[p] = "test" \/ row[p].test
    /\ Store(p, [Remember(row[p], job[h].ev) EXCEPT
                    !.test = TRUE, !.status = StatusMap[job[h].ev]])
    /\ Become(h, Idle)
    /\ UNCHANGED <<world, txns, balance>>

HookStatus(h) ==
    LET p == job[h].p IN
    /\ Accepted(h)
    /\ ~(kind[p] = "test" \/ row[p].test)
    /\ job[h].ev # "SUCCESS"
    /\ Store(p, [Remember(row[p], job[h].ev) EXCEPT
                    !.status = StatusMap[job[h].ev]])
    /\ Become(h, Idle)
    /\ UNCHANGED <<world, txns, balance>>

\* _apply_tabpay_success starts.
Success(h) ==
    /\ Accepted(h)
    /\ ~(kind[job[h].p] = "test" \/ row[job[h].p].test)
    /\ job[h].ev = "SUCCESS"

HookMismatch(h) ==
    LET p == job[h].p IN
    /\ Success(h)
    /\ kind[p] = "short"
    /\ Store(p, [Remember(row[p], "SUCCESS") EXCEPT
                    !.status = "amount_mismatch", !.paid = FALSE])
    /\ Become(h, Idle)
    /\ UNCHANGED <<world, txns, balance>>

HookAlreadyPaid(h) ==
    LET p == job[h].p IN
    /\ Success(h)
    /\ kind[p] # "short"
    /\ row[p].paid
    /\ Store(p, Remember(row[p], "SUCCESS"))
    /\ Become(h, Idle)
    /\ UNCHANGED <<world, txns, balance>>

\* Mutant: the paid row is committed, not flushed, before the credit.
HookSuccess_CommitsFirst(h) ==
    LET r == MarkPaid(Remember(row[job[h].p], "SUCCESS")) IN
    /\ Success(h)
    /\ kind[job[h].p] # "short"
    /\ ~row[job[h].p].paid
    /\ BeginCredit(h, job[h].p, r)
    /\ Store(job[h].p, r)
    /\ UNCHANGED <<world, txns, balance>>

HookSuccess(h) ==
    /\ Success(h)
    /\ kind[job[h].p] # "short"
    /\ ~row[job[h].p].paid
    /\ BeginCredit(h, job[h].p, MarkPaid(Remember(row[job[h].p], "SUCCESS")))
    /\ UNCHANGED <<world, db>>

-----------------------------------------------------------------------------
(* check_tabpay_payment_status                                             *)

\* Mutant: only untouched invoices are listed, as get_pending_tabpay_payments does.
CheckLoad_OnlyCreated(c, p) ==
    /\ job[c] = Idle
    /\ p \in recent
    /\ ~row[p].paid
    /\ row[p].status = "pending"
    /\ Become(c, [pc |-> "loaded", p |-> p, status |-> row[p].status,
                  test |-> row[p].test])
    /\ UNCHANGED <<world, db>>

\* The session of the check holds the row as it was when the pending payments
\* were listed: later reads return the same image.
CheckLoad(c, p) ==
    /\ job[c] = Idle
    /\ p \in recent
    /\ ~row[p].paid
    /\ row[p].status \in PendingStatus
    /\ Become(c, [pc |-> "loaded", p |-> p, status |-> row[p].status,
                  test |-> row[p].test])
    /\ UNCHANGED <<world, db>>

CheckFetch(c) ==
    /\ job[c].pc = "loaded"
    /\ prov[job[c].p] # "none"
    /\ Become(c, [pc |-> "fetched", p |-> job[c].p, status |-> job[c].status,
                  test |-> job[c].test, ev |-> prov[job[c].p]])
    /\ UNCHANGED <<world, db>>

\* The API does not say SUCCESS: the status is written without taking the
\* row lock first (the UPDATE itself waits for it) and only if it differs from
\* the session's image.
CheckSync(c) ==
    LET p == job[c].p
        status == StatusMap[job[c].ev] IN
    /\ job[c].pc = "fetched"
    /\ job[c].ev # "SUCCESS"
    /\ \/ status = job[c].status /\ UNCHANGED row
       \/ /\ status # job[c].status
          /\ LockFree(p)
          /\ Store(p, [row[p] EXCEPT !.status = status])
    /\ Become(c, Idle)
    /\ UNCHANGED <<world, txns, balance>>

CheckSandbox(c) ==
    LET p == job[c].p IN
    /\ job[c].pc = "fetched"
    /\ job[c].ev = "SUCCESS"
    /\ kind[p] = "test" \/ job[c].test
    /\ LockFree(p)
    /\ Store(p, [row[p] EXCEPT !.status = "success", !.test = TRUE])
    /\ Become(c, Idle)
    /\ UNCHANGED <<world, txns, balance>>

\* is_paid=False is no net change of the session's image and is not written.
CheckMismatch(c) ==
    LET p == job[c].p IN
    /\ job[c].pc = "fetched"
    /\ job[c].ev = "SUCCESS"
    /\ ~(kind[p] = "test" \/ job[c].test)
    /\ kind[p] = "short"
    /\ LockFree(p)
    /\ Store(p, [row[p] EXCEPT !.status = "amount_mismatch"])
    /\ Become(c, Idle)
    /\ UNCHANGED <<world, txns, balance>>

\* The check takes the row lock and a fresh row.
CheckLocked(c) ==
    /\ job[c].pc = "fetched"
    /\ job[c].ev = "SUCCESS"
    /\ ~(kind[job[c].p] = "test" \/ job[c].test)
    /\ kind[job[c].p] # "short"
    /\ LockFree(job[c].p)

CheckAlreadyPaid(c) ==
    /\ CheckLocked(c)
    /\ row[job[c].p].paid
    /\ Become(c, Idle)
    /\ UNCHANGED <<world, db>>

\* The event is remembered only if the provider's id is known, from the answer
\* or from the row: its key is made of the id and the status.
CheckSuccess(c) ==
    LET r == row[job[c].p] IN
    /\ CheckLocked(c)
    /\ ~r.paid
    /\ \E known \in BOOLEAN :
          BeginCredit(c, job[c].p,
                      MarkPaid(IF known THEN Remember(r, "SUCCESS") ELSE r))
    /\ UNCHANGED <<world, db>>

-----------------------------------------------------------------------------
(* The single point of crediting, and what may interrupt a worker.         *)

\* Is the balance raised?  Not for a sandbox payment, not for one already
\* linked to a transaction, not for one whose metadata says it was credited.
Credits(j) ==
    /\ ~j.now.test
    /\ ~j.was.linked
    /\ ~j.existing \/ ~j.now.credited

\* The rest of _finalize_tabpay_payment up to its commit: transaction, link,
\* paid row and balance become visible together.  The unique key on
\* (external_id, payment_method) admits one deposit per payment.
FinalizeCommit(w) ==
    LET j == job[w]
        p == j.p
        u == Owner[p] IN
    /\ j.pc = "credit"
    /\ j.existing \/ p \notin txns
    /\ Store(p, [j.now EXCEPT !.linked = ~j.now.test \/ @])
    /\ txns' = IF j.now.test \/ j.was.linked THEN txns ELSE txns \cup {p}
    /\ balance' = IF Credits(j)
                    THEN [balance EXCEPT ![u] = LockedBalance(w) + Amount[p]]
                    ELSE balance
    /\ Become(w, IF Credits(j) THEN [pc |-> "after", p |-> p] ELSE Idle)
    /\ UNCHANGED world

\* After referral bonus, notifications and the cart's automatic purchase, each
\* with commits of its own, the metadata is stamped in a commit of its own.
StampCredited(w) ==
    /\ job[w].pc = "after"
    /\ LockFree(job[w].p)
    /\ Store(job[w].p, [row[job[w].p] EXCEPT !.credited = TRUE])
    /\ Become(w, Idle)
    /\ UNCHANGED <<world, txns, balance>>

\* A database or API error: the transaction is rolled back, the handler
\* swallows the exception and ends.
Fail(w) ==
    /\ job[w] # Idle
    /\ Become(w, Idle)
    /\ UNCHANGED <<world, db>>

\* The process dies with every worker in flight; nothing retries a webhook
\* that was already acknowledged.
Crash ==
    /\ \E w \in Worker : job[w] # Idle
    /\ job' = [w \in Worker |-> Idle]
    /\ UNCHANGED <<world, db>>

\* Mutant: the balance is not checked again under the lock.
Affordable_Unchecked(u, a) == TRUE

Affordable(u, a) == a <= balance[u]

\* subtract_user_balance: re-reads the user under its lock, checks and
\* charges in one transaction.
Spend(u, a) ==
    /\ Affordable(u, a)
    /\ balance' = [balance EXCEPT ![u] = @ - a]
    /\ UNCHANGED <<world, row, txns, job>>

-----------------------------------------------------------------------------
HookStep(h) ==
    \/ \E p \in Payment, e \in Event : Deliver(h, p, e)
    \/ HookDuplicate(h)
    \/ HookIgnoreFinal(h)
    \/ HookSandbox(h)
    \/ HookStatus(h)
    \/ HookMismatch(h)
    \/ HookAlreadyPaid(h)
    \/ HookSuccess(h)

CheckStep(c) ==
    \/ \E p \in Payment : CheckLoad(c, p)
    \/ CheckFetch(c)
    \/ CheckSync(c)
    \/ CheckSandbox(c)
    \/ CheckMismatch(c)
    \/ CheckAlreadyPaid(c)
    \/ CheckSuccess(c)

Next ==
    \/ \E p \in Payment : ProviderStep(p) \/ InsertRow(p) \/ GrowOld(p)
    \/ \E h \in Hook : HookStep(h)
    \/ \E c \in Checker : CheckStep(c)
    \/ \E w \in Worker : FinalizeCommit(w) \/ StampCredited(w) \/ Fail(w)
    \/ Crash
    \/ \E u \in User, a \in Price : Spend(u, a)

Spec == Init /\ [][Next]_vars

-----------------------------------------------------------------------------
(* Safety.                                                                 *)

\* The row, the ledger and the link between them are never seen half done:
\* a payment is marked paid exactly when its deposit exists and it is linked
\* to it, whichever of webhook and API check got there first and whatever
\* failed on the way (_finalize_tabpay_payment, one commit).
PaidMeansDeposited ==
    \A p \in Payment :
        /\ row[p].paid <=> p \in txns
        /\ row[p].linked <=> p \in txns

\* The row lock is exclusive, and what its holder read under the lock is still
\* what the database holds: the unlocked status writes of API checks wait.
LockedImageIsCurrent ==
    \A w \in Worker : job[w].pc = "credit" =>
        /\ row[job[w].p] = job[w].was
        /\ job[w].existing = (job[w].p \in txns)
        /\ \A v \in Worker \ {w} : job[v].pc = "credit" => job[v].p # job[w].p

\* The promise of the integration: see TopUpLedger.
Settled ==
    {p \in Payment : kind[p] = "live" /\ "SUCCESS" \in sent[p]}

Ledger == INSTANCE TopUpLedger WITH settled <- Settled, credited <- txns

LedgerSpec == Ledger!Spec

\* Webhooks alone respect final statuses: once a payment is refunded, canceled
\* or mismatched, it takes an API check to move it (process_tabpay_callback
\* re-reads the status under the lock).
WebhooksKeepFinal ==
    [][\A p \in Payment :
          row[p].status \in FinalStatus /\ row'[p].status # row[p].status
            => \E c \in Checker : /\ job[c] # Idle
                                  /\ job[c].p = p
                                  /\ job'[c] # job[c]]_vars

-----------------------------------------------------------------------------
(* Liveness.  The reconciliation loop keeps running and visits every       *)
(* pending payment; a worker that can continue does, and neither an API    *)
(* error nor a crash hits every attempt at the same step (strong fairness, *)
(* because each such failure sends the worker back to the start).          *)

Fairness ==
    /\ \A c \in Checker, p \in Payment : SF_vars(CheckLoad(c, p))
    /\ \A c \in Checker : /\ SF_vars(CheckFetch(c))
                          /\ SF_vars(CheckSync(c) \/ CheckSuccess(c))
    /\ \A w \in Worker : SF_vars(FinalizeCommit(w) \/ StampCredited(w))

FairSpec == Spec /\ Fairness

\* Money has moved at the provider, for a payment that can be credited.
Owed(p) == p \in Settled /\ prov[p] = "SUCCESS" /\ row[p].status # "none"

\* A payment the loop still considers pending does not stay so once the money
\* has moved, even if every webhook about it is lost: it is credited, unless
\* refunded, declared expired or declined by a late webhook, or too old.
PendingIsReconciled ==
    \A p \in Payment :
        Owed(p) /\ row[p].status \in PendingStatus
          ~> \/ p \in txns
             \/ prov[p] # "SUCCESS"
             \/ p \notin recent
             \/ row[p].status \notin PendingStatus
=============================================================================
