--------------------------- MODULE GuestPurchase ---------------------------
(***************************************************************************)
(* Purchases by guests and gifts.  A purchase is a row that webhooks, the  *)
(* monitoring loop, the buyer's landing page and people who claim gifts    *)
(* all work on.  Each of them takes the row FOR UPDATE, but the calls that *)
(* create the subscription and the panel account commit in the middle of   *)
(* it and so release the row before its status is written.                 *)
(*                                                                         *)
(* A step is what one task does up to its next commit, or up to the point  *)
(* where it has read what it will act on later.  The model is the classic  *)
(* mode: a user has one subscription.                                      *)
(***************************************************************************)
EXTENDS Naturals, FiniteSets

CONSTANTS
    Purchase,   \* purchases; the wallet's are known by an idempotency key
    User, NoUser,
    Recipient,  \* [Purchase -> User], who the contact of a purchase resolves to
    Buyer,      \* the account that buys the gifts
    Opening,    \* what its balance holds, in prices of a gift
    Task,       \* web requests and bot updates in progress
    Monitor,    \* the monitoring loop
    MaxCalls,   \* bound: webhooks, claims and other requests for one purchase
    MaxRetries  \* retry_count at which the loop gives a purchase up

\* direct: for the buyer; gift: for whoever claims it; both through a provider.
\* wallet: a gift bought from a balance.
Kind == {"direct", "gift", "wallet"}
Worker == Task \cup {Monitor}

ASSUME ConstantsAssumption ==
    /\ NoUser \notin User /\ Buyer \in User
    /\ Recipient \in [Purchase -> User]
    /\ Monitor \notin Task
    /\ IsFiniteSet(Purchase)
    /\ Opening \in Nat /\ MaxCalls \in Nat /\ MaxRetries \in Nat

VARIABLES
    kind,       \* [Purchase -> Kind]
    status,     \* [Purchase -> Status]
    owner,      \* [Purchase -> User or NoUser], user_id
    tries,      \* [Purchase -> Nat], retry_count
    recent,     \* purchases whose paid_at (created_at if unpaid) is in the last 24 h
    provider,   \* [Purchase -> {"open", "right", "wrong"}], the amount paid
    calls,      \* [Purchase -> Nat], requests for it so far
    balance,    \* the buyer's balance
    sub,        \* [User -> Sub], the subscription of a user
    granted,    \* [Purchase -> [to, times]], the committed grants of a purchase
    doubt,      \* purchases of which two tasks overlapped or one broke off
    task        \* [Worker -> Job]

rows == <<status, owner, tries, recent>>
money == <<kind, provider, balance>>
given == <<sub, granted>>
vars == <<rows, money, calls, given, doubt, task>>

Status == {"none", "pending", "paid", "held", "delivered", "failed"}
\* lapsed: the end is past, the status still says active.
Sub == {"none", "active", "lapsed", "expired"}

Idle == [pc |-> "idle"]
\* saw: the subscription when the task looked; locked: the row lock is held.
Job ==
    {Idle}
    \cup [pc : {"buy", "fulfil", "activate", "recover"}, p : Purchase]
    \cup [pc : {"grant", "push", "extend", "panel", "mark"}, p : Purchase,
          u : User, saw : Sub, locked : BOOLEAN]

\* Type correctness; with it, that the buyer's balance is never overdrawn and the
\* loop's retries never exceed their limit.
TypeOK ==
    /\ kind \in [Purchase -> Kind]
    /\ status \in [Purchase -> Status]
    /\ owner \in [Purchase -> User \cup {NoUser}]
    /\ tries \in [Purchase -> 0 .. MaxRetries]
    /\ recent \subseteq Purchase
    /\ provider \in [Purchase -> {"open", "right", "wrong"}]
    /\ calls \in [Purchase -> 0 .. MaxCalls]
    /\ balance \in 0 .. Opening
    /\ sub \in [User -> Sub]
    /\ granted \in [Purchase -> [to : SUBSET User, times : Nat]]
    /\ doubt \subseteq Purchase
    /\ task \in [Worker -> Job]

Init ==
    /\ kind \in [Purchase -> Kind]
    /\ status = [p \in Purchase |-> "none"]
    /\ owner = [p \in Purchase |-> NoUser]
    /\ tries = [p \in Purchase |-> 0]
    /\ recent = {}
    /\ provider = [p \in Purchase |-> "open"]
    /\ calls = [p \in Purchase |-> 0]
    /\ balance = Opening
    /\ sub = [u \in User |-> "none"]
    /\ granted = [p \in Purchase |-> [to |-> {}, times |-> 0]]
    /\ doubt = {}
    /\ task = [t \in Worker |-> Idle]

-----------------------------------------------------------------------------
(* Rows, locks and tasks.                                                  *)

Working(t, p) == task[t] # Idle /\ task[t].p = p

HoldsRow(t, p) ==
    /\ task[t].pc \in {"grant", "extend", "panel"}
    /\ task[t].p = p /\ task[t].locked

IsGift(p) == kind[p] # "direct"

\* SELECT ... FOR UPDATE, and any write, waits for the other tasks' locks.
RowFree(p) == \A t \in Worker : ~HoldsRow(t, p)

Become(t, j) == task' = [task EXCEPT ![t] = j]

Done(t) == Become(t, Idle)

SetStatus(p, s) == status' = [status EXCEPT ![p] = s]
Bind(p, u) == owner' = [owner EXCEPT ![p] = u]

\* paid_at = now
Stamp(p) == recent' = recent \cup {p}

Call(t, p) ==
    /\ t \in Task /\ task[t] = Idle
    /\ calls[p] < MaxCalls
    /\ calls' = [calls EXCEPT ![p] = @ + 1]

\* The period of p is added to u's subscription, and that is committed.
Grant(p, u) ==
    /\ sub' = [sub EXCEPT ![u] = "active"]
    /\ granted' = [granted EXCEPT ![p] = [to |-> @.to \cup {u}, times |-> @.times + 1]]

\* The status of a subscription whose end is past is corrected by whoever
\* reads it (check_and_update_subscription_status), in a transaction's middle.
Seen(u) == IF sub[u] = "lapsed" THEN "expired" ELSE sub[u]

Correct(u) == sub' = [sub EXCEPT ![u] = Seen(u)]

Overlap(t, p) ==
    doubt' = doubt \cup {q \in {p} : \E o \in Worker \ {t} :
                                        /\ Working(o, p)
                                        /\ task[o].pc \in {"push", "extend", "grant", "panel", "mark"}}

\* The task ends before its status is written.
BreaksOff(t) ==
    doubt' = IF task[t].pc \in {"push", "mark"} THEN doubt \cup {task[t].p} ELSE doubt

\* A webhook that fails opens a session of its own to note the payment.
Fail(t) ==
    IF task[t].pc \in {"grant", "push"} /\ t \in Task
    THEN Become(t, [pc |-> "recover", p |-> task[t].p])
    ELSE Done(t)

-----------------------------------------------------------------------------
(* The provider and the landing page.                                      *)

\* create_guest_purchase
Order(p) ==
    /\ kind[p] # "wallet" /\ status[p] = "none"
    /\ SetStatus(p, "pending")
    /\ Stamp(p)
    /\ UNCHANGED <<owner, tries, money, calls, given, doubt, task>>

\* The provider's own payment row says paid, whether or not a webhook arrives.
ProviderPaid(p, amount) ==
    /\ status[p] = "pending" /\ provider[p] = "open"
    /\ provider' = [provider EXCEPT ![p] = amount]
    /\ UNCHANGED <<rows, kind, balance, calls, given, doubt, task>>

-----------------------------------------------------------------------------
(* fulfill_purchase: t has the row FOR UPDATE and its status is PAID, for a *)
(* webhook in the same transaction.                                         *)

Fulfil(t, p) ==
    LET u == Recipient[p]
        stamp == IF t \in Task THEN recent \cup {p} ELSE recent IN
    \* registration refused, no tariff, or any other exception: rolled back
    \/ /\ IF t \in Task THEN Become(t, [pc |-> "recover", p |-> p]) ELSE Done(t)
       /\ UNCHANGED <<rows, sub, doubt>>
    \* no price for the period any more
    \/ /\ SetStatus(p, "failed") /\ recent' = stamp
       /\ Done(t)
       /\ UNCHANGED <<owner, tries, sub, doubt>>
    \* held until the user decides to replace the active subscription
    \/ /\ sub[u] = "active"
       /\ SetStatus(p, "held") /\ Bind(p, u) /\ recent' = stamp
       /\ Done(t)
       /\ UNCHANGED <<tries, sub, doubt>>
    \* going to create or replace; a lapsed one is corrected by a commit
    \/ /\ sub[u] # "active"
       /\ Become(t, [pc |-> "grant", p |-> p, u |-> u, saw |-> Seen(u),
                     locked |-> sub[u] # "lapsed"])
       /\ IF sub[u] = "lapsed"
          THEN SetStatus(p, "paid") /\ recent' = stamp
          ELSE UNCHANGED <<status, recent>>
       /\ Correct(u) /\ Overlap(t, p)
       /\ UNCHANGED <<owner, tries>>

\* create_paid_subscription and replace_subscription commit.
CommitGrant(t) ==
    LET j == task[t] IN
    /\ j.pc = "grant"
    /\ Grant(j.p, j.u)
    /\ IF j.locked
       THEN /\ SetStatus(j.p, "paid")
            /\ recent' = IF t \in Task THEN recent \cup {j.p} ELSE recent
       ELSE UNCHANGED <<status, recent>>
    /\ Become(t, [j EXCEPT !.pc = "push", !.locked = FALSE])
    /\ UNCHANGED <<owner, tries, money, calls, doubt>>

\* create_remnawave_user answers None when the panel fails; nobody looks.
Delivered(t) ==
    LET j == task[t] IN
    /\ j.pc = "push" /\ RowFree(j.p)
    /\ SetStatus(j.p, "delivered") /\ Bind(j.p, j.u)
    /\ Done(t)
    /\ UNCHANGED <<tries, recent, money, calls, given, doubt>>

-----------------------------------------------------------------------------
(* try_fulfill_guest_purchase                                              *)

Settled == {"delivered", "held", "failed"}

WebhookMismatch(t, p) ==
    /\ Call(t, p) /\ RowFree(p)
    /\ provider[p] = "wrong"
    /\ SetStatus(p, "failed")
    /\ UNCHANGED <<owner, tries, recent, money, given, doubt, task>>

\* A repeated webhook stamps a gift to a named person once more.
WebhookGift(t, p) ==
    /\ Call(t, p) /\ RowFree(p)
    /\ IsGift(p) /\ provider[p] = "right"
    /\ status[p] \in {"pending", "paid"}
    /\ SetStatus(p, "paid") /\ Stamp(p)
    /\ UNCHANGED <<owner, tries, money, given, doubt, task>>

WebhookFulfil(t, p) ==
    /\ Call(t, p) /\ RowFree(p)
    /\ kind[p] = "direct" /\ provider[p] = "right"
    /\ status[p] \notin Settled
    /\ Fulfil(t, p)
    /\ UNCHANGED <<money, granted>>

\* Mutant: the recovery session does not look at the status.
Recover_Blind(t) ==
    LET p == task[t].p IN
    /\ task[t].pc = "recover" /\ RowFree(p)
    /\ SetStatus(p, "paid") /\ Stamp(p)
    /\ Done(t)
    /\ UNCHANGED <<owner, tries, money, calls, given, doubt>>

Recover(t) ==
    LET p == task[t].p IN
    /\ task[t].pc = "recover" /\ RowFree(p)
    /\ IF status[p] \in {"pending", "paid"}
       THEN SetStatus(p, "paid") /\ Stamp(p)
       ELSE UNCHANGED <<status, recent>>
    /\ Done(t)
    /\ UNCHANGED <<owner, tries, money, calls, given, doubt>>

-----------------------------------------------------------------------------
(* activate_purchase, called by the landing page, by a claim and by the     *)
(* loop; t has the row FOR UPDATE and u is who it is for.                   *)

\* The subscription is read.  bound: what the claim wrote is flushed, and a
\* lapsed subscription's correction commits it.
Activate(t, p, u) ==
    /\ Become(t, [pc |-> "extend", p |-> p, u |-> u, saw |-> Seen(u),
                  locked |-> sub[u] # "lapsed"])
    /\ IF sub[u] = "lapsed"
       THEN SetStatus(p, "held") /\ Bind(p, u)
       ELSE UNCHANGED <<status, owner>>
    /\ Correct(u) /\ Overlap(t, p)
    /\ UNCHANGED <<tries, recent, money, granted>>

\* Extended, replaced or created, and flushed: nothing is committed yet.
Flush(t) ==
    /\ task[t].pc = "extend"
    /\ Become(t, [task[t] EXCEPT !.pc = "panel"])
    /\ UNCHANGED <<rows, money, calls, given, doubt>>

\* create_remnawave_user commits all that was flushed when the panel has
\* answered, and only then is the status of the purchase written.
PanelAnswers(t) ==
    LET j == task[t] IN
    /\ j.pc = "panel"
    /\ Grant(j.p, j.u)
    /\ IF j.locked THEN SetStatus(j.p, "held") /\ Bind(j.p, j.u)
       ELSE UNCHANGED <<status, owner>>
    /\ Become(t, [j EXCEPT !.pc = "mark", !.locked = FALSE])
    /\ UNCHANGED <<tries, recent, money, calls, doubt>>

\* When the panel fails it rolls back and answers None.  A subscription that
\* existed before is read again and the purchase goes on to be marked; one that
\* was created is gone, and reading it is an error.
PanelFails(t) ==
    LET j == task[t] IN
    /\ j.pc = "panel"
    /\ IF j.saw = "none"
       THEN Done(t) /\ UNCHANGED doubt
       ELSE /\ Become(t, [j EXCEPT !.pc = "mark", !.locked = FALSE])
            /\ doubt' = doubt \cup {j.p}
    /\ UNCHANGED <<rows, money, calls, given>>

Mark(t) ==
    /\ task[t].pc = "mark" /\ RowFree(task[t].p)
    /\ SetStatus(task[t].p, "delivered")
    /\ Done(t)
    /\ UNCHANGED <<owner, tries, recent, money, calls, given, doubt>>

\* The "activate" button of the landing page, for whoever has the token.
\* Mutant: a purchase that was delivered can be activated.
LandingActivate_Again(t, p) ==
    /\ Call(t, p) /\ RowFree(p)
    /\ status[p] \in {"held", "delivered"} /\ owner[p] # NoUser
    /\ Activate(t, p, owner[p])

LandingActivate(t, p) ==
    /\ Call(t, p) /\ RowFree(p)
    /\ status[p] = "held" /\ owner[p] # NoUser
    /\ Activate(t, p, owner[p])

\* Mutant: the claim does not look whose gift it is.
Claim_Anybody(t, p, u) ==
    /\ Call(t, p) /\ RowFree(p)
    /\ IsGift(p) /\ u # Buyer
    /\ status[p] \in {"paid", "held"}
    /\ Activate(t, p, u)

\* claim_gift_for_user, claim_bound_gift_for_user
Claim(t, p, u) ==
    /\ Call(t, p) /\ RowFree(p)
    /\ IsGift(p) /\ u # Buyer
    /\ owner[p] \in {NoUser, u}
    /\ status[p] \in {"paid", "held"}
    /\ Activate(t, p, u)

\* bind_locked_gift: a newcomer registers with the link of a gift.
RegisterWithGift(t, p, u) ==
    /\ Call(t, p) /\ RowFree(p)
    /\ IsGift(p) /\ u # Buyer
    /\ owner[p] \in {NoUser, u}
    /\ status[p] \in {"paid", "held"}
    /\ SetStatus(p, "held") /\ Bind(p, u)
    /\ UNCHANGED <<tries, recent, money, given, doubt, task>>

-----------------------------------------------------------------------------
(* purchase_gift_from_balance                                              *)

\* The key is looked up without a lock; a purchase found is the answer.
WalletLook(t, p) ==
    /\ Call(t, p)
    /\ kind[p] = "wallet" /\ status[p] = "none"
    /\ Become(t, [pc |-> "buy", p |-> p])
    /\ UNCHANGED <<rows, money, given, doubt>>

\* Mutant: no unique index on the idempotency key.
WalletBuy_NoIndex(t) ==
    LET p == task[t].p IN
    /\ task[t].pc = "buy"
    /\ Done(t)
    /\ IF balance > 0
       THEN /\ SetStatus(p, "paid") /\ Stamp(p)
            /\ balance' = balance - 1
       ELSE UNCHANGED <<status, recent, balance>>
    /\ UNCHANGED <<owner, tries, kind, provider, calls, given, doubt>>

\* The buyer is locked; the unique index turns a second purchase of the key
\* into the answer of the first.
WalletBuy(t) ==
    LET p == task[t].p IN
    /\ task[t].pc = "buy"
    /\ Done(t)
    /\ IF status[p] = "none" /\ balance > 0
       THEN /\ SetStatus(p, "paid") /\ Stamp(p)
            /\ balance' = balance - 1
       ELSE UNCHANGED <<status, recent, balance>>
    /\ UNCHANGED <<owner, tries, kind, provider, calls, given, doubt>>

-----------------------------------------------------------------------------
(* The monitoring loop: one purchase after the other.                      *)

LoopFree == task[Monitor] = Idle

\* Mutant: the amount is not compared with the purchase's.
RecoverPending_AnyAmount(p) ==
    /\ LoopFree /\ RowFree(p)
    /\ status[p] = "pending" /\ p \in recent
    /\ provider[p] # "open"
    /\ SetStatus(p, "paid") /\ Stamp(p)
    /\ UNCHANGED <<owner, tries, money, calls, given, doubt, task>>

\* _check_and_recover_pending_purchase
RecoverPending(p) ==
    /\ LoopFree /\ RowFree(p)
    /\ status[p] = "pending" /\ p \in recent
    /\ \/ provider[p] = "right" /\ SetStatus(p, "paid") /\ Stamp(p)
       \/ provider[p] = "wrong" /\ SetStatus(p, "failed") /\ UNCHANGED recent
    /\ UNCHANGED <<owner, tries, money, calls, given, doubt, task>>

\* Mutant: the listing does not leave out what is out of tries.
Pick_Uncapped(p) ==
    /\ LoopFree
    /\ p \in recent /\ status[p] = "held" /\ owner[p] # NoUser
    /\ Become(Monitor, [pc |-> "activate", p |-> p])
    /\ tries' = [tries EXCEPT ![p] = @ + 1]
    /\ UNCHANGED <<status, owner, recent, money, calls, given, doubt>>

\* The rows to try again were listed before; the try is counted first.
\* A webhook is over before its paid_at is five minutes old.
Pick(p) ==
    /\ LoopFree
    /\ p \in recent /\ tries[p] < MaxRetries
    /\ \/ /\ status[p] = "paid" /\ kind[p] = "direct"
          /\ \A t \in Task : ~Working(t, p)
          /\ Become(Monitor, [pc |-> "fulfil", p |-> p])
       \/ /\ status[p] = "held" /\ owner[p] # NoUser
          /\ Become(Monitor, [pc |-> "activate", p |-> p])
    /\ tries' = [tries EXCEPT ![p] = @ + 1]
    /\ UNCHANGED <<status, owner, recent, money, calls, given, doubt>>

RetryPaid ==
    LET p == task[Monitor].p IN
    /\ task[Monitor].pc = "fulfil" /\ RowFree(p)
    /\ IF status[p] = "paid" THEN Fulfil(Monitor, p)
       ELSE Done(Monitor) /\ UNCHANGED <<rows, sub, doubt>>
    /\ UNCHANGED <<money, calls, granted>>

RetryHeld ==
    LET p == task[Monitor].p IN
    /\ task[Monitor].pc = "activate" /\ RowFree(p)
    /\ IF status[p] = "held" /\ owner[p] # NoUser
       THEN Activate(Monitor, p, owner[p])
       ELSE Done(Monitor) /\ UNCHANGED <<rows, money, given, doubt>>
    /\ UNCHANGED calls

\* Mutant: what is out of tries is not looked for.
FailExhausted_Never(p) == FALSE /\ UNCHANGED vars

\* _fail_exhausted_purchases_batch
FailExhausted(p) ==
    /\ LoopFree /\ RowFree(p)
    /\ status[p] \in {"paid", "held"}
    /\ tries[p] >= MaxRetries /\ p \in recent
    /\ SetStatus(p, "failed")
    /\ UNCHANGED <<owner, tries, recent, money, calls, given, doubt, task>>

-----------------------------------------------------------------------------
(* Faults and time.                                                        *)

\* Any exception: what was not committed is rolled back.
Raises(t) ==
    /\ task[t].pc \in {"grant", "push", "extend", "panel", "mark"}
    /\ Fail(t)
    /\ BreaksOff(t)
    /\ UNCHANGED <<rows, money, calls, given>>

\* The process is killed.
Crash ==
    /\ \E t \in Worker : task[t] # Idle
    /\ task' = [t \in Worker |-> Idle]
    /\ doubt' = doubt \cup {task[t].p : t \in {w \in Worker : task[w].pc \in {"push", "mark"}}}
    /\ UNCHANGED <<rows, money, calls, given>>

\* 24 hours pass: of interest as long as the loop may look after the purchase.
Age(p) ==
    /\ p \in recent /\ status[p] \in {"pending", "paid", "held"}
    /\ recent' = recent \ {p}
    /\ UNCHANGED <<status, owner, tries, money, calls, given, doubt, task>>

\* The user buys or renews by other means: in the bot, or with another purchase.
BuyElsewhere(u) ==
    /\ sub[u] # "active"
    /\ sub' = [sub EXCEPT ![u] = "active"]
    /\ UNCHANGED <<rows, money, calls, granted, doubt, task>>

\* A subscription comes to its end, and the monitoring marks it.
Lapse(u) ==
    /\ sub[u] = "active"
    /\ sub' = [sub EXCEPT ![u] = "lapsed"]
    /\ UNCHANGED <<rows, money, calls, granted, doubt, task>>

MarkExpired(u) ==
    /\ sub[u] = "lapsed"
    /\ Correct(u)
    /\ UNCHANGED <<rows, money, calls, granted, doubt, task>>

-----------------------------------------------------------------------------
Step(t) ==
    \/ CommitGrant(t) \/ Delivered(t)
    \/ Flush(t) \/ PanelAnswers(t) \/ PanelFails(t) \/ Mark(t)
    \/ Recover(t) \/ WalletBuy(t)
    \/ t = Monitor /\ (RetryPaid \/ RetryHeld)
    \/ Raises(t)

Request(t, p) ==
    \/ WebhookMismatch(t, p) \/ WebhookGift(t, p) \/ WebhookFulfil(t, p)
    \/ LandingActivate(t, p)
    \/ \E u \in User : Claim(t, p, u) \/ RegisterWithGift(t, p, u)
    \/ WalletLook(t, p)

Loop(p) == RecoverPending(p) \/ Pick(p) \/ FailExhausted(p)

\* Bound: the buyer's own subscription, which no claim reads, stays as it is.
Next ==
    \/ \E t \in Worker : Step(t)
    \/ \E t \in Task, p \in Purchase : Request(t, p)
    \/ \E p \in Purchase :
          \/ Loop(p) \/ Order(p) \/ Age(p)
          \/ ProviderPaid(p, "right") \/ ProviderPaid(p, "wrong")
    \/ Crash
    \/ \E u \in User \ {Buyer} : BuyElsewhere(u) \/ Lapse(u) \/ MarkExpired(u)

Spec == Init /\ [][Next]_vars

\* A task that runs goes on, and the loop comes round; requests, payments,
\* crashes and the passing of time happen or do not.
FairSpec ==
    /\ Spec
    /\ \A t \in Worker : WF_vars(Step(t))
    /\ \A p \in Purchase : WF_vars(Loop(p))

-----------------------------------------------------------------------------
(* Properties.                                                             *)

\* Whatever tasks, retries and claims do, a gift goes to one person, and that
\* is not the buyer: the binding of a claim and its grant are committed together.
OneRecipient ==
    \A p \in Purchase :
        IsGift(p) => Cardinality(granted[p].to) <= 1 /\ Buyer \notin granted[p].to

\* What is granted has been paid for, on any of the ways a payment is noticed: by
\* the right amount at the provider (webhook, recovery of a failed webhook, recovery
\* by the loop), or by one charge of the balance for each idempotency key.
GrantedIsPaidFor ==
    /\ \A p \in Purchase :
          kind[p] # "wallet" /\ granted[p].times > 0 => provider[p] = "right"
    /\ Opening - balance =
          Cardinality({p \in Purchase : kind[p] = "wallet" /\ status[p] # "none"})

\* As long as no two tasks worked on a purchase at once, none broke off after
\* its commit and the panel answered, a delivered purchase was granted once.
OnceUnlessDoubt ==
    \A p \in Purchase \ doubt :
        /\ granted[p].times <= 1
        /\ status[p] = "delivered" => granted[p].times = 1

\* The status and owner of a purchase move as Delivery allows, although they
\* are written by tasks that lost their lock on the row.
Phase == [p \in Purchase |-> IF status[p] \in {"none", "pending"} THEN "due" ELSE status[p]]

Contract == INSTANCE Delivery WITH phase <- Phase
ImplementsDelivery == Contract!Spec

\* A purchase paid for is delivered or given up (and the administrators told),
\* or it has left the 24 hours in which the loop looks after it.
PaidIsSettled ==
    \A p \in Purchase :
        (kind[p] = "direct" /\ provider[p] = "right") ~> (status[p] \in {"delivered", "failed"} \/ p \notin recent)
=============================================================================
