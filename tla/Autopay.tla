------------------------------ MODULE Autopay ------------------------------
(***************************************************************************)
(* Automatic renewal with saved cards.  A pass of the monitoring renews    *)
(* from the balance what is due; then, where the balance falls short, it   *)
(* charges a saved card at YooKassa.  The money comes back as a webhook,   *)
(* which alone credits it; the next pass may then renew.                   *)
(*                                                                         *)
(* One user with several subscriptions.  A step is a transaction, a call   *)
(* of the provider, or what happens up to a lock somebody else may hold.   *)
(***************************************************************************)
EXTENDS Integers, FiniteSetsExt

CONSTANTS
    Sub,        \* the user's subscriptions
    Card,       \* his cards: numbers, a card saved later has a larger one
    Hook,       \* webhooks in progress
    Price,      \* of a renewal
    MinAmount,  \* YOOKASSA_MIN_AMOUNT_KOPEKS
    Opening,    \* the balance at first
    Period,     \* days of a renewal
    Before,     \* autopay_days_before
    Reach,      \* days after its end a subscription is topped up for
    MaxDay, MaxEdits, MaxFaults     \* bounds

ASSUME ConstantsAssumption ==
    /\ Card \subseteq Nat /\ IsFiniteSet(Card)
    /\ Price \in Nat \ {0} /\ MinAmount \in Nat \ {0} /\ Opening \in Nat
    /\ Period \in Nat \ {0} /\ Before \in Nat /\ Reach \in Nat
    /\ MaxDay \in Nat /\ MaxEdits \in Nat /\ MaxFaults \in Nat

VARIABLES
    day, left,  \* [Sub -> days until the end]
    balance,
    cards,      \* the active ones
    prov,       \* YooKassa: [Payment -> status]
    acked,      \* payments whose final webhook was answered by 200
    rows,       \* YooKassaPayment
    txns,       \* deposits
    guard,      \* _daily_guard
    pass,       \* the monitoring's pass
    held,       \* its transaction has the user's row
    hook,       \* [Hook -> job]
    doubt,      \* <<s, d>>: that day a call for s gave nothing
    recarded,   \* days on which the cards changed
    faults

provider == <<prov, acked>>
ledger == <<balance, txns>>
history == <<doubt, recarded>>
vars == <<day, left, cards, provider, ledger, rows, guard, pass, held, hook,
          history, faults>>

Day == 0 .. MaxDay
MaxOf(a, b) == IF a > b THEN a ELSE b
\* What is asked of a card: what the balance lacks, but no less than the minimum.
Shortage(b) == MaxOf(Price - b, MinAmount)
\* A payment is what its idempotence key names, with the amount asked for.
Payment ==
    [sub : Sub, card : Card, day : Day, amount : {Shortage(b) : b \in 0 .. Price - 1}]
SameKey(p) == {q \in Payment : <<q.sub, q.card, q.day>> = <<p.sub, p.card, p.day>>}
Known(p) == prov[p] # "none"

Idle == [pc |-> "idle"]
\* todo: subscriptions still to be looked at.
Pass ==
    {Idle}
    \cup [pc : {"renew", "topup"}, todo : SUBSET Sub]
    \cup [pc : {"extend", "mark"}, s : Sub, todo : SUBSET Sub]
    \cup [pc : {"charge"}, s : Sub, amount : Nat, date : Day, cards : SUBSET Card,
          todo : SUBSET Sub]
    \cup [pc : {"store"}, p : Payment, todo : SUBSET Sub]
Job ==
    {Idle}
    \cup [pc : {"load", "key", "process", "user", "answer"}, p : Payment]

\* Type correctness; with it, that no charge overdraws the balance.
TypeOK ==
    /\ day \in Day /\ left \in [Sub -> Int]
    /\ balance \in Nat /\ cards \subseteq Card
    /\ prov \in [Payment -> {"none", "pending", "succeeded", "canceled"}]
    /\ acked \subseteq Payment /\ rows \subseteq Payment /\ txns \subseteq Payment
    /\ guard \in [date : Day \cup {-1}, done : SUBSET Sub]
    /\ pass \in Pass /\ held \in BOOLEAN
    /\ hook \in [Hook -> Job]
    /\ doubt \subseteq Sub \X Day /\ recarded \subseteq Day
    /\ faults \in 0 .. MaxFaults

NoGuard == [date |-> -1, done |-> {}]

Init ==
    /\ day = 0
    /\ left = [s \in Sub |-> Before + 1]
    /\ balance = Opening /\ cards = Card
    /\ prov = [p \in Payment |-> "none"] /\ acked = {}
    /\ rows = {} /\ txns = {}
    /\ guard = NoGuard /\ pass = Idle /\ held = FALSE
    /\ hook = [w \in Hook |-> Idle]
    /\ doubt = {} /\ recarded = {} /\ faults = 0

Fault == faults < MaxFaults /\ faults' = faults + 1

-----------------------------------------------------------------------------
(* _process_autopayments: what is due is renewed from the balance.         *)

\* Active, or expired by less than two hours.
Renewable(s) == left[s] \in 0 .. Before

Begin ==
    /\ pass = Idle
    /\ pass' = [pc |-> "renew", todo |-> {s \in Sub : Renewable(s)}]
    /\ UNCHANGED <<day, left, cards, provider, ledger, rows, guard, held, hook, history, faults>>

\* Mutant: the comparison is off by one.
Affordable_OffByOne == balance + 1 >= Price

\* The price is compared with the balance under the user's lock; a charge
\* commits and so releases it, a refusal leaves it to the pass.
Affordable == balance >= Price

Renew(s) ==
    /\ pass.pc = "renew" /\ s \in pass.todo
    /\ IF Affordable
       THEN /\ balance' = balance - Price
            /\ held' = FALSE
            /\ pass' = [pc |-> "extend", s |-> s, todo |-> pass.todo \ {s}]
       ELSE /\ held' = TRUE
            /\ pass' = [pass EXCEPT !.todo = @ \ {s}]
            /\ UNCHANGED balance
    /\ UNCHANGED <<day, left, cards, provider, txns, rows, guard, hook, history, faults>>

Extend ==
    /\ pass.pc = "extend"
    /\ left' = [left EXCEPT ![pass.s] = MaxOf(@, 0) + Period]
    /\ pass' = [pc |-> "renew", todo |-> pass.todo]
    /\ UNCHANGED <<day, cards, provider, ledger, rows, guard, held, hook, history, faults>>

\* The extension fails: what was charged is given back.
Refund ==
    /\ pass.pc = "extend" /\ Fault
    /\ balance' = balance + Price
    /\ pass' = [pc |-> "renew", todo |-> pass.todo]
    /\ UNCHANGED <<day, left, cards, provider, txns, rows, guard, held, hook, history>>

-----------------------------------------------------------------------------
(* process_recurrent_payments: a card pays what the balance lacks.         *)

StartTopUps ==
    /\ pass.pc = "renew" /\ pass.todo = {}
    /\ guard' = IF guard.date = day THEN guard ELSE [date |-> day, done |-> {}]
    /\ pass' = [pc |-> "topup", todo |-> {s \in Sub : left[s] \in -Reach .. Before + 1}]
    /\ UNCHANGED <<day, left, cards, provider, ledger, rows, held, hook, history, faults>>

\* Already processed today, the balance suffices, or it is too early.
Skip(s) ==
    /\ pass.pc = "topup" /\ s \in pass.todo
    /\ s \in guard.done \/ Affordable \/ left[s] > Before
    /\ held' = (held \/ s \notin guard.done)
    /\ pass' = [pass EXCEPT !.todo = @ \ {s}]
    /\ UNCHANGED <<day, left, cards, provider, ledger, rows, guard, hook, history, faults>>

\* The shortage, the cards and the date of the key are read under the lock,
\* which is kept while the provider is called.
Assess(s) ==
    /\ pass.pc = "topup" /\ s \in pass.todo
    /\ s \notin guard.done /\ ~Affordable /\ left[s] <= Before
    /\ held' = TRUE
    /\ pass' = [pc |-> "charge", s |-> s, amount |-> Shortage(balance), date |-> day,
                cards |-> cards, todo |-> pass.todo \ {s}]
    /\ UNCHANGED <<day, left, cards, provider, ledger, rows, guard, hook, history, faults>>

\* The card saved last comes first.
Asked ==
    [sub |-> pass.s, card |-> Max(pass.cards), day |-> pass.date, amount |-> pass.amount]
NextCard ==
    /\ pass' = [pass EXCEPT !.cards = @ \ {Max(@)}]
    /\ doubt' = doubt \cup {<<pass.s, pass.date>>}
Store(p) == pass' = [pc |-> "store", p |-> p, todo |-> pass.todo]

\* Mutant: only a payment made at once ends the search.
Charge_PaidAtOnce ==
    /\ pass.pc = "charge" /\ pass.cards # {}
    /\ \A q \in SameKey(Asked) : ~Known(q)
    /\ \E st \in {"pending", "succeeded", "canceled"} :
          /\ prov' = [prov EXCEPT ![Asked] = st]
          /\ IF st = "succeeded" THEN Store(Asked)
             ELSE pass' = [pass EXCEPT !.cards = @ \ {Max(@)}]
    /\ UNCHANGED <<day, left, cards, acked, ledger, rows, guard, held, hook, history, faults>>

\* A new payment.  A declined one is an answer too: it ends the search.
Charge ==
    /\ pass.pc = "charge" /\ pass.cards # {}
    /\ \A q \in SameKey(Asked) : ~Known(q)
    /\ \E st \in {"pending", "succeeded", "canceled"} :
          prov' = [prov EXCEPT ![Asked] = st]
    /\ Store(Asked)
    /\ UNCHANGED <<day, left, cards, acked, ledger, rows, guard, held, hook, history, faults>>

\* The same key and the same amount: the provider answers with the payment
\* there is.
ChargeAgain ==
    /\ pass.pc = "charge" /\ pass.cards # {}
    /\ Known(Asked)
    /\ Store(Asked)
    /\ UNCHANGED <<day, left, cards, provider, ledger, rows, guard, held, hook, history, faults>>

\* The call is refused, or fails on its way.
ChargeRefused ==
    /\ pass.pc = "charge" /\ pass.cards # {}
    /\ ~Known(Asked)
    /\ NextCard
    /\ UNCHANGED <<day, left, cards, provider, ledger, rows, guard, held, hook, recarded, faults>>

\* The call succeeds, its answer is lost: after 30 s the next card is tried.
ChargeLost ==
    /\ pass.pc = "charge" /\ pass.cards # {} /\ Fault
    /\ \A q \in SameKey(Asked) : ~Known(q)
    /\ \E st \in {"pending", "succeeded", "canceled"} :
          prov' = [prov EXCEPT ![Asked] = st]
    /\ NextCard
    /\ UNCHANGED <<day, left, cards, acked, ledger, rows, guard, held, hook, recarded>>

Inserting(p) == {w \in Hook : hook[w].pc = "key" /\ hook[w].p = p}

Stored ==
    /\ rows' = rows \cup {pass.p}
    /\ held' = (held /\ pass.p \in rows)
    /\ pass' = [pc |-> "mark", s |-> pass.p.sub, todo |-> pass.todo]

\* Not stored: the error is swallowed, but the session is of no use for the
\* subscriptions that are left.
NotStored ==
    /\ held' = FALSE
    /\ pass' = [pc |-> "mark", s |-> pass.p.sub, todo |-> {}]
    /\ UNCHANGED rows

\* create_yookassa_payment: the row there is, or a new one; only an insert
\* commits.
StoreRow ==
    /\ pass.pc = "store" /\ Inserting(pass.p) = {}
    /\ Stored
    /\ UNCHANGED <<day, left, cards, provider, ledger, guard, hook, history, faults>>

\* A webhook inserts the same row and waits for the user the pass holds, the
\* pass waits for that insert: PostgreSQL aborts one, the other goes on.
Deadlock ==
    /\ pass.pc = "store" /\ held
    /\ \E w \in Inserting(pass.p) :
          \/ Stored /\ hook' = [hook EXCEPT ![w] = Idle]
          \/ NotStored /\ UNCHANGED hook
    /\ UNCHANGED <<day, left, cards, provider, ledger, guard, history, faults>>

StoreError ==
    /\ pass.pc = "store" /\ Fault
    /\ NotStored
    /\ UNCHANGED <<day, left, cards, provider, ledger, guard, hook, history>>

\* The subscription is done for today: charged, or no card worked.
Mark ==
    /\ \/ pass.pc = "mark"
       \/ pass.pc = "charge" /\ pass.cards = {}
    /\ guard' = [guard EXCEPT !.done = @ \cup {pass.s}]
    /\ pass' = [pc |-> "topup", todo |-> pass.todo]
    /\ UNCHANGED <<day, left, cards, provider, ledger, rows, held, hook, history, faults>>

EndPass ==
    /\ pass.pc = "topup" /\ pass.todo = {}
    /\ pass' = Idle /\ held' = FALSE
    /\ UNCHANGED <<day, left, cards, provider, ledger, rows, guard, hook, history, faults>>

-----------------------------------------------------------------------------
(* The webhooks of YooKassa, which repeats one until it is answered by 200.*)

Become(w, pc) == hook' = [hook EXCEPT ![w].pc = pc]
Final(p) == prov[p] \in {"succeeded", "canceled"}

\* process_yookassa_webhook goes by what the provider confirms when asked.
Deliver(w, p) ==
    /\ hook[w] = Idle
    /\ Final(p) /\ p \notin acked
    /\ hook' = [hook EXCEPT ![w] = [pc |-> "load", p |-> p]]
    /\ UNCHANGED <<day, left, cards, provider, ledger, rows, guard, pass, held, history, faults>>

\* Mutant: a payment without a row is an error.
Load_WithoutRestore(w) ==
    /\ hook[w].pc = "load"
    /\ hook' = [hook EXCEPT ![w] = IF @.p \in rows THEN [@ EXCEPT !.pc = "process"] ELSE Idle]
    /\ UNCHANGED <<day, left, cards, provider, ledger, rows, guard, pass, held, history, faults>>

\* _restore_missing_yookassa_payment inserts a row that is not there; if
\* another webhook is inserting it, this one waits.
Load(w) ==
    /\ hook[w].pc = "load"
    /\ \/ hook[w].p \in rows /\ Become(w, "process")
       \/ hook[w].p \notin rows /\ Inserting(hook[w].p) = {} /\ Become(w, "key")
    /\ UNCHANGED <<day, left, cards, provider, ledger, rows, guard, pass, held, history, faults>>

\* The foreign key needs the user's row.
Restore(w) ==
    /\ hook[w].pc = "key" /\ ~held
    /\ rows' = rows \cup {hook[w].p}
    /\ Become(w, "process")
    /\ UNCHANGED <<day, left, cards, provider, ledger, guard, pass, held, history, faults>>

RowFree(p) == \A w \in Hook : ~(hook[w].pc = "user" /\ hook[w].p = p)

\* Mutant: the status is stored, but not looked at.
Process_AnyStatus(w) ==
    /\ hook[w].pc = "process" /\ RowFree(hook[w].p)
    /\ Become(w, IF hook[w].p \notin txns THEN "user" ELSE "answer")
    /\ UNCHANGED <<day, left, cards, provider, ledger, rows, guard, pass, held, history, faults>>

\* The status is stored; for a success _process_successful_yookassa_payment
\* looks for the deposit under the row's lock, and goes on if there is none.
Process(w) ==
    /\ hook[w].pc = "process" /\ RowFree(hook[w].p)
    /\ Become(w, IF prov[hook[w].p] = "succeeded" /\ hook[w].p \notin txns
                 THEN "user" ELSE "answer")
    /\ UNCHANGED <<day, left, cards, provider, ledger, rows, guard, pass, held, history, faults>>

\* Deposit, link, balance and mark are one commit.
Credit(w) ==
    /\ hook[w].pc = "user" /\ ~held
    /\ txns' = txns \cup {hook[w].p}
    /\ balance' = balance + hook[w].p.amount
    /\ Become(w, "answer")
    /\ UNCHANGED <<day, left, cards, provider, rows, guard, pass, held, history, faults>>

Answer(w) ==
    /\ hook[w].pc = "answer"
    /\ acked' = acked \cup {hook[w].p}
    /\ hook' = [hook EXCEPT ![w] = Idle]
    /\ UNCHANGED <<day, left, cards, prov, ledger, rows, guard, pass, held, history, faults>>

\* Mutant: an error is answered by 200.
Fail_Acknowledged(w) ==
    /\ hook[w] # Idle /\ Fault
    /\ acked' = acked \cup {hook[w].p}
    /\ hook' = [hook EXCEPT ![w] = Idle]
    /\ UNCHANGED <<day, left, cards, prov, ledger, rows, guard, pass, held, history>>

\* An error or no confirmation: rollback and 500; or the answer is lost.
Fail(w) ==
    /\ hook[w] # Idle /\ Fault
    /\ hook' = [hook EXCEPT ![w] = Idle]
    /\ UNCHANGED <<day, left, cards, provider, ledger, rows, guard, pass, held, history>>

-----------------------------------------------------------------------------
(* What surrounds them.                                                    *)

\* A pending payment is decided on.
Resolve(p) ==
    /\ prov[p] = "pending"
    /\ \E st \in {"succeeded", "canceled"} : prov' = [prov EXCEPT ![p] = st]
    /\ UNCHANGED <<day, left, cards, acked, ledger, rows, guard, pass, held, hook, history, faults>>

\* Any other service charges the balance.
Spend ==
    /\ ~held /\ balance > 0
    /\ balance' = balance - 1
    /\ UNCHANGED <<day, left, cards, provider, txns, rows, guard, pass, held, hook, history, faults>>

\* The owner unlinks a card, or a payment of his saves one.
Recard ==
    /\ Cardinality(recarded) < MaxEdits
    /\ \E c \in Card :
          \/ c \in cards /\ cards' = cards \ {c}
          \/ c \notin cards /\ ~held /\ cards' = cards \cup {c}
    /\ recarded' = recarded \cup {day}
    /\ UNCHANGED <<day, left, provider, ledger, rows, guard, pass, held, hook, doubt, faults>>

Tick ==
    /\ day < MaxDay /\ day' = day + 1
    /\ left' = [s \in Sub |-> left[s] - 1]
    /\ UNCHANGED <<cards, provider, ledger, rows, guard, pass, held, hook, history, faults>>

\* The process dies: nothing is left of what was not committed.
Crash ==
    /\ Fault
    /\ pass' = Idle /\ held' = FALSE /\ guard' = NoGuard
    /\ hook' = [w \in Hook |-> Idle]
    /\ UNCHANGED <<day, left, cards, provider, ledger, rows, history>>

PassStep ==
    \/ \E s \in Sub : Renew(s) \/ Skip(s) \/ Assess(s)
    \/ Extend \/ Refund \/ StartTopUps
    \/ Charge \/ ChargeAgain \/ ChargeRefused \/ ChargeLost
    \/ StoreRow \/ Deadlock \/ StoreError \/ Mark \/ EndPass

HookStep(w) ==
    Load(w) \/ Restore(w) \/ Process(w) \/ Credit(w) \/ Answer(w)

Next ==
    \/ Begin \/ PassStep
    \/ \E w \in Hook : HookStep(w) \/ Fail(w) \/ \E p \in Payment : Deliver(w, p)
    \/ \E p \in Payment : Resolve(p)
    \/ Spend \/ Recard \/ Tick \/ Crash

Spec == Init /\ [][Next]_vars

\* A running pass goes on; a webhook goes on, and gets a lock it waits for;
\* the provider goes on sending as long as something was not answered by 200.
Fairness ==
    /\ WF_vars(PassStep)
    /\ \A w \in Hook : SF_vars(HookStep(w))
    /\ SF_vars(\E w \in Hook, p \in Payment : Deliver(w, p))

FairSpec == Spec /\ Fairness

-----------------------------------------------------------------------------
(* Properties.                                                             *)

\* A subscription is charged for by one card a day, however often the pass
\* comes round or the process restarts, unless a call gave no answer or the
\* cards changed: the key of the day makes the second call the first one's.
ChargedOnce ==
    \A p, q \in Payment :
        /\ {prov[p], prov[q]} \subseteq {"pending", "succeeded"}
        /\ p.sub = q.sub /\ p.day = q.day /\ p # q
        => <<p.sub, p.day>> \in doubt \/ p.day \in recarded

\* Autopay implements TopUpLedger: only money that moved is credited, once and
\* by its amount, beside renewals, refunds, repeated webhooks and lost rows.
\* A charge for a renewal counts when the extension is decided.
Ledger == INSTANCE TopUpLedger WITH
    User <- {"user"},
    Owner <- [p \in Payment |-> "user"],
    Amount <- [p \in Payment |-> p.amount],
    Opening <- [u \in {"user"} |-> Opening],
    Price <- {1, Price},
    settled <- {p \in Payment : prov[p] = "succeeded"},
    credited <- txns,
    balance <- [u \in {"user"} |-> balance + (IF pass.pc = "extend" THEN Price ELSE 0)]

LedgerSpec == Ledger!Spec

\* A card that was charged is credited in the end, whatever became of the
\* answer, the row, the process or the first webhooks: unlike in TabPay the
\* provider is answered after the work, and repeats what was not answered by 200.
\* (Payments are finitely many, and what is charged or credited stays so.)
ChargedIsCredited == []<>(\A p \in Payment : prov[p] = "succeeded" => p \in txns)
=============================================================================
