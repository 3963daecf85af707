------------------------------- MODULE Daily -------------------------------
(***************************************************************************)
(* Subscriptions paid by the day.  A loop lists those that are due or can  *)
(* be taken up again and charges them one by one; the owner pauses and     *)
(* resumes in the bot, the cabinet and the mini app; a top-up resumes what *)
(* was suspended.  Every charge is made under the lock of the user's row,  *)
(* but what it is made for was read before, and the subscription's row is  *)
(* never locked.                                                           *)
(*                                                                         *)
(* One subscription is followed.  A step is what a task does up to its     *)
(* next commit, or up to what it has read and will act on later.           *)
(***************************************************************************)
EXTENDS Integers

CONSTANTS
    Task,       \* requests in progress: bot, cabinet, mini app, top-ups
    Loop,       \* DailySubscriptionService
    Monitor,    \* the monitoring's expiry check
    Price,      \* of a day
    Opening,    \* the balance after the purchase
    ResetsTraffic,  \* should_reset_traffic_on_daily_charge of the tariff
    MaxDay,     \* bound: days
    MaxCalls,   \* bound: requests
    MaxActs,    \* bound: acts of the panel, of an administrator, other purchases
    MaxFaults   \* bound: crashes and exceptions

Worker == Task \cup {Loop, Monitor}

ASSUME ConstantsAssumption ==
    /\ Loop \notin Task /\ Monitor \notin Task /\ Loop # Monitor
    /\ Price \in Nat \ {0} /\ Opening \in Nat /\ MaxDay \in Nat \ {0}
    /\ MaxCalls \in Nat /\ MaxActs \in Nat /\ MaxFaults \in Nat
    /\ ResetsTraffic \in BOOLEAN

VARIABLES
    now,        \* the day
    row,        \* the subscription
    balance,
    task,       \* [Worker -> Job]
    bill,       \* charges of today
    doubt,      \* today a task acted on what was no longer so, broke off after
                \* its charge, or the service was cut
    calls, acts, faults

account == <<row, balance>>
ghost == <<bill, doubt>>
spent == <<calls, acts, faults>>
vars == <<now, account, task, ghost, spent>>

Status == {"active", "disabled", "expired", "limited"}
Inactive == Status \ {"active"}

\* last: the day of last_daily_charge_at.  end: the day of end_date.
\* touched: updated_at, within the last minute, the last day or before.
Row == [status : Status, paused : BOOLEAN, last : 1 .. MaxDay,
        end : 1 .. MaxDay + 1, touched : {"minute", "day", "before"}]

Idle == [pc |-> "idle"]
\* saw: the row as the task read it last.
Job ==
    {Idle}
    \cup [pc : {"expire", "topup"}]
    \cup [pc : {"revive", "charge", "cabinet", "bot", "pay",
                "apply", "resume", "activate", "stamp"}, saw : Row]

\* Type correctness; with it, that a day is never charged for beyond the balance.
TypeOK ==
    /\ now \in 1 .. MaxDay
    /\ row \in Row
    /\ balance \in 0 .. Opening + MaxCalls * Price
    /\ task \in [Worker -> Job]
    /\ bill \in Nat /\ doubt \in BOOLEAN
    /\ calls \in 0 .. MaxCalls /\ acts \in 0 .. MaxActs /\ faults \in 0 .. MaxFaults

\* Just bought, and paid for the first day.
Init ==
    /\ now = 1
    /\ row = [status |-> "active", paused |-> FALSE, last |-> 1, end |-> 2,
              touched |-> "minute"]
    /\ balance = Opening
    /\ task = [t \in Worker |-> Idle]
    /\ bill = 1 /\ doubt = FALSE
    /\ calls = 0 /\ acts = 0 /\ faults = 0

-----------------------------------------------------------------------------
(* Rows and charges.                                                       *)

Become(t, j) == task' = [task EXCEPT ![t] = j]
Done(t) == Become(t, Idle)

\* Every write sets updated_at (onupdate).  A session that has just read the row
\* writes only what differs.
Write(r) == row' = [r EXCEPT !.touched = "minute"]
Save(r) == IF r = row THEN UNCHANGED row ELSE Write(r)

\* A day from now on.  The manual ways set the end, the others never shorten it.
Given(r) == [r EXCEPT !.last = now, !.end = now + 1]
Extended(r) == [r EXCEPT !.last = now, !.end = IF @ < now + 1 THEN now + 1 ELSE @]

\* An attribute the session takes for unchanged is not written.
Activated(r, saw) == IF saw.status = "active" THEN r ELSE [r EXCEPT !.status = "active"]

\* A task between the commit of its charge and its last write.
Charged(t) == task[t].pc \in {"apply", "resume", "activate", "stamp"}

Same(r) == <<r.status, r.paused, r.last>> = <<row.status, row.paused, row.last>>

\* t goes by saw while the row is another or is about to be.
Doubtful(t, saw) == ~Same(saw) \/ \E o \in Worker \ {t} : Charged(o)

\* t writes what its charge was made for.
Finish(t) == doubt' = (doubt \/ ~Same(task[t].saw))

\* Mutant: the balance is not looked at again under the lock.
Charge_Unchecked(t, saw) ==
    /\ balance' = balance - Price
    /\ bill' = bill + 1
    /\ doubt' = (doubt \/ Doubtful(t, saw))

\* subtract_user_balance, the user's row being locked and its image refreshed.
Charge(t, saw) ==
    /\ balance >= Price
    /\ balance' = balance - Price
    /\ bill' = bill + 1
    /\ doubt' = (doubt \/ Doubtful(t, saw))

-----------------------------------------------------------------------------
(* The loop: process_auto_resume and process_daily_charges.                *)

Due == row.last < now

\* get_disabled_daily_subscriptions_for_resume, get_expired_daily_...,
\* get_limited_daily_...: what may be taken up again.
Resumable ==
    /\ ~row.paused /\ balance > 0
    /\ \/ row.status = "disabled"
       \/ row.status = "expired" /\ row.touched # "before"
       \/ row.status = "limited" /\ Due /\ ResetsTraffic

\* get_daily_subscriptions_for_charge
Chargeable == row.status = "active" /\ ~row.paused /\ Due

List ==
    /\ task[Loop] = Idle
    /\ \/ Resumable /\ Become(Loop, [pc |-> "revive", saw |-> row])
       \/ Chargeable /\ Become(Loop, [pc |-> "charge", saw |-> row])
    /\ UNCHANGED <<now, account, ghost, spent>>

\* Made active first: the charge that follows suspends it again or lasts.
Revive ==
    /\ task[Loop].pc = "revive"
    /\ Write([row EXCEPT !.status = "active"])
    /\ doubt' = (doubt \/ Doubtful(Loop, task[Loop].saw))
    /\ Become(Loop, [pc |-> "charge", saw |-> [row EXCEPT !.status = "active"]])
    /\ UNCHANGED <<now, balance, bill, spent>>

\* Mutant: the day of the charge is not noted.
LoopCharge_Unstamped ==
    /\ task[Loop].pc = "charge"
    /\ Charge(Loop, task[Loop].saw)
    /\ UNCHANGED row
    /\ Done(Loop)
    /\ UNCHANGED <<now, spent>>

\* _process_single_charge: balance, transaction and dates in one commit.
LoopCharge ==
    /\ task[Loop].pc = "charge"
    /\ Charge(Loop, task[Loop].saw)
    /\ Write(Extended(row))
    /\ Done(Loop)
    /\ UNCHANGED <<now, spent>>

\* Mutant: what cannot be paid is left as it is.
Suspend_Skipped ==
    /\ task[Loop].pc = "charge"
    /\ balance < Price
    /\ Done(Loop)
    /\ UNCHANGED <<now, account, ghost, spent>>

Suspend ==
    /\ task[Loop].pc = "charge"
    /\ balance < Price
    /\ Save([row EXCEPT !.status = "disabled"])
    /\ doubt' = (doubt \/ Doubtful(Loop, task[Loop].saw))
    /\ Done(Loop)
    /\ UNCHANGED <<now, balance, bill, spent>>

-----------------------------------------------------------------------------
(* The owner's switch: three ways to pause and to resume.                   *)

Request(t) ==
    /\ t \in Task /\ task[t] = Idle
    /\ calls < MaxCalls /\ calls' = calls + 1
    /\ UNCHANGED <<acts, faults>>

\* A suspended subscription is resumed whether or not it is paused.
Pauses(r) == r.status = "active" /\ ~r.paused

\* The mini app reads the row under the lock of the user, and commits once.
MiniApp(t) ==
    /\ Request(t)
    /\ \/ /\ Pauses(row)
          /\ Write([row EXCEPT !.paused = TRUE])
          /\ UNCHANGED <<balance, ghost>>
       \/ /\ ~Pauses(row) /\ row.status = "active" /\ balance >= Price
          /\ Write([row EXCEPT !.paused = FALSE])
          /\ UNCHANGED <<balance, ghost>>
       \/ /\ row.status \in Inactive
          /\ Charge(t, row)
          /\ Write([Given(row) EXCEPT !.status = "active", !.paused = FALSE])
    /\ UNCHANGED <<now, task>>

\* The cabinet and the bot decide on what they read before the lock.
Look(t, pc) ==
    /\ Request(t)
    /\ Become(t, [pc |-> pc, saw |-> row])
    /\ UNCHANGED <<now, account, ghost>>

\* toggle_subscription_pause.  The charge reads the user's subscriptions again
\* (populate_existing) and so forgets that the pause was to be lifted.
Cabinet(t) ==
    LET saw == task[t].saw IN
    /\ task[t].pc = "cabinet"
    /\ \/ /\ Pauses(saw)
          /\ Save([row EXCEPT !.paused = TRUE])
          /\ Done(t)
          /\ UNCHANGED <<balance, ghost>>
       \/ /\ ~Pauses(saw) /\ balance < Price
          /\ Done(t)
          /\ UNCHANGED <<account, ghost>>
       \/ /\ ~Pauses(saw) /\ saw.status = "active" /\ balance >= Price
          /\ Save([row EXCEPT !.paused = FALSE])
          /\ Done(t)
          /\ UNCHANGED <<balance, ghost>>
       \/ /\ saw.status \in Inactive
          /\ Charge(t, saw)
          /\ Become(t, [pc |-> "apply", saw |-> row])
          /\ UNCHANGED row
    /\ UNCHANGED <<now, spent>>

Apply(t) ==
    /\ task[t].pc = "apply"
    /\ Write(Given(Activated(row, task[t].saw)))
    /\ Finish(t)
    /\ Done(t)
    /\ UNCHANGED <<now, balance, bill, spent>>

\* resume_daily_subscription: what was inactive when it was last read gets a day.
Resumed(saw) ==
    LET r == IF saw.paused THEN [row EXCEPT !.paused = FALSE] ELSE row
    IN IF saw.status = "active" THEN Save(r) ELSE Write(Given(Activated(r, saw)))

\* handle_toggle_daily_subscription_pause
Bot(t) ==
    LET saw == task[t].saw IN
    /\ task[t].pc = "bot"
    /\ \/ /\ Pauses(saw)
          /\ Write([row EXCEPT !.paused = TRUE])
          /\ Done(t)
          /\ UNCHANGED <<balance, ghost>>
       \/ /\ ~Pauses(saw) /\ balance < Price
          /\ Done(t)
          /\ UNCHANGED <<account, ghost>>
       \/ /\ ~Pauses(saw) /\ saw.status = "active" /\ balance >= Price
          /\ Resumed(row)
          /\ Done(t)
          /\ doubt' = (doubt \/ Doubtful(t, saw))
          /\ UNCHANGED <<balance, bill>>
       \/ /\ saw.status \in Inactive
          /\ Charge(t, saw)
          /\ Become(t, [pc |-> "resume", saw |-> row])
          /\ UNCHANGED row
    /\ UNCHANGED <<now, spent>>

BotResume(t) ==
    /\ task[t].pc = "resume"
    /\ Resumed(task[t].saw)
    /\ Done(t)
    /\ Finish(t)
    /\ UNCHANGED <<now, balance, bill, spent>>

-----------------------------------------------------------------------------
(* try_resume_disabled_daily_after_topup                                   *)

\* The payment is credited and committed; its handler goes on.
TopUp(t) ==
    /\ Request(t)
    /\ \E amount \in 1 .. Price : balance' = balance + amount
    /\ Become(t, [pc |-> "topup"])
    /\ UNCHANGED <<now, row, ghost>>

TopUpLook(t) ==
    /\ task[t].pc = "topup"
    /\ IF /\ row.status \in Inactive /\ ~row.paused
          /\ row.status = "limited" => ResetsTraffic
       THEN Become(t, [pc |-> "pay", saw |-> row])
       ELSE Done(t)
    /\ UNCHANGED <<now, account, ghost, spent>>

\* A row written less than a minute ago has just been charged by another task.
Pay(t) ==
    /\ task[t].pc = "pay"
    /\ IF balance >= Price /\ row.touched # "minute"
       THEN /\ Charge(t, task[t].saw)
            /\ Become(t, [pc |-> "activate", saw |-> row])
       ELSE Done(t) /\ UNCHANGED <<balance, ghost>>
    /\ UNCHANGED <<now, row, spent>>

Activate(t) ==
    /\ task[t].pc = "activate"
    /\ IF task[t].saw.status = "active" THEN UNCHANGED row
       ELSE Write(Activated(row, task[t].saw))
    /\ Finish(t)
    /\ Become(t, [pc |-> "stamp", saw |-> Activated(row, task[t].saw)])
    /\ UNCHANGED <<now, balance, bill, spent>>

\* The activation fails and the charge is paid back.
Refund(t) ==
    /\ task[t].pc = "activate"
    /\ faults < MaxFaults /\ faults' = faults + 1
    /\ balance' = balance + Price /\ bill' = bill - 1
    /\ Done(t)
    /\ UNCHANGED <<now, row, doubt, calls, acts>>

Stamp(t) ==
    /\ task[t].pc = "stamp"
    /\ Write(Extended(row))
    /\ Finish(t)
    /\ Done(t)
    /\ UNCHANGED <<now, balance, bill, spent>>

-----------------------------------------------------------------------------
(* Everybody else.                                                         *)

\* Only paused ones run out; the condition is looked at again with the write.
MonitorLists ==
    /\ task[Monitor] = Idle
    /\ row.status = "active" /\ row.paused /\ row.end <= now
    /\ Become(Monitor, [pc |-> "expire"])
    /\ UNCHANGED <<now, account, ghost, spent>>

MonitorExpires ==
    /\ task[Monitor].pc = "expire"
    /\ IF row.status = "active" /\ row.end <= now
       THEN Write([row EXCEPT !.status = "expired"])
       ELSE UNCHANGED row
    /\ Done(Monitor)
    /\ UNCHANGED <<now, balance, ghost, spent>>

Act ==
    /\ acts < MaxActs /\ acts' = acts + 1
    /\ UNCHANGED <<now, task, bill, calls, faults>>

\* The traffic of the day is used up (webhook user.limited).
PanelLimits ==
    /\ Act
    /\ row.status = "active"
    /\ Write([row EXCEPT !.status = "limited"])
    /\ doubt' = TRUE
    /\ UNCHANGED balance

\* Webhooks user.enabled and user.traffic_reset.
PanelEnables ==
    /\ Act
    /\ row.status \in {"disabled", "limited"} /\ row.end > now
    /\ Write([row EXCEPT !.status = "active"])
    /\ UNCHANGED <<balance, doubt>>

\* The administrator ends the subscription: paused, lest the loop takes it up.
Deactivate ==
    /\ Act
    /\ Write([row EXCEPT !.status = "expired", !.paused = TRUE, !.end = now])
    /\ doubt' = TRUE
    /\ UNCHANGED balance

\* The owner left the channel, or the subscription was ended in the bot's
\* administration or by the web API (deactivate_subscription): not paused.  The
\* webhook user.disabled does it to paused ones only.
Disable ==
    /\ Act
    /\ row.status # "disabled"
    /\ Write([row EXCEPT !.status = "disabled"])
    /\ doubt' = TRUE
    /\ UNCHANGED balance

BuyElse ==
    /\ Act
    /\ balance >= Price /\ balance' = balance - Price
    /\ UNCHANGED <<row, doubt>>

\* Any exception: the transaction is rolled back, what was committed stays.
Raises(t) ==
    /\ faults < MaxFaults /\ faults' = faults + 1
    /\ task[t].pc \notin {"idle", "activate"}
    /\ doubt' = (doubt \/ Charged(t))
    /\ Done(t)
    /\ UNCHANGED <<now, account, bill, calls, acts>>

Crash ==
    /\ faults < MaxFaults /\ faults' = faults + 1
    /\ \E t \in Worker : task[t] # Idle
    /\ task' = [t \in Worker |-> Idle]
    /\ doubt' = (doubt \/ \E t \in Worker : Charged(t))
    /\ UNCHANGED <<now, account, bill, calls, acts>>

Minute ==
    /\ row.touched = "minute"
    /\ row' = [row EXCEPT !.touched = "day"]
    /\ UNCHANGED <<now, balance, task, ghost, spent>>

\* 24 hours pass: no task takes that long.
Tick ==
    /\ now < MaxDay /\ now' = now + 1
    /\ \A t \in Worker : task[t] = Idle
    /\ row' = [row EXCEPT !.touched = IF @ = "minute" THEN "day" ELSE "before"]
    /\ bill' = 0 /\ doubt' = FALSE
    /\ UNCHANGED <<balance, task, spent>>

-----------------------------------------------------------------------------
Step(t) ==
    \/ t = Loop /\ (Revive \/ LoopCharge \/ Suspend)
    \/ t = Monitor /\ MonitorExpires
    \/ Cabinet(t) \/ Apply(t) \/ Bot(t) \/ BotResume(t)
    \/ TopUpLook(t) \/ Pay(t) \/ Activate(t) \/ Stamp(t)

Next ==
    \/ List \/ MonitorLists
    \/ \E t \in Worker : Step(t) \/ Refund(t) \/ Raises(t)
    \/ \E t \in Task :
          MiniApp(t) \/ Look(t, "cabinet") \/ Look(t, "bot") \/ TopUp(t)
    \/ PanelLimits \/ PanelEnables \/ Deactivate \/ Disable \/ BuyElse
    \/ Crash \/ Minute \/ Tick

Spec == Init /\ [][Next]_vars

\* The loop comes round every half hour, and a task that runs goes on.
FairSpec == Spec /\ WF_vars(List) /\ \A t \in Worker : WF_vars(Step(t))

-----------------------------------------------------------------------------
(* Properties.                                                             *)

\* As long as no task acted on a row that had changed since it was read, none
\* broke off between charge and write, and the service was not cut, the day is
\* charged for once, and exactly if it is given: no way of resuming charges a day
\* the loop or another way has charged, and none gives a day away.
DayIsPaidOnce ==
    ~doubt =>
        /\ bill <= 1
        /\ (\A t \in Worker : ~Charged(t)) => (bill = 1 <=> row.last = now)

\* The loop leaves no due subscription unsettled: it is charged, or it is out of
\* service for want of money, whatever failed or was resumed half way.  What
\* expired more than a day ago is left to the next top-up.
DueIsSettled ==
    (Due /\ ~row.paused) ~>
        \/ ~Due \/ row.paused
        \/ row.status \in Inactive /\ balance < Price
        \/ row.status = "expired" /\ row.touched = "before"

\* "Charges the fee once a day": the loop charges only when the next day has come,
\* also for what it takes up again.
LoopChargesDue == [][LoopCharge => Due]_vars
=============================================================================
