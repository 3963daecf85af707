------------------------------- MODULE Wheel -------------------------------
(***************************************************************************)
(* The wheel of fortune: spins of one user, paid from his balance, by days *)
(* of his subscription, or by Telegram Stars, whose message may be         *)
(* delivered again.  A spin is meant to be one transaction under the lock  *)
(* of the user's row; but whatever changes the subscription is pushed to   *)
(* the panel on the way, and that push commits.                            *)
(*                                                                         *)
(* One tariff per user, with traffic to win; one active subscription,      *)
(* linked to its account; the wheel is on and has prizes; within a day.    *)
(***************************************************************************)
EXTENDS Integers, FiniteSets

CONSTANTS
    Task,           \* requests of the cabinet, messages about Stars
    Charge,         \* payments by Stars
    Free,           \* the user's row is not locked
    Limit,          \* daily_spin_limit
    Cost, Bonus,    \* of a spin from the balance; a prize in money
    Fee, Gift,      \* of a spin by days; a prize in days
    Floor,          \* min_subscription_days_for_day_payment
    OpeningBalance, OpeningDays,
    MaxCalls, MaxFaults     \* bounds

ASSUME WheelAssumption ==
    /\ IsFiniteSet(Task)
    /\ Free \notin Task /\ {"balance", "days"} \cap Charge = {}
    /\ {Limit, Cost, Bonus, Fee, Gift} \subseteq Nat \ {0}
    /\ {Floor, OpeningBalance, OpeningDays, MaxCalls, MaxFaults} \subseteq Nat

VARIABLES
    money, days,    \* of the user and of his subscription
    spins, seen,    \* WheelSpins of the day, and which Stars they name
    lock,           \* the task that holds the user's row
    play,           \* [Task -> what it is doing]
    owed,           \* charges of the cabinet committed, less prizes committed
    forgiven,       \* charges that were forgotten with their prize
    forfeited,      \* charges whose spin broke off
    apart,          \* a spin was without the lock between its count and its record
    given,          \* [Charge -> prizes committed for it]
    hasty,          \* Stars whose prize was committed before its record
    calls, faults

accounts == <<money, days>>
records == <<spins, seen>>
history == <<owed, forgiven, forfeited, apart, given, hasty>>
counters == <<calls, faults>>
wheelVars == <<accounts, records, lock, play, history, counters>>

AtRest == [pc |-> "idle"]
Method == {"balance", "days"} \cup Charge
\* image: the days its session remembers.
Play ==
    {AtRest} \cup [pc : {"lock"}, by : {"balance", "days"}]
    \cup [pc : {"pay"}, by : {"days"}, image : Nat]
    \cup [pc : {"count"}, by : Charge, image : Nat]
    \cup [pc : {"prize"}, by : Method, image : Nat]
    \cup [pc : {"record"}, by : Method]

\* Type correctness; the balance and the days are never overdrawn.
WheelTypeOK ==
    /\ money \in Nat /\ days \in Nat
    /\ spins \in Nat /\ seen \subseteq Charge
    /\ lock \in Task \cup {Free}
    /\ play \in [Task -> Play]
    /\ owed \in Int /\ {forgiven, forfeited} \subseteq Nat /\ apart \in BOOLEAN
    /\ given \in [Charge -> Nat] /\ hasty \subseteq Charge

WheelInit ==
    /\ money = OpeningBalance /\ days = OpeningDays
    /\ spins = 0 /\ seen = {}
    /\ lock = Free
    /\ play = [t \in Task |-> AtRest]
    /\ owed = 0 /\ forgiven = 0 /\ forfeited = 0 /\ apart = FALSE
    /\ given = [c \in Charge |-> 0] /\ hasty = {}
    /\ calls = 0 /\ faults = 0

Turn(t, j) == play' = [play EXCEPT ![t] = j]
Released(t) == IF lock = t THEN Free ELSE lock
Affords(by) ==
    \/ by = "balance" /\ money >= Cost
    \/ by = "days" /\ days >= Floor + Fee

\* A new WheelSpin; its reference to the user waits for whoever holds the row.
Recorded(t) ==
    /\ lock \in {Free, t}
    /\ spins' = spins + 1
    /\ seen' = seen \cup ({play[t].by} \cap Charge)

\* The prize is committed, with what is paid in the same commit.
Won(by, paid) ==
    /\ owed' = IF by \in Charge THEN owed ELSE owed + paid - 1
    /\ given' = [c \in Charge |-> given[c] + (IF c = by THEN 1 ELSE 0)]

\* A charge of the balance waits for the commit.
Paid(by) == IF by = "balance" THEN 1 ELSE 0

-----------------------------------------------------------------------------
(* FortuneWheelService.spin.                                               *)

\* check_availability, by what the request reads before it has the lock.
Ask(t, by) ==
    /\ play[t] = AtRest /\ calls < MaxCalls /\ calls' = calls + 1
    /\ spins < Limit /\ Affords(by)
    /\ Turn(t, [pc |-> "lock", by |-> by])
    /\ UNCHANGED <<accounts, records, lock, history, faults>>

\* Mutant: the limit is not looked at again.
Full_Unasked == FALSE

Full == spins >= Limit

\* Mutant: what is paid with is not looked at again.
StillAffords_Unasked(by) == TRUE

\* _process_stars_payment, _process_days_payment.
StillAffords(by) == Affords(by)

\* lock_user_for_update, the count under the lock, and the payment checked
\* against rows that the lock has read again.
Start(t) ==
    /\ play[t].pc = "lock" /\ lock = Free
    /\ IF Full \/ ~StillAffords(play[t].by)
         THEN Turn(t, AtRest) /\ lock' = lock
         ELSE /\ lock' = t
              /\ Turn(t, [pc |-> IF play[t].by = "days" THEN "pay" ELSE "prize",
                          by |-> play[t].by, image |-> days])
    /\ UNCHANGED <<accounts, records, history, counters>>

\* _process_days_payment pushes the new date, and update_remnawave_user commits.
PayDays(t) ==
    /\ play[t].pc = "pay"
    /\ days' = play[t].image - Fee
    /\ lock' = Released(t)
    /\ Turn(t, [pc |-> "prize", by |-> "days", image |-> days'])
    /\ owed' = owed + 1 /\ apart' = TRUE
    /\ UNCHANGED <<money, records, forgiven, forfeited, given, hasty, counters>>

-----------------------------------------------------------------------------
(* The prize, of a spin of the cabinet as of one paid by Stars.            *)

\* Mutant: a second message about the same Stars is not noticed.
Duplicate_Missed(by) == FALSE

\* The unique telegram_charge_id.
Duplicate(by) == by \in seen

RollsBack(t) ==
    /\ Duplicate(play[t].by)
    /\ Turn(t, AtRest)
    /\ UNCHANGED <<accounts, records, lock, history, counters>>

\* Nothing, or a promo code: payment, prize and record are one commit.
WinNothing(t) ==
    /\ play[t].pc = "prize"
    /\ \/ RollsBack(t)
       \/ /\ ~Duplicate(play[t].by)
          /\ Recorded(t)
          /\ money' = money - Cost * Paid(play[t].by)
          /\ Won(play[t].by, Paid(play[t].by))
          /\ lock' = Free /\ Turn(t, AtRest)
          /\ UNCHANGED <<days, forgiven, forfeited, apart, hasty, counters>>

\* Money.  add_user_balance reads the row again (populate_existing), and a charge
\* that was not flushed yet is forgotten.
WinMoney(t) ==
    /\ play[t].pc = "prize"
    /\ \/ RollsBack(t)
       \/ /\ ~Duplicate(play[t].by)
          /\ Recorded(t)
          /\ money' = money + Bonus
          /\ forgiven' = forgiven + Paid(play[t].by)
          /\ Won(play[t].by, 0)
          /\ lock' = Free /\ Turn(t, AtRest)
          /\ UNCHANGED <<days, forfeited, apart, hasty, counters>>

\* Days, or traffic, which leaves the days alone: pushed, and so committed with the
\* payment before the record.
WinDays(t) ==
    /\ play[t].pc = "prize"
    /\ days' \in {play[t].image + Gift, days}
    /\ money' = money - Cost * Paid(play[t].by)
    /\ Won(play[t].by, Paid(play[t].by))
    /\ lock' = Released(t)
    /\ Turn(t, [pc |-> "record", by |-> play[t].by])
    /\ apart' = TRUE
    /\ hasty' = hasty \cup ({play[t].by} \cap Charge)
    /\ UNCHANGED <<records, forgiven, forfeited, counters>>

Record(t) ==
    /\ play[t].pc = "record"
    /\ \/ RollsBack(t)
       \/ /\ ~Duplicate(play[t].by)
          /\ Recorded(t)
          /\ Turn(t, AtRest)
          /\ UNCHANGED <<accounts, lock, history, counters>>

-----------------------------------------------------------------------------
(* _handle_wheel_spin_payment: the Stars are paid already.                 *)

Message(t, c) ==
    /\ play[t] = AtRest /\ calls < MaxCalls /\ calls' = calls + 1
    /\ ~Duplicate(c)
    /\ Turn(t, [pc |-> "count", by |-> c, image |-> days])
    /\ UNCHANGED <<accounts, records, lock, history, faults>>

\* Without an active subscription, or at the limit, the Stars go to the balance;
\* nothing is recorded of them.
Refund(t) ==
    /\ play[t].pc = "count" /\ (play[t].image = 0 \/ Full)
    /\ lock = Free
    /\ money' = money + Cost
    /\ Turn(t, AtRest)
    /\ UNCHANGED <<days, records, lock, history, counters>>

\* The count is not taken under a lock.
Accept(t) ==
    /\ play[t].pc = "count" /\ play[t].image > 0 /\ ~Full
    /\ Turn(t, [play[t] EXCEPT !.pc = "prize"])
    /\ apart' = TRUE
    /\ UNCHANGED <<accounts, records, lock, owed, forgiven, forfeited, given, hasty,
                   counters>>

-----------------------------------------------------------------------------
\* Mutant: a spin goes on when its payment could not be pushed.
Broken_GoesOn(t) ==
    IF play[t].pc = "pay"
      THEN [pc |-> "prize", by |-> "days", image |-> play[t].image] ELSE AtRest

\* update_remnawave_user has rolled back, and the rows the spin goes on with
\* cannot be read any more; the process dies.
Broken(t) == AtRest

\* The panel refuses a push, or the process dies: what was not committed is
\* rolled back, and the spin ends.
Breaks(t) ==
    /\ play[t] # AtRest /\ faults < MaxFaults /\ faults' = faults + 1
    /\ Turn(t, Broken(t))
    /\ lock' = Released(t)
    /\ forfeited' = IF play[t].pc = "prize" /\ play[t].by = "days"
                      THEN forfeited + 1 ELSE forfeited
    /\ UNCHANGED <<accounts, records, owed, forgiven, apart, given, hasty, calls>>

WheelNext ==
    \E t \in Task :
        \/ \E by \in {"balance", "days"} : Ask(t, by)
        \/ Start(t) \/ PayDays(t)
        \/ WinNothing(t) \/ WinMoney(t) \/ WinDays(t) \/ Record(t)
        \/ \E c \in Charge : Message(t, c)
        \/ Refund(t) \/ Accept(t)
        \/ Breaks(t)

WheelSpec == WheelInit /\ [][WheelNext]_wheelVars

-----------------------------------------------------------------------------
\* "Holding this lock through create_wheel_spin [...] makes a second concurrent
\* spin block here until the first commits, then observe the updated count"
\* (wheel_service.py, spin): the limit of the day is kept.
LimitIsKept == spins <= Limit

\* So it is as long as spins keep the lock they counted under: without a push on
\* the way, and without Stars.
LimitUnlessApart == apart \/ LimitIsKept

\* "The whole spin is ONE transaction" (wheel_service.py, spin), of its charge and
\* its prize: there is no charge without a prize, unless its spin goes on or broke
\* off behind a payment that was pushed, and no prize without a charge, unless the
\* charge was forgotten for a prize in money.
ChargedForPrize ==
    owed + forgiven - forfeited =
        Cardinality({t \in Task : play[t].pc = "prize" /\ play[t].by = "days"})

\* "A redelivered successful_payment (same charge id) must not grant a second
\* prize" (tests/test_wheel_fixes.py): messages that overlap do not either, unless
\* the prize was pushed, and so committed before its record.
OncePerCharge == \A c \in Charge \ hasty : given[c] <= 1
=============================================================================
