------------------------------ MODULE Referral ------------------------------
(***************************************************************************)
(* What a partner earns by the person he invited, and how he takes it out. *)
(* A top-up of the invited one pays a reward: the partner's balance is     *)
(* raised in one transaction, the earning is noted in another.  Earnings   *)
(* entitle to withdrawals, which he requests and administrators decide on. *)
(*                                                                         *)
(* One partner, one invited person, the classic scheme of rewards.  A step *)
(* is what a task does up to its next commit, or up to what it has read    *)
(* and will act on later.                                                  *)
(***************************************************************************)
EXTENDS Integers, FiniteSets

CONSTANTS
    Task,           \* payments, bot updates and web requests in progress
    Request, NoRequest,
    Commission,     \* of a top-up
    InviterBonus,   \* with the first sufficient one
    MaxCommissions, \* REFERRAL_MAX_COMMISSION_PAYMENTS; 0: no limit
    MinWithdrawal,
    OnlyReferral,   \* REFERRAL_WITHDRAWAL_ONLY_REFERRAL_BALANCE
    MaxTopUps       \* bound: top-ups, of the invited person and the partner

ASSUME ConstantsAssumption ==
    /\ NoRequest \notin Request
    /\ Commission \in Nat /\ InviterBonus \in Nat
    /\ MaxCommissions \in Nat /\ MinWithdrawal \in Nat
    /\ OnlyReferral \in BOOLEAN
    /\ IsFiniteSet(Task) /\ IsFiniteSet(Request)
    /\ MaxTopUps \in Nat

VARIABLES
    flag,       \* has_made_first_topup of the invited person
    balance,    \* the partner's
    earned,     \* his earnings' rows: their sum, and how many are commissions
    request,    \* [Request -> [status, amount]]
    last,       \* the latest request
    cool,       \* it is not older than the cooldown
    task,       \* [Task -> Job]
    bonuses,    \* first-top-up bonuses paid to the invited person
    credited,   \* rewards paid to the partner
    charged,    \* [Request -> Nat], withdrawal transactions
    stale,      \* requests decided on by what was no longer so
    overlap,    \* a first top-up was taken for the first beside another
    topups

rewards == <<flag, earned, bonuses, credited, overlap>>
withdrawals == <<request, last, cool, charged, stale>>
vars == <<rewards, balance, withdrawals, task, topups>>

Status == {"none", "pending", "approved", "rejected", "completed", "cancelled"}
Most == MaxTopUps * (Commission + InviterBonus + 1)

Idle == [pc |-> "idle"]
\* saw: the status, the balance or the flag as the task read it without a lock.
Job ==
    {Idle}
    \cup [pc : {"reward"}, saw : BOOLEAN, enough : BOOLEAN]
    \cup [pc : {"bonus"}]
    \cup [pc : {"credit", "note"}, first : BOOLEAN]
    \cup [pc : {"ask"}, saw : 0 .. Most]
    \cup [pc : {"decide"}, r : Request, saw : Status]

\* Type correctness; with it, that no withdrawal overdraws the balance.
TypeOK ==
    /\ flag \in BOOLEAN
    /\ balance \in 0 .. Most
    /\ earned \in [sum : 0 .. Most, commissions : 0 .. MaxTopUps]
    /\ request \in [Request -> [status : Status, amount : 0 .. Most]]
    /\ last \in Request \cup {NoRequest} /\ cool \in BOOLEAN
    /\ task \in [Task -> Job]
    /\ bonuses \in 0 .. MaxTopUps /\ credited \in 0 .. Most
    /\ charged \in [Request -> Nat]
    /\ stale \subseteq Request /\ overlap \in BOOLEAN
    /\ topups \in 0 .. MaxTopUps

Init ==
    /\ flag = FALSE /\ balance = 0
    /\ earned = [sum |-> 0, commissions |-> 0]
    /\ request = [r \in Request |-> [status |-> "none", amount |-> 0]]
    /\ last = NoRequest /\ cool = FALSE
    /\ task = [t \in Task |-> Idle]
    /\ bonuses = 0 /\ credited = 0
    /\ charged = [r \in Request |-> 0]
    /\ stale = {} /\ overlap = FALSE
    /\ topups = 0

Become(t, j) == task' = [task EXCEPT ![t] = j]
Done(t) == Become(t, Idle)

-----------------------------------------------------------------------------
(* process_referral_topup.                                                 *)

\* The payment has been credited; the invited person was read with it.
TopUp(t) ==
    /\ task[t] = Idle
    /\ topups < MaxTopUps /\ topups' = topups + 1
    /\ \E enough \in BOOLEAN :
          Become(t, [pc |-> "reward", saw |-> flag, enough |-> enough])
    /\ UNCHANGED <<rewards, balance, withdrawals>>

\* _is_commission_limit_reached counts the rows there are.
LimitReached == MaxCommissions > 0 /\ earned.commissions >= MaxCommissions

\* Mutant: the first top-up is not remembered.
FirstReward_Unflagged(t) ==
    /\ task[t].pc = "reward" /\ ~task[t].saw /\ task[t].enough
    /\ overlap' = (overlap \/ flag)
    /\ Become(t, [pc |-> "bonus"])
    /\ UNCHANGED <<flag, earned, bonuses, credited, balance, withdrawals, topups>>

\* The first sufficient top-up is remembered before anything is paid for it.
FirstReward(t) ==
    /\ task[t].pc = "reward" /\ ~task[t].saw /\ task[t].enough
    /\ flag' = TRUE
    /\ overlap' = (overlap \/ flag)
    /\ Become(t, [pc |-> "bonus"])
    /\ UNCHANGED <<earned, bonuses, credited, balance, withdrawals, topups>>

\* Mutant: the limit is not looked at.
NextReward_Unlimited(t) ==
    /\ task[t].pc = "reward" /\ (task[t].saw \/ ~task[t].enough)
    /\ IF Commission > 0 THEN Become(t, [pc |-> "credit", first |-> FALSE])
       ELSE Done(t)
    /\ UNCHANGED <<rewards, balance, withdrawals, topups>>

\* Any other top-up earns a commission as long as the limit is not reached.
NextReward(t) ==
    /\ task[t].pc = "reward" /\ (task[t].saw \/ ~task[t].enough)
    /\ IF Commission > 0 /\ ~LimitReached
       THEN Become(t, [pc |-> "credit", first |-> FALSE])
       ELSE Done(t)
    /\ UNCHANGED <<rewards, balance, withdrawals, topups>>

\* The invited person's bonus; if it fails the partner is paid nevertheless.
Bonus(t) ==
    /\ task[t].pc = "bonus"
    /\ bonuses' \in {bonuses, bonuses + 1}
    /\ IF Commission + InviterBonus > 0
       THEN Become(t, [pc |-> "credit", first |-> TRUE])
       ELSE Done(t)
    /\ UNCHANGED <<flag, earned, credited, overlap, balance, withdrawals, topups>>

Amount(first) == IF first THEN Commission + InviterBonus ELSE Commission

\* add_user_balance, under the lock of the partner's row.
Credit(t) ==
    LET a == Amount(task[t].first) IN
    /\ task[t].pc = "credit"
    /\ balance' = balance + a /\ credited' = credited + a
    /\ Become(t, [pc |-> "note", first |-> task[t].first])
    /\ UNCHANGED <<flag, earned, bonuses, overlap, withdrawals, topups>>

\* add_user_balance answers False: rolled back, and no earning is noted.
CreditFails(t) ==
    /\ task[t].pc = "credit"
    /\ Done(t)
    /\ UNCHANGED <<rewards, balance, withdrawals, topups>>

\* create_referral_earning
Note(t) ==
    /\ task[t].pc = "note"
    /\ earned' = [sum |-> earned.sum + Amount(task[t].first),
                  commissions |-> earned.commissions + (IF task[t].first THEN 0 ELSE 1)]
    /\ Done(t)
    /\ UNCHANGED <<flag, bonuses, credited, overlap, balance, withdrawals, topups>>

-----------------------------------------------------------------------------
(* Requests for a withdrawal.                                              *)

\* The amounts of the requests in S, counted unit by unit.
Sum(S) == Cardinality({u \in S \X (1 .. Most) : u[2] <= request[u[1]].amount})
With(statuses) == {r \in Request : request[r].status \in statuses}

\* Mutant: what is approved counts only once it has been paid out.
Withdrawn_PaidOut == Sum(With({"completed"}))

Withdrawn == Sum(With({"approved", "completed"}))
Pending == Sum(With({"pending"}))

\* get_referral_balance_stats: what the partner may take out.
Entitlement ==
    LET left == earned.sum - Withdrawn - Pending
    IN IF left > 0 THEN left ELSE 0

Available(saw) ==
    IF OnlyReferral /\ Entitlement < saw THEN Entitlement ELSE saw

\* Nothing is known of a request that is still to be made: the partner's row was
\* read at the beginning of the update.
Ask(t) ==
    /\ task[t] = Idle
    /\ Become(t, [pc |-> "ask", saw |-> balance])
    /\ UNCHANGED <<rewards, balance, withdrawals, topups>>

\* can_request_withdrawal
MayRequest(saw) ==
    /\ Available(saw) >= MinWithdrawal
    /\ ~cool
    /\ last # NoRequest => request[last].status # "pending"

\* create_withdrawal_request: the partner's row is locked, but its balance is that
\* of the image read before; requests and earnings are counted afresh.
Create(t, r) ==
    LET saw == task[t].saw IN
    /\ task[t].pc = "ask" /\ request[r].status = "none"
    /\ MayRequest(saw)
    /\ \E a \in 1 .. Available(saw) :
          request' = [request EXCEPT ![r] = [status |-> "pending", amount |-> a]]
    /\ last' = r /\ cool' = TRUE
    /\ Done(t)
    /\ UNCHANGED <<rewards, balance, charged, stale, topups>>

Refuse(t) ==
    /\ task[t].pc = "ask" /\ (~MayRequest(task[t].saw) \/ Available(task[t].saw) = 0)
    /\ Done(t)
    /\ UNCHANGED <<rewards, balance, withdrawals, topups>>

Cooled ==
    /\ cool /\ cool' = FALSE
    /\ UNCHANGED <<rewards, balance, request, last, charged, stale, task, topups>>

-----------------------------------------------------------------------------
(* Decisions.  The cabinet's read the request under its lock.  The bot's    *)
(* have read it before, and go by that image when they have the lock.       *)

Move(r, s, saw) ==
    /\ request' = [request EXCEPT ![r].status = s]
    /\ stale' = IF request[r].status = saw THEN stale ELSE stale \cup {r}
    /\ UNCHANGED <<rewards, last, cool, topups>>

\* Mutant: a request decided on may be approved.
Approve_Any(r, saw) ==
    /\ saw # "none"
    /\ balance >= request[r].amount
    /\ balance' = balance - request[r].amount
    /\ charged' = [charged EXCEPT ![r] = @ + 1]
    /\ Move(r, "approved", saw)

\* Mutant: the balance is not looked at.
Approve_Unchecked(r, saw) ==
    /\ saw = "pending"
    /\ balance' = balance - request[r].amount
    /\ charged' = [charged EXCEPT ![r] = @ + 1]
    /\ Move(r, "approved", saw)

\* approve_request: the partner's row is locked, and its balance is current.
Approve(r, saw) ==
    /\ saw = "pending"
    /\ balance >= request[r].amount
    /\ balance' = balance - request[r].amount
    /\ charged' = [charged EXCEPT ![r] = @ + 1]
    /\ Move(r, "approved", saw)

Reject(r, saw) ==
    /\ saw = "pending"
    /\ Move(r, "rejected", saw)
    /\ UNCHANGED <<balance, charged>>

Complete(r, saw) ==
    /\ saw = "approved"
    /\ Move(r, "completed", saw)
    /\ UNCHANGED <<balance, charged>>

CabinetDecides(r) ==
    /\ LET saw == request[r].status
       IN Approve(r, saw) \/ Reject(r, saw) \/ Complete(r, saw)
    /\ UNCHANGED task

\* cancel_withdrawal, by the partner
Cancel(r) ==
    /\ request[r].status = "pending"
    /\ Move(r, "cancelled", "pending")
    /\ UNCHANGED <<balance, charged, task>>

BotOpens(t, r) ==
    /\ task[t] = Idle
    /\ request[r].status \in {"pending", "approved"}
    /\ Become(t, [pc |-> "decide", r |-> r, saw |-> request[r].status])
    /\ UNCHANGED <<rewards, balance, withdrawals, topups>>

BotDecides(t) ==
    LET j == task[t] IN
    /\ j.pc = "decide"
    /\ Approve(j.r, j.saw) \/ Reject(j.r, j.saw) \/ Complete(j.r, j.saw)
    /\ Done(t)

-----------------------------------------------------------------------------
(* Everybody else.                                                         *)

Spend ==
    /\ balance > 0 /\ balance' = balance - 1
    /\ UNCHANGED <<rewards, withdrawals, task, topups>>

OwnTopUp ==
    /\ topups < MaxTopUps /\ topups' = topups + 1
    /\ balance' = balance + 1
    /\ UNCHANGED <<rewards, withdrawals, task>>

\* An exception or the death of the process ends a task; what it committed stays.
Breaks(t) ==
    /\ task[t] # Idle
    /\ Done(t)
    /\ UNCHANGED <<rewards, balance, withdrawals, topups>>

Next ==
    \/ \E t \in Task :
          \/ TopUp(t) \/ FirstReward(t) \/ NextReward(t) \/ Bonus(t)
          \/ Credit(t) \/ CreditFails(t) \/ Note(t)
          \/ Ask(t) \/ Refuse(t) \/ BotDecides(t) \/ Breaks(t)
          \/ \E r \in Request : Create(t, r) \/ BotOpens(t, r)
    \/ \E r \in Request : CabinetDecides(r) \/ Cancel(r)
    \/ Cooled \/ Spend \/ OwnTopUp

Spec == Init /\ [][Next]_vars

-----------------------------------------------------------------------------
(* Properties.                                                             *)

\* One request is under way at most, however often the partner presses the button
\* in bot and cabinet: the lock of his row makes the second see the first.
OneOpenRequest == Cardinality(With({"pending"})) <= 1

\* "A partner cannot withdraw more than he has earned, less what is withdrawn or
\* frozen" (get_referral_balance_stats): as long as no decision went by what was
\* no longer so, all that is pending, approved or paid out has been earned, while
\* the earnings and the requests go on; and what is noted as earned has come to the
\* balance, though credit and note are two commits.
WithinEntitlement ==
    /\ OnlyReferral /\ stale = {} =>
         Sum(With({"pending", "approved", "completed"})) <= earned.sum
    /\ earned.sum <= credited

\* A request is paid for by one charge exactly if it was approved, and not at all
\* if it was rejected or cancelled, unless decided on by what was no longer so.
ChargedIfApproved ==
    \A r \in Request \ stale :
        charged[r] = IF request[r].status \in {"approved", "completed"} THEN 1 ELSE 0

\* The bonus of the first top-up is paid once, whatever fails and however many
\* top-ups follow, unless two were taken for the first at the same time.
BonusOnce == ~overlap => bonuses <= 1

\* The limit is looked at before the commission is paid and noted: it is overshot
\* at the most by the payments that were in progress beside the last one.
LimitIsKept ==
    MaxCommissions > 0 =>
        earned.commissions
          + Cardinality({t \in Task : task[t].pc \in {"credit", "note"} /\ ~task[t].first})
        <= MaxCommissions + Cardinality(Task) - 1
=============================================================================
