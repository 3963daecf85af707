--------------------------- MODULE ReferralProofs ---------------------------
(***************************************************************************)
(* For any number of tasks and requests, any rates and limits: what the    *)
(* locks of the partner's row and of the requests' rows keep together.     *)
(***************************************************************************)
EXTENDS Referral, FiniteSetTheorems, TLAPS

-----------------------------------------------------------------------------
(* The inductive invariant.                                                *)

\* Job without the bound on amounts, which only TLC needs.
Work ==
    {Idle}
    \cup [pc : {"reward"}, saw : BOOLEAN, enough : BOOLEAN]
    \cup [pc : {"bonus"}]
    \cup [pc : {"credit", "note"}, first : BOOLEAN]
    \cup [pc : {"ask"}, saw : Nat]
    \cup [pc : {"decide"}, r : Request, saw : Status]

Types ==
    /\ flag \in BOOLEAN
    /\ balance \in Nat
    /\ earned \in [sum : Nat, commissions : Nat]
    /\ request \in [Request -> [status : Status, amount : Nat]]
    /\ last \in Request \cup {NoRequest}
    /\ task \in [Task -> Work]
    /\ bonuses \in Nat
    /\ charged \in [Request -> Nat]
    /\ overlap \in BOOLEAN

\* Nobody but the latest request waits for a decision.
OnlyLastIsOpen ==
    \A r \in Request : request[r].status = "pending" => r = last

\* The flag goes up before the bonus, and one task at most has seen it down.
BonusFacts ==
    ~overlap =>
        /\ bonuses <= 1
        /\ bonuses = 1 => flag /\ \A t \in Task : task[t].pc # "bonus"
        /\ \A t \in Task : task[t].pc = "bonus" => flag
        /\ \A s, t \in Task :
              task[s].pc = "bonus" /\ task[t].pc = "bonus" => s = t

IInv ==
    /\ Types
    /\ OnlyLastIsOpen
    /\ ChargedIfApproved
    /\ BonusFacts
    /\ LimitIsKept

\* Top-ups whose bonus, whose reward, or whose earning is still to come, and
\* the earnings to be noted.
Starting == {t \in Task : task[t].pc \in {"reward", "bonus"}}
ToPay == {t \in Task : task[t].pc \in {"reward", "bonus", "credit"}}
ToNote == {t \in Task : task[t].pc \in {"reward", "bonus", "credit", "note"}}
NotingFirst == {t \in Task : task[t].pc = "note" /\ task[t].first}
NotingNext == {t \in Task : task[t].pc = "note" /\ ~task[t].first}

Reward == Commission + InviterBonus

\* Every top-up brings one bonus, one reward and one earning at most, and what
\* is to be noted has been paid.
Accounts ==
    /\ topups \in 0 .. MaxTopUps /\ credited \in Nat
    /\ bonuses + Cardinality(Starting) <= topups
    /\ earned.commissions + Cardinality(ToNote) <= topups
    /\ credited + Cardinality(ToPay) * Reward <= topups * Reward
    /\ balance + Cardinality(ToPay) * Reward <= topups * (Reward + 1)
    /\ earned.sum + Cardinality(NotingFirst) * Reward
                  + Cardinality(NotingNext) * Commission <= credited

\* What a request asks for, and what a task saw, has been in the balance.
Amounts ==
    /\ \A r \in Request : request[r].amount <= Most
    /\ \A t \in Task : task[t].pc = "ask" => task[t].saw <= Most
    /\ stale \subseteq Request /\ cool \in BOOLEAN

\* All that is pending or was approved.
Open == With({"pending", "approved", "completed"})
Entitled == OnlyReferral /\ stale = {} => Sum(Open) <= earned.sum

\* The accounts, which rest on IInv.
AInv == Accounts /\ Amounts /\ Entitled

\* Commissions that passed the limit and are not noted yet.
Committed ==
    {t \in Task : task[t].pc \in {"credit", "note"} /\ ~task[t].first}

-----------------------------------------------------------------------------
(* Lemmas about the vocabulary.                                            *)

\* The pc of a job tells its shape.
LEMMA JobShape ==
    ASSUME NEW j \in Work
    PROVE  /\ j.pc \in {"credit", "note"} => j.first \in BOOLEAN
           /\ j.pc = "ask" => j.saw \in Nat
           /\ j.pc = "decide" => j.r \in Request /\ j.saw \in Status
           /\ j.pc = "idle" => j = Idle
           /\ j = Idle => j.pc = "idle"
    BY DEF Work, Idle

\* What a reward is worth is a natural number.
LEMMA AmountType ==
    ASSUME NEW b \in BOOLEAN
    PROVE  Amount(b) \in Nat
    BY ConstantsAssumption DEF Amount

\* Committed is finite, and has no more elements than there are tasks.
LEMMA CommittedBound ==
    /\ IsFiniteSet(Task) /\ Cardinality(Task) \in Nat
    /\ IsFiniteSet(Committed) /\ Cardinality(Committed) \in Nat
    /\ Cardinality(Committed) <= Cardinality(Task)
<1>1. Committed \in SUBSET Task
    BY DEF Committed
<1> QED BY <1>1, ConstantsAssumption, FS_Subset, FS_CardinalityType

\* A step after which no commission is noted and none is on its way that was
\* not before keeps the limit.
LEMMA LimitStep ==
    ASSUME IInv, UNCHANGED earned, Committed' \subseteq Committed
    PROVE  LimitIsKept'
<1>1. Cardinality(Committed') \in Nat /\ Cardinality(Committed') <= Cardinality(Committed)
    BY CommittedBound, FS_Subset, FS_CardinalityType
<1>2. Cardinality(Committed) \in Nat /\ Cardinality(Task) \in Nat
    BY CommittedBound
<1>3. MaxCommissions > 0 =>
         earned.commissions + Cardinality(Committed) <= MaxCommissions + Cardinality(Task) - 1
    BY DEF IInv, LimitIsKept, Committed
<1>4. earned.commissions \in Nat /\ MaxCommissions \in Nat
    BY ConstantsAssumption DEF IInv, Types
<1>5. MaxCommissions > 0 =>
         earned'.commissions + Cardinality(Committed') <= MaxCommissions + Cardinality(Task) - 1
    BY <1>1, <1>2, <1>3, <1>4
<1> QED BY <1>5 DEF LimitIsKept, Committed

-----------------------------------------------------------------------------
(* Steps of the same kind preserve the invariant for the same reason.      *)

\* A step that changes only what one task remembers, if it neither begins to
\* pay a bonus nor a commission.
LEMMA TaskStep ==
    ASSUME IInv, NEW t \in Task, NEW j \in Work,
           Become(t, j), UNCHANGED <<flag, earned, bonuses, overlap, withdrawals>>,
           balance' \in Nat,
           j.pc # "bonus",
           j.pc \in {"credit", "note"} => j.first \/ t \in Committed
    PROVE  IInv'
<1>1. Types'
    BY DEF IInv, Types, Become, withdrawals
<1>2. OnlyLastIsOpen'
    BY DEF IInv, OnlyLastIsOpen, withdrawals
<1>3. ChargedIfApproved'
    BY DEF IInv, ChargedIfApproved, withdrawals
<1>4. BonusFacts'
    BY DEF IInv, Types, BonusFacts, Become
<1>5. Committed' \subseteq Committed
    BY DEF IInv, Types, Become, Committed
<1>6. LimitIsKept'
    BY <1>5, LimitStep
<1> QED BY <1>1, <1>2, <1>3, <1>4, <1>6 DEF IInv

\* A step that leaves tasks and rewards alone and keeps types, open request and
\* charges.
LEMMA RequestStep ==
    ASSUME IInv, Types', OnlyLastIsOpen', ChargedIfApproved',
           UNCHANGED rewards,
           \/ UNCHANGED task
           \/ \E t \in Task : Done(t)
    PROVE  IInv'
<1>1. Committed' \subseteq Committed
    BY DEF IInv, Types, Become, Done, Idle, Committed
<1>2. LimitIsKept'
    BY <1>1, LimitStep DEF rewards
<1>3. BonusFacts'
    <2>1. CASE UNCHANGED task
        BY <2>1 DEF IInv, BonusFacts, rewards
    <2>2. ASSUME NEW t \in Task, Done(t) PROVE BonusFacts'
        <3>1. \A s \in Task : task'[s].pc = "bonus" => task[s].pc = "bonus"
            BY <2>2 DEF IInv, Types, Become, Done, Idle
        <3> QED BY <3>1 DEF IInv, BonusFacts, rewards
    <2> QED BY <2>1, <2>2
<1> QED BY <1>2, <1>3 DEF IInv

\* A decision, whichever image it goes by.
LEMMA Decision ==
    ASSUME IInv, NEW r \in Request, NEW saw,
           Approve(r, saw) \/ Reject(r, saw) \/ Complete(r, saw)
    PROVE  /\ balance' \in Nat /\ charged' \in [Request -> Nat]
           /\ request' \in [Request -> [status : Status, amount : Nat]]
           /\ UNCHANGED <<rewards, last>>
           /\ OnlyLastIsOpen' /\ ChargedIfApproved'
<1> USE DEF IInv, Types, OnlyLastIsOpen, ChargedIfApproved, Move
<1>1. CASE Approve(r, saw)
    BY <1>1 DEF Approve, Status
<1>2. CASE Reject(r, saw)
    BY <1>2 DEF Reject, Status
<1>3. CASE Complete(r, saw)
    BY <1>3 DEF Complete, Status
<1> QED BY <1>1, <1>2, <1>3

-----------------------------------------------------------------------------
(* The steps of rewards.                                                   *)

LEMMA FirstRewardInv ==
    ASSUME IInv, NEW t \in Task, FirstReward(t)
    PROVE  IInv'
<1> DEFINE j == [pc |-> "bonus"]
<1>1. j \in Work /\ Become(t, j)
    BY DEF FirstReward, Work
<1>2. Types'
    BY <1>1 DEF FirstReward, IInv, Types, Become, withdrawals
<1>3. OnlyLastIsOpen' /\ ChargedIfApproved'
    BY DEF FirstReward, IInv, OnlyLastIsOpen, ChargedIfApproved, withdrawals
<1>4. BonusFacts'
    BY DEF FirstReward, IInv, Types, BonusFacts, Become
<1>5. Committed' \subseteq Committed
    BY DEF FirstReward, IInv, Types, Become, Committed
<1>6. LimitIsKept'
    BY <1>5, LimitStep DEF FirstReward
<1> QED BY <1>2, <1>3, <1>4, <1>6 DEF IInv

\* The case in which the commission is due: the limit was not reached, and all
\* tasks together can be one short of it plus their number.
LEMMA CommissionInv ==
    ASSUME IInv, NEW t \in Task, ~LimitReached,
           Become(t, [pc |-> "credit", first |-> FALSE]),
           UNCHANGED <<rewards, balance, withdrawals, topups>>
    PROVE  IInv'
<1> DEFINE j == [pc |-> "credit", first |-> FALSE]
<1>1. j \in Work
    BY DEF Work
<1>2. Types'
    BY <1>1 DEF IInv, Types, Become, rewards, withdrawals
<1>3. OnlyLastIsOpen' /\ ChargedIfApproved'
    BY DEF IInv, OnlyLastIsOpen, ChargedIfApproved, withdrawals
<1>4. BonusFacts'
    BY DEF IInv, Types, BonusFacts, Become, rewards
<1>5. Cardinality(Committed') \in Nat /\ Cardinality(Committed') <= Cardinality(Task)
    <2>1. Committed' \in SUBSET Task
        BY DEF Committed
    <2> QED BY <2>1, CommittedBound, FS_Subset, FS_CardinalityType
<1>6. earned.commissions \in Nat /\ MaxCommissions \in Nat /\ Cardinality(Task) \in Nat
    BY ConstantsAssumption, CommittedBound DEF IInv, Types
<1>7. MaxCommissions > 0 => earned'.commissions <= MaxCommissions - 1
    BY <1>6 DEF LimitReached, rewards
<1>8. MaxCommissions > 0 =>
         earned'.commissions + Cardinality(Committed') <= MaxCommissions + Cardinality(Task) - 1
    BY <1>5, <1>6, <1>7 DEF rewards
<1> QED BY <1>2, <1>3, <1>4, <1>8 DEF IInv, LimitIsKept, Committed

LEMMA NextRewardInv ==
    ASSUME IInv, NEW t \in Task, NextReward(t)
    PROVE  IInv'
<1>1. CASE Done(t)
    BY <1>1, TaskStep DEF NextReward, Done, Idle, Work, IInv, Types, rewards
<1>2. CASE ~LimitReached /\ Become(t, [pc |-> "credit", first |-> FALSE])
    BY <1>2, CommissionInv DEF NextReward
<1> QED BY <1>1, <1>2 DEF NextReward

LEMMA BonusInv ==
    ASSUME IInv, NEW t \in Task, Bonus(t)
    PROVE  IInv'
<1>1. PICK j \in Work : /\ Become(t, j)
                        /\ j.pc \in {"idle", "credit"}
                        /\ j.pc = "credit" => j.first
    <2>1. CASE Done(t)
        <3>1. Idle \in Work /\ Idle.pc = "idle"
            BY DEF Idle, Work
        <3> QED BY <2>1, <3>1 DEF Done
    <2>2. CASE Become(t, [pc |-> "credit", first |-> TRUE])
        <3> DEFINE c == [pc |-> "credit", first |-> TRUE]
        <3>1. c \in Work /\ c.pc = "credit" /\ c.first
            BY DEF Work
        <3> QED BY <2>2, <3>1
    <2> QED BY <2>1, <2>2 DEF Bonus
<1>2. Types'
    BY <1>1 DEF Bonus, IInv, Types, Become, withdrawals
<1>3. OnlyLastIsOpen' /\ ChargedIfApproved'
    BY DEF Bonus, IInv, OnlyLastIsOpen, ChargedIfApproved, withdrawals
<1>4. BonusFacts'
    <2>1. \A s \in Task : task'[s].pc = "bonus" => s # t /\ task[s].pc = "bonus"
        BY <1>1 DEF IInv, Types, Become
    <2> QED BY <2>1 DEF Bonus, IInv, Types, BonusFacts
<1>5. Committed' \subseteq Committed
    BY <1>1 DEF IInv, Types, Become, Committed
<1>6. LimitIsKept'
    BY <1>5, LimitStep DEF Bonus
<1> QED BY <1>2, <1>3, <1>4, <1>6 DEF IInv

LEMMA CreditInv ==
    ASSUME IInv, NEW t \in Task, Credit(t)
    PROVE  IInv'
<1> DEFINE j == [pc |-> "note", first |-> task[t].first]
<1>1. task[t] \in Work /\ task[t].first \in BOOLEAN
    BY JobShape DEF Credit, IInv, Types
<1>2. j \in Work /\ (j.first \/ t \in Committed)
    BY <1>1 DEF Work, Credit, Committed
<1>3. balance' \in Nat
    BY <1>1, AmountType DEF Credit, IInv, Types
<1> QED BY <1>2, <1>3, TaskStep DEF Credit

\* The commission leaves Committed as it is counted.
LEMMA NoteInv ==
    ASSUME IInv, NEW t \in Task, Note(t)
    PROVE  IInv'
<1>1. task[t] \in Work /\ task[t].first \in BOOLEAN
    BY JobShape DEF Note, IInv, Types
<1>2. Types'
    BY <1>1, AmountType DEF Note, Done, Idle, Work, Become, IInv, Types, withdrawals
<1>3. OnlyLastIsOpen' /\ ChargedIfApproved'
    BY DEF Note, IInv, OnlyLastIsOpen, ChargedIfApproved, withdrawals
<1>4. BonusFacts'
    BY DEF Note, Done, Idle, IInv, Types, BonusFacts, Become
<1>5. Committed' = Committed \ {t}
    BY DEF Note, Done, Idle, IInv, Types, Become, Committed
<1>6. Cardinality(Committed') = IF t \in Committed THEN Cardinality(Committed) - 1
                                ELSE Cardinality(Committed)
    BY <1>5, CommittedBound, FS_RemoveElement
<1>7. earned'.commissions = earned.commissions + (IF t \in Committed THEN 1 ELSE 0)
    BY <1>1 DEF Note, Committed, IInv, Types
<1>8. MaxCommissions > 0 =>
         earned.commissions + Cardinality(Committed) <= MaxCommissions + Cardinality(Task) - 1
    BY DEF IInv, LimitIsKept, Committed
<1>9. MaxCommissions > 0 =>
         earned'.commissions + Cardinality(Committed') <= MaxCommissions + Cardinality(Task) - 1
    BY <1>6, <1>7, <1>8, CommittedBound, ConstantsAssumption DEF IInv, Types
<1> QED BY <1>2, <1>3, <1>4, <1>9 DEF IInv, LimitIsKept, Committed

-----------------------------------------------------------------------------
(* The steps of requests and decisions.                                    *)

LEMMA CreateInv ==
    ASSUME IInv, NEW t \in Task, NEW r \in Request, Create(t, r)
    PROVE  IInv'
<1>1. PICK a \in Nat : request' = [request EXCEPT ![r] = [status |-> "pending", amount |-> a]]
    <2>1. \A a \in 1 .. Available(task[t].saw) : a \in Nat
        OBVIOUS
    <2> QED BY <2>1 DEF Create
<1>2. Types'
    BY <1>1 DEF Create, Done, Idle, Work, Become, Status, IInv, Types, rewards
<1>3. \A s \in Request : request[s].status # "pending"
    BY ConstantsAssumption DEF Create, MayRequest, IInv, Types, OnlyLastIsOpen
<1>4. OnlyLastIsOpen'
    BY <1>1, <1>3 DEF Create, IInv, Types, OnlyLastIsOpen
<1>5. ChargedIfApproved'
    BY <1>1 DEF Create, IInv, Types, ChargedIfApproved
<1> QED BY <1>2, <1>4, <1>5, RequestStep DEF Create

LEMMA BotDecidesInv ==
    ASSUME IInv, NEW t \in Task, BotDecides(t)
    PROVE  IInv'
<1>1. task[t] \in Work /\ task[t].r \in Request
    BY JobShape DEF BotDecides, IInv, Types
<1>2. Types' /\ OnlyLastIsOpen' /\ ChargedIfApproved' /\ UNCHANGED rewards
    BY <1>1, Decision DEF BotDecides, Done, Become, Idle, Work, IInv, Types, rewards
<1> QED BY <1>2, RequestStep DEF BotDecides

LEMMA CabinetDecidesInv ==
    ASSUME IInv, NEW r \in Request, CabinetDecides(r)
    PROVE  IInv'
<1>1. Types' /\ OnlyLastIsOpen' /\ ChargedIfApproved' /\ UNCHANGED rewards
    BY Decision DEF CabinetDecides, IInv, Types, rewards
<1> QED BY <1>1, RequestStep DEF CabinetDecides

LEMMA CancelInv ==
    ASSUME IInv, NEW r \in Request, Cancel(r)
    PROVE  IInv'
<1>1. request' = [request EXCEPT ![r].status = "cancelled"] /\ stale' = stale
    BY DEF Cancel, Move
<1>2. Types'
    BY <1>1 DEF Cancel, Move, Status, IInv, Types, rewards
<1>3. OnlyLastIsOpen'
    BY <1>1 DEF Cancel, Move, IInv, Types, OnlyLastIsOpen
<1>4. ChargedIfApproved'
    BY <1>1 DEF Cancel, IInv, Types, ChargedIfApproved
<1> QED BY <1>2, <1>3, <1>4, RequestStep DEF Cancel, Move

\* Steps that change only what a task remembers.
LEMMA TaskInv ==
    ASSUME IInv, NEW t \in Task,
           \/ TopUp(t) \/ CreditFails(t) \/ Ask(t) \/ Refuse(t) \/ Breaks(t)
           \/ \E r \in Request : BotOpens(t, r)
    PROVE  IInv'
<1>1. CASE TopUp(t)
    <2>1. PICK enough \in BOOLEAN :
             Become(t, [pc |-> "reward", saw |-> flag, enough |-> enough])
        BY <1>1 DEF TopUp
    <2>2. [pc |-> "reward", saw |-> flag, enough |-> enough] \in Work
        BY DEF Work, IInv, Types
    <2> QED BY <1>1, <2>1, <2>2, TaskStep DEF TopUp, IInv, Types, rewards
<1>2. CASE (CreditFails(t) \/ Refuse(t) \/ Breaks(t))
    BY <1>2, TaskStep DEF CreditFails, Refuse, Breaks, Done, Idle, Work, IInv, Types, rewards
<1>3. CASE Ask(t)
    <2>1. [pc |-> "ask", saw |-> balance] \in Work
        BY DEF Work, IInv, Types
    <2> QED BY <1>3, <2>1, TaskStep DEF Ask, IInv, Types, rewards
<1>4. ASSUME NEW r \in Request, BotOpens(t, r) PROVE IInv'
    <2>1. [pc |-> "decide", r |-> r, saw |-> request[r].status] \in Work
        BY DEF Work, IInv, Types
    <2> QED BY <1>4, <2>1, TaskStep DEF BotOpens, IInv, Types, rewards
<1> QED BY <1>1, <1>2, <1>3, <1>4

-----------------------------------------------------------------------------
(* The accounts: what top-ups can still bring.                             *)

LEMMA Leaves ==
    ASSUME NEW A, NEW B, IsFiniteSet(A), NEW t \in A, B = A \ {t}
    PROVE  Cardinality(B) \in Nat /\ Cardinality(B) + 1 = Cardinality(A)
<1>1. IsFiniteSet(B) /\ Cardinality(B) = Cardinality(A) - 1
    BY FS_RemoveElement
<1> QED BY <1>1, FS_CardinalityType

LEMMA Joins ==
    ASSUME NEW A, NEW B, IsFiniteSet(A), NEW t, t \notin A, B = A \cup {t}
    PROVE  Cardinality(B) \in Nat /\ Cardinality(B) = Cardinality(A) + 1
<1>1. IsFiniteSet(B) /\ Cardinality(B) = Cardinality(A) + 1
    BY FS_AddElement
<1> QED BY <1>1, FS_CardinalityType

LEMMA NoMore ==
    ASSUME NEW A, NEW B, IsFiniteSet(A), B \subseteq A
    PROVE  Cardinality(B) \in Nat /\ Cardinality(B) <= Cardinality(A)
BY FS_Subset, FS_CardinalityType

\* Products the provers do not find by themselves.
LEMMA Times ==
    ASSUME NEW m \in Nat, NEW n \in Nat, NEW c \in Nat
    PROVE  /\ (m + 1) * c = m * c + c
           /\ m * c \in Nat /\ n * c \in Nat
           /\ m <= n => m * c <= n * c
           /\ m * (c + 1) = m * c + m
<1>1. /\ (m + 1) * c = m * c + c /\ m * c \in Nat /\ n * c \in Nat
      /\ m * (c + 1) = m * c + m
    OBVIOUS
<1>2. ASSUME m <= n PROVE m * c <= n * c
    <2>1. PICK d \in Nat : n = m + d
        <3>1. n - m \in Nat /\ n = m + (n - m)
            BY <1>2
        <3> QED BY <3>1
    <2>2. (m + d) * c = m * c + d * c /\ d * c \in Nat
        OBVIOUS
    <2> QED BY <1>1, <2>1, <2>2
<1> QED BY <1>1, <1>2

LEMMA AccountTypes ==
    ASSUME IInv, Accounts
    PROVE  /\ IsFiniteSet(Starting) /\ Cardinality(Starting) \in Nat
           /\ IsFiniteSet(ToPay) /\ Cardinality(ToPay) \in Nat
           /\ IsFiniteSet(ToNote) /\ Cardinality(ToNote) \in Nat
           /\ IsFiniteSet(NotingFirst) /\ Cardinality(NotingFirst) \in Nat
           /\ IsFiniteSet(NotingNext) /\ Cardinality(NotingNext) \in Nat
           /\ Reward \in Nat /\ Commission \in Nat /\ Commission <= Reward
           /\ MaxTopUps \in Nat /\ topups \in Nat /\ credited \in Nat
           /\ balance \in Nat /\ bonuses \in Nat
           /\ earned.sum \in Nat /\ earned.commissions \in Nat
<1>1. \A A \in SUBSET Task : IsFiniteSet(A) /\ Cardinality(A) \in Nat
    BY ConstantsAssumption, FS_Subset, FS_CardinalityType
<1>2. /\ Starting \in SUBSET Task /\ ToPay \in SUBSET Task /\ ToNote \in SUBSET Task
      /\ NotingFirst \in SUBSET Task /\ NotingNext \in SUBSET Task
    BY DEF Starting, ToPay, ToNote, NotingFirst, NotingNext
<1>3. Reward \in Nat /\ Commission \in Nat /\ Commission <= Reward /\ MaxTopUps \in Nat
    BY ConstantsAssumption DEF Reward
<1>4. topups \in Nat /\ credited \in Nat
    BY <1>3 DEF Accounts
<1>5. balance \in Nat /\ bonuses \in Nat /\ earned.sum \in Nat /\ earned.commissions \in Nat
    BY DEF IInv, Types
<1> QED BY <1>1, <1>2, <1>3, <1>4, <1>5

\* The balance, and all that was credited, is covered by the top-ups.
LEMMA BelowMost ==
    ASSUME IInv, Accounts
    PROVE  /\ balance <= Most /\ credited <= Most /\ earned.sum <= credited
           /\ Most \in Nat
<1> DEFINE p == Cardinality(ToPay) * Reward
           f == Cardinality(NotingFirst) * Reward
           c == Cardinality(NotingNext) * Commission
<1>1. p \in Nat /\ f \in Nat /\ c \in Nat
    BY AccountTypes, Times
<1>2. credited + p <= topups * Reward /\ balance + p <= topups * (Reward + 1)
      /\ earned.sum + f + c <= credited
    BY DEF Accounts
<1>3. /\ topups * Reward \in Nat /\ topups * (Reward + 1) = topups * Reward + topups
      /\ topups <= MaxTopUps /\ topups * (Reward + 1) <= MaxTopUps * (Reward + 1)
      /\ MaxTopUps * (Reward + 1) \in Nat
    <2>1. topups <= MaxTopUps /\ Reward + 1 \in Nat
        BY AccountTypes DEF Accounts
    <2> QED BY <2>1, AccountTypes, Times
<1>4. Most = MaxTopUps * (Reward + 1)
    BY DEF Most, Reward
<1> HIDE DEF p, f, c
<1> QED BY <1>1, <1>2, <1>3, <1>4, AccountTypes

\* A step that pays nothing and after which nothing more is to come.
LEMMA KeepsAccounts ==
    ASSUME IInv, Accounts, UNCHANGED <<earned, bonuses, credited, topups>>,
           balance' \in Nat, balance' <= balance,
           Starting' \subseteq Starting, ToPay' \subseteq ToPay, ToNote' \subseteq ToNote,
           NotingFirst' \subseteq NotingFirst, NotingNext' \subseteq NotingNext
    PROVE  Accounts'
<1>1. PICK s \in Nat, p \in Nat, n \in Nat, f \in Nat, c \in Nat :
         /\ s = Cardinality(Starting') /\ s <= Cardinality(Starting)
         /\ p = Cardinality(ToPay') /\ p <= Cardinality(ToPay)
         /\ n = Cardinality(ToNote') /\ n <= Cardinality(ToNote)
         /\ f = Cardinality(NotingFirst') /\ f <= Cardinality(NotingFirst)
         /\ c = Cardinality(NotingNext') /\ c <= Cardinality(NotingNext)
    BY NoMore, AccountTypes
<1>2. /\ p * Reward <= Cardinality(ToPay) * Reward
      /\ f * Reward <= Cardinality(NotingFirst) * Reward
      /\ c * Commission <= Cardinality(NotingNext) * Commission
    BY <1>1, AccountTypes, Times
<1>3. /\ p * Reward \in Nat /\ Cardinality(ToPay) * Reward \in Nat
      /\ f * Reward \in Nat /\ Cardinality(NotingFirst) * Reward \in Nat
      /\ c * Commission \in Nat /\ Cardinality(NotingNext) * Commission \in Nat
      /\ topups * Reward \in Nat /\ topups * (Reward + 1) \in Nat
    BY <1>1, AccountTypes, Times
<1>4. bonuses + s <= topups /\ earned.commissions + n <= topups
    BY <1>1, AccountTypes DEF Accounts
<1>5. credited + p * Reward <= topups * Reward
    BY <1>2, <1>3, AccountTypes DEF Accounts
<1>6. balance' + p * Reward <= topups * (Reward + 1)
    <2>1. balance + Cardinality(ToPay) * Reward <= topups * (Reward + 1)
        BY DEF Accounts
    <2> QED BY <1>2, <1>3, <2>1, AccountTypes
<1>7. earned.sum + f * Reward + c * Commission <= credited
    BY <1>2, <1>3, AccountTypes DEF Accounts
<1> QED BY <1>1, <1>4, <1>5, <1>6, <1>7 DEF Accounts

\* A top-up begins: one more of each is still to come.
LEMMA TopUpAccounts ==
    ASSUME IInv, Accounts, NEW t \in Task, TopUp(t)
    PROVE  Accounts'
<1>1. PICK e \in BOOLEAN : Become(t, [pc |-> "reward", saw |-> flag, enough |-> e])
    BY DEF TopUp
<1>2. /\ Starting' = Starting \cup {t} /\ t \notin Starting
      /\ ToPay' = ToPay \cup {t} /\ t \notin ToPay
      /\ ToNote' = ToNote \cup {t} /\ t \notin ToNote
      /\ NotingFirst' = NotingFirst /\ NotingNext' = NotingNext
    BY <1>1 DEF TopUp, Idle, IInv, Types, Become,
                Starting, ToPay, ToNote, NotingFirst, NotingNext
<1>3. PICK s \in Nat, p \in Nat, n \in Nat :
         /\ s = Cardinality(Starting') /\ s = Cardinality(Starting) + 1
         /\ p = Cardinality(ToPay') /\ p = Cardinality(ToPay) + 1
         /\ n = Cardinality(ToNote') /\ n = Cardinality(ToNote) + 1
    BY <1>2, Joins, AccountTypes
<1>4. PICK k \in Nat : k = topups' /\ k = topups + 1 /\ k <= MaxTopUps
    BY AccountTypes DEF TopUp
<1>5. /\ p * Reward = Cardinality(ToPay) * Reward + Reward
      /\ k * Reward = topups * Reward + Reward
      /\ k * (Reward + 1) = k * Reward + k
      /\ topups * (Reward + 1) = topups * Reward + topups
      /\ Cardinality(ToPay) * Reward \in Nat /\ topups * Reward \in Nat
    BY <1>3, <1>4, AccountTypes, Times
<1>6. bonuses + s <= k /\ earned.commissions + n <= k
    BY <1>3, <1>4, AccountTypes DEF Accounts
<1>7. credited + p * Reward <= k * Reward
    <2>1. credited + Cardinality(ToPay) * Reward <= topups * Reward
        BY DEF Accounts
    <2> QED BY <1>5, <2>1, AccountTypes
<1>8. balance + p * Reward <= k * (Reward + 1)
    <2>1. balance + Cardinality(ToPay) * Reward <= topups * (Reward + 1)
        BY DEF Accounts
    <2> QED BY <1>4, <1>5, <2>1, AccountTypes
<1>9. k \in 0 .. MaxTopUps
    BY <1>4, AccountTypes
<1>10. UNCHANGED <<balance, bonuses, credited, earned>>
    BY DEF TopUp, rewards
<1> QED BY <1>2, <1>3, <1>4, <1>6, <1>7, <1>8, <1>9, <1>10 DEF Accounts

\* The bonus, paid or not, is no longer to come.
LEMMA BonusAccounts ==
    ASSUME IInv, Accounts, NEW t \in Task, Bonus(t)
    PROVE  Accounts'
<1>1. /\ Starting' = Starting \ {t} /\ t \in Starting
      /\ ToPay' \subseteq ToPay /\ ToNote' \subseteq ToNote
      /\ NotingFirst' = NotingFirst /\ NotingNext' = NotingNext
    BY DEF Bonus, Done, Idle, IInv, Types, Become,
           Starting, ToPay, ToNote, NotingFirst, NotingNext
<1>2. PICK s \in Nat, p \in Nat, n \in Nat :
         /\ s = Cardinality(Starting') /\ s + 1 = Cardinality(Starting)
         /\ p = Cardinality(ToPay') /\ p <= Cardinality(ToPay)
         /\ n = Cardinality(ToNote') /\ n <= Cardinality(ToNote)
    BY <1>1, Leaves, NoMore, AccountTypes
<1>3. PICK b \in Nat : b = bonuses' /\ b <= bonuses + 1
    BY AccountTypes DEF Bonus
<1>4. b + s <= topups /\ earned.commissions + n <= topups
    BY <1>2, <1>3, AccountTypes DEF Accounts
<1>5. /\ p * Reward <= Cardinality(ToPay) * Reward
      /\ p * Reward \in Nat /\ Cardinality(ToPay) * Reward \in Nat
      /\ topups * Reward \in Nat /\ topups * (Reward + 1) \in Nat
    BY <1>2, AccountTypes, Times
<1>6. credited + p * Reward <= topups * Reward
    <2>1. credited + Cardinality(ToPay) * Reward <= topups * Reward
        BY DEF Accounts
    <2> QED BY <1>5, <2>1, AccountTypes
<1>7. balance + p * Reward <= topups * (Reward + 1)
    <2>1. balance + Cardinality(ToPay) * Reward <= topups * (Reward + 1)
        BY DEF Accounts
    <2> QED BY <1>5, <2>1, AccountTypes
<1>8. UNCHANGED <<balance, credited, earned, topups>>
    BY DEF Bonus
<1> QED BY <1>1, <1>2, <1>3, <1>4, <1>6, <1>7, <1>8 DEF Accounts

\* The reward is paid, and is to be noted.
LEMMA CreditAccounts ==
    ASSUME IInv, Accounts, NEW t \in Task, Credit(t)
    PROVE  Accounts'
<1>1. task[t] \in Work /\ task[t].first \in BOOLEAN
    BY JobShape DEF Credit, IInv, Types
<1>2. PICK a \in Nat : /\ a = Amount(task[t].first)
                       /\ a = IF task[t].first THEN Reward ELSE Commission
    BY <1>1, AmountType DEF Amount, Reward
<1>3. PICK b \in Nat, m \in Nat :
         b = balance' /\ b = balance + a /\ m = credited' /\ m = credited + a
    BY <1>2, AccountTypes DEF Credit
<1>4. /\ ToPay' = ToPay \ {t} /\ t \in ToPay
      /\ Starting' = Starting /\ ToNote' = ToNote
    BY DEF Credit, IInv, Types, Become, Starting, ToPay, ToNote
<1>5. PICK p \in Nat : p = Cardinality(ToPay') /\ p + 1 = Cardinality(ToPay)
    BY <1>4, Leaves, AccountTypes
<1>6. /\ Cardinality(ToPay) * Reward = p * Reward + Reward
      /\ p * Reward \in Nat /\ topups * Reward \in Nat /\ topups * (Reward + 1) \in Nat
      /\ a <= Reward
    BY <1>2, <1>5, AccountTypes, Times
<1>7. m + p * Reward <= topups * Reward
    <2>1. credited + Cardinality(ToPay) * Reward <= topups * Reward
        BY DEF Accounts
    <2> QED BY <1>3, <1>6, <2>1, AccountTypes
<1>8. b + p * Reward <= topups * (Reward + 1)
    <2>1. balance + Cardinality(ToPay) * Reward <= topups * (Reward + 1)
        BY DEF Accounts
    <2> QED BY <1>3, <1>6, <2>1, AccountTypes
<1>9. PICK f \in Nat, c \in Nat :
         /\ f = Cardinality(NotingFirst') /\ c = Cardinality(NotingNext')
         /\ f * Reward + c * Commission
              = Cardinality(NotingFirst) * Reward + Cardinality(NotingNext) * Commission + a
    <2>1. CASE task[t].first
        <3>1. /\ NotingFirst' = NotingFirst \cup {t} /\ t \notin NotingFirst
              /\ NotingNext' = NotingNext
            BY <2>1 DEF Credit, IInv, Types, Become, NotingFirst, NotingNext
        <3>2. PICK f \in Nat : f = Cardinality(NotingFirst') /\ f = Cardinality(NotingFirst) + 1
            BY <3>1, Joins, AccountTypes
        <3>3. /\ f * Reward = Cardinality(NotingFirst) * Reward + Reward
              /\ Cardinality(NotingFirst) * Reward \in Nat
              /\ Cardinality(NotingNext) * Commission \in Nat
            BY <3>2, AccountTypes, Times
        <3> QED BY <1>2, <2>1, <3>1, <3>2, <3>3, AccountTypes
    <2>2. CASE ~task[t].first
        <3>1. /\ NotingNext' = NotingNext \cup {t} /\ t \notin NotingNext
              /\ NotingFirst' = NotingFirst
            BY <2>2 DEF Credit, IInv, Types, Become, NotingFirst, NotingNext
        <3>2. PICK c \in Nat : c = Cardinality(NotingNext') /\ c = Cardinality(NotingNext) + 1
            BY <3>1, Joins, AccountTypes
        <3>3. /\ c * Commission = Cardinality(NotingNext) * Commission + Commission
              /\ Cardinality(NotingNext) * Commission \in Nat
              /\ Cardinality(NotingFirst) * Reward \in Nat
            BY <3>2, AccountTypes, Times
        <3> QED BY <1>2, <2>2, <3>1, <3>2, <3>3, AccountTypes
    <2> QED BY <1>1, <2>1, <2>2
<1>10. earned.sum + f * Reward + c * Commission <= m
    <2>1. earned.sum + Cardinality(NotingFirst) * Reward
                     + Cardinality(NotingNext) * Commission <= credited
        BY DEF Accounts
    <2>2. /\ f * Reward \in Nat /\ c * Commission \in Nat
          /\ Cardinality(NotingFirst) * Reward \in Nat
          /\ Cardinality(NotingNext) * Commission \in Nat
        BY <1>9, AccountTypes, Times
    <2> QED BY <1>3, <1>9, <2>1, <2>2, AccountTypes
<1>11. UNCHANGED <<bonuses, earned, topups>>
    BY DEF Credit
<1> QED BY <1>3, <1>4, <1>5, <1>7, <1>8, <1>9, <1>10, <1>11 DEF Accounts

\* The earning is noted, of an amount that was to be noted.
LEMMA NoteAccounts ==
    ASSUME IInv, Accounts, NEW t \in Task, Note(t)
    PROVE  Accounts'
<1>1. task[t] \in Work /\ task[t].first \in BOOLEAN
    BY JobShape DEF Note, IInv, Types
<1>2. PICK a \in Nat : /\ a = Amount(task[t].first)
                       /\ a = IF task[t].first THEN Reward ELSE Commission
    BY <1>1, AmountType DEF Amount, Reward
<1>3. PICK e \in Nat, g \in Nat :
         /\ e = earned'.sum /\ e = earned.sum + a
         /\ g = earned'.commissions /\ g <= earned.commissions + 1
    <2>1. /\ earned'.sum = earned.sum + Amount(task[t].first)
          /\ earned'.commissions = earned.commissions + (IF task[t].first THEN 0 ELSE 1)
        BY DEF Note
    <2>2. earned'.sum = earned.sum + a
        BY <1>2, <2>1
    <2>3. earned'.commissions \in {earned.commissions, earned.commissions + 1}
        BY <2>1, AccountTypes
    <2> QED BY <2>2, <2>3, AccountTypes
<1>4. /\ ToNote' = ToNote \ {t} /\ t \in ToNote
      /\ Starting' = Starting /\ ToPay' = ToPay
    BY DEF Note, Done, Idle, IInv, Types, Become, Starting, ToPay, ToNote
<1>5. PICK n \in Nat : n = Cardinality(ToNote') /\ n + 1 = Cardinality(ToNote)
    BY <1>4, Leaves, AccountTypes
<1>6. g + n <= topups
    BY <1>3, <1>5, AccountTypes DEF Accounts
<1>7. PICK f \in Nat, c \in Nat :
         /\ f = Cardinality(NotingFirst') /\ c = Cardinality(NotingNext')
         /\ f * Reward + c * Commission + a
              = Cardinality(NotingFirst) * Reward + Cardinality(NotingNext) * Commission
    <2>1. CASE task[t].first
        <3>1. /\ NotingFirst' = NotingFirst \ {t} /\ t \in NotingFirst
              /\ NotingNext' = NotingNext
            BY <2>1 DEF Note, Done, Idle, IInv, Types, Become, NotingFirst, NotingNext
        <3>2. PICK f \in Nat : f = Cardinality(NotingFirst') /\ f + 1 = Cardinality(NotingFirst)
            BY <3>1, Leaves, AccountTypes
        <3>3. /\ Cardinality(NotingFirst) * Reward = f * Reward + Reward
              /\ f * Reward \in Nat
              /\ Cardinality(NotingNext) * Commission \in Nat
            BY <3>2, AccountTypes, Times
        <3> QED BY <1>2, <2>1, <3>1, <3>2, <3>3, AccountTypes
    <2>2. CASE ~task[t].first
        <3>1. /\ NotingNext' = NotingNext \ {t} /\ t \in NotingNext
              /\ NotingFirst' = NotingFirst
            BY <2>2 DEF Note, Done, Idle, IInv, Types, Become, NotingFirst, NotingNext
        <3>2. PICK c \in Nat : c = Cardinality(NotingNext') /\ c + 1 = Cardinality(NotingNext)
            BY <3>1, Leaves, AccountTypes
        <3>3. /\ Cardinality(NotingNext) * Commission = c * Commission + Commission
              /\ c * Commission \in Nat
              /\ Cardinality(NotingFirst) * Reward \in Nat
            BY <3>2, AccountTypes, Times
        <3> QED BY <1>2, <2>2, <3>1, <3>2, <3>3, AccountTypes
    <2> QED BY <1>1, <2>1, <2>2
<1>8. e + f * Reward + c * Commission <= credited
    <2>1. earned.sum + Cardinality(NotingFirst) * Reward
                     + Cardinality(NotingNext) * Commission <= credited
        BY DEF Accounts
    <2>2. /\ f * Reward \in Nat /\ c * Commission \in Nat
          /\ Cardinality(NotingFirst) * Reward \in Nat
          /\ Cardinality(NotingNext) * Commission \in Nat
        BY <1>7, AccountTypes, Times
    <2> QED BY <1>3, <1>7, <2>1, <2>2, AccountTypes
<1>9. UNCHANGED <<bonuses, balance, credited, topups>>
    BY DEF Note
<1> QED BY <1>3, <1>4, <1>5, <1>6, <1>7, <1>8, <1>9 DEF Accounts

LEMMA OwnTopUpAccounts ==
    ASSUME IInv, Accounts, OwnTopUp
    PROVE  Accounts'
<1>1. PICK k \in Nat, b \in Nat :
         /\ k = topups' /\ k = topups + 1 /\ k <= MaxTopUps
         /\ b = balance' /\ b = balance + 1
    BY AccountTypes DEF OwnTopUp
<1>2. /\ Starting' = Starting /\ ToPay' = ToPay /\ ToNote' = ToNote
      /\ NotingFirst' = NotingFirst /\ NotingNext' = NotingNext
    BY DEF OwnTopUp, Starting, ToPay, ToNote, NotingFirst, NotingNext
<1>3. PICK p \in Nat : p = Cardinality(ToPay) * Reward
    BY AccountTypes, Times
<1>4. /\ k * Reward = topups * Reward + Reward
      /\ k * (Reward + 1) = k * Reward + k
      /\ topups * (Reward + 1) = topups * Reward + topups
      /\ topups * Reward \in Nat
    BY <1>1, AccountTypes, Times
<1>5. bonuses + Cardinality(Starting) <= k /\ earned.commissions + Cardinality(ToNote) <= k
    BY <1>1, AccountTypes DEF Accounts
<1>6. credited + p <= k * Reward
    <2>1. credited + p <= topups * Reward
        BY <1>3 DEF Accounts
    <2> QED BY <1>4, <2>1, AccountTypes
<1>7. b + p <= k * (Reward + 1)
    <2>1. balance + p <= topups * (Reward + 1)
        BY <1>3 DEF Accounts
    <2> QED BY <1>1, <1>4, <2>1, AccountTypes
<1>8. UNCHANGED <<bonuses, credited, earned>> /\ k \in 0 .. MaxTopUps
    BY <1>1, AccountTypes DEF OwnTopUp, rewards
<1> QED BY <1>1, <1>2, <1>3, <1>5, <1>6, <1>7, <1>8 DEF Accounts

-----------------------------------------------------------------------------
(* The amounts of a set of requests.                                       *)

\* Sum, of any function of requests.
Units(q, S) == {u \in S \X (1 .. Most) : u[2] <= q[u[1]].amount}
Total(q, S) == Cardinality(Units(q, S))

LEMMA UnitsFinite ==
    ASSUME NEW q, NEW S, S \in SUBSET Request
    PROVE  IsFiniteSet(Units(q, S)) /\ Total(q, S) \in Nat
<1>1. Most \in Int
    BY ConstantsAssumption, Times DEF Most
<1>2. IsFiniteSet(S) /\ IsFiniteSet(1 .. Most)
    BY <1>1, ConstantsAssumption, FS_Subset, FS_Interval
<1>3. IsFiniteSet(S \X (1 .. Most))
    BY <1>2, FS_Product
<1>4. Units(q, S) \in SUBSET (S \X (1 .. Most))
    BY DEF Units
<1> QED BY <1>3, <1>4, FS_Subset, FS_CardinalityType DEF Total

\* Fewer requests of the same amounts are worth no more.
LEMMA TotalShrinks ==
    ASSUME NEW q, NEW S, NEW p, NEW T, S \subseteq T, T \in SUBSET Request,
           \A r \in S : q[r].amount = p[r].amount
    PROVE  Total(q, S) <= Total(p, T)
<1>1. Units(q, S) \subseteq Units(p, T)
    BY DEF Units
<1>2. IsFiniteSet(Units(p, T))
    BY UnitsFinite
<1> QED BY <1>1, <1>2, FS_Subset DEF Total

LEMMA TotalAdds ==
    ASSUME NEW q, NEW S, NEW T, S \in SUBSET Request, T \in SUBSET Request, S \cap T = {}
    PROVE  Total(q, S \cup T) = Total(q, S) + Total(q, T)
<1>1. Units(q, S \cup T) = Units(q, S) \cup Units(q, T)
    BY DEF Units
<1>2. Units(q, S) \cap Units(q, T) = {}
    BY DEF Units
<1>3. IsFiniteSet(Units(q, S)) /\ IsFiniteSet(Units(q, T))
      /\ Total(q, S) \in Nat /\ Total(q, T) \in Nat
    BY UnitsFinite
<1>4. Cardinality(Units(q, S) \cup Units(q, T))
        = Cardinality(Units(q, S)) + Cardinality(Units(q, T))
            - Cardinality(Units(q, S) \cap Units(q, T))
    BY <1>3, FS_Union
<1>5. Cardinality(Units(q, S) \cap Units(q, T)) = 0
    <2>1. \A U : IsFiniteSet(U) => (Cardinality(U) = 0 <=> U = {})
        BY FS_EmptySet
    <2>2. IsFiniteSet(Units(q, S) \cap Units(q, T))
        BY <1>3, FS_Intersection
    <2> QED BY <1>2, <2>1, <2>2
<1>6. Total(q, S \cup T) = Total(q, S) + Total(q, T) - 0
    BY <1>1, <1>4, <1>5 DEF Total
<1> QED BY <1>3, <1>6

\* A request is worth its amount.
LEMMA TotalOfOne ==
    ASSUME NEW q, NEW r \in Request, NEW a \in Nat, a = q[r].amount, a <= Most, Most \in Nat
    PROVE  Total(q, {r}) = a
<1>1. Units(q, {r}) = {r} \X (1 .. a)
    <2>1. ASSUME NEW u \in Units(q, {r}) PROVE u \in {r} \X (1 .. a)
        BY <2>1 DEF Units
    <2>2. ASSUME NEW u \in {r} \X (1 .. a) PROVE u \in Units(q, {r})
        BY <2>2 DEF Units
    <2> QED BY <2>1, <2>2
<1>2. IsFiniteSet({r}) /\ Cardinality({r}) = 1
    BY FS_Singleton
<1>3. IsFiniteSet(1 .. a) /\ Cardinality(1 .. a) = a
    <2>1. 1 \in Int /\ a \in Int
        OBVIOUS
    <2>2. IsFiniteSet(1 .. a) /\ Cardinality(1 .. a) = IF 1 > a THEN 0 ELSE a - 1 + 1
        BY <2>1, FS_Interval
    <2> QED BY <2>2
<1>4. Cardinality({r} \X (1 .. a)) = Cardinality({r}) * Cardinality(1 .. a)
    BY <1>2, <1>3, FS_Product
<1>5. 1 * a = a
    OBVIOUS
<1> QED BY <1>1, <1>2, <1>3, <1>4, <1>5 DEF Total

LEMMA EntitlementType ==
    ASSUME IInv
    PROVE  Entitlement \in Nat
<1>1. \A S \in SUBSET Request : Sum(S) \in Nat
    BY UnitsFinite DEF Sum, Total, Units
<1>2. Withdrawn \in Nat /\ Pending \in Nat
    BY <1>1 DEF Withdrawn, Pending, With
<1>3. earned.sum \in Nat
    BY DEF IInv, Types
<1> QED BY <1>2, <1>3 DEF Entitlement

\* A step after which no more is open, of the same amounts, and no less is
\* earned, keeps the entitlement.
LEMMA KeepsEntitled ==
    ASSUME IInv, Accounts, Accounts', Types',
           OnlyReferral /\ stale' = {} =>
               /\ stale = {} /\ Entitled
               /\ Open' \subseteq Open
               /\ \A r \in Request : request'[r].amount = request[r].amount,
           earned'.sum >= earned.sum
    PROVE  Entitled'
<1> SUFFICES ASSUME OnlyReferral /\ stale' = {}
             PROVE  Sum(Open)' <= earned'.sum
    BY DEF Entitled
<1>1. Sum(Open) <= earned.sum
    BY DEF Entitled
<1>2. Open \in SUBSET Request /\ Open' \in SUBSET Request
    BY DEF Open, With
<1>3. PICK m \in Nat : m = Total(request, Open)
    BY <1>2, UnitsFinite
<1>4. PICK n \in Nat : n = Total(request', Open')
    BY <1>2, UnitsFinite
<1>5. n <= m
    BY <1>2, <1>3, <1>4, TotalShrinks
<1>6. m = Sum(Open) /\ n = Sum(Open)'
    BY <1>3, <1>4 DEF Sum, Total, Units
<1>7. earned.sum \in Nat /\ earned'.sum \in Nat
    BY DEF IInv, Types
<1> QED BY <1>1, <1>5, <1>6, <1>7

\* What is requested is covered by what is left of the earnings.
LEMMA CreateEntitled ==
    ASSUME IInv, Accounts, Amounts, Entitled, NEW t \in Task, NEW r \in Request, Create(t, r),
           IInv', Amounts'
    PROVE  Entitled'
<1> SUFFICES ASSUME OnlyReferral, stale = {}
             PROVE  Sum(Open)' <= earned.sum
    BY DEF Entitled, Create, rewards
<1>1. PICK a \in 1 .. Available(task[t].saw) :
         request' = [request EXCEPT ![r] = [status |-> "pending", amount |-> a]]
    BY DEF Create
<1>2. task[t].saw \in Nat
    BY JobShape DEF Create, IInv, Types
<1>3. Open \in SUBSET Request /\ Open' \in SUBSET Request
    BY DEF Open, With
<1>4. Open' = Open \cup {r} /\ r \notin Open
    BY <1>1 DEF Open, With, Create, IInv, Types
<1>5. PICK m \in Nat : m = Total(request, Open)
    BY <1>3, UnitsFinite
<1>6. PICK n \in Nat : n = Total(request', Open)
    BY <1>3, UnitsFinite
<1>7. n <= m
    <2>1. \A s \in Open : request'[s].amount = request[s].amount
        BY <1>1, <1>3, <1>4 DEF IInv, Types
    <2> QED BY <1>3, <1>5, <1>6, <2>1, TotalShrinks
<1>8. /\ a \in Nat /\ a = request'[r].amount /\ a <= Most /\ Most \in Nat
    <2>1. a = request'[r].amount
        BY <1>1 DEF IInv, Types
    <2>2. request'[r].amount \in Nat /\ request'[r].amount <= Most
        BY DEF IInv, Types, Amounts
    <2> QED BY <2>1, <2>2, BelowMost
<1>9. Total(request', {r}) = a
    BY <1>8, TotalOfOne
<1>10. Total(request', Open') = n + a
    BY <1>3, <1>4, <1>6, <1>9, TotalAdds
<1>11. Sum(Open)' = n + a
    BY <1>10 DEF Sum, Total, Units
<1>12. PICK w \in Nat, p \in Nat : w = Withdrawn /\ p = Pending /\ m = w + p
    <2> DEFINE W == With({"approved", "completed"})
               P == With({"pending"})
    <2>1. W \in SUBSET Request /\ P \in SUBSET Request /\ W \cap P = {} /\ Open = W \cup P
        BY DEF Open, With
    <2>2. W = With({"approved", "completed"}) /\ P = With({"pending"})
        OBVIOUS
    <2> HIDE DEF W, P
    <2>3. Total(request, Open) = Total(request, W) + Total(request, P)
        BY <2>1, TotalAdds
    <2>4. Total(request, W) \in Nat /\ Total(request, P) \in Nat
        BY <2>1, UnitsFinite
    <2>5. Total(request, W) = Withdrawn /\ Total(request, P) = Pending
        BY <2>2 DEF Withdrawn, Pending, Sum, Total, Units
    <2> QED BY <1>5, <2>3, <2>4, <2>5
<1>13. a <= earned.sum - w - p
    <2>1. PICK e \in Nat : e = earned.sum
        BY DEF IInv, Types
    <2>2. Entitlement = IF e - w - p > 0 THEN e - w - p ELSE 0
        BY <1>12, <2>1 DEF Entitlement
    <2>3. Available(task[t].saw) \in Nat /\ Available(task[t].saw) <= Entitlement
        BY <1>2, <1>12, <2>1, <2>2 DEF Available
    <2>4. a <= Entitlement /\ a >= 1
        BY <2>3, <1>1, <2>1, <2>2, <1>12
    <2> QED BY <2>1, <2>2, <2>4, <1>12, <1>8
<1> QED BY <1>7, <1>8, <1>11, <1>12, <1>13 DEF IInv, Types

-----------------------------------------------------------------------------
(* Every step keeps the accounts, the amounts and the entitlement.         *)

\* A task that pays nothing and takes nothing up that was not begun.
LEMMA TaskAccounts ==
    ASSUME IInv, Accounts, UNCHANGED <<earned, bonuses, credited, topups>>,
           balance' \in Nat, balance' <= balance,
           NEW t \in Task, NEW j, Become(t, j),
           \/ j.pc \in {"idle", "ask", "decide"}
           \/ task[t].pc = "reward" /\ j.pc \in {"bonus", "credit"}
    PROVE  Accounts'
<1>1. \A s \in Task : task'[s] = IF s = t THEN j ELSE task[s]
    BY DEF IInv, Types, Become
<1>2. /\ Starting' \subseteq Starting /\ ToPay' \subseteq ToPay /\ ToNote' \subseteq ToNote
      /\ NotingFirst' \subseteq NotingFirst /\ NotingNext' \subseteq NotingNext
    BY <1>1 DEF Starting, ToPay, ToNote, NotingFirst, NotingNext
<1> QED BY <1>2, KeepsAccounts

\* Nobody's task changes.
LEMMA OutsideAccounts ==
    ASSUME IInv, Accounts, UNCHANGED <<earned, bonuses, credited, topups, task>>,
           balance' \in Nat, balance' <= balance
    PROVE  Accounts'
<1>1. /\ Starting' \subseteq Starting /\ ToPay' \subseteq ToPay /\ ToNote' \subseteq ToNote
      /\ NotingFirst' \subseteq NotingFirst /\ NotingNext' \subseteq NotingNext
    BY DEF Starting, ToPay, ToNote, NotingFirst, NotingNext
<1> QED BY <1>1, KeepsAccounts

\* A decision takes its amount from the balance or leaves it, and changes no
\* amount; by an image that is not outdated it opens nothing.
LEMMA DecisionAmounts ==
    ASSUME IInv, Amounts, NEW r \in Request, NEW saw,
           \/ Approve(r, saw) \/ Reject(r, saw) \/ Complete(r, saw)
           \/ Cancel(r) /\ saw = "pending"
    PROVE  /\ balance' \in Nat /\ balance' <= balance
           /\ UNCHANGED <<rewards, topups, cool>>
           /\ stale' \subseteq Request
           /\ \A s \in Request : request'[s].amount = request[s].amount
           /\ stale' = {} => stale = {} /\ Open' \subseteq Open
<1>1. PICK s \in Status : /\ request' = [request EXCEPT ![r].status = s]
                          /\ s \in {"approved", "rejected", "completed", "cancelled"}
                          /\ s \in {"approved", "completed"} => saw \in {"pending", "approved"}
                          /\ stale' = IF request[r].status = saw THEN stale ELSE stale \cup {r}
    BY DEF Approve, Reject, Complete, Cancel, Move, Status
<1>2. balance' \in Nat /\ balance' <= balance
    BY DEF Approve, Reject, Complete, Cancel, IInv, Types
<1>3. UNCHANGED <<rewards, topups, cool>>
    BY DEF Approve, Reject, Complete, Cancel, Move
<1>4. stale' \subseteq Request
    BY <1>1 DEF Amounts
<1>5. \A q \in Request : request'[q].amount = request[q].amount
    BY <1>1 DEF IInv, Types
<1>6. stale' = {} => stale = {} /\ request[r].status = saw
    BY <1>1
<1>7. \A q \in Request : request'[q].status = IF q = r THEN s ELSE request[q].status
    BY <1>1 DEF IInv, Types
<1>8. stale' = {} => Open' \subseteq Open
    BY <1>1, <1>6, <1>7 DEF Open, With
<1> QED BY <1>2, <1>3, <1>4, <1>5, <1>6, <1>8

LEMMA NextAccounts == IInv /\ AInv /\ [Next]_vars => Accounts'
<1> SUFFICES ASSUME IInv, AInv, [Next]_vars PROVE Accounts'
    OBVIOUS
<1> USE DEF AInv
<1>0. balance \in Nat
    BY DEF IInv, Types
<1>1. ASSUME NEW t \in Task, TopUp(t) \/ Bonus(t) \/ Credit(t) \/ Note(t)
      PROVE  Accounts'
    BY <1>1, TopUpAccounts, BonusAccounts, CreditAccounts, NoteAccounts
<1>2. ASSUME NEW t \in Task, FirstReward(t) \/ NextReward(t)
      PROVE  Accounts'
    <2>1. PICK j : Become(t, j) /\ j.pc \in {"idle", "bonus", "credit"}
        BY <1>2 DEF FirstReward, NextReward, Done, Idle
    <2>2. task[t].pc = "reward" /\ balance' = balance
          /\ UNCHANGED <<earned, bonuses, credited, topups>>
        BY <1>2 DEF FirstReward, NextReward, rewards
    <2> QED BY <1>0, <2>1, <2>2, TaskAccounts
<1>3. ASSUME NEW t \in Task,
             \/ CreditFails(t) \/ Ask(t) \/ Refuse(t) \/ Breaks(t)
             \/ \E r \in Request : Create(t, r) \/ BotOpens(t, r)
      PROVE  Accounts'
    <2>1. PICK j : Become(t, j) /\ j.pc \in {"idle", "ask", "decide"}
        <3>1. CASE (CreditFails(t) \/ Ask(t) \/ Refuse(t) \/ Breaks(t))
            BY <3>1 DEF CreditFails, Ask, Refuse, Breaks, Done, Idle
        <3>2. ASSUME NEW r \in Request, Create(t, r) \/ BotOpens(t, r)
              PROVE  \E j : Become(t, j) /\ j.pc \in {"idle", "ask", "decide"}
            BY <3>2 DEF Create, BotOpens, Done, Idle
        <3> QED BY <1>3, <3>1, <3>2
    <2>2. balance' = balance /\ UNCHANGED <<earned, bonuses, credited, topups>>
        BY <1>3 DEF CreditFails, Ask, Refuse, Breaks, Create, BotOpens, rewards
    <2> QED BY <1>0, <2>1, <2>2, TaskAccounts
<1>4. ASSUME NEW t \in Task, BotDecides(t)
      PROVE  Accounts'
    <2>1. task[t] \in Work /\ task[t].r \in Request
        BY <1>4, JobShape DEF BotDecides, IInv, Types
    <2>2. Become(t, Idle) /\ Idle.pc = "idle"
        BY <1>4 DEF BotDecides, Done, Idle
    <2>3. balance' \in Nat /\ balance' <= balance
          /\ UNCHANGED <<earned, bonuses, credited, topups>>
        BY <1>4, <2>1, DecisionAmounts DEF BotDecides, rewards
    <2> QED BY <2>2, <2>3, TaskAccounts
<1>5. ASSUME NEW r \in Request, CabinetDecides(r) \/ Cancel(r)
      PROVE  Accounts'
    BY <1>5, DecisionAmounts, OutsideAccounts DEF CabinetDecides, Cancel, rewards
<1>6. CASE Cooled \/ Spend
    BY <1>0, <1>6, OutsideAccounts DEF Cooled, Spend, rewards
<1>7. CASE OwnTopUp
    BY <1>7, OwnTopUpAccounts
<1>8. CASE UNCHANGED vars
    BY <1>0, <1>8, OutsideAccounts DEF vars, rewards
<1> QED BY <1>1, <1>2, <1>3, <1>4, <1>5, <1>6, <1>7, <1>8 DEF Next

\* A step that requests nothing and asks for nothing.
LEMMA KeepsAmounts ==
    ASSUME IInv, Amounts,
           \A r \in Request : request'[r].amount = request[r].amount,
           stale' \subseteq Request, cool' \in BOOLEAN,
           \/ UNCHANGED task
           \/ \E t \in Task : \E j : Become(t, j) /\ j.pc # "ask"
    PROVE  Amounts'
<1>1. \A t \in Task : task'[t].pc = "ask" => task'[t].saw <= Most
    BY DEF Amounts, IInv, Types, Become
<1> QED BY <1>1 DEF Amounts

LEMMA NextAmounts == IInv /\ AInv /\ [Next]_vars => Amounts'
<1> SUFFICES ASSUME IInv, AInv, [Next]_vars PROVE Amounts'
    OBVIOUS
<1> USE DEF AInv
<1>0. stale \subseteq Request /\ cool \in BOOLEAN
    BY DEF Amounts
<1>1. ASSUME NEW t \in Task,
             \/ TopUp(t) \/ FirstReward(t) \/ NextReward(t) \/ Bonus(t) \/ Credit(t)
             \/ CreditFails(t) \/ Note(t) \/ Refuse(t) \/ Breaks(t)
             \/ \E r \in Request : BotOpens(t, r)
      PROVE  Amounts'
    <2>1. PICK j : Become(t, j) /\ j.pc # "ask"
        <3>1. CASE TopUp(t)
            <4>1. PICK e \in BOOLEAN :
                     Become(t, [pc |-> "reward", saw |-> flag, enough |-> e])
                BY <3>1 DEF TopUp
            <4>2. [pc |-> "reward", saw |-> flag, enough |-> e].pc # "ask"
                OBVIOUS
            <4> QED BY <4>1, <4>2
        <3>2. CASE FirstReward(t)
            BY <3>2 DEF FirstReward
        <3>3. CASE NextReward(t) \/ Bonus(t) \/ Credit(t)
            BY <3>3 DEF NextReward, Bonus, Credit, Done, Idle
        <3>4. CASE (CreditFails(t) \/ Note(t) \/ Refuse(t) \/ Breaks(t))
            BY <3>4 DEF CreditFails, Note, Refuse, Breaks, Done, Idle
        <3>5. ASSUME NEW r \in Request, BotOpens(t, r)
              PROVE  \E j : Become(t, j) /\ j.pc # "ask"
            BY <3>5 DEF BotOpens
        <3> QED BY <1>1, <3>1, <3>2, <3>3, <3>4, <3>5
    <2>2. UNCHANGED withdrawals
        BY <1>1 DEF TopUp, FirstReward, NextReward, Bonus, Credit, CreditFails, Note,
                    Refuse, Breaks, BotOpens
    <2> QED BY <1>0, <2>1, <2>2, KeepsAmounts DEF withdrawals
<1>2. ASSUME NEW t \in Task, Ask(t) PROVE Amounts'
    BY <1>2, BelowMost DEF Ask, Amounts, IInv, Types, Become, withdrawals
<1>3. ASSUME NEW t \in Task, NEW r \in Request, Create(t, r) PROVE Amounts'
    <2>1. PICK a \in 1 .. Available(task[t].saw) :
             request' = [request EXCEPT ![r] = [status |-> "pending", amount |-> a]]
        BY <1>3 DEF Create
    <2>2. task[t].saw \in Nat /\ task[t].saw <= Most
        BY <1>3, JobShape DEF Create, Amounts, IInv, Types
    <2>3. a <= Most
        BY <2>1, <2>2, EntitlementType, BelowMost DEF Available
    <2>4. \A s \in Request : request'[s].amount <= Most
        BY <2>1, <2>3 DEF Amounts, IInv, Types
    <2>5. \A s \in Task : task'[s].pc = "ask" => task'[s].saw <= Most
        BY <1>3 DEF Create, Done, Idle, Amounts, IInv, Types, Become
    <2> QED BY <1>0, <1>3, <2>4, <2>5 DEF Create, Amounts
<1>4. ASSUME NEW t \in Task, BotDecides(t) PROVE Amounts'
    <2>1. task[t] \in Work /\ task[t].r \in Request
        BY <1>4, JobShape DEF BotDecides, IInv, Types
    <2>2. Become(t, Idle) /\ Idle.pc # "ask"
        BY <1>4 DEF BotDecides, Done, Idle
    <2> QED BY <1>0, <1>4, <2>1, <2>2, DecisionAmounts, KeepsAmounts DEF BotDecides
<1>5. ASSUME NEW r \in Request, CabinetDecides(r) \/ Cancel(r) PROVE Amounts'
    BY <1>0, <1>5, DecisionAmounts, KeepsAmounts DEF CabinetDecides, Cancel
<1>6. CASE (Cooled \/ Spend \/ OwnTopUp \/ UNCHANGED vars)
    BY <1>0, <1>6, KeepsAmounts DEF Cooled, Spend, OwnTopUp, vars, withdrawals
<1> QED BY <1>1, <1>2, <1>3, <1>4, <1>5, <1>6 DEF Next

LEMMA NextEntitled == IInv /\ AInv /\ IInv' /\ Accounts' /\ Amounts' /\ [Next]_vars => Entitled'
<1> SUFFICES ASSUME IInv, AInv, IInv', Accounts', Amounts', [Next]_vars PROVE Entitled'
    OBVIOUS
<1> USE DEF AInv
<1>0. Types' /\ earned.sum \in Nat
    BY DEF IInv, Types
<1>1. ASSUME UNCHANGED <<request, stale>>, earned'.sum >= earned.sum
      PROVE  Entitled'
    BY <1>0, <1>1, KeepsEntitled DEF Open, With
<1>2. ASSUME NEW t \in Task,
             \/ TopUp(t) \/ FirstReward(t) \/ NextReward(t) \/ Bonus(t) \/ Credit(t)
             \/ CreditFails(t) \/ Ask(t) \/ Refuse(t) \/ Breaks(t)
             \/ \E r \in Request : BotOpens(t, r)
      PROVE  Entitled'
    <2>1. UNCHANGED <<earned, withdrawals>>
        BY <1>2 DEF TopUp, FirstReward, NextReward, Bonus, Credit, CreditFails, Ask,
                    Refuse, Breaks, BotOpens, rewards
    <2> QED BY <1>0, <1>1, <2>1 DEF withdrawals
<1>3. ASSUME NEW t \in Task, Note(t) PROVE Entitled'
    <2>1. task[t] \in Work /\ task[t].first \in BOOLEAN
        BY <1>3, JobShape DEF Note, IInv, Types
    <2>2. Amount(task[t].first) \in Nat
        BY <2>1, AmountType
    <2>3. earned'.sum = earned.sum + Amount(task[t].first) /\ UNCHANGED withdrawals
        BY <1>3 DEF Note
    <2> QED BY <1>0, <1>1, <2>2, <2>3 DEF withdrawals
<1>4. ASSUME NEW t \in Task, NEW r \in Request, Create(t, r) PROVE Entitled'
    BY <1>4, CreateEntitled
<1>5. ASSUME NEW r \in Request, NEW saw,
             \/ Approve(r, saw) \/ Reject(r, saw) \/ Complete(r, saw)
             \/ Cancel(r) /\ saw = "pending"
      PROVE  Entitled'
    <2>1. /\ UNCHANGED earned
          /\ \A s \in Request : request'[s].amount = request[s].amount
          /\ stale' = {} => stale = {} /\ Open' \subseteq Open
        BY <1>5, DecisionAmounts DEF rewards
    <2> QED BY <1>0, <2>1, KeepsEntitled
<1>6. ASSUME NEW t \in Task, BotDecides(t) PROVE Entitled'
    <2>1. task[t] \in Work /\ task[t].r \in Request
        BY <1>6, JobShape DEF BotDecides, IInv, Types
    <2> QED BY <1>5, <1>6, <2>1 DEF BotDecides
<1>7. ASSUME NEW r \in Request, CabinetDecides(r) \/ Cancel(r) PROVE Entitled'
    BY <1>5, <1>7 DEF CabinetDecides
<1>8. CASE (Cooled \/ Spend \/ OwnTopUp \/ UNCHANGED vars)
    BY <1>0, <1>1, <1>8 DEF Cooled, Spend, OwnTopUp, vars, rewards, withdrawals
<1> QED BY <1>2, <1>3, <1>4, <1>6, <1>7, <1>8 DEF Next

-----------------------------------------------------------------------------
(* The theorems.                                                           *)

LEMMA InitInv == Init => IInv
<1> SUFFICES ASSUME Init PROVE IInv
    OBVIOUS
<1>1. Types
    BY DEF Init, Types, Work, Status
<1>2. OnlyLastIsOpen /\ ChargedIfApproved /\ BonusFacts
    BY DEF Init, OnlyLastIsOpen, ChargedIfApproved, BonusFacts, Idle
<1>3. LimitIsKept
    <2>1. Committed = {}
        BY DEF Init, Committed, Idle
    <2>2. MaxCommissions > 0 =>
             earned.commissions + Cardinality(Committed) <= MaxCommissions + Cardinality(Task) - 1
        BY <2>1, FS_EmptySet, CommittedBound, ConstantsAssumption DEF Init
    <2> QED BY <2>2 DEF LimitIsKept, Committed
<1> QED BY <1>1, <1>2, <1>3 DEF IInv

LEMMA NextInv == IInv /\ [Next]_vars => IInv'
<1> SUFFICES ASSUME IInv, [Next]_vars PROVE IInv'
    OBVIOUS
<1>1. ASSUME NEW t \in Task,
             \/ FirstReward(t) \/ NextReward(t) \/ Bonus(t) \/ Credit(t) \/ Note(t)
             \/ BotDecides(t)
      PROVE  IInv'
    BY <1>1, FirstRewardInv, NextRewardInv, BonusInv, CreditInv, NoteInv, BotDecidesInv
<1>2. ASSUME NEW t \in Task, NEW r \in Request, Create(t, r) \/ BotOpens(t, r)
      PROVE  IInv'
    BY <1>2, CreateInv, TaskInv
<1>3. ASSUME NEW t \in Task,
             TopUp(t) \/ CreditFails(t) \/ Ask(t) \/ Refuse(t) \/ Breaks(t)
      PROVE  IInv'
    BY <1>3, TaskInv
<1>4. ASSUME NEW r \in Request, CabinetDecides(r) \/ Cancel(r)
      PROVE  IInv'
    BY <1>4, CabinetDecidesInv, CancelInv
<1>5. CASE Cooled \/ Spend \/ OwnTopUp
    <2>1. Types'
        BY <1>5 DEF Cooled, Spend, OwnTopUp, IInv, Types, rewards, withdrawals
    <2>2. OnlyLastIsOpen' /\ ChargedIfApproved'
        BY <1>5 DEF Cooled, Spend, OwnTopUp, IInv, OnlyLastIsOpen,
                    ChargedIfApproved, withdrawals
    <2> QED BY <1>5, <2>1, <2>2, RequestStep DEF Cooled, Spend, OwnTopUp
<1>6. CASE UNCHANGED vars
    BY <1>6 DEF vars, rewards, withdrawals, IInv, Types, OnlyLastIsOpen,
                ChargedIfApproved, BonusFacts, LimitIsKept
<1> QED BY <1>1, <1>2, <1>3, <1>4, <1>5, <1>6 DEF Next

LEMMA Invariance == Spec => []IInv
    BY InitInv, NextInv, PTL DEF Spec

LEMMA InitAccounts == Init => AInv
<1> SUFFICES ASSUME Init PROVE AInv
    OBVIOUS
<1>1. /\ Starting = {} /\ ToPay = {} /\ ToNote = {} /\ NotingFirst = {} /\ NotingNext = {}
    BY DEF Init, Idle, Starting, ToPay, ToNote, NotingFirst, NotingNext
<1>2. Cardinality({}) = 0
    BY FS_EmptySet
<1>3. Reward \in Nat /\ Commission \in Nat /\ MaxTopUps \in Nat
    BY ConstantsAssumption DEF Reward
<1>4. Accounts
    BY <1>1, <1>2, <1>3 DEF Init, Accounts
<1>5. Most \in Nat
    BY InitInv, <1>4, BelowMost
<1>6. Amounts
    <2>1. /\ \A r \in Request : request[r].amount = 0
          /\ \A t \in Task : task[t].pc = "idle"
          /\ stale = {} /\ cool = FALSE
        BY DEF Init, Idle
    <2>2. 0 <= Most
        BY <1>5
    <2>3. \A r \in Request : request[r].amount <= Most
        BY <2>1, <2>2
    <2>4. \A t \in Task : task[t].pc # "ask"
        BY <2>1
    <2> QED BY <2>1, <2>3, <2>4 DEF Amounts
<1>7. Entitled
    <2>1. Open = {}
        BY DEF Init, Open, With
    <2>2. Units(request, Open) = {}
        BY <2>1 DEF Units
    <2>3. Sum(Open) = 0
        BY <1>2, <2>2 DEF Sum, Units
    <2> QED BY <2>3 DEF Init, Entitled
<1> QED BY <1>4, <1>6, <1>7 DEF AInv

LEMMA AccountsInvariance == Spec => [](IInv /\ AInv)
<1>1. IInv /\ AInv /\ [Next]_vars => AInv'
    BY NextInv, NextAccounts, NextAmounts, NextEntitled DEF AInv
<1> QED BY <1>1, InitInv, NextInv, InitAccounts, PTL DEF Spec

\* Types: balance, rewards, requests and what the tasks saw stay below what the
\* top-ups can bring, since each brings one bonus, one reward and one earning at
\* most, however the tasks overlap.
THEOREM TypeCorrect == Spec => []TypeOK
<1>1. IInv /\ AInv => TypeOK
    <2> SUFFICES ASSUME IInv, AInv PROVE TypeOK
        OBVIOUS
    <2> USE DEF AInv
    <2>1. balance \in 0 .. Most /\ credited \in 0 .. Most /\ earned.sum \in 0 .. Most
        BY BelowMost, AccountTypes
    <2>2. earned.commissions \in 0 .. MaxTopUps /\ bonuses \in 0 .. MaxTopUps
        BY AccountTypes DEF Accounts
    <2>3. earned \in [sum : 0 .. Most, commissions : 0 .. MaxTopUps]
        BY <2>1, <2>2 DEF IInv, Types
    <2>4. request \in [Request -> [status : Status, amount : 0 .. Most]]
        BY BelowMost DEF IInv, Types, Amounts
    <2>5. task \in [Task -> Job]
        <3>1. ASSUME NEW t \in Task PROVE task[t] \in Job
            <4>1. task[t] \in Work /\ (task[t].pc = "ask" => task[t].saw \in 0 .. Most)
                BY BelowMost, JobShape DEF IInv, Types, Amounts
            <4> QED BY <4>1 DEF Work, Job, Idle
        <3> QED BY <3>1 DEF IInv, Types
    <2> QED BY <2>1, <2>2, <2>3, <2>4, <2>5 DEF TypeOK, IInv, Types, Accounts, Amounts
<1> QED BY <1>1, AccountsInvariance, PTL

\* As long as no decision went by an outdated image, all that is requested and
\* was approved has been earned; what is noted as earned has been credited.
THEOREM WithdrawnIsEarned == Spec => []WithinEntitlement
<1>1. IInv /\ AInv => WithinEntitlement
    BY BelowMost DEF AInv, Entitled, Open, WithinEntitlement
<1> QED BY <1>1, AccountsInvariance, PTL

\* A partner has one request under way at most, however many tasks create
\* requests: the lock of his row makes the second see the first.
THEOREM OneRequestIsOpen == Spec => []OneOpenRequest
<1>1. IInv => OneOpenRequest
    <2> SUFFICES ASSUME IInv PROVE OneOpenRequest
        OBVIOUS
    <2>1. With({"pending"}) \in SUBSET {last}
        BY DEF With, IInv, OnlyLastIsOpen
    <2>2. IsFiniteSet({last}) /\ Cardinality({last}) = 1
        BY FS_Singleton
    <2>3. Cardinality(With({"pending"})) <= 1
        BY <2>1, <2>2, FS_Subset
    <2> QED BY <2>3 DEF OneOpenRequest
<1> QED BY <1>1, Invariance, PTL

\* Unless decided on by an outdated image, a request is charged for once if it
\* was approved and not at all otherwise.
THEOREM ChargesFollowApproval == Spec => []ChargedIfApproved
<1>1. IInv => ChargedIfApproved
    BY DEF IInv
<1> QED BY <1>1, Invariance, PTL

\* Unless two top-ups were taken for the first at once, its bonus is paid once.
THEOREM FirstBonusOnce == Spec => []BonusOnce
<1>1. IInv => BonusOnce
    BY DEF IInv, BonusFacts, BonusOnce
<1> QED BY <1>1, Invariance, PTL

\* The limit of commissions is overshot by less than the number of tasks.
THEOREM LimitOvershootBounded == Spec => []LimitIsKept
<1>1. IInv => LimitIsKept
    BY DEF IInv
<1> QED BY <1>1, Invariance, PTL

\* No withdrawal, and nothing else, overdraws the partner's balance.
THEOREM NoOverdraft == Spec => [](balance \in Nat)
<1>1. IInv => balance \in Nat
    BY DEF IInv, Types
<1> QED BY <1>1, Invariance, PTL
=============================================================================
