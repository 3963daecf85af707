----------------------------- MODULE DailyProofs -----------------------------
(***************************************************************************)
(* Proofs about Daily: for every price, balance, number of requests, days, *)
(* acts of others and faults.                                              *)
(***************************************************************************)
EXTENDS Daily, FiniteSetTheorems, TLAPS

(* The inductive invariant.                                                *)

\* The day that was paid for with the purchase.
FirstDay == IF now = 1 THEN 1 ELSE 0

\* Who may still pay its charge back.
Refundable == {t \in Worker : task[t].pc = "activate"}

\* Every charge left money out of the balance, and there is one for each refund
\* to come: paying back never makes money.
Wallet ==
    /\ IsFiniteSet(Refundable) /\ Cardinality(Refundable) + FirstDay <= bill
    /\ balance + bill * Price <= Opening + (calls + FirstDay) * Price

\* What a task was started for, and that it has not been done since.
JobFacts(t) ==
    LET j == task[t] IN
    /\ j.pc \in {"revive", "pay"} => j.saw.status \in Inactive
    /\ j.pc = "charge" => j.saw.status = "active" /\ (doubt \/ j.saw.last # now)
    /\ j.pc \in {"apply", "resume", "activate"} => doubt \/ j.saw.status \in Inactive
    /\ j.pc = "stamp" => doubt \/ j.saw.status = "active"

\* Without doubt the day is charged for once, by one task, before it is given;
\* and a subscription whose day is given is in service.
Today ==
    ~doubt =>
        /\ bill \in {0, 1}
        /\ \A t, o \in Worker : Charged(t) /\ Charged(o) => t = o
        /\ \A t \in Worker : Charged(t) => bill = 1 /\ row.last # now
        /\ (\A t \in Worker : ~Charged(t)) => (bill = 1 <=> row.last = now)
        /\ row.last = now => row.status = "active" /\ row.end > now

IInv ==
    /\ TypeOK
    /\ row.last <= now
    /\ Wallet
    /\ \A t \in Worker : JobFacts(t)
    /\ Today

-----------------------------------------------------------------------------
(* Rows and jobs.                                                          *)

LEMMA Types ==
    ASSUME IInv
    PROVE  /\ now \in 1 .. MaxDay /\ now + 1 \in 1 .. MaxDay + 1
           /\ row \in Row /\ row.status \in Status /\ row.paused \in BOOLEAN
           /\ row.last \in 1 .. MaxDay /\ row.end \in 1 .. MaxDay + 1 /\ row.last <= now
           /\ balance \in Nat
           /\ task \in [Worker -> Job]
           /\ bill \in Nat /\ doubt \in BOOLEAN
           /\ calls \in 0 .. MaxCalls /\ acts \in 0 .. MaxActs /\ faults \in 0 .. MaxFaults
           /\ Price \in Nat \ {0} /\ Opening \in Nat /\ MaxDay \in Nat \ {0}
           /\ MaxCalls \in Nat /\ MaxActs \in Nat /\ MaxFaults \in Nat
  <1>1. row \in Row => /\ row.status \in Status /\ row.paused \in BOOLEAN
                       /\ row.last \in 1 .. MaxDay /\ row.end \in 1 .. MaxDay + 1
    BY DEF Row
  <1>2. now \in 1 .. MaxDay => now + 1 \in 1 .. MaxDay + 1
    BY ConstantsAssumption
  <1> QED
    BY <1>1, <1>2, ConstantsAssumption DEF IInv, TypeOK

\* q is r but for its status, pause and dates, which are these.
IsRow(q, s, b, l, e) == q \in Row /\ q.status = s /\ q.paused = b /\ q.last = l /\ q.end = e

\* What each field's update makes of a row.
LEMMA RowOps ==
    ASSUME NEW r \in Row
    PROVE  /\ IsRow(r, r.status, r.paused, r.last, r.end)
           /\ \A s \in Status :
                 IsRow([r EXCEPT !.status = s], s, r.paused, r.last, r.end)
           /\ \A b \in BOOLEAN :
                 IsRow([r EXCEPT !.paused = b], r.status, b, r.last, r.end)
           /\ \A d \in {"minute", "day", "before"} :
                 IsRow([r EXCEPT !.touched = d], r.status, r.paused, r.last, r.end)
           /\ \A l \in 1 .. MaxDay :
                 IsRow([r EXCEPT !.last = l], r.status, r.paused, l, r.end)
           /\ \A e \in 1 .. MaxDay + 1 :
                 IsRow([r EXCEPT !.end = e], r.status, r.paused, r.last, e)
  BY DEF Row, IsRow

LEMMA WriteType ==
    ASSUME NEW r \in Row, Write(r)
    PROVE  IsRow(row', r.status, r.paused, r.last, r.end)
  BY RowOps DEF Write

LEMMA SaveType ==
    ASSUME row \in Row, NEW r \in Row, Save(r)
    PROVE  IsRow(row', r.status, r.paused, r.last, r.end)
  BY RowOps, WriteType DEF Save

\* A day from now on.
LEMMA GivenType ==
    ASSUME IInv, NEW r \in Row
    PROVE  IsRow(Given(r), r.status, r.paused, now, now + 1)
  <1> DEFINE q == [r EXCEPT !.last = now]
  <1>1. IsRow(q, r.status, r.paused, now, r.end)
    BY RowOps, Types
  <1>2. Given(r) = [q EXCEPT !.end = now + 1]
    BY DEF Given
  <1> HIDE DEF q
  <1>3. q \in Row
    BY <1>1 DEF IsRow
  <1>4. IsRow([q EXCEPT !.end = now + 1], q.status, q.paused, q.last, now + 1)
    BY <1>3, RowOps, Types
  <1> QED
    BY <1>1, <1>2, <1>4 DEF IsRow

LEMMA ExtendedType ==
    ASSUME IInv, NEW r \in Row
    PROVE  /\ IsRow(Extended(r), r.status, r.paused, now, Extended(r).end)
           /\ Extended(r).end > now
  <1> DEFINE q == [r EXCEPT !.last = now]
             e == IF r.end < now + 1 THEN now + 1 ELSE r.end
  <1>1. IsRow(q, r.status, r.paused, now, r.end)
    BY RowOps, Types
  <1>2. Extended(r) = [q EXCEPT !.end = e]
    BY DEF Extended
  <1>3. e \in 1 .. MaxDay + 1 /\ e > now
    <2>1. r.end \in 1 .. MaxDay + 1
      BY DEF Row
    <2> QED
      BY <2>1, Types
  <1> HIDE DEF q, e
  <1>4. q \in Row
    BY <1>1 DEF IsRow
  <1>5. IsRow([q EXCEPT !.end = e], q.status, q.paused, q.last, e)
    BY <1>3, <1>4, RowOps
  <1> QED
    BY <1>1, <1>2, <1>3, <1>5 DEF IsRow

LEMMA ActivatedType ==
    ASSUME NEW r \in Row, NEW saw \in Row
    PROVE  IsRow(Activated(r, saw), IF saw.status = "active" THEN r.status ELSE "active",
                 r.paused, r.last, r.end)
  BY RowOps DEF Activated, Status

\* What tasks have read.
Seeing == {"revive", "charge", "cabinet", "bot", "pay", "apply", "resume", "activate", "stamp"}

LEMMA JobKinds ==
    ASSUME task \in [Worker -> Job], NEW t \in Worker
    PROVE  /\ task[t].pc = "idle" <=> task[t] = Idle
           /\ task[t].pc \in Seeing => task[t].saw \in Row /\ task[t].saw.status \in Status
           /\ task[t].pc \in Seeing \cup {"idle", "expire", "topup"}
  <1>1. task[t] \in Job
    OBVIOUS
  <1>2. \A r \in Row : r.status \in Status
    BY DEF Row
  <1> QED
    BY <1>1, <1>2 DEF Job, Idle, Seeing

LEMMA Becomes ==
    ASSUME IInv, NEW t \in Worker, NEW j \in Job, Become(t, j)
    PROVE  /\ task' \in [Worker -> Job] /\ task'[t] = j
           /\ \A o \in Worker \ {t} : task'[o] = task[o]
  BY Types DEF Become

LEMMA Sees ==
    ASSUME IInv, NEW t \in Worker, NEW c \in Seeing, NEW r \in Row,
           Become(t, [pc |-> c, saw |-> r])
    PROVE  /\ task' \in [Worker -> Job] /\ task'[t].pc = c /\ task'[t].saw = r
           /\ \A o \in Worker \ {t} : task'[o] = task[o]
  <1> DEFINE j == [pc |-> c, saw |-> r]
  <1>1. j \in Job /\ j.pc = c /\ j.saw = r
    BY DEF Job, Seeing
  <1>2. Become(t, j)
    OBVIOUS
  <1> HIDE DEF j
  <1> QED
    BY <1>1, <1>2, Becomes

LEMMA Ends ==
    ASSUME IInv, NEW t \in Worker, Done(t)
    PROVE  /\ task' \in [Worker -> Job] /\ task'[t].pc = "idle"
           /\ \A o \in Worker \ {t} : task'[o] = task[o]
  <1>1. Idle \in Job /\ Idle.pc = "idle"
    BY DEF Idle, Job
  <1> QED
    BY <1>1, Becomes DEF Done

-----------------------------------------------------------------------------
(* The wallet.                                                             *)

LEMMA Times ==
    ASSUME NEW m \in Int, NEW n \in Int, NEW c \in Nat
    PROVE  /\ (m + 1) * c = m * c + c /\ (m - 1) * c = m * c - c
           /\ m <= n => m * c <= n * c
           /\ m * c \in Int /\ (m >= 0 => m * c >= 0)
  <1>1. (m + 1) * c = m * c + c /\ (m - 1) * c = m * c - c /\ m * c \in Int /\ n * c \in Int
    OBVIOUS
  <1>2. \A k \in Nat : k * c >= 0
    OBVIOUS
  <1>3. m >= 0 => m * c >= 0
    BY <1>2
  <1>4. ASSUME m <= n PROVE m * c <= n * c
    <2>1. (n - m) * c >= 0
      BY <1>2, <1>4
    <2>2. (n - m) * c = n * c - m * c
      OBVIOUS
    <2> QED
      BY <1>1, <2>1, <2>2
  <1> QED
    BY <1>1, <1>3, <1>4

LEMMA WalletTypes ==
    ASSUME IInv
    PROVE  /\ FirstDay \in Nat /\ bill * Price \in Int
           /\ (calls + FirstDay) * Price \in Int
           /\ (calls + 1 + FirstDay) * Price = (calls + FirstDay) * Price + Price
           /\ (bill + 1) * Price = bill * Price + Price
           /\ (bill - 1) * Price = bill * Price - Price
           /\ IsFiniteSet(Refundable) /\ Cardinality(Refundable) \in Nat
           /\ Cardinality(Refundable) + FirstDay <= bill
           /\ balance + bill * Price <= Opening + (calls + FirstDay) * Price
  <1>1. FirstDay \in Nat
    BY DEF FirstDay
  <1>2. /\ Cardinality(Refundable) + FirstDay <= bill
        /\ balance + bill * Price <= Opening + (calls + FirstDay) * Price
        /\ IsFiniteSet(Refundable) /\ Cardinality(Refundable) \in Nat
    BY FS_CardinalityType DEF IInv, Wallet
  <1>3. bill \in Int /\ calls + FirstDay \in Int /\ Price \in Nat
    BY <1>1, Types
  <1>4. calls + 1 + FirstDay = (calls + FirstDay) + 1
    BY <1>1, Types
  <1> HIDE DEF FirstDay, Refundable
  <1> QED
    BY <1>1, <1>2, <1>3, <1>4, Times

\* The limit of the balance after a step.
LEMMA BalanceLimit ==
    ASSUME bill' \in Nat, now' \in Nat, balance' \in Nat, calls' \in 0 .. MaxCalls, Wallet'
    PROVE  balance' \in 0 .. Opening + MaxCalls * Price
  <1>1. /\ Cardinality(Refundable') \in Nat
        /\ Cardinality(Refundable') + FirstDay' <= bill'
    BY FS_CardinalityType DEF Wallet
  <1>2. FirstDay' \in Nat
    BY DEF FirstDay
  <1>3. PICK f \in Nat, b \in Nat, c \in 0 .. MaxCalls, l \in Nat :
            f = FirstDay' /\ b = bill' /\ c = calls' /\ l = balance'
    BY <1>2
  <1>4. f <= b
    BY <1>1, <1>3
  <1>5. l + b * Price <= Opening + (c + f) * Price
    BY <1>3 DEF Wallet
  <1>6. /\ (c + f) * Price <= (MaxCalls + b) * Price
        /\ (MaxCalls + b) * Price = MaxCalls * Price + b * Price
        /\ (c + f) * Price \in Int /\ MaxCalls * Price \in Int /\ b * Price \in Int
    <2>1. /\ c + f \in Int /\ MaxCalls + b \in Int /\ MaxCalls \in Int /\ b \in Int
          /\ Price \in Nat /\ c + f <= MaxCalls + b
      BY <1>4, ConstantsAssumption
    <2> QED
      BY <2>1, Times
  <1>7. l <= Opening + MaxCalls * Price
    BY <1>5, <1>6, ConstantsAssumption
  <1> QED
    BY <1>3, <1>6, <1>7, ConstantsAssumption

\* Nothing is charged; what is paid in is at most a price for a call.
LEMMA WalletKept ==
    ASSUME IInv, UNCHANGED <<now, bill>>, Refundable' \subseteq Refundable,
           balance' \in Nat, calls' \in Nat,
           \/ calls' = calls /\ balance' <= balance
           \/ calls' = calls + 1 /\ balance' <= balance + Price
    PROVE  Wallet'
  <1>1. /\ IsFiniteSet(Refundable') /\ Cardinality(Refundable') \in Nat
        /\ Cardinality(Refundable') <= Cardinality(Refundable)
    BY FS_Subset, FS_CardinalityType, WalletTypes
  <1>2. FirstDay' = FirstDay
    BY DEF FirstDay
  <1> HIDE DEF FirstDay, Refundable
  <1>3. Cardinality(Refundable') + FirstDay <= bill
    BY <1>1, WalletTypes, Types
  <1>4. balance' + bill * Price <= Opening + (calls' + FirstDay) * Price
    <2>1. CASE calls' = calls /\ balance' <= balance
      BY <2>1, WalletTypes, Types
    <2>2. CASE calls' = calls + 1 /\ balance' <= balance + Price
      <3>1. (calls' + FirstDay) * Price = (calls + FirstDay) * Price + Price
        BY <2>2, WalletTypes
      <3> QED
        BY <2>2, <3>1, WalletTypes, Types
    <2> QED
      BY <2>1, <2>2
  <1> QED
    BY <1>1, <1>2, <1>3, <1>4 DEF Wallet

\* t is charged.
LEMMA WalletCharged ==
    ASSUME IInv, NEW t \in Worker, UNCHANGED now, bill' = bill + 1,
           balance >= Price, balance' = balance - Price,
           t \notin Refundable, Refundable' \subseteq Refundable \cup {t},
           calls' \in {calls, calls + 1}
    PROVE  Wallet'
  <1>1. /\ IsFiniteSet(Refundable \cup {t})
        /\ Cardinality(Refundable \cup {t}) = Cardinality(Refundable) + 1
    BY FS_AddElement, WalletTypes
  <1>2. /\ IsFiniteSet(Refundable') /\ Cardinality(Refundable') \in Nat
        /\ Cardinality(Refundable') <= Cardinality(Refundable) + 1
    BY <1>1, FS_Subset, FS_CardinalityType
  <1>3. FirstDay' = FirstDay
    BY DEF FirstDay
  <1> HIDE DEF FirstDay, Refundable
  <1>4. Cardinality(Refundable') + FirstDay <= bill'
    BY <1>2, WalletTypes, Types
  <1>5. /\ (calls + FirstDay) * Price <= (calls' + FirstDay) * Price
        /\ (calls' + FirstDay) * Price \in Int
    BY WalletTypes, Types
  <1>6. bill' * Price = bill * Price + Price
    BY WalletTypes
  <1>7. balance' + bill' * Price <= Opening + (calls' + FirstDay) * Price
    BY <1>5, <1>6, WalletTypes, Types
  <1> QED
    BY <1>2, <1>3, <1>4, <1>7 DEF Wallet

\* t pays back its charge.
LEMMA WalletRefunded ==
    ASSUME IInv, NEW t \in Worker, UNCHANGED <<now, calls>>, t \in Refundable,
           bill' = bill - 1, balance' = balance + Price,
           Refundable' \subseteq Refundable \ {t}
    PROVE  Wallet' /\ bill' \in Nat
  <1>1. /\ IsFiniteSet(Refundable \ {t})
        /\ Cardinality(Refundable \ {t}) = Cardinality(Refundable) - 1
    BY FS_RemoveElement, WalletTypes
  <1>2. /\ IsFiniteSet(Refundable') /\ Cardinality(Refundable') \in Nat
        /\ Cardinality(Refundable') <= Cardinality(Refundable) - 1
    BY <1>1, FS_Subset, FS_CardinalityType
  <1>3. FirstDay' = FirstDay
    BY DEF FirstDay
  <1> HIDE DEF FirstDay, Refundable
  <1>4. Cardinality(Refundable') + FirstDay <= bill' /\ bill' \in Nat
    BY <1>2, WalletTypes, Types
  <1>5. bill' * Price = bill * Price - Price
    BY WalletTypes
  <1>6. balance' + bill' * Price <= Opening + (calls + FirstDay) * Price
    BY <1>5, WalletTypes, Types
  <1> QED
    BY <1>2, <1>3, <1>4, <1>6 DEF Wallet

-----------------------------------------------------------------------------
(* What the day's charges become.                                          *)

\* The tasks stay as they are with regard to their charges.
LEMMA TodayKept ==
    ASSUME IInv, UNCHANGED <<now, bill>>, doubt => doubt',
           doubt' \/ \A o \in Worker : Charged(o)' <=> Charged(o),
           doubt' \/ row'.last = row.last,
           \/ doubt'
           \/ row'.status = row.status /\ row'.end = row.end
           \/ row.last = now => row'.status = "active" /\ row'.end > now
    PROVE  Today'
  BY DEF IInv, Today

\* A task charges what was not paid for yet, and gives the day at once or is
\* going to.
LEMMA TodayCharged ==
    ASSUME IInv, NEW t \in Worker, NEW saw, UNCHANGED now,
           bill' = bill + 1, doubt' = (doubt \/ Doubtful(t, saw)),
           ~Charged(t), doubt \/ Doubtful(t, saw) \/ row.last # now,
           \A o \in Worker \ {t} : task'[o] = task[o],
           \/ doubt'
           \/ Charged(t)' /\ row' = row
           \/ ~Charged(t)' /\ row'.last = now /\ row'.status = "active" /\ row'.end > now
    PROVE  Today'
  <1> SUFFICES ASSUME ~doubt, ~Doubtful(t, saw)
               PROVE  Today'
    BY DEF Today
  <1>1. \A o \in Worker : ~Charged(o)
    BY DEF Doubtful
  <1>2. bill = 0 /\ row.last # now
    BY <1>1 DEF IInv, Today
  <1>3. \A o \in Worker : Charged(o)' => o = t
    BY <1>1 DEF Charged
  <1> QED
    BY <1>2, <1>3 DEF Today

\* A task that has charged gives the day.
LEMMA TodayGiven ==
    ASSUME IInv, NEW t \in Worker, UNCHANGED <<now, bill>>, doubt => doubt',
           Charged(t), ~Charged(t)',
           \A o \in Worker \ {t} : task'[o] = task[o],
           doubt' \/ (row'.last = now /\ row'.status = "active" /\ row'.end > now)
    PROVE  Today'
  <1> SUFFICES ASSUME ~doubt, ~doubt'
               PROVE  Today'
    BY DEF Today
  <1>1. bill = 1 /\ \A o \in Worker : Charged(o) => o = t
    BY DEF IInv, Today
  <1>2. \A o \in Worker : ~Charged(o)'
    BY <1>1 DEF Charged
  <1> QED
    BY <1>1, <1>2 DEF Today

LEMMA JobFrame ==
    ASSUME IInv, NEW o \in Worker, task'[o] = task[o], UNCHANGED now, doubt => doubt'
    PROVE  JobFacts(o)'
  BY DEF IInv, JobFacts

\* t takes a step.
LEMMA TaskStep ==
    ASSUME IInv, NEW t \in Worker, UNCHANGED now, row' \in Row, row'.last <= now,
           balance' \in Nat, task' \in [Worker -> Job],
           \A o \in Worker \ {t} : task'[o] = task[o],
           bill' \in Nat, doubt' \in BOOLEAN, doubt => doubt',
           calls' \in 0 .. MaxCalls, acts' \in 0 .. MaxActs, faults' \in 0 .. MaxFaults,
           JobFacts(t)', Wallet', Today'
    PROVE  IInv'
  <1>1. balance' \in 0 .. Opening + MaxCalls * Price
    <2>1. now' \in Nat
      BY Types
    <2> QED
      BY <2>1, BalanceLimit
  <1>2. TypeOK'
    BY <1>1, Types DEF TypeOK
  <1>3. \A o \in Worker : JobFacts(o)'
    BY JobFrame
  <1> QED
    BY <1>2, <1>3 DEF IInv

-----------------------------------------------------------------------------
(* Steps of three shapes.                                                  *)

\* Nothing is charged or given.
LEMMA PlainStep ==
    ASSUME IInv, NEW t \in Worker, UNCHANGED <<now, bill>>,
           task' \in [Worker -> Job], \A o \in Worker \ {t} : task'[o] = task[o],
           row' \in Row, row'.last = row.last \/ (doubt' /\ row'.last <= now), balance' \in Nat,
           \/ calls' = calls /\ balance' <= balance
           \/ calls' = calls + 1 /\ balance' <= balance + Price,
           calls' \in 0 .. MaxCalls, acts' \in 0 .. MaxActs, faults' \in 0 .. MaxFaults,
           doubt' \in BOOLEAN, doubt => doubt',
           doubt' \/ (Charged(t)' <=> Charged(t)),
           task'[t].pc = "activate" => task[t].pc = "activate",
           \/ doubt'
           \/ row'.status = row.status /\ row'.end = row.end
           \/ row.last = now => row'.status = "active" /\ row'.end > now,
           JobFacts(t)'
    PROVE  IInv'
  <1>1. Refundable' \subseteq Refundable
    BY DEF Refundable
  <1>2. Wallet'
    BY <1>1, WalletKept
  <1>3. doubt' \/ \A o \in Worker : Charged(o)' <=> Charged(o)
    BY DEF Charged
  <1>4. Today'
    BY <1>3, TodayKept
  <1>5. row'.last <= now /\ bill' \in Nat
    BY Types
  <1> QED
    BY <1>2, <1>4, <1>5, TaskStep

\* t charges for saw.
LEMMA ChargeStep ==
    ASSUME IInv, NEW t \in Worker, NEW saw, Charge(t, saw), ~Charged(t),
           UNCHANGED <<now, acts, faults>>,
           task' \in [Worker -> Job], \A o \in Worker \ {t} : task'[o] = task[o],
           calls' \in {calls, calls + 1}, calls' \in 0 .. MaxCalls,
           row' \in Row, row'.last <= now,
           doubt \/ Doubtful(t, saw) \/ row.last # now,
           \/ doubt'
           \/ Charged(t)' /\ row' = row
           \/ ~Charged(t)' /\ row'.last = now /\ row'.status = "active" /\ row'.end > now,
           JobFacts(t)'
    PROVE  IInv'
  <1>1. /\ balance >= Price /\ balance' = balance - Price /\ bill' = bill + 1
        /\ doubt' = (doubt \/ Doubtful(t, saw))
    BY DEF Charge
  <1>2. balance' \in Nat /\ bill' \in Nat /\ doubt' \in BOOLEAN /\ (doubt => doubt')
    BY <1>1, Types DEF Doubtful, Same
  <1>3. t \notin Refundable /\ Refundable' \subseteq Refundable \cup {t}
    BY DEF Refundable, Charged
  <1>4. Wallet'
    BY <1>1, <1>3, WalletCharged
  <1>5. Today'
    BY <1>1, TodayCharged
  <1>6. acts' \in 0 .. MaxActs /\ faults' \in 0 .. MaxFaults
    BY Types
  <1> QED
    BY <1>2, <1>4, <1>5, <1>6, TaskStep

\* t gives the day it has charged for.
LEMMA GiveStep ==
    ASSUME IInv, NEW t \in Worker, Charged(t), task[t].pc # "activate", Done(t), Finish(t),
           UNCHANGED <<now, balance, bill, spent>>,
           row' \in Row, row'.last <= now,
           doubt' \/ (row'.last = now /\ row'.status = "active" /\ row'.end > now)
    PROVE  IInv'
  <1>1. /\ task' \in [Worker -> Job] /\ task'[t].pc = "idle"
        /\ \A o \in Worker \ {t} : task'[o] = task[o]
    BY Ends
  <1>2. doubt' \in BOOLEAN /\ (doubt => doubt')
    BY Types DEF Finish, Same
  <1>3. UNCHANGED <<calls, acts, faults>>
    BY DEF spent
  <1>4. ~Charged(t)' /\ JobFacts(t)'
    BY <1>1 DEF Charged, JobFacts
  <1>5. Today'
    BY <1>1, <1>2, <1>4, TodayGiven
  <1>6. Wallet'
    <2>1. Refundable' \subseteq Refundable
      BY <1>1 DEF Refundable
    <2> QED
      BY <1>3, <2>1, Types, WalletKept
  <1> QED
    BY <1>1, <1>2, <1>3, <1>4, <1>5, <1>6, Types, TaskStep

\* What is certain without doubt.
LEMMA Certain ==
    ASSUME IInv, ~doubt
    PROVE  row.status \in Inactive => row.last # now
  BY DEF IInv, Today, Inactive

-----------------------------------------------------------------------------
(* The loop.                                                               *)

LEMMA ListStep == IInv /\ List => IInv'
  <1> SUFFICES ASSUME IInv, List PROVE IInv'
    OBVIOUS
  <1>1. Loop \in Worker /\ task[Loop].pc = "idle" /\ row \in Row
    BY Types, JobKinds DEF List, Worker
  <1>2. /\ task' \in [Worker -> Job]
        /\ \A o \in Worker \ {Loop} : task'[o] = task[o]
        /\ task'[Loop].saw = row
        /\ \/ task'[Loop].pc = "revive" /\ Resumable
           \/ task'[Loop].pc = "charge" /\ Chargeable
    BY <1>1, Sees DEF List, Seeing
  <1>3. UNCHANGED <<now, row, balance, bill, doubt, calls, acts, faults>>
    BY DEF List, account, ghost, spent
  <1>4. JobFacts(Loop)'
    BY <1>2, <1>3, Types DEF JobFacts, Resumable, Chargeable, Due, Inactive, Status
  <1>5. ~Charged(Loop) /\ ~Charged(Loop)' /\ task'[Loop].pc # "activate"
    BY <1>1, <1>2 DEF Charged
  <1> QED
    BY <1>1, <1>2, <1>3, <1>4, <1>5, Types, PlainStep

LEMMA ReviveStep == IInv /\ Revive => IInv'
  <1> SUFFICES ASSUME IInv, Revive PROVE IInv'
    OBVIOUS
  <1> DEFINE r == [row EXCEPT !.status = "active"]
  <1>1. /\ Loop \in Worker /\ task[Loop].pc = "revive"
        /\ IsRow(r, "active", row.paused, row.last, row.end)
    BY Types, RowOps DEF Revive, Worker, Status
  <1>2. Become(Loop, [pc |-> "charge", saw |-> r]) /\ Write(r)
    BY DEF Revive
  <1> HIDE DEF r
  <1>3. /\ task' \in [Worker -> Job] /\ task'[Loop].pc = "charge" /\ task'[Loop].saw = r
        /\ \A o \in Worker \ {Loop} : task'[o] = task[o]
    BY <1>1, <1>2, Sees DEF Seeing, IsRow
  <1>4. IsRow(row', "active", row.paused, row.last, row.end)
    BY <1>1, <1>2, WriteType DEF IsRow
  <1>5. UNCHANGED <<now, balance, bill, calls, acts, faults>>
    BY DEF Revive, spent
  <1>6. doubt' = (doubt \/ Doubtful(Loop, task[Loop].saw)) /\ doubt' \in BOOLEAN
    BY Types DEF Revive, Doubtful, Same
  <1>7. doubt' \/ row.last # now
    <2>1. Doubtful(Loop, task[Loop].saw) \/ row.status = task[Loop].saw.status
      BY DEF Doubtful, Same
    <2>2. task[Loop].saw.status \in Inactive
      BY <1>1 DEF IInv, JobFacts
    <2> QED
      BY <1>6, <2>1, <2>2, Certain
  <1>8. JobFacts(Loop)'
    BY <1>1, <1>3, <1>5, <1>7 DEF JobFacts, IsRow
  <1>9. ~Charged(Loop) /\ ~Charged(Loop)' /\ task'[Loop].pc # "activate"
    BY <1>1, <1>3 DEF Charged
  <1> QED
    BY <1>1, <1>3, <1>4, <1>5, <1>6, <1>7, <1>8, <1>9, Types, PlainStep DEF IsRow

LEMMA LoopChargeStep == IInv /\ LoopCharge => IInv'
  <1> SUFFICES ASSUME IInv, LoopCharge PROVE IInv'
    OBVIOUS
  <1> DEFINE saw == task[Loop].saw
  <1>1. Loop \in Worker /\ task[Loop].pc = "charge"
    BY DEF LoopCharge, Worker
  <1>2. /\ task' \in [Worker -> Job] /\ task'[Loop].pc = "idle"
        /\ \A o \in Worker \ {Loop} : task'[o] = task[o]
    BY <1>1, Ends DEF LoopCharge
  <1>3. IsRow(row', row.status, row.paused, now, row'.end) /\ row'.end > now
    <2>1. /\ IsRow(Extended(row), row.status, row.paused, now, Extended(row).end)
          /\ Extended(row).end > now
      BY Types, ExtendedType
    <2>2. Write(Extended(row))
      BY DEF LoopCharge
    <2> QED
      BY <2>1, <2>2, WriteType DEF IsRow
  <1>4. UNCHANGED <<now, calls, acts, faults>> /\ Charge(Loop, saw)
    BY DEF LoopCharge, spent
  <1>5. saw.status = "active" /\ (doubt \/ saw.last # now)
    BY <1>1 DEF IInv, JobFacts
  <1>6. Doubtful(Loop, saw) \/ (row.status = saw.status /\ row.last = saw.last)
    BY DEF Doubtful, Same
  <1>7. ~Charged(Loop) /\ ~Charged(Loop)' /\ JobFacts(Loop)'
    BY <1>1, <1>2 DEF Charged, JobFacts
  <1>8. doubt' = (doubt \/ Doubtful(Loop, saw))
    BY <1>4 DEF Charge
  <1>9. row'.last <= now /\ calls' \in 0 .. MaxCalls
    BY <1>3, <1>4, Types DEF IsRow
  <1> HIDE DEF saw
  <1>10. doubt \/ Doubtful(Loop, saw) \/ row.last # now
    BY <1>5, <1>6
  <1>11. \/ doubt'
         \/ row'.last = now /\ row'.status = "active" /\ row'.end > now
    BY <1>3, <1>5, <1>6, <1>8 DEF IsRow
  <1> QED
    BY <1>1, <1>2, <1>3, <1>4, <1>7, <1>9, <1>10, <1>11, ChargeStep DEF IsRow

LEMMA SuspendStep == IInv /\ Suspend => IInv'
  <1> SUFFICES ASSUME IInv, Suspend PROVE IInv'
    OBVIOUS
  <1>1. Loop \in Worker /\ task[Loop].pc = "charge"
    BY DEF Suspend, Worker
  <1>2. /\ task' \in [Worker -> Job] /\ task'[Loop].pc = "idle"
        /\ \A o \in Worker \ {Loop} : task'[o] = task[o]
    BY <1>1, Ends DEF Suspend
  <1>3. IsRow(row', "disabled", row.paused, row.last, row.end)
    <2> DEFINE r == [row EXCEPT !.status = "disabled"]
    <2>1. IsRow(r, "disabled", row.paused, row.last, row.end) /\ row \in Row
      BY Types, RowOps DEF Status
    <2>2. Save(r)
      BY DEF Suspend
    <2> HIDE DEF r
    <2> QED
      BY <2>1, <2>2, SaveType DEF IsRow
  <1>4. UNCHANGED <<now, balance, bill, calls, acts, faults>>
    BY DEF Suspend, spent
  <1>5. doubt' = (doubt \/ Doubtful(Loop, task[Loop].saw)) /\ doubt' \in BOOLEAN
    BY Types DEF Suspend, Doubtful, Same
  <1>6. doubt' \/ row.last # now
    <2>1. Doubtful(Loop, task[Loop].saw) \/ row.last = task[Loop].saw.last
      BY DEF Doubtful, Same
    <2>2. doubt \/ task[Loop].saw.last # now
      BY <1>1 DEF IInv, JobFacts
    <2> QED
      BY <1>5, <2>1, <2>2
  <1>7. ~Charged(Loop) /\ ~Charged(Loop)' /\ task'[Loop].pc # "activate" /\ JobFacts(Loop)'
    BY <1>1, <1>2 DEF Charged, JobFacts
  <1> QED
    BY <1>1, <1>2, <1>3, <1>4, <1>5, <1>6, <1>7, Types, PlainStep DEF IsRow

-----------------------------------------------------------------------------
(* The owner.                                                              *)

\* A call is counted.
LEMMA Called ==
    ASSUME IInv, NEW t, Request(t)
    PROVE  /\ t \in Worker /\ task[t].pc = "idle" /\ ~Charged(t)
           /\ calls' = calls + 1 /\ calls' \in 0 .. MaxCalls /\ UNCHANGED <<acts, faults>>
  BY Types DEF Request, Worker, Idle, Charged

\* The pause is set or lifted, by a task that then is through.
LEMMA Switches ==
    ASSUME IInv, NEW t \in Worker, NEW b \in BOOLEAN,
           Write([row EXCEPT !.paused = b]) \/ Save([row EXCEPT !.paused = b])
    PROVE  IsRow(row', row.status, b, row.last, row.end)
  <1> DEFINE r == [row EXCEPT !.paused = b]
  <1>1. IsRow(r, row.status, b, row.last, row.end) /\ row \in Row
    BY Types, RowOps
  <1>2. Write(r) \/ Save(r)
    OBVIOUS
  <1> HIDE DEF r
  <1> QED
    BY <1>1, <1>2, WriteType, SaveType DEF IsRow

\* In service with a day from now on, and not paused.
LEMMA TakenUp ==
    ASSUME IInv, Write([Given(row) EXCEPT !.status = "active", !.paused = FALSE])
    PROVE  IsRow(row', "active", FALSE, now, now + 1)
  <1> DEFINE g == Given(row)
  <1>1. IsRow(g, row.status, row.paused, now, now + 1)
    BY Types, GivenType
  <1>2. Write([g EXCEPT !.status = "active", !.paused = FALSE])
    OBVIOUS
  <1> HIDE DEF g
  <1>3. g \in Row
    BY <1>1 DEF IsRow
  <1> DEFINE r == [g EXCEPT !.status = "active"]
             q == [r EXCEPT !.paused = FALSE]
  <1>4. IsRow(r, "active", g.paused, g.last, g.end)
    BY <1>3, RowOps DEF Status
  <1>5. [g EXCEPT !.status = "active", !.paused = FALSE] = q
    BY <1>3 DEF Row
  <1> HIDE DEF r
  <1>6. r \in Row
    BY <1>4 DEF IsRow
  <1>7. IsRow(q, r.status, FALSE, r.last, r.end)
    BY <1>6, RowOps
  <1>8. Write(q)
    BY <1>2, <1>5
  <1> HIDE DEF q
  <1>9. IsRow(row', q.status, q.paused, q.last, q.end)
    BY <1>7, <1>8, WriteType DEF IsRow
  <1> QED
    BY <1>1, <1>4, <1>7, <1>9 DEF IsRow

LEMMA MiniAppStep ==
    ASSUME IInv, NEW t, MiniApp(t)
    PROVE  IInv'
  <1>1. /\ t \in Worker /\ task[t].pc = "idle" /\ ~Charged(t)
        /\ calls' = calls + 1 /\ calls' \in 0 .. MaxCalls /\ UNCHANGED <<acts, faults>>
    BY Called DEF MiniApp
  <1>2. UNCHANGED <<now, task>>
    BY DEF MiniApp
  <1>3. JobFacts(t)'
    BY <1>1, <1>2 DEF JobFacts
  <1>4. ~Charged(t)'
    BY <1>1, <1>2 DEF Charged
  <1>5. ASSUME NEW b \in BOOLEAN, Write([row EXCEPT !.paused = b]), UNCHANGED <<balance, ghost>>
        PROVE  IInv'
    <2>1. IsRow(row', row.status, b, row.last, row.end)
      BY <1>1, <1>5, Switches
    <2>2. UNCHANGED <<bill, doubt, balance>>
      BY <1>5 DEF ghost
    <2> QED
      BY <1>1, <1>2, <1>3, <1>4, <2>1, <2>2, Types, PlainStep DEF IsRow
  <1>6. CASE /\ row.status \in Inactive
             /\ Charge(t, row)
             /\ Write([Given(row) EXCEPT !.status = "active", !.paused = FALSE])
    <2>1. IsRow(row', "active", FALSE, now, now + 1)
      BY <1>6, TakenUp
    <2>2. row'.last <= now /\ row'.end > now
      BY <2>1, Types DEF IsRow
    <2>3. doubt \/ Doubtful(t, row) \/ row.last # now
      BY <1>6, Certain
    <2> QED
      BY <1>1, <1>2, <1>3, <1>4, <1>6, <2>1, <2>2, <2>3, Types, ChargeStep DEF IsRow
  <1> QED
    BY <1>5, <1>6 DEF MiniApp

LEMMA LookStep ==
    ASSUME IInv, NEW t, NEW c \in {"cabinet", "bot"}, Look(t, c)
    PROVE  IInv'
  <1>1. /\ t \in Worker /\ task[t].pc = "idle" /\ ~Charged(t)
        /\ calls' = calls + 1 /\ calls' \in 0 .. MaxCalls /\ UNCHANGED <<acts, faults>>
    BY Called DEF Look
  <1>2. /\ task' \in [Worker -> Job] /\ task'[t].pc = c
        /\ \A o \in Worker \ {t} : task'[o] = task[o]
    BY <1>1, Sees, Types DEF Look, Seeing
  <1>3. UNCHANGED <<now, row, balance, bill, doubt>>
    BY DEF Look, account, ghost
  <1>4. JobFacts(t)' /\ ~Charged(t)' /\ task'[t].pc # "activate"
    BY <1>2 DEF JobFacts, Charged
  <1> QED
    BY <1>1, <1>2, <1>3, <1>4, Types, PlainStep

\* A task that was started by the owner and is through without a charge.
LEMMA SwitchStep ==
    ASSUME IInv, NEW t \in Worker, task[t].pc \in {"cabinet", "bot", "topup", "pay"},
           Done(t), UNCHANGED <<now, balance, bill, spent>>,
           doubt' \in BOOLEAN, doubt => doubt',
           row' \in Row, row'.last = row.last,
           row'.status = row.status, row'.end = row.end
    PROVE  IInv'
  <1>1. /\ task' \in [Worker -> Job] /\ task'[t].pc = "idle"
        /\ \A o \in Worker \ {t} : task'[o] = task[o]
    BY Ends
  <1>2. UNCHANGED <<calls, acts, faults>>
    BY DEF spent
  <1>3. JobFacts(t)' /\ ~Charged(t) /\ ~Charged(t)' /\ task'[t].pc # "activate"
    BY <1>1 DEF JobFacts, Charged
  <1> QED
    BY <1>1, <1>2, <1>3, Types, PlainStep

\* A task that charges for what it has read, and then goes on.
LEMMA ChargeForStep ==
    ASSUME IInv, NEW t \in Worker, NEW saw \in Row, NEW c \in {"apply", "resume", "activate"},
           task[t].pc \in {"cabinet", "bot", "pay"},
           saw.status \in Inactive, Charge(t, saw),
           Become(t, [pc |-> c, saw |-> row]), UNCHANGED <<now, row, spent>>
    PROVE  IInv'
  <1>1. /\ task' \in [Worker -> Job] /\ task'[t].pc = c /\ task'[t].saw = row
        /\ \A o \in Worker \ {t} : task'[o] = task[o]
    BY Sees, Types DEF Seeing
  <1>2. UNCHANGED <<calls, acts, faults>>
    BY DEF spent
  <1>3. Doubtful(t, saw) \/ row.status = saw.status
    BY DEF Doubtful, Same
  <1>4. doubt' = (doubt \/ Doubtful(t, saw))
    BY DEF Charge
  <1>5. doubt \/ Doubtful(t, saw) \/ row.last # now
    BY <1>3, Certain
  <1>6. JobFacts(t)'
    BY <1>1, <1>3, <1>4 DEF JobFacts
  <1>7. ~Charged(t) /\ Charged(t)'
    BY <1>1 DEF Charged
  <1> QED
    BY <1>1, <1>2, <1>5, <1>6, <1>7, Types, ChargeStep

LEMMA CabinetStep ==
    ASSUME IInv, NEW t \in Worker, Cabinet(t)
    PROVE  IInv'
  <1> DEFINE saw == task[t].saw
  <1>1. task[t].pc = "cabinet" /\ saw \in Row /\ UNCHANGED <<now, spent>>
    BY Types, JobKinds DEF Cabinet, Seeing
  <1>2. ASSUME NEW b \in BOOLEAN, Save([row EXCEPT !.paused = b]), Done(t),
               UNCHANGED <<balance, ghost>>
        PROVE  IInv'
    <2>1. IsRow(row', row.status, b, row.last, row.end)
      BY <1>2, Switches
    <2>2. UNCHANGED <<balance, bill, doubt>>
      BY <1>2 DEF ghost
    <2> QED
      BY <1>1, <1>2, <2>1, <2>2, Types, SwitchStep DEF IsRow
  <1>3. ASSUME Done(t), UNCHANGED <<account, ghost>>
        PROVE  IInv'
    <2>1. UNCHANGED <<row, balance, bill, doubt>>
      BY <1>3 DEF ghost, account
    <2> QED
      BY <1>1, <1>3, <2>1, Types, SwitchStep
  <1>4. ASSUME saw.status \in Inactive, Charge(t, saw),
               Become(t, [pc |-> "apply", saw |-> row]), UNCHANGED row
        PROVE  IInv'
    <2> HIDE DEF saw
    <2> QED
      BY <1>1, <1>4, ChargeForStep
  <1> QED
    BY <1>2, <1>3, <1>4 DEF Cabinet

\* A day is given to what was inactive when the task read it last.
LEMMA GivenUp ==
    ASSUME IInv, NEW r \in Row, NEW saw \in Row, saw.status \in Inactive,
           Write(Given(Activated(r, saw)))
    PROVE  /\ row' \in Row /\ row'.last = now /\ row'.status = "active" /\ row'.end = now + 1
           /\ row'.last <= now /\ row'.end > now
  <1> DEFINE a == Activated(r, saw)
  <1>1. a \in Row /\ a.status = "active"
    BY ActivatedType DEF IsRow, Inactive
  <1>2. Write(Given(a))
    OBVIOUS
  <1> HIDE DEF a
  <1>3. IsRow(Given(a), "active", a.paused, now, now + 1)
    BY <1>1, GivenType
  <1>4. IsRow(row', "active", a.paused, now, now + 1)
    BY <1>2, <1>3, WriteType DEF IsRow
  <1> QED
    BY <1>4, Types DEF IsRow

LEMMA ApplyStep ==
    ASSUME IInv, NEW t \in Worker, Apply(t)
    PROVE  IInv'
  <1> DEFINE saw == task[t].saw
             a == Activated(row, saw)
  <1>1. /\ task[t].pc = "apply" /\ Charged(t) /\ saw \in Row
        /\ Done(t) /\ Finish(t) /\ UNCHANGED <<now, balance, bill, spent>>
    BY Types, JobKinds DEF Apply, Charged, Seeing
  <1>2. doubt \/ saw.status \in Inactive
    BY <1>1 DEF IInv, JobFacts
  <1>3. Write(Given(a))
    BY DEF Apply
  <1>4. row' \in Row /\ row'.last = now
    <2>1. a \in Row
      BY <1>1, ActivatedType, Types DEF IsRow
    <2> HIDE DEF a
    <2>2. IsRow(Given(a), a.status, a.paused, now, now + 1)
      BY <2>1, GivenType
    <2> QED
      BY <1>3, <2>2, WriteType DEF IsRow
  <1>5. saw.status \in Inactive => row'.status = "active" /\ row'.end > now
    BY <1>1, <1>3, GivenUp, Types
  <1>6. doubt => doubt'
    BY <1>1 DEF Finish
  <1> HIDE DEF saw
  <1> QED
    BY <1>1, <1>2, <1>4, <1>5, <1>6, Types, GiveStep


\* The bot's resume, of what was active or inactive when it was read last.
LEMMA ResumedType ==
    ASSUME IInv, NEW saw \in Row, Resumed(saw)
    PROVE  /\ row' \in Row /\ row'.last <= now
           /\ saw.status = "active" =>
                 row'.last = row.last /\ row'.status = row.status /\ row'.end = row.end
           /\ saw.status \in Inactive =>
                 row'.last = now /\ row'.status = "active" /\ row'.end > now
  <1> DEFINE r == IF saw.paused THEN [row EXCEPT !.paused = FALSE] ELSE row
  <1>1. IsRow(r, row.status, r.paused, row.last, row.end)
    <2>1. IsRow(row, row.status, row.paused, row.last, row.end)
      BY Types, RowOps
    <2>2. IsRow([row EXCEPT !.paused = FALSE], row.status, FALSE, row.last, row.end)
      BY Types, RowOps
    <2> QED
      BY <2>1, <2>2 DEF IsRow
  <1>2. /\ saw.status = "active" => Save(r)
        /\ saw.status # "active" => Write(Given(Activated(r, saw)))
    BY DEF Resumed
  <1>3. saw.status \in Inactive \/ saw.status = "active"
    BY DEF Row, Inactive, Status
  <1> HIDE DEF r
  <1>4. CASE saw.status = "active"
    <2>1. IsRow(row', r.status, r.paused, r.last, r.end)
      BY <1>1, <1>2, <1>4, Types, SaveType DEF IsRow
    <2> QED
      BY <1>1, <1>4, <2>1, Types DEF IsRow, Inactive
  <1>5. CASE saw.status \in Inactive
    <2>1. r \in Row /\ saw.status # "active"
      BY <1>1, <1>5 DEF IsRow, Inactive
    <2> QED
      BY <1>2, <1>5, <2>1, GivenUp
  <1> QED
    BY <1>3, <1>4, <1>5

LEMMA BotStep ==
    ASSUME IInv, NEW t \in Worker, Bot(t)
    PROVE  IInv'
  <1> DEFINE saw == task[t].saw
  <1>1. task[t].pc = "bot" /\ saw \in Row /\ UNCHANGED <<now, spent>>
    BY Types, JobKinds DEF Bot, Seeing
  <1>2. ASSUME Write([row EXCEPT !.paused = TRUE]), Done(t), UNCHANGED <<balance, ghost>>
        PROVE  IInv'
    <2>1. IsRow(row', row.status, TRUE, row.last, row.end)
      BY <1>2, Switches
    <2>2. UNCHANGED <<balance, bill, doubt>>
      BY <1>2 DEF ghost
    <2> QED
      BY <1>1, <1>2, <2>1, <2>2, Types, SwitchStep DEF IsRow
  <1>3. ASSUME Done(t), UNCHANGED <<account, ghost>>
        PROVE  IInv'
    <2>1. UNCHANGED <<row, balance, bill, doubt>>
      BY <1>3 DEF ghost, account
    <2> QED
      BY <1>1, <1>3, <2>1, Types, SwitchStep
  <1>4. ASSUME saw.status = "active", Resumed(row), Done(t),
               doubt' = (doubt \/ Doubtful(t, saw)), UNCHANGED <<balance, bill>>
        PROVE  IInv'
    <2>1. doubt' \in BOOLEAN /\ (doubt => doubt')
      BY <1>4, Types DEF Doubtful, Same
    <2>2. Doubtful(t, saw) \/ row.status = "active"
      BY <1>4 DEF Doubtful, Same
    <2>3. /\ row' \in Row /\ row'.last <= now
          /\ row.status = "active" =>
                row'.last = row.last /\ row'.status = row.status /\ row'.end = row.end
      BY <1>4, ResumedType, Types
    <2>4. /\ task' \in [Worker -> Job] /\ task'[t].pc = "idle"
          /\ \A o \in Worker \ {t} : task'[o] = task[o]
      BY <1>4, Ends
    <2>5. JobFacts(t)' /\ ~Charged(t) /\ ~Charged(t)' /\ task'[t].pc # "activate"
      BY <1>1, <2>4 DEF JobFacts, Charged
    <2>6. UNCHANGED <<calls, acts, faults>>
      BY <1>1 DEF spent
    <2> HIDE DEF saw
    <2>7. doubt' \/ (row'.last = row.last /\ row'.status = row.status /\ row'.end = row.end)
      BY <1>4, <2>2, <2>3
    <2> QED
      BY <1>1, <1>4, <2>1, <2>3, <2>4, <2>5, <2>6, <2>7, Types, PlainStep
  <1>5. ASSUME saw.status \in Inactive, Charge(t, saw),
               Become(t, [pc |-> "resume", saw |-> row]), UNCHANGED row
        PROVE  IInv'
    <2> HIDE DEF saw
    <2> QED
      BY <1>1, <1>5, ChargeForStep
  <1> QED
    BY <1>2, <1>3, <1>4, <1>5 DEF Bot

LEMMA BotResumeStep ==
    ASSUME IInv, NEW t \in Worker, BotResume(t)
    PROVE  IInv'
  <1>1. /\ task[t].pc = "resume" /\ Charged(t) /\ task[t].saw \in Row
        /\ Done(t) /\ Finish(t) /\ UNCHANGED <<now, balance, bill, spent>>
        /\ Resumed(task[t].saw)
    BY Types, JobKinds DEF BotResume, Charged, Seeing
  <1>2. doubt \/ task[t].saw.status \in Inactive
    BY <1>1 DEF IInv, JobFacts
  <1>3. doubt => doubt'
    BY <1>1 DEF Finish
  <1> QED
    BY <1>1, <1>2, <1>3, ResumedType, GiveStep

-----------------------------------------------------------------------------
(* Top-ups.                                                                *)

LEMMA TopUpStep ==
    ASSUME IInv, NEW t, TopUp(t)
    PROVE  IInv'
  <1>1. /\ t \in Worker /\ task[t].pc = "idle" /\ ~Charged(t)
        /\ calls' = calls + 1 /\ calls' \in 0 .. MaxCalls /\ UNCHANGED <<acts, faults>>
    BY Called DEF TopUp
  <1>2. /\ task' \in [Worker -> Job] /\ task'[t].pc = "topup"
        /\ \A o \in Worker \ {t} : task'[o] = task[o]
    <2> DEFINE j == [pc |-> "topup"]
    <2>1. j \in Job /\ j.pc = "topup"
      BY DEF Job
    <2>2. Become(t, j)
      BY DEF TopUp
    <2> HIDE DEF j
    <2> QED
      BY <1>1, <2>1, <2>2, Becomes
  <1>3. UNCHANGED <<now, row, bill, doubt>>
    BY DEF TopUp, ghost
  <1>4. balance' \in Nat /\ balance' <= balance + Price
    BY Types DEF TopUp
  <1>5. JobFacts(t)' /\ ~Charged(t)' /\ task'[t].pc # "activate"
    BY <1>2 DEF JobFacts, Charged
  <1> QED
    BY <1>1, <1>2, <1>3, <1>4, <1>5, Types, PlainStep

LEMMA TopUpLookStep ==
    ASSUME IInv, NEW t \in Worker, TopUpLook(t)
    PROVE  IInv'
  <1>1. task[t].pc = "topup"
    BY DEF TopUpLook
  <1>2. /\ task' \in [Worker -> Job]
        /\ \/ task'[t].pc = "idle"
           \/ task'[t].pc = "pay" /\ task'[t].saw = row /\ row.status \in Inactive
        /\ \A o \in Worker \ {t} : task'[o] = task[o]
    BY Types, Sees, Ends DEF TopUpLook, Seeing
  <1>3. UNCHANGED <<now, row, balance, bill, doubt, calls, acts, faults>>
    BY DEF TopUpLook, account, ghost, spent
  <1>4. JobFacts(t)' /\ ~Charged(t) /\ ~Charged(t)' /\ task'[t].pc # "activate"
    BY <1>1, <1>2 DEF JobFacts, Charged
  <1> QED
    BY <1>1, <1>2, <1>3, <1>4, Types, PlainStep

LEMMA PayStep ==
    ASSUME IInv, NEW t \in Worker, Pay(t)
    PROVE  IInv'
  <1> DEFINE saw == task[t].saw
  <1>1. task[t].pc = "pay" /\ saw \in Row /\ UNCHANGED <<now, row, spent>>
    BY Types, JobKinds DEF Pay, Seeing
  <1>2. saw.status \in Inactive
    BY <1>1 DEF IInv, JobFacts
  <1>3. \/ Charge(t, saw) /\ Become(t, [pc |-> "activate", saw |-> row])
        \/ Done(t) /\ UNCHANGED <<balance, bill, doubt>>
    BY DEF Pay, ghost
  <1> HIDE DEF saw
  <1> QED
    BY <1>1, <1>2, <1>3, Types, ChargeForStep, SwitchStep

LEMMA ActivateStep ==
    ASSUME IInv, NEW t \in Worker, Activate(t)
    PROVE  IInv'
  <1> DEFINE saw == task[t].saw
             a == Activated(row, saw)
  <1>1. task[t].pc = "activate" /\ saw \in Row
    BY Types, JobKinds DEF Activate, Seeing
  <1>2. IsRow(a, IF saw.status = "active" THEN row.status ELSE "active",
              row.paused, row.last, row.end)
    BY <1>1, Types, ActivatedType
  <1>3. Become(t, [pc |-> "stamp", saw |-> a])
    BY DEF Activate
  <1>4. IF saw.status = "active" THEN row' = row ELSE Write(a)
    BY DEF Activate
  <1> HIDE DEF a
  <1>5. /\ task' \in [Worker -> Job] /\ task'[t].pc = "stamp" /\ task'[t].saw = a
        /\ \A o \in Worker \ {t} : task'[o] = task[o]
    BY <1>2, <1>3, Sees DEF Seeing, IsRow
  <1>6. row' \in Row /\ row'.last = row.last
    BY <1>2, <1>4, Types, WriteType DEF IsRow
  <1>7. UNCHANGED <<now, balance, bill, calls, acts, faults>>
    BY DEF Activate, spent
  <1>8. doubt' \in BOOLEAN /\ (doubt => doubt')
    BY Types DEF Activate, Finish, Same
  <1>9. Charged(t) /\ Charged(t)' /\ task'[t].pc # "activate"
    BY <1>1, <1>5 DEF Charged
  <1>10. doubt' \/ row.last # now
    BY <1>8, <1>9 DEF IInv, Today
  <1>11. JobFacts(t)'
    <2>1. doubt \/ saw.status \in Inactive
      BY <1>1 DEF IInv, JobFacts
    <2>2. doubt' \/ a.status = "active"
      BY <1>2, <1>8, <2>1 DEF IsRow, Inactive
    <2> QED
      BY <1>5, <2>2 DEF JobFacts
  <1> QED
    BY <1>5, <1>6, <1>7, <1>8, <1>9, <1>10, <1>11, Types, PlainStep

LEMMA StampStep ==
    ASSUME IInv, NEW t \in Worker, Stamp(t)
    PROVE  IInv'
  <1>1. /\ task[t].pc = "stamp" /\ Charged(t)
        /\ Done(t) /\ Finish(t) /\ UNCHANGED <<now, balance, bill, spent>>
    BY DEF Stamp, Charged
  <1>2. doubt \/ task[t].saw.status = "active"
    BY <1>1 DEF IInv, JobFacts
  <1>3. doubt' \/ row.status = "active"
    BY <1>1, <1>2 DEF Finish, Same
  <1> DEFINE r == Extended(row)
  <1>4. IsRow(r, row.status, row.paused, now, r.end) /\ r.end > now
    BY Types, ExtendedType
  <1>5. Write(r)
    BY DEF Stamp
  <1> HIDE DEF r
  <1>6. IsRow(row', row.status, row.paused, now, r.end)
    BY <1>4, <1>5, WriteType DEF IsRow
  <1>7. row'.last <= now
    BY <1>6, Types DEF IsRow
  <1> QED
    BY <1>1, <1>3, <1>4, <1>6, <1>7, GiveStep DEF IsRow

\* The charge is paid back and the day is not given.
LEMMA RefundStep ==
    ASSUME IInv, NEW t \in Worker, Refund(t)
    PROVE  IInv'
  <1>1. /\ task[t].pc = "activate" /\ Charged(t) /\ t \in Refundable
        /\ UNCHANGED <<now, row, doubt, calls, acts>>
        /\ faults' \in 0 .. MaxFaults
        /\ balance' = balance + Price /\ bill' = bill - 1
    BY Types DEF Refund, Charged, Refundable
  <1>2. /\ task' \in [Worker -> Job] /\ task'[t].pc = "idle"
        /\ \A o \in Worker \ {t} : task'[o] = task[o]
    BY Ends DEF Refund
  <1>3. Refundable' \subseteq Refundable \ {t}
    BY <1>2 DEF Refundable
  <1>4. Wallet' /\ bill' \in Nat
    BY <1>1, <1>3, WalletRefunded
  <1>5. JobFacts(t)' /\ ~Charged(t)'
    BY <1>2 DEF JobFacts, Charged
  <1>6. Today'
    <2> SUFFICES ASSUME ~doubt
                 PROVE  Today'
      BY <1>1 DEF Today
    <2>1. bill = 1 /\ row.last # now /\ \A o \in Worker : Charged(o) => o = t
      BY <1>1 DEF IInv, Today
    <2>2. \A o \in Worker : ~Charged(o)'
      BY <1>2, <1>5, <2>1 DEF Charged
    <2> QED
      BY <1>1, <2>1, <2>2 DEF Today
  <1>7. balance' \in Nat
    BY <1>1, Types
  <1> QED
    BY <1>1, <1>2, <1>4, <1>5, <1>6, <1>7, Types, TaskStep


-----------------------------------------------------------------------------
(* Everybody else.                                                         *)

LEMMA MonitorListsStep == IInv /\ MonitorLists => IInv'
  <1> SUFFICES ASSUME IInv, MonitorLists PROVE IInv'
    OBVIOUS
  <1>1. Monitor \in Worker /\ task[Monitor].pc = "idle"
    BY Types, JobKinds DEF MonitorLists, Worker
  <1>2. /\ task' \in [Worker -> Job] /\ task'[Monitor].pc = "expire"
        /\ \A o \in Worker \ {Monitor} : task'[o] = task[o]
    <2> DEFINE j == [pc |-> "expire"]
    <2>1. j \in Job /\ j.pc = "expire"
      BY DEF Job
    <2>2. Become(Monitor, j)
      BY DEF MonitorLists
    <2> HIDE DEF j
    <2> QED
      BY <1>1, <2>1, <2>2, Becomes
  <1>3. UNCHANGED <<now, row, balance, bill, doubt, calls, acts, faults>>
    BY DEF MonitorLists, account, ghost, spent
  <1>4. /\ JobFacts(Monitor)' /\ ~Charged(Monitor) /\ ~Charged(Monitor)'
        /\ task'[Monitor].pc # "activate"
    BY <1>1, <1>2 DEF JobFacts, Charged
  <1> QED
    BY <1>1, <1>2, <1>3, <1>4, Types, PlainStep

\* A day that is given has not ended.
LEMMA MonitorExpiresStep == IInv /\ MonitorExpires => IInv'
  <1> SUFFICES ASSUME IInv, MonitorExpires PROVE IInv'
    OBVIOUS
  <1>1. Monitor \in Worker /\ task[Monitor].pc = "expire"
    BY DEF MonitorExpires, Worker
  <1>2. /\ task' \in [Worker -> Job] /\ task'[Monitor].pc = "idle"
        /\ \A o \in Worker \ {Monitor} : task'[o] = task[o]
    BY <1>1, Ends DEF MonitorExpires
  <1>3. UNCHANGED <<now, balance, bill, doubt, calls, acts, faults>>
    BY DEF MonitorExpires, ghost, spent
  <1> DEFINE r == [row EXCEPT !.status = "expired"]
  <1>4. IsRow(r, "expired", row.paused, row.last, row.end)
    BY Types, RowOps DEF Status
  <1>5. \/ Write(r) /\ row.end <= now
        \/ row' = row
    BY DEF MonitorExpires
  <1> HIDE DEF r
  <1>6. /\ row' \in Row /\ row'.last = row.last
        /\ row.end <= now \/ (row'.status = row.status /\ row'.end = row.end)
    BY <1>4, <1>5, WriteType, Types DEF IsRow
  <1>7. doubt \/ row.end > now \/ row.last # now
    BY DEF IInv, Today
  <1>8. /\ JobFacts(Monitor)' /\ ~Charged(Monitor) /\ ~Charged(Monitor)'
        /\ task'[Monitor].pc # "activate"
    BY <1>1, <1>2 DEF JobFacts, Charged
  <1>9. \/ doubt' \/ row.last # now
        \/ row'.status = row.status /\ row'.end = row.end
    BY <1>3, <1>6, <1>7, Types
  <1> QED
    BY <1>1, <1>2, <1>3, <1>6, <1>8, <1>9, Types, PlainStep

\* A step of nobody's.
LEMMA ActStep ==
    ASSUME IInv, UNCHANGED <<now, task, bill, calls>>,
           row' \in Row, row'.last = row.last, balance' \in Nat, balance' <= balance,
           acts' \in 0 .. MaxActs, faults' \in 0 .. MaxFaults,
           doubt' \in BOOLEAN, doubt => doubt',
           \/ doubt'
           \/ row'.status = row.status /\ row'.end = row.end
           \/ row'.status = "active" /\ row'.end > now
    PROVE  IInv'
  <1>1. Loop \in Worker
    BY DEF Worker
  <1>2. JobFacts(Loop)'
    BY <1>1, JobFrame
  <1>3. Charged(Loop)' <=> Charged(Loop)
    BY DEF Charged
  <1> QED
    BY <1>1, <1>2, <1>3, Types, PlainStep

LEMMA ActsStep ==
    ASSUME IInv, PanelLimits \/ PanelEnables \/ Deactivate \/ Disable \/ BuyElse
    PROVE  IInv'
  <1>1. /\ UNCHANGED <<now, task, bill, calls, faults>>
        /\ acts' \in 0 .. MaxActs
    BY Types DEF PanelLimits, PanelEnables, Deactivate, Disable, BuyElse, Act
  <1>2. ASSUME NEW s \in Status, Write([row EXCEPT !.status = s])
        PROVE  IsRow(row', s, row.paused, row.last, row.end)
    <2> DEFINE r == [row EXCEPT !.status = s]
    <2>1. IsRow(r, s, row.paused, row.last, row.end)
      BY Types, RowOps
    <2>2. Write(r)
      BY <1>2
    <2> HIDE DEF r
    <2> QED
      BY <2>1, <2>2, WriteType DEF IsRow
  <1>3. CASE PanelLimits
    <2>1. IsRow(row', "limited", row.paused, row.last, row.end)
      BY <1>2, <1>3 DEF PanelLimits, Status
    <2> QED
      BY <1>1, <1>3, <2>1, Types, ActStep DEF PanelLimits, IsRow
  <1>4. CASE PanelEnables
    <2>1. IsRow(row', "active", row.paused, row.last, row.end)
      BY <1>2, <1>4 DEF PanelEnables, Status
    <2> QED
      BY <1>1, <1>4, <2>1, Types, ActStep DEF PanelEnables, IsRow
  <1>5. CASE Deactivate
    <2> DEFINE r == [row EXCEPT !.status = "expired", !.paused = TRUE, !.end = now]
    <2>1. r \in Row /\ r.last = row.last
      <3> DEFINE q == [row EXCEPT !.status = "expired"]
                 p == [q EXCEPT !.paused = TRUE]
      <3>1. IsRow(q, "expired", row.paused, row.last, row.end)
        BY Types, RowOps DEF Status
      <3>2. r = [p EXCEPT !.end = now]
        BY Types DEF Row
      <3> HIDE DEF q, r
      <3>3. IsRow(p, q.status, TRUE, q.last, q.end)
        BY <3>1, RowOps DEF IsRow
      <3> HIDE DEF p
      <3>4. p \in Row /\ now \in 1 .. MaxDay + 1
        BY <3>3, Types DEF IsRow
      <3>5. IsRow([p EXCEPT !.end = now], p.status, p.paused, p.last, now)
        BY <3>4, RowOps
      <3> QED
        BY <3>1, <3>2, <3>3, <3>5 DEF IsRow
    <2>2. Write(r)
      BY <1>5 DEF Deactivate
    <2> HIDE DEF r
    <2>3. row' \in Row /\ row'.last = row.last
      BY <2>1, <2>2, WriteType DEF IsRow
    <2> QED
      BY <1>1, <1>5, <2>3, Types, ActStep DEF Deactivate
  <1>6. CASE Disable
    <2>1. IsRow(row', "disabled", row.paused, row.last, row.end)
      BY <1>2, <1>6 DEF Disable, Status
    <2> QED
      BY <1>1, <1>6, <2>1, Types, ActStep DEF Disable, IsRow
  <1>7. CASE BuyElse
    <2>1. balance' \in Nat /\ balance' <= balance
      BY <1>7, Types DEF BuyElse
    <2> QED
      BY <1>1, <1>7, <2>1, Types, ActStep DEF BuyElse
  <1> QED
    BY <1>3, <1>4, <1>5, <1>6, <1>7

\* A charge that was committed and not followed by its write is a doubt.
LEMMA RaisesStep ==
    ASSUME IInv, NEW t \in Worker, Raises(t)
    PROVE  IInv'
  <1>1. /\ UNCHANGED <<now, row, balance, bill, calls, acts>>
        /\ faults' \in 0 .. MaxFaults
    BY Types DEF Raises, account
  <1>2. /\ task' \in [Worker -> Job] /\ task'[t].pc = "idle"
        /\ \A o \in Worker \ {t} : task'[o] = task[o]
    BY Ends DEF Raises
  <1>3. /\ doubt' \in BOOLEAN /\ (doubt => doubt')
        /\ doubt' \/ ~Charged(t)
    BY Types DEF Raises, Charged
  <1>4. JobFacts(t)' /\ ~Charged(t)' /\ task'[t].pc # "activate"
    BY <1>2 DEF JobFacts, Charged
  <1> QED
    BY <1>1, <1>2, <1>3, <1>4, Types, PlainStep

LEMMA CrashStep == IInv /\ Crash => IInv'
  <1> SUFFICES ASSUME IInv, Crash PROVE IInv'
    OBVIOUS
  <1>1. /\ UNCHANGED <<now, row, balance, bill, calls, acts>>
        /\ faults' \in 0 .. MaxFaults
    BY Types DEF Crash, account
  <1>2. /\ task' \in [Worker -> Job]
        /\ \A t \in Worker : task'[t].pc = "idle"
    BY DEF Crash, Job, Idle
  <1>3. /\ doubt' \in BOOLEAN /\ (doubt => doubt')
        /\ doubt' \/ \A t \in Worker : ~Charged(t)
    BY Types DEF Crash, Charged
  <1>4. \A t \in Worker : JobFacts(t)' /\ ~Charged(t)'
    BY <1>2 DEF JobFacts, Charged
  <1>5. Today'
    BY <1>1, <1>3, <1>4, TodayKept
  <1>6. Wallet'
    <2>1. Refundable' \subseteq Refundable
      BY <1>2 DEF Refundable
    <2> QED
      BY <1>1, <2>1, Types, WalletKept
  <1>7. Loop \in Worker
    BY DEF Worker
  <1>8. TypeOK'
    BY <1>1, <1>2, <1>3 DEF IInv, TypeOK
  <1> QED
    BY <1>1, <1>4, <1>5, <1>6, <1>8, Types DEF IInv

LEMMA MinuteStep == IInv /\ Minute => IInv'
  <1> SUFFICES ASSUME IInv, Minute PROVE IInv'
    OBVIOUS
  <1>1. IsRow(row', row.status, row.paused, row.last, row.end)
    BY Types, RowOps DEF Minute
  <1>2. UNCHANGED <<now, balance, task, bill, doubt, calls, acts, faults>>
    BY DEF Minute, ghost, spent
  <1> QED
    BY <1>1, <1>2, Types, ActStep DEF IsRow

\* The next day: nothing has been charged or given.
LEMMA TickStep == IInv /\ Tick => IInv'
  <1> SUFFICES ASSUME IInv, Tick PROVE IInv'
    OBVIOUS
  <1>1. /\ now' \in 1 .. MaxDay /\ now' = now + 1
        /\ bill' = 0 /\ doubt' = FALSE
        /\ UNCHANGED <<balance, task, calls, acts, faults>>
    BY Types DEF Tick, spent
  <1>2. \A t \in Worker : task[t].pc = "idle"
    BY DEF Tick, Idle
  <1>3. IsRow(row', row.status, row.paused, row.last, row.end)
    <2>1. (IF row.touched = "minute" THEN "day" ELSE "before") \in {"minute", "day", "before"}
      OBVIOUS
    <2> QED
      BY <2>1, Types, RowOps DEF Tick
  <1>4. row'.last <= now' /\ row'.last # now'
    BY <1>1, <1>3, Types DEF IsRow
  <1>5. \A t \in Worker : JobFacts(t)' /\ ~Charged(t)'
    BY <1>1, <1>2 DEF JobFacts, Charged
  <1>6. Today'
    BY <1>1, <1>4, <1>5 DEF Today
  <1>7. TypeOK'
    BY <1>1, <1>3 DEF IInv, TypeOK, IsRow
  <1>8. Wallet'
    <2>1. Refundable' = {}
      BY <1>1, <1>2 DEF Refundable
    <2>2. IsFiniteSet(Refundable') /\ Cardinality(Refundable') = 0
      BY <2>1, FS_EmptySet
    <2>3. FirstDay' = 0
      BY <1>1, Types DEF FirstDay
    <2>4. balance <= Opening + calls * Price
      <3>1. FirstDay <= bill /\ FirstDay \in Int
        BY WalletTypes, Types
      <3>2. /\ calls + FirstDay \in Int /\ calls + bill \in Int /\ Price \in Nat
            /\ calls + FirstDay <= calls + bill /\ calls \in Int /\ bill \in Int
        BY <3>1, Types
      <3>3. (calls + FirstDay) * Price <= (calls + bill) * Price
        BY <3>2, Times
      <3>4. (calls + bill) * Price = calls * Price + bill * Price /\ calls * Price \in Int
        BY <3>2
      <3> HIDE DEF FirstDay
      <3> QED
        BY <3>3, <3>4, WalletTypes, Types
    <2>5. balance' + bill' * Price <= Opening + (calls' + FirstDay') * Price
      <3>1. balance' = balance /\ bill' * Price = 0 /\ (calls' + FirstDay') * Price = calls * Price
        BY <1>1, <2>3, Types
      <3> QED
        BY <2>4, <3>1, Types
    <2> QED
      BY <1>1, <2>2, <2>3, <2>5 DEF Wallet
  <1> QED
    BY <1>4, <1>5, <1>6, <1>7, <1>8 DEF IInv


-----------------------------------------------------------------------------
(* The invariant.                                                          *)

LEMMA Initially == Init => IInv
  <1> SUFFICES ASSUME Init PROVE IInv
    OBVIOUS
  <1>1. now = 1 /\ bill = 1 /\ doubt = FALSE /\ balance = Opening /\ calls = 0
    BY DEF Init
  <1>2. \A t \in Worker : task[t].pc = "idle" /\ task[t] \in Job
    BY DEF Init, Idle, Job
  <1>3. /\ row.status = "active" /\ row.last = 1 /\ row.end = 2
        /\ row \in Row
    <2>1. 1 \in 1 .. MaxDay /\ 2 \in 1 .. MaxDay + 1
      BY ConstantsAssumption
    <2> QED
      BY <2>1 DEF Init, Row, Status
  <1>4. TypeOK
    <2>1. Opening \in 0 .. Opening + MaxCalls * Price
      <3>1. MaxCalls * Price \in Int /\ MaxCalls * Price >= 0
        BY Times, ConstantsAssumption
      <3> QED
        BY <3>1, ConstantsAssumption
    <2>2. task \in [Worker -> Job]
      BY <1>2 DEF Init
    <2>3. /\ now \in 1 .. MaxDay /\ calls \in 0 .. MaxCalls
          /\ acts \in 0 .. MaxActs /\ faults \in 0 .. MaxFaults
      BY ConstantsAssumption DEF Init
    <2> QED
      BY <1>1, <1>3, <2>1, <2>2, <2>3 DEF TypeOK
  <1>5. Wallet
    <2>1. Refundable = {}
      BY <1>2 DEF Refundable
    <2>2. IsFiniteSet(Refundable) /\ Cardinality(Refundable) = 0
      BY <2>1, FS_EmptySet
    <2>3. FirstDay = 1
      BY <1>1 DEF FirstDay
    <2>4. balance + bill * Price <= Opening + (calls + FirstDay) * Price
      BY <1>1, <2>3, ConstantsAssumption
    <2> QED
      BY <1>1, <2>2, <2>3, <2>4 DEF Wallet
  <1>6. \A t \in Worker : JobFacts(t) /\ ~Charged(t)
    BY <1>2 DEF JobFacts, Charged
  <1>7. Today
    BY <1>1, <1>3, <1>6 DEF Today
  <1> QED
    BY <1>1, <1>3, <1>4, <1>5, <1>6, <1>7 DEF IInv

LEMMA Inductive == IInv /\ [Next]_vars => IInv'
  <1> SUFFICES ASSUME IInv, [Next]_vars PROVE IInv'
    OBVIOUS
  <1>1. ASSUME NEW t \in Worker, Step(t) \/ Refund(t) \/ Raises(t) PROVE IInv'
    BY <1>1, ReviveStep, LoopChargeStep, SuspendStep, MonitorExpiresStep, CabinetStep,
       ApplyStep, BotStep, BotResumeStep, TopUpLookStep, PayStep, ActivateStep, StampStep,
       RefundStep, RaisesStep
       DEF Step
  <1>2. ASSUME NEW t \in Task,
               MiniApp(t) \/ Look(t, "cabinet") \/ Look(t, "bot") \/ TopUp(t)
        PROVE  IInv'
    BY <1>2, MiniAppStep, LookStep, TopUpStep
  <1>3. CASE UNCHANGED vars
    <2>1. UNCHANGED <<now, row, balance, task, bill, doubt, calls, acts, faults>>
      BY <1>3 DEF vars, account, ghost, spent
    <2> QED
      BY <2>1, Types, ActStep
  <1> QED
    BY <1>1, <1>2, <1>3, ListStep, MonitorListsStep, ActsStep, CrashStep, MinuteStep,
       TickStep
       DEF Next

LEMMA Invariance == Spec => []IInv
  BY Initially, Inductive, PTL DEF Spec

-----------------------------------------------------------------------------
(* A day is never charged for beyond the balance; without doubt it is      *)
(* charged for once, and exactly if it is given.                           *)

\* Every field stays in its range; the balance never goes below zero, nor by
\* refunds above what was paid in.
THEOREM TypeCorrect == Spec => []TypeOK
  <1>1. IInv => TypeOK
    BY DEF IInv
  <1> QED
    BY <1>1, Invariance, PTL

\* The loop, the bot, the cabinet, the mini app and the top-up charge a day once
\* between them, unless one of them acted on what was no longer so.
THEOREM OneChargeADay == Spec => []DayIsPaidOnce
  <1>1. IInv => DayIsPaidOnce
    BY DEF IInv, Today, DayIsPaidOnce
  <1> QED
    BY <1>1, Invariance, PTL

=============================================================================
