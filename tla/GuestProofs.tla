----------------------------- MODULE GuestProofs -----------------------------
(***************************************************************************)
(* Proofs about GuestPurchase: for every number of purchases, users and    *)
(* tasks, and every limit of the loop's retries.                           *)
(***************************************************************************)
EXTENDS GuestPurchase, FiniteSetTheorems, TLAPS

(* The inductive invariant.                                                *)

\* What the row of p says of its payment and of its owner.
RowFacts(p) ==
    /\ status[p] = "none" => provider[p] = "open"
    /\ kind[p] = "wallet" => provider[p] = "open" /\ status[p] # "pending"
    /\ status[p] \in {"paid", "held", "delivered"} /\ kind[p] # "wallet"
          => provider[p] = "right"
    /\ status[p] \in {"none", "pending"} => owner[p] = NoUser
    /\ status[p] = "held" => owner[p] # NoUser
    /\ kind[p] = "direct" =>
          /\ owner[p] \in {NoUser, Recipient[p]}
          /\ status[p] = "delivered" => owner[p] = Recipient[p]
    /\ IsGift(p) => owner[p] # Buyer /\ granted[p].to \subseteq {owner[p]} \ {NoUser}
    /\ granted[p].times > 0 /\ kind[p] # "wallet" => provider[p] = "right"

\* What a task relies on, although it may have lost its lock: the payment is
\* there, and the owner is nobody else.
JobFacts(t) ==
    LET j == task[t]  p == j.p IN
    /\ j.pc = "buy" => kind[p] = "wallet"
    /\ j.pc \notin {"idle", "buy"} =>
          status[p] # "none" /\ (kind[p] # "wallet" => provider[p] = "right")
    /\ j.pc \in {"grant", "push", "fulfil"} => kind[p] = "direct"
    /\ j.pc \in {"grant", "push"} => j.u = Recipient[p]
    /\ j.pc = "grant" => status[p] # "pending" \/ j.locked
    /\ j.pc \in {"push", "extend", "panel", "mark"} => status[p] # "pending"
    /\ j.pc = "grant" /\ j.locked => status[p] \in {"pending", "paid"}
    /\ j.pc \in {"extend", "panel"} =>
          /\ IsGift(p) => j.u # Buyer
          /\ kind[p] = "direct" \/ ~j.locked => owner[p] = j.u
          /\ j.locked => status[p] \in {"paid", "held"} /\ owner[p] \in {NoUser, j.u}
    /\ j.pc = "mark" /\ kind[p] = "direct" => owner[p] # NoUser

\* A row is locked by one task.
Locks ==
    \A t, o \in Worker, p \in Purchase : HoldsRow(t, p) /\ HoldsRow(o, p) => t = o

\* t is about to grant p, or has granted it and not said so yet.
Active(t, p) == task[t].pc \in {"push", "extend", "grant", "panel", "mark"} /\ task[t].p = p
Granting(t) == IF task[t].pc \in {"push", "mark"} THEN 1 ELSE 0

\* Without doubt one task grants, and the row says whether it has.
OnceFacts(p) ==
    p \notin doubt =>
        /\ \A t, o \in Worker : Active(t, p) /\ Active(o, p) => t = o
        /\ \A t \in Worker :
              Active(t, p) => status[p] # "delivered" /\ granted[p].times = Granting(t)
        /\ (\A t \in Worker : ~Active(t, p)) =>
              granted[p].times = IF status[p] = "delivered" THEN 1 ELSE 0

\* The gifts that were paid for from the balance.
Bought == {p \in Purchase : kind[p] = "wallet" /\ status[p] # "none"}
Money == Opening - balance = Cardinality(Bought)

IInv ==
    /\ TypeOK
    /\ \A p \in Purchase : RowFacts(p)
    /\ \A t \in Worker : JobFacts(t)
    /\ Locks
    /\ \A p \in Purchase : OnceFacts(p)
    /\ Money

-----------------------------------------------------------------------------
(* Jobs and rows.                                                          *)

\* The types of all that does not change.
LEMMA Types ==
    ASSUME IInv
    PROVE  /\ kind \in [Purchase -> Kind]
           /\ status \in [Purchase -> Status]
           /\ owner \in [Purchase -> User \cup {NoUser}]
           /\ tries \in [Purchase -> 0 .. MaxRetries]
           /\ recent \subseteq Purchase
           /\ provider \in [Purchase -> {"open", "right", "wrong"}]
           /\ calls \in [Purchase -> 0 .. MaxCalls]
           /\ balance \in 0 .. Opening
           /\ sub \in [User -> Sub]
           /\ granted \in [Purchase -> [to : SUBSET User, times : Nat]]
           /\ doubt \subseteq Purchase
           /\ task \in [Worker -> Job]
  BY DEF IInv, TypeOK

\* Of a task that works on the subscription of a user.
Pcs == {"grant", "push", "extend", "panel", "mark"}

\* What a task carries, by what it is doing.
LEMMA JobKinds ==
    ASSUME task \in [Worker -> Job], NEW t \in Worker
    PROVE  /\ task[t].pc = "idle" <=> task[t] = Idle
           /\ task[t].pc # "idle" => task[t].p \in Purchase
           /\ task[t].pc \in Pcs =>
                 /\ task[t].u \in User /\ task[t].saw \in Sub /\ task[t].locked \in BOOLEAN
                 /\ \A c \in Pcs :
                       LET j == [task[t] EXCEPT !.pc = c] IN
                       /\ j \in Job /\ j.pc = c /\ j.p = task[t].p /\ j.u = task[t].u
                       /\ j.locked = task[t].locked
                 /\ \A c \in Pcs :
                       LET j == [task[t] EXCEPT !.pc = c, !.locked = FALSE] IN
                       /\ j \in Job /\ j.pc = c /\ j.p = task[t].p /\ j.u = task[t].u
                       /\ ~j.locked
  <1> DEFINE i == task[t]
             R == [pc : Pcs, p : Purchase, u : User, saw : Sub, locked : BOOLEAN]
  <1>1. i \in Job
    OBVIOUS
  <1> HIDE DEF i
  <1>2. i.pc = "idle" <=> i = Idle
    BY <1>1 DEF Job, Idle
  <1>3. i.pc # "idle" => i.p \in Purchase
    BY <1>1 DEF Job, Idle
  <1>4. ASSUME i.pc \in Pcs
        PROVE  i \in R
    BY <1>1, <1>4 DEF Job, Idle, Pcs
  <1>5. \A r \in R : r.u \in User /\ r.saw \in Sub /\ r.locked \in BOOLEAN
    OBVIOUS
  <1>6. \A r \in R, c \in Pcs :
            LET j == [r EXCEPT !.pc = c] IN
            j \in R /\ j.pc = c /\ j.p = r.p /\ j.u = r.u /\ j.locked = r.locked
    OBVIOUS
  <1>7. \A r \in R, c \in Pcs :
            LET j == [r EXCEPT !.pc = c, !.locked = FALSE] IN
            j \in R /\ j.pc = c /\ j.p = r.p /\ j.u = r.u /\ ~j.locked
    <2> SUFFICES ASSUME NEW r \in R, NEW c \in Pcs
                 PROVE  LET j == [r EXCEPT !.pc = c, !.locked = FALSE] IN
                        j \in R /\ j.pc = c /\ j.p = r.p /\ j.u = r.u /\ ~j.locked
      OBVIOUS
    <2> DEFINE k == [r EXCEPT !.pc = c]
    <2>1. k \in R /\ k.pc = c /\ k.p = r.p /\ k.u = r.u
      BY <1>6
    <2>2. [r EXCEPT !.pc = c, !.locked = FALSE] = [k EXCEPT !.locked = FALSE]
      OBVIOUS
    <2>3. \A q \in R :
              LET j == [q EXCEPT !.locked = FALSE] IN
              j \in R /\ j.pc = q.pc /\ j.p = q.p /\ j.u = q.u /\ j.locked = FALSE
      OBVIOUS
    <2> HIDE DEF k, R
    <2> QED
      BY <2>1, <2>2, <2>3
  <1>8. R \subseteq Job
    BY DEF Job, Pcs
  <1>9. \A c \in Pcs : i.pc \in Pcs =>
            /\ LET j == [i EXCEPT !.pc = c] IN
               j \in Job /\ j.pc = c /\ j.p = i.p /\ j.u = i.u /\ j.locked = i.locked
            /\ LET j == [i EXCEPT !.pc = c, !.locked = FALSE] IN
               j \in Job /\ j.pc = c /\ j.p = i.p /\ j.u = i.u /\ ~j.locked
    <2> HIDE DEF R
    <2> QED
      BY <1>4, <1>6, <1>7, <1>8
  <1>10. i.pc \in Pcs => i.u \in User /\ i.saw \in Sub /\ i.locked \in BOOLEAN
    BY <1>4, <1>5
  <1> HIDE DEF R
  <1> QED
    BY <1>2, <1>3, <1>9, <1>10 DEF i

LEMMA Becomes ==
    ASSUME IInv, NEW t \in Worker, NEW j \in Job, Become(t, j)
    PROVE  /\ task' \in [Worker -> Job] /\ task'[t] = j
           /\ \A o \in Worker \ {t} : task'[o] = task[o]
  BY Types DEF Become

LEMMA IdleJob == Idle \in Job /\ Idle.pc = "idle"
  BY DEF Job, Idle

\* The step is about p, ...
Only(p) ==
    /\ kind' = kind
    /\ \A q \in Purchase \ {p} :
          /\ status'[q] = status[q] /\ owner'[q] = owner[q]
          /\ provider'[q] = provider[q] /\ granted'[q] = granted[q]

\* ... whose row moves forward.
Forward(p) ==
    /\ status[p] # "none" => status'[p] # "none"
    /\ status[p] \notin {"none", "pending"} => status'[p] \notin {"none", "pending"}
    /\ owner[p] # NoUser => owner'[p] = owner[p]
    /\ provider[p] # "open" => provider'[p] = provider[p]

LEMMA RowsFrame ==
    ASSUME IInv, NEW p \in Purchase, Only(p), RowFacts(p)'
    PROVE  \A q \in Purchase : RowFacts(q)'
  BY DEF IInv, Only, RowFacts, IsGift

\* What the others rely on stays: who has the row locked sees no change of it,
\* and who has lost it sees it move forward.
LEMMA JobFrame ==
    ASSUME IInv, NEW p \in Purchase, Only(p), Forward(p),
           NEW o \in Worker, task'[o] = task[o],
           ~HoldsRow(o, p) \/ (status'[p] = status[p] /\ owner'[p] = owner[p])
    PROVE  JobFacts(o)'
  <1>1. JobFacts(o)
    BY DEF IInv
  <1>2. CASE task[o].pc = "idle"
    BY <1>2 DEF JobFacts
  <1>3. CASE task[o].pc # "idle" /\ task[o].p # p
    <2>1. task[o].p \in Purchase \ {p}
      BY <1>3, Types, JobKinds
    <2> QED
      BY <1>1, <2>1 DEF JobFacts, Only, IsGift
  <1>4. CASE task[o].pc # "idle" /\ task[o].p = p
    <2>1. task[o].pc \in {"extend", "panel"} => task[o].u \in User /\ task[o].u # NoUser
      BY Types, JobKinds, ConstantsAssumption DEF Pcs
    <2>2. task[o].pc \in {"grant", "extend", "panel"} /\ task[o].locked =>
              status'[p] = status[p] /\ owner'[p] = owner[p]
      BY <1>4 DEF HoldsRow
    <2>3. task[o].pc \in {"grant", "extend", "panel"} => task[o].locked \in BOOLEAN
      BY Types, JobKinds DEF Pcs
    <2> QED
      BY <1>1, <1>4, <2>1, <2>2, <2>3 DEF JobFacts, Only, Forward, IsGift
  <1> QED
    BY <1>2, <1>3, <1>4

LEMMA LocksFrame ==
    ASSUME IInv, NEW t \in Worker, NEW p \in Purchase,
           \A o \in Worker \ {t} : task'[o] = task[o],
           \A q \in Purchase : HoldsRow(t, q)' =>
               q = p /\ \A o \in Worker \ {t} : ~HoldsRow(o, p)
    PROVE  Locks'
  BY DEF IInv, Locks, HoldsRow

LEMMA MoneyFrame ==
    ASSUME IInv, UNCHANGED <<balance, kind>>,
           \A q \in Purchase : kind[q] = "wallet" => (status'[q] = "none" <=> status[q] = "none")
    PROVE  Money'
  <1>1. Bought' = Bought
    BY DEF Bought
  <1> QED
    BY <1>1 DEF IInv, Money

-----------------------------------------------------------------------------
(* What is granted once.                                                   *)

\* p is in the same hands, and neither granted nor delivered by the step.
LEMMA OnceFrame ==
    ASSUME IInv, NEW p \in Purchase, OnceFacts(p),
           granted'[p] = granted[p], doubt \subseteq doubt',
           status'[p] = "delivered" <=> status[p] = "delivered",
           \A t \in Worker : Active(t, p)' <=> Active(t, p),
           \A t \in Worker : Active(t, p) => Granting(t)' = Granting(t)
    PROVE  OnceFacts(p)'
  BY DEF OnceFacts

\* t starts on p: alone, or p is in doubt.
LEMMA OnceStart ==
    ASSUME IInv, NEW p \in Purchase, NEW t \in Worker,
           Overlap(t, p), granted'[p] = granted[p],
           status[p] # "delivered", status'[p] # "delivered",
           ~Active(t, p), Granting(t)' = 0,
           \A o \in Worker \ {t} : task'[o] = task[o]
    PROVE  OnceFacts(p)'
  <1> SUFFICES ASSUME p \notin doubt'
               PROVE  OnceFacts(p)'
    BY DEF OnceFacts
  <1>1. p \notin doubt /\ \A o \in Worker \ {t} : ~Active(o, p)
    BY DEF Overlap, Working, Active, Idle
  <1>2. granted[p].times = 0
    BY <1>1 DEF IInv, OnceFacts
  <1>3. \A o \in Worker : Active(o, p)' => o = t
    BY <1>1 DEF Active
  <1> QED
    BY <1>2, <1>3 DEF OnceFacts

\* t grants p.
LEMMA OnceGrant ==
    ASSUME IInv, NEW p \in Purchase, NEW t \in Worker, UNCHANGED doubt,
           Active(t, p), Granting(t) = 0, Active(t, p)', Granting(t)' = 1,
           granted'[p].times = granted[p].times + 1,
           status'[p] = "delivered" => status[p] = "delivered",
           \A o \in Worker \ {t} : task'[o] = task[o]
    PROVE  OnceFacts(p)'
  <1> SUFFICES ASSUME p \notin doubt
               PROVE  OnceFacts(p)'
    BY DEF OnceFacts
  <1>1. /\ \A o \in Worker : Active(o, p) => o = t
        /\ status[p] # "delivered" /\ granted[p].times = 0
    BY DEF IInv, OnceFacts
  <1>2. \A o \in Worker : Active(o, p)' => o = t
    BY <1>1 DEF Active
  <1> QED
    BY <1>1, <1>2 DEF OnceFacts

\* t is through with p: it says that p was granted, or breaks off.
LEMMA OnceEnd ==
    ASSUME IInv, NEW p \in Purchase, NEW t \in Worker,
           Active(t, p), ~Active(t, p)', granted'[p] = granted[p], doubt \subseteq doubt',
           \/ Granting(t) = 1 /\ status'[p] = "delivered"
           \/ Granting(t) = 0 /\ status'[p] = status[p]
           \/ p \in doubt',
           \A o \in Worker \ {t} : task'[o] = task[o]
    PROVE  OnceFacts(p)'
  <1> SUFFICES ASSUME p \notin doubt'
               PROVE  OnceFacts(p)'
    BY DEF OnceFacts
  <1>1. /\ \A o \in Worker : Active(o, p) => o = t
        /\ status[p] # "delivered" /\ granted[p].times = Granting(t)
    BY DEF IInv, OnceFacts
  <1>2. \A o \in Worker : ~Active(o, p)'
    BY <1>1 DEF Active
  <1> QED
    BY <1>1, <1>2 DEF OnceFacts

-----------------------------------------------------------------------------
(* Steps of two shapes.                                                    *)

\* No task moves: the row of p is written while nobody has it locked.
LEMMA RowStep ==
    ASSUME IInv, TypeOK', NEW p \in Purchase,
           Only(p), Forward(p), UNCHANGED <<granted, doubt, task>>,
           RowFree(p) \/ (status'[p] = status[p] /\ owner'[p] = owner[p]),
           status'[p] = "delivered" <=> status[p] = "delivered",
           RowFacts(p)', Money'
    PROVE  IInv'
  <1>1. \A q \in Purchase : RowFacts(q)'
    BY RowsFrame
  <1>2. \A o \in Worker : JobFacts(o)'
    BY JobFrame DEF RowFree
  <1>3. Locks'
    BY DEF IInv, Locks, HoldsRow
  <1>4. \A q \in Purchase : OnceFacts(q)'
    <2> SUFFICES ASSUME NEW q \in Purchase PROVE OnceFacts(q)'
      OBVIOUS
    <2>1. OnceFacts(q) /\ (status'[q] = "delivered" <=> status[q] = "delivered")
      BY DEF IInv, Only
    <2> QED
      BY <2>1, OnceFrame DEF Active, Granting
  <1> QED
    BY <1>1, <1>2, <1>3, <1>4 DEF IInv

\* t takes a step on p.
LEMMA TaskStep ==
    ASSUME IInv, TypeOK', NEW t \in Worker, NEW p \in Purchase,
           Only(p), Forward(p), doubt \subseteq doubt',
           task[t].pc = "idle" \/ task[t].p = p,
           task'[t].pc = "idle" \/ task'[t].p = p,
           \A o \in Worker \ {t} : task'[o] = task[o],
           \/ \A o \in Worker \ {t} : ~HoldsRow(o, p)
           \/ /\ status'[p] = status[p] /\ owner'[p] = owner[p]
              /\ ~HoldsRow(t, p)',
           RowFacts(p)', JobFacts(t)', OnceFacts(p)', Money'
    PROVE  IInv'
  <1>1. \A q \in Purchase : RowFacts(q)'
    BY RowsFrame
  <1>2. \A o \in Worker : JobFacts(o)'
    BY JobFrame
  <1>3. Locks'
    BY LocksFrame DEF HoldsRow
  <1>4. \A q \in Purchase : OnceFacts(q)'
    <2> SUFFICES ASSUME NEW q \in Purchase \ {p} PROVE OnceFacts(q)'
      OBVIOUS
    <2>1. OnceFacts(q) /\ granted'[q] = granted[q] /\ status'[q] = status[q]
      BY DEF IInv, Only
    <2>2. \A o \in Worker : Active(o, q)' <=> Active(o, q)
      BY DEF Active
    <2>3. \A o \in Worker : Active(o, q) => Granting(o)' = Granting(o)
      BY DEF Active, Granting
    <2> QED
      BY <2>1, <2>2, <2>3, OnceFrame
  <1> QED
    BY <1>1, <1>2, <1>3, <1>4 DEF IInv

-----------------------------------------------------------------------------
(* The row is written in one step.                                         *)

\* A status of its own kind keeps the row's type.
LEMMA SetStatusType ==
    ASSUME IInv, NEW p \in Purchase, NEW s \in Status, SetStatus(p, s)
    PROVE  /\ status' \in [Purchase -> Status] /\ status'[p] = s
           /\ \A q \in Purchase \ {p} : status'[q] = status[q]
  BY Types DEF SetStatus

LEMMA BindType ==
    ASSUME IInv, NEW p \in Purchase, NEW u \in User, Bind(p, u)
    PROVE  /\ owner' \in [Purchase -> User \cup {NoUser}] /\ owner'[p] = u
           /\ \A q \in Purchase \ {p} : owner'[q] = owner[q]
  BY Types DEF Bind

LEMMA CallType ==
    ASSUME IInv, NEW t, NEW p \in Purchase, Call(t, p)
    PROVE  /\ calls' \in [Purchase -> 0 .. MaxCalls]
           /\ t \in Task /\ t \in Worker /\ task[t].pc = "idle"
  <1>1. calls[p] + 1 \in 0 .. MaxCalls
    BY Types, ConstantsAssumption DEF Call
  <1> QED
    BY <1>1, Types DEF Call, Worker, Idle

\* The status alone changes, of a row that is ordered and not delivered; it
\* becomes delivered in no such step.
LEMMA StatusStep ==
    ASSUME IInv, NEW p \in Purchase, NEW s \in {"paid", "failed"}, SetStatus(p, s), RowFree(p),
           status[p] \notin {"none", "delivered"},
           s = "paid" => kind[p] = "wallet" \/ provider[p] = "right",
           recent' \subseteq Purchase, calls' \in [Purchase -> 0 .. MaxCalls],
           UNCHANGED <<owner, tries, money, given, doubt, task>>
    PROVE  IInv'
  <1>1. /\ status' \in [Purchase -> Status] /\ status'[p] = s
        /\ \A q \in Purchase \ {p} : status'[q] = status[q]
    BY SetStatusType DEF Status
  <1>2. TypeOK'
    BY <1>1 DEF IInv, TypeOK, money, given
  <1>3. Only(p) /\ Forward(p)
    BY <1>1 DEF Only, Forward, money, given
  <1>4. RowFacts(p)'
    BY <1>1 DEF IInv, RowFacts, IsGift, money, given
  <1>5. Money'
    BY <1>1, MoneyFrame DEF money
  <1> QED
    BY <1>1, <1>2, <1>3, <1>4, <1>5, RowStep DEF given

LEMMA OrderStep ==
    ASSUME IInv, NEW p \in Purchase, Order(p)
    PROVE  IInv'
  <1>1. /\ status' \in [Purchase -> Status] /\ status'[p] = "pending" /\ status[p] = "none"
        /\ \A q \in Purchase \ {p} : status'[q] = status[q]
    BY SetStatusType DEF Order, Status
  <1>2. TypeOK'
    BY <1>1, Types DEF IInv, TypeOK, Order, Stamp, money, given
  <1>3. Only(p) /\ Forward(p)
    BY <1>1 DEF Only, Forward, Order, money, given
  <1>4. RowFree(p)
    BY <1>1 DEF IInv, JobFacts, RowFree, HoldsRow
  <1>5. RowFacts(p)'
    BY <1>1 DEF IInv, RowFacts, IsGift, Order, money, given
  <1>6. Money'
    BY <1>1, MoneyFrame DEF Order, money
  <1> QED
    BY <1>1, <1>2, <1>3, <1>4, <1>5, <1>6, RowStep DEF Order, given

LEMMA ProviderPaidStep ==
    ASSUME IInv, NEW p \in Purchase, NEW a \in {"right", "wrong"}, ProviderPaid(p, a)
    PROVE  IInv'
  <1>1. /\ provider' \in [Purchase -> {"open", "right", "wrong"}] /\ provider'[p] = a
        /\ \A q \in Purchase \ {p} : provider'[q] = provider[q]
    BY Types DEF ProviderPaid
  <1>2. TypeOK'
    BY <1>1 DEF IInv, TypeOK, ProviderPaid, rows, given
  <1>3. Only(p) /\ Forward(p)
    BY <1>1 DEF Only, Forward, ProviderPaid, rows, given
  <1>4. RowFacts(p)'
    BY <1>1 DEF IInv, RowFacts, IsGift, ProviderPaid, rows, given
  <1>5. Money'
    BY MoneyFrame DEF ProviderPaid, rows
  <1> QED
    BY <1>2, <1>3, <1>4, <1>5, RowStep DEF ProviderPaid, rows, given

LEMMA WebhookMismatchStep ==
    ASSUME IInv, NEW t, NEW p \in Purchase, WebhookMismatch(t, p)
    PROVE  IInv'
  <1>1. status[p] \notin {"none", "delivered"}
    BY DEF IInv, RowFacts, WebhookMismatch
  <1> QED
    BY <1>1, CallType, StatusStep, Types DEF WebhookMismatch

LEMMA WebhookGiftStep ==
    ASSUME IInv, NEW t, NEW p \in Purchase, WebhookGift(t, p)
    PROVE  IInv'
  <1>1. recent' \subseteq Purchase
    BY Types DEF WebhookGift, Stamp
  <1> QED
    BY <1>1, CallType, StatusStep DEF WebhookGift

LEMMA RecoverPendingStep ==
    ASSUME IInv, NEW p \in Purchase, RecoverPending(p)
    PROVE  IInv'
  <1>1. recent' \subseteq Purchase
    BY Types DEF RecoverPending, Stamp
  <1> QED
    BY <1>1, StatusStep, Types DEF RecoverPending

LEMMA FailExhaustedStep ==
    ASSUME IInv, NEW p \in Purchase, FailExhausted(p)
    PROVE  IInv'
  BY StatusStep, Types DEF FailExhausted

LEMMA AgeStep ==
    ASSUME IInv, NEW p \in Purchase, Age(p)
    PROVE  IInv'
  <1>1. TypeOK'
    BY DEF IInv, TypeOK, Age, money, given
  <1>2. Only(p) /\ Forward(p)
    BY DEF Only, Forward, Age, money, given
  <1>3. RowFacts(p)'
    BY DEF IInv, RowFacts, IsGift, Age, money, given
  <1>4. Money'
    BY MoneyFrame DEF Age, money
  <1> QED
    BY <1>1, <1>2, <1>3, <1>4, RowStep DEF Age, given

\* A newcomer is bound to a gift that belongs to nobody else.
LEMMA RegisterStep ==
    ASSUME IInv, NEW t, NEW p \in Purchase, NEW u \in User, RegisterWithGift(t, p, u)
    PROVE  IInv'
  <1>1. /\ status' \in [Purchase -> Status] /\ status'[p] = "held"
        /\ \A q \in Purchase \ {p} : status'[q] = status[q]
    BY SetStatusType DEF RegisterWithGift, Status
  <1>2. /\ owner' \in [Purchase -> User \cup {NoUser}] /\ owner'[p] = u
        /\ \A q \in Purchase \ {p} : owner'[q] = owner[q]
    BY BindType DEF RegisterWithGift
  <1>3. TypeOK'
    BY <1>1, <1>2, CallType DEF IInv, TypeOK, RegisterWithGift, money, given
  <1>4. Only(p) /\ Forward(p)
    BY <1>1, <1>2 DEF Only, Forward, RegisterWithGift, money, given
  <1>5. u # NoUser
    BY ConstantsAssumption
  <1>6. RowFacts(p)'
    BY <1>1, <1>2, <1>5 DEF IInv, RowFacts, IsGift, RegisterWithGift, money, given
  <1>7. Money'
    BY <1>1, MoneyFrame DEF RegisterWithGift, money
  <1> QED
    BY <1>1, <1>3, <1>4, <1>6, <1>7, RowStep DEF RegisterWithGift, given

-----------------------------------------------------------------------------
(* A task goes on.                                                         *)

\* The lock is lost with a commit.
LEMMA GoesOn ==
    ASSUME IInv, NEW t \in Worker, task[t].pc \in Pcs, NEW c \in Pcs,
           Become(t, [task[t] EXCEPT !.pc = c, !.locked = FALSE])
    PROVE  /\ task' \in [Worker -> Job]
           /\ task'[t].pc = c /\ task'[t].p = task[t].p /\ task'[t].u = task[t].u
           /\ ~task'[t].locked
           /\ \A o \in Worker \ {t} : task'[o] = task[o]
  <1> DEFINE j == [task[t] EXCEPT !.pc = c, !.locked = FALSE]
  <1>1. /\ j \in Job /\ j.pc = c /\ j.p = task[t].p /\ j.u = task[t].u
        /\ ~j.locked
    BY Types, JobKinds
  <1>2. Become(t, j)
    OBVIOUS
  <1> HIDE DEF j
  <1> QED
    BY <1>1, <1>2, Becomes

LEMMA Ends ==
    ASSUME IInv, NEW t \in Worker, Done(t)
    PROVE  /\ task' \in [Worker -> Job] /\ task'[t].pc = "idle"
           /\ \A o \in Worker \ {t} : task'[o] = task[o]
  <1>1. Idle \in Job /\ Idle.pc = "idle"
    BY DEF Idle, Job
  <1> QED
    BY <1>1, Becomes DEF Done

\* p becomes u's.
LEMMA GrantType ==
    ASSUME IInv, NEW p \in Purchase, NEW u \in User, Grant(p, u)
    PROVE  /\ sub' \in [User -> Sub]
           /\ granted' \in [Purchase -> [to : SUBSET User, times : Nat]]
           /\ granted'[p].to = granted[p].to \cup {u}
           /\ granted'[p].times = granted[p].times + 1
           /\ \A q \in Purchase \ {p} : granted'[q] = granted[q]
  <1>1. sub' \in [User -> Sub]
    BY Types DEF Grant, Sub
  <1> DEFINE g == [to |-> granted[p].to \cup {u}, times |-> granted[p].times + 1]
  <1>2. g \in [to : SUBSET User, times : Nat]
    BY Types
  <1>3. granted' = [granted EXCEPT ![p] = g]
    BY DEF Grant
  <1>4. g.to = granted[p].to \cup {u} /\ g.times = granted[p].times + 1
    OBVIOUS
  <1> HIDE DEF g
  <1> QED
    BY <1>1, <1>2, <1>3, <1>4, Types

\* What t has locked nobody else has.
LEMMA LockedAlone ==
    ASSUME IInv, NEW t \in Worker, NEW p \in Purchase, HoldsRow(t, p)
    PROVE  \A o \in Worker \ {t} : ~HoldsRow(o, p)
  BY DEF IInv, Locks

LEMMA CommitGrantStep ==
    ASSUME IInv, NEW t \in Worker, CommitGrant(t)
    PROVE  IInv'
  <1>1. PICK p \in Purchase, u \in User :
            /\ task[t].p = p /\ task[t].u = u
            /\ task[t].pc = "grant" /\ task[t].locked \in BOOLEAN
    BY Types, JobKinds DEF CommitGrant, Pcs
  <1>2. /\ kind[p] = "direct" /\ u = Recipient[p] /\ provider[p] = "right"
        /\ status[p] # "none"
        /\ task[t].locked => status[p] \in {"pending", "paid"}
        /\ ~task[t].locked => status[p] # "pending"
    BY <1>1 DEF IInv, JobFacts
  <1>3. /\ task' \in [Worker -> Job]
        /\ task'[t].pc = "push" /\ task'[t].p = p /\ task'[t].u = u
        /\ ~task'[t].locked
        /\ \A o \in Worker \ {t} : task'[o] = task[o]
    BY <1>1, GoesOn DEF CommitGrant, Pcs
  <1>4. Grant(p, u)
    BY <1>1 DEF CommitGrant
  <1>5. /\ sub' \in [User -> Sub]
        /\ granted' \in [Purchase -> [to : SUBSET User, times : Nat]]
        /\ granted'[p].times = granted[p].times + 1
        /\ \A q \in Purchase \ {p} : granted'[q] = granted[q]
    BY <1>1, <1>4, GrantType
  <1>6. /\ status' \in [Purchase -> Status]
        /\ \A q \in Purchase \ {p} : status'[q] = status[q]
        /\ status'[p] = IF task[t].locked THEN "paid" ELSE status[p]
    BY <1>1, SetStatusType, Types DEF CommitGrant, Status
  <1>7. recent' \subseteq Purchase
    BY <1>1, Types DEF CommitGrant
  <1>8. /\ \/ \A o \in Worker \ {t} : ~HoldsRow(o, p)
           \/ status'[p] = status[p] /\ owner'[p] = owner[p] /\ ~HoldsRow(t, p)'
    <2>1. task[t].locked => HoldsRow(t, p)
      BY <1>1 DEF HoldsRow
    <2>2. ~HoldsRow(t, p)'
      BY <1>3 DEF HoldsRow
    <2> QED
      BY <1>1, <1>6, <2>1, <2>2, LockedAlone DEF CommitGrant
  <1>9. UNCHANGED <<owner, tries, kind, provider, balance, calls, doubt>>
    BY DEF CommitGrant, money
  <1>a. Active(t, p) /\ Granting(t) = 0 /\ Active(t, p)' /\ Granting(t)' = 1
    BY <1>1, <1>3 DEF Active, Granting
  <1>10. TypeOK'
    BY <1>3, <1>5, <1>6, <1>7, <1>9 DEF IInv, TypeOK
  <1>11. Only(p) /\ Forward(p)
    BY <1>2, <1>5, <1>6, <1>9 DEF Only, Forward
  <1>12. RowFacts(p)'
    <2>1. RowFacts(p)
      BY <1>1 DEF IInv
    <2>2. CASE task[t].locked
      BY <1>2, <1>6, <1>9, <2>1, <2>2 DEF RowFacts, IsGift
    <2>3. CASE ~task[t].locked
      BY <1>2, <1>6, <1>9, <2>1, <2>3 DEF RowFacts, IsGift
    <2> QED
      BY <2>2, <2>3
  <1>13. JobFacts(t)'
    BY <1>2, <1>3, <1>6, <1>9 DEF JobFacts
  <1>14. OnceFacts(p)'
    <2>1. status'[p] = "delivered" => status[p] = "delivered"
      BY <1>6
    <2>2. UNCHANGED doubt
      BY <1>9
    <2> QED
      BY <1>1, <1>3, <1>5, <1>a, <2>1, <2>2, OnceGrant
  <1>15. Money'
    BY <1>1, <1>2, <1>6, <1>9, MoneyFrame
  <1> QED
    BY <1>1, <1>3, <1>8, <1>9, <1>10, <1>11, <1>12, <1>13, <1>14, <1>15, TaskStep

LEMMA DeliveredStep ==
    ASSUME IInv, NEW t \in Worker, Delivered(t)
    PROVE  IInv'
  <1>1. PICK p \in Purchase, u \in User :
            task[t].p = p /\ task[t].u = u /\ task[t].pc = "push"
    BY Types, JobKinds DEF Delivered, Pcs
  <1>2. /\ kind[p] = "direct" /\ u = Recipient[p] /\ provider[p] = "right"
        /\ status[p] \notin {"none", "pending"}
    BY <1>1 DEF IInv, JobFacts
  <1>3. /\ task' \in [Worker -> Job] /\ task'[t].pc = "idle"
        /\ \A o \in Worker \ {t} : task'[o] = task[o]
    BY Ends DEF Delivered
  <1>4. /\ status' \in [Purchase -> Status] /\ status'[p] = "delivered"
        /\ \A q \in Purchase \ {p} : status'[q] = status[q]
    BY <1>1, SetStatusType DEF Delivered, Status
  <1>5. /\ owner' \in [Purchase -> User \cup {NoUser}] /\ owner'[p] = u
        /\ \A q \in Purchase \ {p} : owner'[q] = owner[q]
    BY <1>1, BindType DEF Delivered
  <1>6. UNCHANGED <<tries, recent, kind, provider, balance, calls, sub, granted, doubt>>
    BY DEF Delivered, money, given
  <1>7. \A o \in Worker : ~HoldsRow(o, p)
    BY <1>1 DEF Delivered, RowFree
  <1>8. TypeOK'
    BY <1>3, <1>4, <1>5, <1>6 DEF IInv, TypeOK
  <1>9. RowFacts(p)
    BY DEF IInv
  <1>10. Only(p) /\ Forward(p)
    BY <1>2, <1>4, <1>5, <1>6, <1>9 DEF Only, Forward, RowFacts
  <1>11. RowFacts(p)'
    BY <1>2, <1>4, <1>5, <1>6 DEF RowFacts, IsGift
  <1>12. JobFacts(t)'
    BY <1>3 DEF JobFacts
  <1>13. Active(t, p) /\ Granting(t) = 1 /\ ~Active(t, p)'
    BY <1>1, <1>3 DEF Active, Granting
  <1>14. OnceFacts(p)'
    BY <1>3, <1>4, <1>6, <1>13, OnceEnd
  <1>15. Money'
    BY <1>2, <1>4, <1>6, MoneyFrame
  <1> QED
    BY <1>1, <1>3, <1>6, <1>7, <1>8, <1>10, <1>11, <1>12, <1>14, <1>15, TaskStep

LEMMA FlushStep ==
    ASSUME IInv, NEW t \in Worker, Flush(t)
    PROVE  IInv'
  <1>1. PICK p \in Purchase, u \in User :
            task[t].p = p /\ task[t].u = u /\ task[t].pc = "extend"
    BY Types, JobKinds DEF Flush, Pcs
  <1>2. /\ task' \in [Worker -> Job]
        /\ task'[t].pc = "panel" /\ task'[t].p = p /\ task'[t].u = u
        /\ task'[t].locked = task[t].locked
        /\ \A o \in Worker \ {t} : task'[o] = task[o]
    <2> DEFINE j == [task[t] EXCEPT !.pc = "panel"]
    <2>1. /\ j \in Job /\ j.pc = "panel" /\ j.p = p /\ j.u = u
          /\ j.locked = task[t].locked
      BY <1>1, Types, JobKinds DEF Pcs
    <2>2. Become(t, j)
      BY DEF Flush
    <2> HIDE DEF j
    <2> QED
      BY <2>1, <2>2, Becomes
  <1>3. UNCHANGED <<status, owner, tries, recent, kind, provider, balance, calls, sub,
                    granted, doubt>>
    BY DEF Flush, rows, money, given
  <1>4. TypeOK'
    BY <1>2, <1>3 DEF IInv, TypeOK
  <1>5. Only(p) /\ Forward(p)
    BY <1>3 DEF Only, Forward
  <1>6. RowFacts(p)'
    BY <1>3 DEF IInv, RowFacts, IsGift
  <1>7. JobFacts(t)'
    BY <1>1, <1>2, <1>3 DEF IInv, JobFacts, IsGift
  <1>8. OnceFacts(p)'
    <2>1. \A o \in Worker : Active(o, p)' <=> Active(o, p)
      BY <1>1, <1>2 DEF Active
    <2>2. \A o \in Worker : Granting(o)' = Granting(o)
      BY <1>1, <1>2 DEF Granting
    <2>3. OnceFacts(p)
      BY DEF IInv
    <2> QED
      BY <1>3, <2>1, <2>2, <2>3, OnceFrame
  <1>9. Money'
    BY <1>3, MoneyFrame
  <1>10. \/ \A o \in Worker \ {t} : ~HoldsRow(o, p)
         \/ status'[p] = status[p] /\ owner'[p] = owner[p] /\ ~HoldsRow(t, p)'
    <2>1. HoldsRow(t, p)' <=> HoldsRow(t, p)
      BY <1>1, <1>2 DEF HoldsRow
    <2> QED
      BY <1>3, <2>1, LockedAlone
  <1> QED
    BY <1>1, <1>2, <1>3, <1>4, <1>5, <1>6, <1>7, <1>8, <1>9, <1>10, TaskStep

LEMMA PanelAnswersStep ==
    ASSUME IInv, NEW t \in Worker, PanelAnswers(t)
    PROVE  IInv'
  <1>1. PICK p \in Purchase, u \in User :
            /\ task[t].p = p /\ task[t].u = u
            /\ task[t].pc = "panel" /\ task[t].locked \in BOOLEAN
    BY Types, JobKinds DEF PanelAnswers, Pcs
  <1>2. /\ kind[p] # "wallet" => provider[p] = "right"
        /\ status[p] \notin {"none", "pending"}
        /\ IsGift(p) => u # Buyer
        /\ kind[p] = "direct" \/ ~task[t].locked => owner[p] = u
        /\ task[t].locked => status[p] \in {"paid", "held"} /\ owner[p] \in {NoUser, u}
        /\ u # NoUser
    BY <1>1, ConstantsAssumption DEF IInv, JobFacts
  <1>3. /\ task' \in [Worker -> Job]
        /\ task'[t].pc = "mark" /\ task'[t].p = p
        /\ \A o \in Worker \ {t} : task'[o] = task[o]
    BY <1>1, GoesOn DEF PanelAnswers, Pcs
  <1>4. Grant(p, u)
    BY <1>1 DEF PanelAnswers
  <1>5. /\ sub' \in [User -> Sub]
        /\ granted' \in [Purchase -> [to : SUBSET User, times : Nat]]
        /\ granted'[p].to = granted[p].to \cup {u}
        /\ granted'[p].times = granted[p].times + 1
        /\ \A q \in Purchase \ {p} : granted'[q] = granted[q]
    BY <1>4, GrantType
  <1>6. /\ status' \in [Purchase -> Status]
        /\ \A q \in Purchase \ {p} : status'[q] = status[q]
        /\ status'[p] = IF task[t].locked THEN "held" ELSE status[p]
    BY <1>1, SetStatusType, Types DEF PanelAnswers, Status
  <1>7. /\ owner' \in [Purchase -> User \cup {NoUser}]
        /\ \A q \in Purchase \ {p} : owner'[q] = owner[q]
        /\ owner'[p] = u
    <2>1. CASE task[t].locked
      BY <1>1, <2>1, BindType DEF PanelAnswers
    <2>2. CASE ~task[t].locked
      BY <1>1, <1>2, <2>2, Types DEF PanelAnswers
    <2> QED
      BY <2>1, <2>2
  <1>8. UNCHANGED <<tries, recent, kind, provider, balance, calls, doubt>>
    BY DEF PanelAnswers, money
  <1>9. /\ \/ \A o \in Worker \ {t} : ~HoldsRow(o, p)
           \/ status'[p] = status[p] /\ owner'[p] = owner[p] /\ ~HoldsRow(t, p)'
    <2>1. task[t].locked => HoldsRow(t, p)
      BY <1>1 DEF HoldsRow
    <2>2. ~HoldsRow(t, p)'
      BY <1>3 DEF HoldsRow
    <2> QED
      BY <1>1, <1>2, <1>6, <1>7, <2>1, <2>2, LockedAlone
  <1>10. TypeOK'
    BY <1>3, <1>5, <1>6, <1>7, <1>8 DEF IInv, TypeOK
  <1>11. RowFacts(p)
    BY DEF IInv
  <1>12. Only(p) /\ Forward(p)
    BY <1>2, <1>5, <1>6, <1>7, <1>8 DEF Only, Forward
  <1>13. RowFacts(p)'
    <2>1. CASE task[t].locked
      BY <1>2, <1>5, <1>6, <1>7, <1>8, <1>11, <2>1 DEF RowFacts, IsGift
    <2>2. CASE ~task[t].locked
      BY <1>2, <1>5, <1>6, <1>7, <1>8, <1>11, <2>2 DEF RowFacts, IsGift
    <2> QED
      BY <2>1, <2>2
  <1>14. JobFacts(t)'
    BY <1>2, <1>3, <1>6, <1>7, <1>8 DEF JobFacts
  <1>15. Active(t, p) /\ Granting(t) = 0 /\ Active(t, p)' /\ Granting(t)' = 1
    BY <1>1, <1>3 DEF Active, Granting
  <1>16. OnceFacts(p)'
    <2>1. status'[p] = "delivered" => status[p] = "delivered"
      BY <1>6
    <2> QED
      BY <1>3, <1>5, <1>8, <1>15, <2>1, OnceGrant
  <1>17. Money'
    BY <1>2, <1>6, <1>8, MoneyFrame
  <1> QED
    BY <1>1, <1>3, <1>8, <1>9, <1>10, <1>12, <1>13, <1>14, <1>16, <1>17, TaskStep

\* The row of p stays as it is, and t loses its lock.
LEMMA QuietStep ==
    ASSUME IInv, NEW t \in Worker, NEW p \in Purchase,
           task[t].pc = "idle" \/ task[t].p = p,
           task' \in [Worker -> Job], task'[t].pc = "idle" \/ task'[t].p = p,
           \A o \in Worker \ {t} : task'[o] = task[o],
           ~HoldsRow(t, p)',
           UNCHANGED <<status, owner, recent, money, given>>,
           tries' \in [Purchase -> 0 .. MaxRetries], calls' \in [Purchase -> 0 .. MaxCalls],
           doubt \subseteq doubt', doubt' \subseteq Purchase,
           JobFacts(t)', OnceFacts(p)'
    PROVE  IInv'
  <1>1. TypeOK'
    BY DEF IInv, TypeOK, money, given
  <1>2. Only(p) /\ Forward(p)
    BY DEF Only, Forward, money, given
  <1>3. RowFacts(p)'
    BY DEF IInv, RowFacts, IsGift, money, given
  <1>4. Money'
    BY MoneyFrame DEF money
  <1> QED
    BY <1>1, <1>2, <1>3, <1>4, TaskStep

LEMMA PanelFailsStep ==
    ASSUME IInv, NEW t \in Worker, PanelFails(t)
    PROVE  IInv'
  <1>1. PICK p \in Purchase, u \in User :
            task[t].p = p /\ task[t].u = u /\ task[t].pc = "panel"
    BY Types, JobKinds DEF PanelFails, Pcs
  <1>2. /\ kind[p] # "wallet" => provider[p] = "right"
        /\ status[p] \notin {"none", "pending"}
        /\ kind[p] = "direct" => owner[p] # NoUser
    BY <1>1, ConstantsAssumption DEF IInv, JobFacts
  <1>3. UNCHANGED <<status, owner, tries, recent, money, given, calls>>
    BY DEF PanelFails, rows
  <1>4. Active(t, p) /\ Granting(t) = 0
    BY <1>1 DEF Active, Granting
  <1>5. CASE task[t].saw = "none"
    <2>1. /\ task' \in [Worker -> Job] /\ task'[t].pc = "idle"
          /\ \A o \in Worker \ {t} : task'[o] = task[o]
      BY <1>5, Ends DEF PanelFails
    <2>2. UNCHANGED doubt
      BY <1>5 DEF PanelFails
    <2>3. JobFacts(t)'
      BY <2>1 DEF JobFacts
    <2>4. ~Active(t, p)' /\ ~HoldsRow(t, p)'
      BY <2>1 DEF Active, HoldsRow
    <2>5. OnceFacts(p)'
      BY <1>3, <1>4, <2>1, <2>2, <2>4, OnceEnd DEF given
    <2> QED
      BY <1>1, <1>3, <2>1, <2>2, <2>3, <2>4, <2>5, Types, QuietStep
  <1>6. CASE task[t].saw # "none"
    <2>1. /\ task' \in [Worker -> Job] /\ task'[t].pc = "mark" /\ task'[t].p = p
          /\ \A o \in Worker \ {t} : task'[o] = task[o]
      BY <1>1, <1>6, GoesOn DEF PanelFails, Pcs
    <2>2. doubt' = doubt \cup {p}
      BY <1>1, <1>6 DEF PanelFails
    <2>3. JobFacts(t)'
      BY <1>2, <1>3, <2>1 DEF JobFacts, money
    <2>4. ~HoldsRow(t, p)'
      BY <2>1 DEF HoldsRow
    <2>5. OnceFacts(p)'
      BY <2>2 DEF OnceFacts
    <2> QED
      BY <1>1, <1>3, <2>1, <2>2, <2>3, <2>4, <2>5, Types, QuietStep
  <1> QED
    BY <1>5, <1>6

LEMMA RaisesStep ==
    ASSUME IInv, NEW t \in Worker, Raises(t)
    PROVE  IInv'
  <1>1. PICK p \in Purchase : task[t].p = p /\ task[t].pc \in Pcs
    BY Types, JobKinds DEF Raises, Pcs
  <1>2. /\ kind[p] # "wallet" => provider[p] = "right"
        /\ status[p] # "none"
    BY <1>1 DEF IInv, JobFacts, Pcs
  <1>3. UNCHANGED <<status, owner, tries, recent, money, given, calls>>
    BY DEF Raises, rows
  <1>4. /\ task' \in [Worker -> Job]
        /\ \/ task'[t].pc = "idle"
           \/ task'[t].pc = "recover" /\ task'[t].p = p
        /\ \A o \in Worker \ {t} : task'[o] = task[o]
    <2> DEFINE j == [pc |-> "recover", p |-> p]
    <2>1. j \in Job /\ j.pc = "recover" /\ j.p = p
      BY DEF Job
    <2>2. Done(t) \/ Become(t, j)
      BY <1>1 DEF Raises, Fail
    <2> HIDE DEF j
    <2> QED
      BY <2>1, <2>2, Becomes, Ends
  <1>5. /\ doubt \subseteq doubt' /\ doubt' \subseteq Purchase
        /\ task[t].pc \in {"push", "mark"} => p \in doubt'
    BY <1>1, Types DEF Raises, BreaksOff
  <1>6. JobFacts(t)'
    BY <1>2, <1>3, <1>4 DEF JobFacts, money
  <1>7. Active(t, p) /\ ~Active(t, p)' /\ ~HoldsRow(t, p)'
    BY <1>1, <1>4 DEF Active, HoldsRow, Pcs
  <1>8. OnceFacts(p)'
    BY <1>1, <1>3, <1>4, <1>5, <1>7, OnceEnd DEF Granting, given
  <1> QED
    BY <1>1, <1>3, <1>4, <1>5, <1>6, <1>7, <1>8, Types, QuietStep

LEMMA MarkStep ==
    ASSUME IInv, NEW t \in Worker, Mark(t)
    PROVE  IInv'
  <1>1. PICK p \in Purchase : task[t].p = p /\ task[t].pc = "mark"
    BY Types, JobKinds DEF Mark, Pcs
  <1>2. /\ kind[p] # "wallet" => provider[p] = "right"
        /\ status[p] \notin {"none", "pending"}
        /\ kind[p] = "direct" => owner[p] # NoUser
    BY <1>1 DEF IInv, JobFacts
  <1>3. /\ task' \in [Worker -> Job] /\ task'[t].pc = "idle"
        /\ \A o \in Worker \ {t} : task'[o] = task[o]
    BY Ends DEF Mark
  <1>4. /\ status' \in [Purchase -> Status] /\ status'[p] = "delivered"
        /\ \A q \in Purchase \ {p} : status'[q] = status[q]
    BY <1>1, SetStatusType DEF Mark, Status
  <1>5. UNCHANGED <<owner, tries, recent, kind, provider, balance, calls, sub, granted, doubt>>
    BY DEF Mark, money, given
  <1>6. \A o \in Worker : ~HoldsRow(o, p)
    BY <1>1 DEF Mark, RowFree
  <1>7. TypeOK'
    BY <1>3, <1>4, <1>5 DEF IInv, TypeOK
  <1>8. Only(p) /\ Forward(p)
    BY <1>2, <1>4, <1>5 DEF Only, Forward
  <1>9. RowFacts(p)'
    BY <1>2, <1>4, <1>5 DEF IInv, RowFacts, IsGift
  <1>10. JobFacts(t)'
    BY <1>3 DEF JobFacts
  <1>11. Active(t, p) /\ Granting(t) = 1 /\ ~Active(t, p)'
    BY <1>1, <1>3 DEF Active, Granting
  <1>12. OnceFacts(p)'
    BY <1>3, <1>4, <1>5, <1>11, OnceEnd
  <1>13. Money'
    BY <1>2, <1>4, <1>5, MoneyFrame
  <1> QED
    BY <1>1, <1>3, <1>5, <1>6, <1>7, <1>8, <1>9, <1>10, <1>12, <1>13, TaskStep

\* A webhook that failed notes the payment, if nobody did more since.
LEMMA RecoverStep ==
    ASSUME IInv, NEW t \in Worker, Recover(t)
    PROVE  IInv'
  <1>1. PICK p \in Purchase : task[t].p = p /\ task[t].pc = "recover"
    BY Types, JobKinds DEF Recover
  <1>2. /\ kind[p] # "wallet" => provider[p] = "right"
        /\ status[p] # "none"
    BY <1>1 DEF IInv, JobFacts
  <1>3. /\ task' \in [Worker -> Job] /\ task'[t].pc = "idle"
        /\ \A o \in Worker \ {t} : task'[o] = task[o]
    BY Ends DEF Recover
  <1>4. /\ status' \in [Purchase -> Status]
        /\ status'[p] = IF status[p] \in {"pending", "paid"} THEN "paid" ELSE status[p]
        /\ \A q \in Purchase \ {p} : status'[q] = status[q]
    BY <1>1, SetStatusType, Types DEF Recover, Status
  <1>5. UNCHANGED <<owner, tries, kind, provider, balance, calls, sub, granted, doubt>>
    BY DEF Recover, money, given
  <1>6. \A o \in Worker : ~HoldsRow(o, p)
    BY <1>1 DEF Recover, RowFree
  <1>7. recent' \subseteq Purchase
    BY <1>1, Types DEF Recover, Stamp
  <1>8. TypeOK'
    BY <1>3, <1>4, <1>5, <1>7 DEF IInv, TypeOK
  <1>9. Only(p) /\ Forward(p)
    BY <1>2, <1>4, <1>5 DEF Only, Forward
  <1>10. RowFacts(p)'
    <2>1. RowFacts(p)
      BY DEF IInv
    <2>2. CASE status[p] \in {"pending", "paid"}
      BY <1>2, <1>4, <1>5, <2>1, <2>2 DEF RowFacts, IsGift
    <2>3. CASE status[p] \notin {"pending", "paid"}
      BY <1>2, <1>4, <1>5, <2>1, <2>3 DEF RowFacts, IsGift
    <2> QED
      BY <2>2, <2>3
  <1>11. JobFacts(t)'
    BY <1>3 DEF JobFacts
  <1>12. OnceFacts(p)'
    <2>1. \A o \in Worker : Active(o, p)' <=> Active(o, p)
      BY <1>1, <1>3 DEF Active
    <2>2. \A o \in Worker : Active(o, p) => Granting(o)' = Granting(o)
      BY <1>1, <1>3 DEF Active, Granting
    <2>3. OnceFacts(p) /\ (status'[p] = "delivered" <=> status[p] = "delivered")
      BY <1>4 DEF IInv
    <2> QED
      BY <1>5, <2>1, <2>2, <2>3, OnceFrame
  <1>13. Money'
    BY <1>2, <1>4, <1>5, MoneyFrame
  <1> QED
    BY <1>1, <1>3, <1>5, <1>6, <1>8, <1>9, <1>10, <1>11, <1>12, <1>13, TaskStep

-----------------------------------------------------------------------------
(* The wallet.                                                             *)

LEMMA WalletLookStep ==
    ASSUME IInv, NEW t, NEW p \in Purchase, WalletLook(t, p)
    PROVE  IInv'
  <1>1. /\ t \in Worker /\ task[t].pc = "idle" /\ calls' \in [Purchase -> 0 .. MaxCalls]
    BY CallType DEF WalletLook
  <1> DEFINE j == [pc |-> "buy", p |-> p]
  <1>2. j \in Job /\ j.pc = "buy" /\ j.p = p
    BY DEF Job
  <1>3. Become(t, j)
    BY DEF WalletLook
  <1> HIDE DEF j
  <1>4. /\ task' \in [Worker -> Job] /\ task'[t].pc = "buy" /\ task'[t].p = p
        /\ \A o \in Worker \ {t} : task'[o] = task[o]
    BY <1>1, <1>2, <1>3, Becomes
  <1>5. UNCHANGED <<status, owner, tries, recent, money, given, doubt>>
    BY DEF WalletLook, rows
  <1>6. JobFacts(t)'
    BY <1>4, <1>5 DEF JobFacts, WalletLook, money
  <1>7. ~HoldsRow(t, p)'
    BY <1>4 DEF HoldsRow
  <1>8. OnceFacts(p)'
    <2>1. \A o \in Worker : Active(o, p)' <=> Active(o, p)
      BY <1>1, <1>4 DEF Active
    <2>2. \A o \in Worker : Active(o, p) => Granting(o)' = Granting(o)
      BY <1>1, <1>4 DEF Active, Granting
    <2>3. OnceFacts(p)
      BY DEF IInv
    <2> QED
      BY <1>5, <2>1, <2>2, <2>3, OnceFrame DEF given
  <1> QED
    BY <1>1, <1>4, <1>5, <1>6, <1>7, <1>8, Types, QuietStep

\* One more gift is bought, and one price less is left.
LEMMA WalletBuyStep ==
    ASSUME IInv, NEW t \in Worker, WalletBuy(t)
    PROVE  IInv'
  <1>1. PICK p \in Purchase : task[t].p = p /\ task[t].pc = "buy"
    BY Types, JobKinds DEF WalletBuy
  <1>2. kind[p] = "wallet"
    BY <1>1 DEF IInv, JobFacts
  <1>3. /\ task' \in [Worker -> Job] /\ task'[t].pc = "idle"
        /\ \A o \in Worker \ {t} : task'[o] = task[o]
    BY Ends DEF WalletBuy
  <1>4. UNCHANGED <<owner, tries, kind, provider, calls, sub, granted, doubt>>
    BY DEF WalletBuy, given
  <1>5. JobFacts(t)' /\ ~HoldsRow(t, p)'
    BY <1>3 DEF JobFacts, HoldsRow
  <1>6. \A o \in Worker : Active(o, p)' <=> Active(o, p)
    BY <1>1, <1>3 DEF Active
  <1>7. \A o \in Worker : Active(o, p) => Granting(o)' = Granting(o)
    BY <1>1, <1>3 DEF Active, Granting
  <1>8. OnceFacts(p) /\ RowFacts(p)
    BY DEF IInv
  <1>9. CASE status[p] = "none" /\ balance > 0
    <2>1. /\ status' \in [Purchase -> Status] /\ status'[p] = "paid"
          /\ \A q \in Purchase \ {p} : status'[q] = status[q]
      BY <1>1, <1>9, SetStatusType DEF WalletBuy, Status
    <2>2. balance' = balance - 1 /\ balance' \in 0 .. Opening /\ recent' \subseteq Purchase
      BY <1>1, <1>9, Types, ConstantsAssumption DEF WalletBuy, Stamp
    <2>3. TypeOK'
      BY <1>3, <1>4, <2>1, <2>2 DEF IInv, TypeOK
    <2>4. Only(p) /\ Forward(p)
      BY <1>4, <1>8, <1>9, <2>1 DEF Only, Forward, RowFacts
    <2>5. \A o \in Worker : ~HoldsRow(o, p)
      BY <1>9 DEF IInv, JobFacts, HoldsRow
    <2>6. RowFacts(p)'
      BY <1>2, <1>4, <1>8, <1>9, <2>1 DEF RowFacts, IsGift
    <2>7. OnceFacts(p)'
      BY <1>4, <1>6, <1>7, <1>8, <1>9, <2>1, OnceFrame
    <2>8. Money'
      <3>1. Bought' = Bought \cup {p} /\ p \notin Bought
        BY <1>2, <1>4, <1>9, <2>1 DEF Bought
      <3>2. IsFiniteSet(Bought)
        BY FS_Subset, ConstantsAssumption DEF Bought
      <3>3. Cardinality(Bought') = Cardinality(Bought) + 1
        BY <3>1, <3>2, FS_AddElement
      <3>4. Opening - balance' = Opening - balance + 1
        BY <2>2, Types, ConstantsAssumption
      <3>5. Money
        BY DEF IInv
      <3> QED
        BY <3>3, <3>4, <3>5 DEF Money
    <2> QED
      BY <1>1, <1>3, <1>4, <1>5, <2>3, <2>4, <2>5, <2>6, <2>7, <2>8, TaskStep
  <1>10. CASE ~(status[p] = "none" /\ balance > 0)
    <2>1. UNCHANGED <<status, recent, balance>>
      BY <1>1, <1>10 DEF WalletBuy
    <2>2. OnceFacts(p)'
      BY <1>4, <1>6, <1>7, <1>8, <2>1, OnceFrame
    <2>3. UNCHANGED <<status, owner, recent, money, given>>
      BY <1>4, <2>1 DEF money, given
    <2> QED
      BY <1>1, <1>3, <1>4, <1>5, <2>2, <2>3, Types, QuietStep
  <1> QED
    BY <1>9, <1>10

-----------------------------------------------------------------------------
(* The subscription is read, to be granted or extended.                    *)

LEMMA SeenType ==
    ASSUME IInv, NEW u \in User
    PROVE  /\ Seen(u) \in Sub
           /\ Correct(u) => sub' \in [User -> Sub]
  BY Types DEF Seen, Correct, Sub

LEMMA OverlapType ==
    ASSUME IInv, NEW p \in Purchase, NEW t, Overlap(t, p)
    PROVE  doubt \subseteq doubt' /\ doubt' \subseteq Purchase
  BY Types DEF Overlap

\* activate_purchase, for whom the gift belongs to or who may claim it.
LEMMA ActivateStep ==
    ASSUME IInv, NEW t \in Worker, NEW p \in Purchase, NEW u \in User,
           Activate(t, p, u), RowFree(p),
           task[t].pc = "idle" \/ (task[t].pc = "activate" /\ task[t].p = p),
           calls' \in [Purchase -> 0 .. MaxCalls],
           status[p] \in {"paid", "held"}, owner[p] \in {NoUser, u},
           IsGift(p) => u # Buyer, kind[p] = "direct" => owner[p] = u
    PROVE  IInv'
  <1>1. \A o \in Worker : ~HoldsRow(o, p)
    BY DEF RowFree
  <1>2. /\ task' \in [Worker -> Job] /\ task'[t].pc = "extend" /\ task'[t].p = p
        /\ task'[t].u = u /\ task'[t].locked = (sub[u] # "lapsed")
        /\ \A o \in Worker \ {t} : task'[o] = task[o]
    <2> DEFINE j == [pc |-> "extend", p |-> p, u |-> u, saw |-> Seen(u),
                     locked |-> sub[u] # "lapsed"]
    <2>1. /\ j \in Job /\ j.pc = "extend" /\ j.p = p /\ j.u = u
          /\ j.locked = (sub[u] # "lapsed")
      BY SeenType DEF Job
    <2>2. Become(t, j)
      BY DEF Activate
    <2> HIDE DEF j
    <2> QED
      BY <2>1, <2>2, Becomes
  <1>3. /\ status' \in [Purchase -> Status]
        /\ status'[p] = IF sub[u] = "lapsed" THEN "held" ELSE status[p]
        /\ \A q \in Purchase \ {p} : status'[q] = status[q]
    BY SetStatusType, Types DEF Activate, Status
  <1>4. /\ owner' \in [Purchase -> User \cup {NoUser}]
        /\ owner'[p] = IF sub[u] = "lapsed" THEN u ELSE owner[p]
        /\ \A q \in Purchase \ {p} : owner'[q] = owner[q]
    BY BindType, Types DEF Activate
  <1>5. /\ sub' \in [User -> Sub]
        /\ doubt \subseteq doubt' /\ doubt' \subseteq Purchase
    BY SeenType, OverlapType DEF Activate
  <1>6. UNCHANGED <<tries, recent, kind, provider, balance, granted>>
    BY DEF Activate, money
  <1>7. u # NoUser
    BY ConstantsAssumption
  <1>8. TypeOK'
    BY <1>2, <1>3, <1>4, <1>5, <1>6 DEF IInv, TypeOK
  <1>9. RowFacts(p)
    BY DEF IInv
  <1>10. Only(p) /\ Forward(p)
    BY <1>3, <1>4, <1>6 DEF Only, Forward
  <1>11. RowFacts(p)'
    <2>1. CASE sub[u] = "lapsed"
      BY <1>3, <1>4, <1>6, <1>7, <1>9, <2>1 DEF RowFacts, IsGift
    <2>2. CASE sub[u] # "lapsed"
      BY <1>3, <1>4, <1>6, <1>9, <2>2 DEF RowFacts, IsGift
    <2> QED
      BY <2>1, <2>2
  <1>12. JobFacts(t)'
    <2>1. kind[p] # "wallet" => provider[p] = "right"
      BY <1>9 DEF RowFacts
    <2>2. CASE sub[u] = "lapsed"
      BY <1>2, <1>3, <1>4, <1>6, <2>1, <2>2 DEF JobFacts, IsGift
    <2>3. CASE sub[u] # "lapsed"
      BY <1>2, <1>3, <1>4, <1>6, <2>1, <2>3 DEF JobFacts, IsGift
    <2> QED
      BY <2>2, <2>3
  <1>13. OnceFacts(p)'
    <2>1. status[p] # "delivered" /\ status'[p] # "delivered"
      BY <1>3
    <2>2. ~Active(t, p) /\ Granting(t)' = 0
      BY <1>2 DEF Active, Granting
    <2> QED
      BY <1>2, <1>6, <2>1, <2>2, OnceStart DEF Activate
  <1>14. Money'
    BY <1>3, <1>6, MoneyFrame
  <1> QED
    BY <1>1, <1>2, <1>5, <1>8, <1>10, <1>11, <1>12, <1>13, <1>14, TaskStep

\* A task that was not active on p and is not, and does not deliver p.
LEMMA OnceIdle ==
    ASSUME IInv, NEW t \in Worker, NEW p \in Purchase,
           task[t].pc \notin Pcs, task'[t].pc \notin Pcs,
           \A o \in Worker \ {t} : task'[o] = task[o],
           granted'[p] = granted[p], doubt' = doubt,
           status'[p] = "delivered" <=> status[p] = "delivered"
    PROVE  OnceFacts(p)'
  <1>1. \A o \in Worker : Active(o, p)' <=> Active(o, p)
    BY DEF Active, Pcs
  <1>2. \A o \in Worker : Active(o, p) => Granting(o)' = Granting(o)
    BY DEF Active, Granting, Pcs
  <1>3. OnceFacts(p)
    BY DEF IInv
  <1> QED
    BY <1>1, <1>2, <1>3, OnceFrame

\* fulfill_purchase, of a purchase that was paid for.
LEMMA FulfilStep ==
    ASSUME IInv, NEW t \in Worker, NEW p \in Purchase, Fulfil(t, p), RowFree(p),
           task[t].pc = "idle" \/ (task[t].pc = "fulfil" /\ task[t].p = p),
           calls' \in [Purchase -> 0 .. MaxCalls], UNCHANGED <<money, granted>>,
           kind[p] = "direct", provider[p] = "right", status[p] \in {"pending", "paid"}
    PROVE  IInv'
  <1> DEFINE u == Recipient[p]
  <1>1. u \in User /\ u # NoUser
    BY ConstantsAssumption
  <1>2. RowFacts(p)
    BY DEF IInv
  <1>3. \A o \in Worker : ~HoldsRow(o, p)
    BY DEF RowFree
  <1>4. ASSUME Done(t), NEW s \in {"failed", "held"}, SetStatus(p, s), recent' \subseteq Purchase,
               \/ s = "failed" /\ UNCHANGED owner
               \/ s = "held" /\ Bind(p, u),
               UNCHANGED <<tries, sub, doubt>>
        PROVE  IInv'
    <2>1. /\ status' \in [Purchase -> Status] /\ status'[p] = s
          /\ \A q \in Purchase \ {p} : status'[q] = status[q]
      BY <1>4, SetStatusType DEF Status
    <2>2. /\ owner' \in [Purchase -> User \cup {NoUser}]
          /\ owner'[p] = IF s = "held" THEN u ELSE owner[p]
          /\ \A q \in Purchase \ {p} : owner'[q] = owner[q]
      BY <1>1, <1>4, BindType, Types
    <2>3. /\ task' \in [Worker -> Job] /\ task'[t].pc = "idle"
          /\ \A o \in Worker \ {t} : task'[o] = task[o]
      BY <1>4, Ends
    <2>4. UNCHANGED <<kind, provider, balance, granted, tries, sub, doubt>>
      BY <1>4 DEF money
    <2>5. TypeOK'
      BY <1>4, <2>1, <2>2, <2>3, <2>4 DEF IInv, TypeOK
    <2>6. Only(p) /\ Forward(p)
      BY <1>2, <2>1, <2>2, <2>4 DEF Only, Forward, RowFacts
    <2>7. RowFacts(p)'
      BY <1>1, <1>2, <2>1, <2>2, <2>4 DEF RowFacts, IsGift
    <2>8. JobFacts(t)'
      BY <2>3 DEF JobFacts
    <2>9. OnceFacts(p)'
      BY <2>1, <2>3, <2>4, OnceIdle DEF Pcs
    <2>10. Money'
      BY <2>1, <2>4, MoneyFrame
    <2> QED
      BY <1>3, <2>3, <2>4, <2>5, <2>6, <2>7, <2>8, <2>9, <2>10, TaskStep
  <1>5. ASSUME IF t \in Task THEN Become(t, [pc |-> "recover", p |-> p]) ELSE Done(t),
               UNCHANGED <<rows, sub, doubt>>
        PROVE  IInv'
    <2>1. /\ task' \in [Worker -> Job]
          /\ \/ task'[t].pc = "idle"
             \/ task'[t].pc = "recover" /\ task'[t].p = p
          /\ \A o \in Worker \ {t} : task'[o] = task[o]
      <3> DEFINE j == [pc |-> "recover", p |-> p]
      <3>1. j \in Job /\ j.pc = "recover" /\ j.p = p
        BY DEF Job
      <3>2. Done(t) \/ Become(t, j)
        BY <1>5
      <3> HIDE DEF j
      <3> QED
        BY <3>1, <3>2, Becomes, Ends
    <2>2. UNCHANGED <<status, owner, recent, money, given>> /\ UNCHANGED <<tries, doubt>>
      BY <1>5 DEF rows, given
    <2>3. JobFacts(t)'
      BY <2>1, <2>2 DEF JobFacts, money
    <2>4. OnceFacts(p)'
      BY <2>1, <2>2, OnceIdle DEF Pcs, given
    <2>5. ~HoldsRow(t, p)'
      BY <2>1 DEF HoldsRow
    <2> QED
      BY <2>1, <2>2, <2>3, <2>4, <2>5, Types, QuietStep
  <1>6. ASSUME Become(t, [pc |-> "grant", p |-> p, u |-> u, saw |-> Seen(u),
                          locked |-> sub[u] # "lapsed"]),
               IF sub[u] = "lapsed"
               THEN SetStatus(p, "paid") /\ recent' \subseteq Purchase
               ELSE UNCHANGED <<status, recent>>,
               Correct(u), Overlap(t, p), UNCHANGED <<owner, tries>>
        PROVE  IInv'
    <2>1. /\ task' \in [Worker -> Job] /\ task'[t].pc = "grant" /\ task'[t].p = p
          /\ task'[t].u = u /\ task'[t].locked = (sub[u] # "lapsed")
          /\ \A o \in Worker \ {t} : task'[o] = task[o]
      <3> DEFINE j == [pc |-> "grant", p |-> p, u |-> u, saw |-> Seen(u),
                       locked |-> sub[u] # "lapsed"]
      <3>1. /\ j \in Job /\ j.pc = "grant" /\ j.p = p /\ j.u = u
            /\ j.locked = (sub[u] # "lapsed")
        BY <1>1, SeenType DEF Job
      <3>2. Become(t, j)
        BY <1>6
      <3> HIDE DEF j
      <3> QED
        BY <3>1, <3>2, Becomes
    <2>2. /\ status' \in [Purchase -> Status]
          /\ status'[p] = IF sub[u] = "lapsed" THEN "paid" ELSE status[p]
          /\ \A q \in Purchase \ {p} : status'[q] = status[q]
      BY <1>6, SetStatusType, Types DEF Status
    <2>3. /\ sub' \in [User -> Sub] /\ recent' \subseteq Purchase
          /\ doubt \subseteq doubt' /\ doubt' \subseteq Purchase
      BY <1>1, <1>6, SeenType, OverlapType, Types
    <2>4. UNCHANGED <<kind, provider, balance, granted, tries, owner>>
      BY <1>6 DEF money
    <2>5. TypeOK'
      BY <2>1, <2>2, <2>3, <2>4 DEF IInv, TypeOK
    <2>6. Only(p) /\ Forward(p)
      BY <2>2, <2>4 DEF Only, Forward
    <2>7. RowFacts(p)'
      BY <1>2, <2>2, <2>4 DEF RowFacts, IsGift
    <2>8. JobFacts(t)'
      <3>1. CASE sub[u] = "lapsed"
        BY <2>1, <2>2, <2>4, <3>1 DEF JobFacts
      <3>2. CASE sub[u] # "lapsed"
        BY <2>1, <2>2, <2>4, <3>2 DEF JobFacts
      <3> QED
        BY <3>1, <3>2
    <2>9. OnceFacts(p)'
      <3>1. status[p] # "delivered" /\ status'[p] # "delivered"
        BY <2>2
      <3>2. ~Active(t, p) /\ Granting(t)' = 0
        BY <2>1 DEF Active, Granting
      <3> QED
        BY <1>6, <2>1, <2>4, <3>1, <3>2, OnceStart
    <2>10. Money'
      BY <2>2, <2>4, MoneyFrame
    <2> QED
      BY <1>3, <2>1, <2>3, <2>5, <2>6, <2>7, <2>8, <2>9, <2>10, TaskStep
  <1>7. \A r : r \in {recent, recent \cup {p}} => r \subseteq Purchase
    BY Types
  <1> HIDE DEF u
  <1> QED
    BY <1>4, <1>5, <1>6, <1>7 DEF Fulfil, u

-----------------------------------------------------------------------------
(* Requests and retries.                                                   *)

LEMMA WebhookFulfilStep ==
    ASSUME IInv, NEW t, NEW p \in Purchase, WebhookFulfil(t, p)
    PROVE  IInv'
  <1>1. status[p] \in {"pending", "paid"}
    BY Types DEF IInv, RowFacts, WebhookFulfil, Settled, Status
  <1> QED
    BY <1>1, CallType, FulfilStep DEF WebhookFulfil

LEMMA LandingActivateStep ==
    ASSUME IInv, NEW t, NEW p \in Purchase, LandingActivate(t, p)
    PROVE  IInv'
  <1>1. owner[p] \in User
    BY Types DEF LandingActivate
  <1>2. IsGift(p) => owner[p] # Buyer
    BY DEF IInv, RowFacts
  <1> QED
    BY <1>1, <1>2, CallType, ActivateStep DEF LandingActivate

LEMMA ClaimStep ==
    ASSUME IInv, NEW t, NEW p \in Purchase, NEW u \in User, Claim(t, p, u)
    PROVE  IInv'
  BY CallType, ActivateStep DEF Claim, IsGift

\* The loop counts the try and takes the purchase up.
LEMMA PickStep ==
    ASSUME IInv, NEW p \in Purchase, Pick(p)
    PROVE  IInv'
  <1>1. Monitor \in Worker /\ task[Monitor].pc = "idle"
    BY IdleJob DEF Pick, LoopFree, Worker
  <1>2. /\ task' \in [Worker -> Job]
        /\ \A o \in Worker \ {Monitor} : task'[o] = task[o]
        /\ task'[Monitor].p = p
        /\ \/ task'[Monitor].pc = "fulfil" /\ status[p] = "paid" /\ kind[p] = "direct"
           \/ task'[Monitor].pc = "activate" /\ status[p] = "held"
    <2>1. \A c \in {"fulfil", "activate"} :
              LET j == [pc |-> c, p |-> p] IN j \in Job /\ j.pc = c /\ j.p = p
      BY DEF Job
    <2>2. \A c \in {"fulfil", "activate"} :
              Become(Monitor, [pc |-> c, p |-> p]) =>
                  /\ task' \in [Worker -> Job]
                  /\ task'[Monitor].pc = c /\ task'[Monitor].p = p
                  /\ \A o \in Worker \ {Monitor} : task'[o] = task[o]
      <3> SUFFICES ASSUME NEW c \in {"fulfil", "activate"},
                          Become(Monitor, [pc |-> c, p |-> p])
                   PROVE  /\ task' \in [Worker -> Job]
                          /\ task'[Monitor].pc = c /\ task'[Monitor].p = p
                          /\ \A o \in Worker \ {Monitor} : task'[o] = task[o]
        OBVIOUS
      <3> DEFINE j == [pc |-> c, p |-> p]
      <3>1. j \in Job /\ j.pc = c /\ j.p = p
        BY <2>1
      <3>2. Become(Monitor, j)
        OBVIOUS
      <3> HIDE DEF j
      <3> QED
        BY <1>1, <3>1, <3>2, Becomes
    <2> QED
      BY <2>2 DEF Pick
  <1>3. UNCHANGED <<status, owner, recent, money, calls, given, doubt>>
    BY DEF Pick
  <1>4. tries' \in [Purchase -> 0 .. MaxRetries]
    <2>1. tries[p] + 1 \in 0 .. MaxRetries
      BY Types, ConstantsAssumption DEF Pick
    <2> QED
      BY <2>1, Types DEF Pick
  <1>5. kind[p] # "wallet" => provider[p] = "right"
    BY <1>2 DEF IInv, RowFacts
  <1>6. JobFacts(Monitor)'
    BY <1>2, <1>3, <1>5 DEF JobFacts, money
  <1>7. OnceFacts(p)'
    BY <1>1, <1>2, <1>3, OnceIdle DEF Pcs, given
  <1>8. ~HoldsRow(Monitor, p)'
    BY <1>2 DEF HoldsRow
  <1> QED
    BY <1>1, <1>2, <1>3, <1>4, <1>6, <1>7, <1>8, Types, QuietStep

\* A task that only ends.
LEMMA GivesUpStep ==
    ASSUME IInv, NEW t \in Worker, task[t].pc \notin Pcs \cup {"idle"}, Done(t),
           UNCHANGED <<rows, money, calls, given, doubt>>
    PROVE  IInv'
  <1>1. PICK p \in Purchase : task[t].p = p
    BY Types, JobKinds
  <1>2. /\ task' \in [Worker -> Job] /\ task'[t].pc = "idle"
        /\ \A o \in Worker \ {t} : task'[o] = task[o]
    BY Ends
  <1>3. UNCHANGED <<status, owner, tries, recent, money, calls, given, doubt>>
    BY DEF rows
  <1>4. JobFacts(t)' /\ ~HoldsRow(t, p)'
    BY <1>2 DEF JobFacts, HoldsRow
  <1>5. OnceFacts(p)'
    BY <1>2, <1>3, OnceIdle DEF Pcs, given
  <1> QED
    BY <1>1, <1>2, <1>3, <1>4, <1>5, Types, QuietStep

LEMMA RetryPaidStep ==
    ASSUME IInv, RetryPaid
    PROVE  IInv'
  <1>1. Monitor \in Worker /\ task[Monitor].pc = "fulfil"
    BY DEF RetryPaid, Worker
  <1>2. PICK p \in Purchase : task[Monitor].p = p
    BY <1>1, Types, JobKinds
  <1>3. kind[p] = "direct" /\ provider[p] = "right"
    BY <1>1, <1>2 DEF IInv, JobFacts
  <1>4. CASE status[p] = "paid"
    BY <1>1, <1>2, <1>3, <1>4, Types, FulfilStep DEF RetryPaid
  <1>5. CASE status[p] # "paid"
    BY <1>1, <1>2, <1>5, GivesUpStep DEF RetryPaid, Pcs, given
  <1> QED
    BY <1>4, <1>5

LEMMA RetryHeldStep ==
    ASSUME IInv, RetryHeld
    PROVE  IInv'
  <1>1. Monitor \in Worker /\ task[Monitor].pc = "activate"
    BY DEF RetryHeld, Worker
  <1>2. PICK p \in Purchase : task[Monitor].p = p
    BY <1>1, Types, JobKinds
  <1>3. IsGift(p) => owner[p] # Buyer
    BY DEF IInv, RowFacts
  <1>4. CASE status[p] = "held" /\ owner[p] # NoUser
    <2>1. owner[p] \in User
      BY <1>4, Types
    <2>2. Activate(Monitor, p, owner[p]) /\ RowFree(p) /\ UNCHANGED calls
      BY <1>2, <1>4 DEF RetryHeld
    <2> QED
      BY <1>1, <1>2, <1>3, <1>4, <2>1, <2>2, Types, ActivateStep
  <1>5. CASE ~(status[p] = "held" /\ owner[p] # NoUser)
    BY <1>1, <1>2, <1>5, GivesUpStep DEF RetryHeld, Pcs
  <1> QED
    BY <1>4, <1>5

-----------------------------------------------------------------------------
(* Faults and time.                                                        *)

\* Whoever has committed its grant and not said so leaves a doubt; the others
\* leave a purchase that was not granted.
LEMMA CrashStep ==
    ASSUME IInv, Crash
    PROVE  IInv'
  <1>1. /\ task' \in [Worker -> Job]
        /\ \A t \in Worker : task'[t].pc = "idle"
    BY IdleJob DEF Crash
  <1>2. doubt \subseteq doubt' /\ doubt' \subseteq Purchase
    <2>1. \A t \in Worker : task[t].pc \in {"push", "mark"} => task[t].p \in Purchase
      BY Types, JobKinds
    <2> QED
      BY <2>1, Types DEF Crash
  <1>3. \A t \in Worker : task[t].pc \in {"push", "mark"} => task[t].p \in doubt'
    BY DEF Crash
  <1>4. UNCHANGED <<status, owner, tries, recent, kind, provider, balance, calls, sub, granted>>
    BY DEF Crash, rows, money, given
  <1>5. TypeOK'
    BY <1>1, <1>2, <1>4 DEF IInv, TypeOK
  <1>6. \A p \in Purchase : RowFacts(p)'
    BY <1>4 DEF IInv, RowFacts, IsGift
  <1>7. \A t \in Worker : JobFacts(t)'
    BY <1>1 DEF JobFacts
  <1>8. Locks'
    BY <1>1 DEF Locks, HoldsRow
  <1>9. \A p \in Purchase : OnceFacts(p)'
    <2> SUFFICES ASSUME NEW p \in Purchase, p \notin doubt'
                 PROVE  OnceFacts(p)'
      BY DEF OnceFacts
    <2>1. \A t \in Worker : ~Active(t, p)'
      BY <1>1 DEF Active
    <2>2. \A t \in Worker : Active(t, p) => Granting(t) = 0
      BY <1>3 DEF Active, Granting
    <2>3. granted[p].times = IF status[p] = "delivered" THEN 1 ELSE 0
      BY <1>2, <2>2 DEF IInv, OnceFacts
    <2> QED
      BY <1>4, <2>1, <2>3 DEF OnceFacts
  <1>10. Money'
    BY <1>4, MoneyFrame
  <1> QED
    BY <1>5, <1>6, <1>7, <1>8, <1>9, <1>10 DEF IInv

\* What happens to a subscription elsewhere is nothing the purchases rely on.
LEMMA SubStep ==
    ASSUME IInv, sub' \in [User -> Sub],
           UNCHANGED <<rows, money, calls, granted, doubt, task>>
    PROVE  IInv'
  <1>1. UNCHANGED <<status, owner, tries, recent, kind, provider, balance, calls, granted,
                    doubt, task>>
    BY DEF rows, money
  <1>2. TypeOK'
    BY <1>1 DEF IInv, TypeOK
  <1>3. \A p \in Purchase : RowFacts(p)'
    BY <1>1 DEF IInv, RowFacts, IsGift
  <1>4. \A t \in Worker : JobFacts(t)'
    BY <1>1 DEF IInv, JobFacts, IsGift
  <1>5. Locks'
    BY <1>1 DEF IInv, Locks, HoldsRow
  <1>6. \A p \in Purchase : OnceFacts(p)'
    BY <1>1 DEF IInv, OnceFacts, Active, Granting
  <1>7. Money'
    BY <1>1, MoneyFrame
  <1> QED
    BY <1>2, <1>3, <1>4, <1>5, <1>6, <1>7 DEF IInv

LEMMA TimeStep ==
    ASSUME IInv, NEW u \in User, BuyElsewhere(u) \/ Lapse(u) \/ MarkExpired(u)
    PROVE  IInv'
  <1>1. sub' \in [User -> Sub]
    BY Types, SeenType DEF BuyElsewhere, Lapse, MarkExpired, Sub
  <1> QED
    BY <1>1, SubStep DEF BuyElsewhere, Lapse, MarkExpired

-----------------------------------------------------------------------------
(* The invariant.                                                          *)

LEMMA Initially == Init => IInv
  <1> SUFFICES ASSUME Init PROVE IInv
    OBVIOUS
  <1>1. \A t \in Worker : task[t].pc = "idle" /\ task[t] \in Job
    BY IdleJob DEF Init
  <1>2. TypeOK
    BY <1>1, ConstantsAssumption, IdleJob DEF Init, TypeOK, Status, Sub
  <1>3. \A p \in Purchase : RowFacts(p)
    BY ConstantsAssumption DEF Init, RowFacts, IsGift
  <1>4. \A t \in Worker : JobFacts(t)
    BY <1>1 DEF JobFacts
  <1>5. Locks
    BY <1>1 DEF Locks, HoldsRow
  <1>6. \A p \in Purchase : OnceFacts(p)
    BY <1>1 DEF Init, OnceFacts, Active
  <1>7. Money
    <2>1. Bought = {}
      BY DEF Init, Bought
    <2> QED
      BY <2>1, FS_EmptySet, ConstantsAssumption DEF Init, Money
  <1> QED
    BY <1>2, <1>3, <1>4, <1>5, <1>6, <1>7 DEF IInv

LEMMA Inductive == IInv /\ [Next]_vars => IInv'
  <1> SUFFICES ASSUME IInv, [Next]_vars PROVE IInv'
    OBVIOUS
  <1>1. ASSUME NEW t \in Worker, Step(t) PROVE IInv'
    BY <1>1, CommitGrantStep, DeliveredStep, FlushStep, PanelAnswersStep, PanelFailsStep,
       MarkStep, RecoverStep, WalletBuyStep, RetryPaidStep, RetryHeldStep, RaisesStep
       DEF Step
  <1>2. ASSUME NEW t \in Task, NEW p \in Purchase, Request(t, p) PROVE IInv'
    BY <1>2, WebhookMismatchStep, WebhookGiftStep, WebhookFulfilStep, LandingActivateStep,
       ClaimStep, RegisterStep, WalletLookStep
       DEF Request
  <1>3. ASSUME NEW p \in Purchase,
               \/ Loop(p) \/ Order(p) \/ Age(p)
               \/ ProviderPaid(p, "right") \/ ProviderPaid(p, "wrong")
        PROVE  IInv'
    BY <1>3, RecoverPendingStep, PickStep, FailExhaustedStep, OrderStep, AgeStep,
       ProviderPaidStep
       DEF Loop
  <1>4. ASSUME NEW u \in User, BuyElsewhere(u) \/ Lapse(u) \/ MarkExpired(u) PROVE IInv'
    BY <1>4, TimeStep
  <1>5. CASE UNCHANGED vars
    <2>1. /\ sub' \in [User -> Sub]
          /\ UNCHANGED <<rows, money, calls, granted, doubt, task>>
      BY <1>5, Types DEF vars, given
    <2> QED
      BY <2>1, SubStep
  <1> QED
    BY <1>1, <1>2, <1>3, <1>4, <1>5, CrashStep DEF Next

LEMMA Invariance == Spec => []IInv
  BY Initially, Inductive, PTL DEF Spec

-----------------------------------------------------------------------------
(* A gift goes to one person; what is granted has been paid for; and it is *)
(* granted once, unless there is reason to doubt it.                       *)

\* Every field stays in its range; the balance is not overdrawn and the loop's
\* retries stay within their limit.
THEOREM TypeCorrect == Spec => []TypeOK
  <1>1. IInv => TypeOK
    BY DEF IInv
  <1> QED
    BY <1>1, Invariance, PTL

\* Whatever tasks, retries, claims and crashes do, a gift is granted to one
\* person at most, who is not the buyer.
THEOREM GiftHasOneRecipient == Spec => []OneRecipient
  <1>1. IInv => OneRecipient
    <2> SUFFICES ASSUME IInv, NEW p \in Purchase, IsGift(p)
                 PROVE  Cardinality(granted[p].to) <= 1 /\ Buyer \notin granted[p].to
      BY DEF OneRecipient
    <2>1. granted[p].to \subseteq {owner[p]} /\ owner[p] # Buyer
      BY DEF IInv, RowFacts
    <2>2. Cardinality({owner[p]}) = 1 /\ IsFiniteSet({owner[p]})
      BY FS_Singleton
    <2>3. Cardinality(granted[p].to) <= 1
      BY <2>1, <2>2, FS_Subset
    <2> QED
      BY <2>1, <2>3
  <1> QED
    BY <1>1, Invariance, PTL

\* No task grants what the provider was not paid the right amount for, and the
\* balance pays each idempotency key once.
THEOREM NothingIsFree == Spec => []GrantedIsPaidFor
  <1>1. IInv => GrantedIsPaidFor
    BY DEF IInv, RowFacts, Money, Bought, GrantedIsPaidFor
  <1> QED
    BY <1>1, Invariance, PTL

\* A delivered purchase was granted once, unless tasks overlapped on it, one
\* broke off after its commit, or the panel failed.
THEOREM GrantedOnce == Spec => []OnceUnlessDoubt
  <1>1. IInv => OnceUnlessDoubt
    <2> SUFFICES ASSUME IInv, NEW p \in Purchase \ doubt
                 PROVE  /\ granted[p].times <= 1
                        /\ status[p] = "delivered" => granted[p].times = 1
      BY DEF OnceUnlessDoubt
    <2>1. OnceFacts(p)
      BY DEF IInv
    <2>2. CASE \E t \in Worker : Active(t, p)
      BY <2>1, <2>2 DEF OnceFacts, Granting
    <2>3. CASE \A t \in Worker : ~Active(t, p)
      BY <2>1, <2>3 DEF OnceFacts
    <2> QED
      BY <2>2, <2>3
  <1> QED
    BY <1>1, Invariance, PTL

-----------------------------------------------------------------------------
(* The rows implement Delivery.                                            *)

PhaseOf(s) == IF s \in {"none", "pending"} THEN "due" ELSE s

LEMMA PhaseType ==
    ASSUME NEW q \in Purchase
    PROVE  Phase[q] = PhaseOf(status[q]) /\ Phase'[q] = PhaseOf(status'[q])
  BY DEF Phase, PhaseOf

\* A step that changes no row, to Delivery, is a stutter, ...
LEMMA Stutters ==
    ASSUME IInv, UNCHANGED owner,
           \A q \in Purchase : PhaseOf(status'[q]) = PhaseOf(status[q])
    PROVE  [Contract!Next]_(Contract!vars)
  <1>1. Phase' = Phase
    BY DEF Phase, PhaseOf
  <1> QED
    BY <1>1 DEF Contract!vars

\* ... and one that writes a row is a move of it.
LEMMA Moves ==
    ASSUME IInv, NEW p \in Purchase, NEW s \in {"paid", "held", "delivered", "failed"}, NEW u,
           SetStatus(p, s), Bind(p, u), NEW from, PhaseOf(status[p]) \in from
    PROVE  Contract!Move(p, from, s, u)
  <1>1. /\ status'[p] = s
        /\ \A q \in Purchase \ {p} : status'[q] = status[q]
    BY Types DEF SetStatus
  <1>2. Phase' = [Phase EXCEPT ![p] = s]
    BY <1>1 DEF Phase
  <1>3. Phase[p] \in from
    BY PhaseType
  <1> QED
    BY <1>2, <1>3 DEF Contract!Move, Bind

\* The owner that is there is kept by writing it again.
LEMMA BindsAgain ==
    ASSUME IInv, NEW p \in Purchase, UNCHANGED owner
    PROVE  Bind(p, owner[p])
  <1>1. owner = [owner EXCEPT ![p] = owner[p]]
    BY Types
  <1> QED
    BY <1>1 DEF Bind

\* Money is noticed: by a webhook, its recovery, the loop, the wallet.
LEMMA PaysOrStutters ==
    ASSUME IInv, NEW p \in Purchase, SetStatus(p, "paid"), UNCHANGED owner,
           status[p] \in {"none", "pending", "paid"}
    PROVE  [Contract!Next]_(Contract!vars)
  <1>1. CASE status[p] = "paid"
    <2>1. \A q \in Purchase : status'[q] = status[q]
      BY <1>1, Types DEF SetStatus
    <2> QED
      BY <2>1, Stutters
  <1>2. CASE status[p] \in {"none", "pending"}
    <2>1. owner[p] = NoUser
      BY <1>2 DEF IInv, RowFacts
    <2>2. Bind(p, NoUser)
      BY <2>1, BindsAgain
    <2>3. Contract!Pay(p)
      BY <1>2, <2>2, Moves DEF PhaseOf, Contract!Pay
    <2> QED
      BY <2>3 DEF Contract!Next
  <1> QED
    BY <1>1, <1>2

LEMMA FailsOrStutters ==
    ASSUME IInv, NEW p \in Purchase, SetStatus(p, "failed"), UNCHANGED owner,
           status[p] # "delivered"
    PROVE  [Contract!Next]_(Contract!vars)
  <1>1. CASE status[p] = "failed"
    <2>1. \A q \in Purchase : status'[q] = status[q]
      BY <1>1, Types DEF SetStatus
    <2> QED
      BY <2>1, Stutters
  <1>2. CASE status[p] # "failed"
    <2>1. PhaseOf(status[p]) \in {"due", "paid", "held"}
      BY <1>2, Types DEF PhaseOf, Status
    <2>2. Contract!GiveUp(p)
      BY <2>1, BindsAgain, Moves DEF Contract!GiveUp
    <2> QED
      BY <2>2 DEF Contract!Next
  <1> QED
    BY <1>1, <1>2

LEMMA Holds ==
    ASSUME IInv, NEW p \in Purchase, NEW u \in User, SetStatus(p, "held"), Bind(p, u),
           status[p] \in {"none", "pending", "paid", "held"}, owner[p] \in {NoUser, u}
    PROVE  [Contract!Next]_(Contract!vars)
  <1>1. CASE status[p] = "held"
    <2>1. owner[p] = u
      BY <1>1 DEF IInv, RowFacts
    <2>2. \A q \in Purchase : status'[q] = status[q]
      BY <1>1, Types DEF SetStatus
    <2>3. owner' = owner
      BY <2>1, Types DEF Bind
    <2> QED
      BY <2>2, <2>3, Stutters
  <1>2. CASE status[p] # "held"
    <2>1. PhaseOf(status[p]) \in {"due", "paid"}
      BY <1>2 DEF PhaseOf
    <2>2. Contract!Hold(p, u)
      BY <2>1, Moves DEF Contract!Hold, Contract!Keeps
    <2> QED
      BY <2>2 DEF Contract!Next
  <1> QED
    BY <1>1, <1>2

LEMMA Delivers ==
    ASSUME IInv, NEW p \in Purchase, NEW u \in User \cup {NoUser},
           SetStatus(p, "delivered"), Bind(p, u),
           status[p] \notin {"none", "pending"}, owner[p] \in {NoUser, u},
           status[p] = "delivered" => owner[p] = u
    PROVE  [Contract!Next]_(Contract!vars)
  <1>1. CASE status[p] = "delivered"
    <2>1. \A q \in Purchase : status'[q] = status[q]
      BY <1>1, Types DEF SetStatus
    <2>2. owner' = owner
      BY <1>1, Types DEF Bind
    <2> QED
      BY <2>1, <2>2, Stutters
  <1>2. CASE status[p] # "delivered"
    <2>1. PhaseOf(status[p]) \in {"paid", "held", "failed"}
      BY <1>2, Types DEF PhaseOf, Status
    <2>2. Contract!Deliver(p, u)
      BY <2>1, Moves DEF Contract!Deliver, Contract!Keeps
    <2> QED
      BY <2>2 DEF Contract!Next
  <1> QED
    BY <1>1, <1>2

LEMMA KeepsRows ==
    ASSUME IInv, UNCHANGED <<status, owner>>
    PROVE  [Contract!Next]_(Contract!vars)
  BY Stutters

\* A task with or without the lock of the row.
LEMMA FulfilMoves ==
    ASSUME IInv, NEW t \in Worker, NEW p \in Purchase, Fulfil(t, p),
           kind[p] = "direct", status[p] \in {"pending", "paid"}
    PROVE  [Contract!Next]_(Contract!vars)
  <1> DEFINE u == Recipient[p]
  <1>1. u \in User
    BY ConstantsAssumption
  <1>2. owner[p] \in {NoUser, u}
    BY DEF IInv, RowFacts
  <1>3. \/ UNCHANGED <<status, owner>>
        \/ SetStatus(p, "failed") /\ UNCHANGED owner
        \/ SetStatus(p, "held") /\ Bind(p, u)
        \/ SetStatus(p, "paid") /\ UNCHANGED owner
    BY DEF Fulfil, rows
  <1> HIDE DEF u
  <1> QED
    BY <1>1, <1>2, <1>3, KeepsRows, FailsOrStutters, Holds, PaysOrStutters

LEMMA ActivateMoves ==
    ASSUME IInv, NEW t, NEW p \in Purchase, NEW u \in User, Activate(t, p, u),
           status[p] \in {"paid", "held"}, owner[p] \in {NoUser, u}
    PROVE  [Contract!Next]_(Contract!vars)
  <1>1. \/ SetStatus(p, "held") /\ Bind(p, u)
        \/ UNCHANGED <<status, owner>>
    BY DEF Activate
  <1> QED
    BY <1>1, Holds, KeepsRows

LEMMA StepMoves ==
    ASSUME IInv, NEW t \in Worker, Step(t)
    PROVE  [Contract!Next]_(Contract!vars)
  <1>1. task[t].pc # "idle" => task[t].p \in Purchase
    BY Types, JobKinds
  <1>2. task[t].pc \in Pcs => task[t].u \in User
    BY Types, JobKinds
  <1>3. JobFacts(t)
    BY DEF IInv
  <1>4. CASE CommitGrant(t)
    <2>1. PICK p \in Purchase : task[t].p = p /\ task[t].pc = "grant"
      BY <1>1, <1>4 DEF CommitGrant
    <2>2. \/ SetStatus(p, "paid") /\ UNCHANGED owner /\ task[t].locked
          \/ UNCHANGED <<status, owner>>
      BY <1>4, <2>1 DEF CommitGrant
    <2>3. task[t].locked => status[p] \in {"pending", "paid"}
      BY <1>3, <2>1 DEF JobFacts
    <2> QED
      BY <2>2, <2>3, PaysOrStutters, KeepsRows
  <1>5. CASE Delivered(t)
    <2>1. PICK p \in Purchase, u \in User :
              task[t].p = p /\ task[t].u = u /\ task[t].pc = "push"
      BY <1>1, <1>2, <1>5 DEF Delivered, Pcs
    <2>2. SetStatus(p, "delivered") /\ Bind(p, u)
      BY <1>5, <2>1 DEF Delivered
    <2>3. kind[p] = "direct" /\ u = Recipient[p] /\ status[p] \notin {"none", "pending"}
      BY <1>3, <2>1 DEF JobFacts
    <2>4. owner[p] \in {NoUser, u} /\ (status[p] = "delivered" => owner[p] = u)
      BY <2>3 DEF IInv, RowFacts
    <2> QED
      BY <2>2, <2>3, <2>4, Delivers
  <1>6. CASE PanelAnswers(t)
    <2>1. PICK p \in Purchase, u \in User :
              task[t].p = p /\ task[t].u = u /\ task[t].pc = "panel"
      BY <1>1, <1>2, <1>6 DEF PanelAnswers, Pcs
    <2>2. \/ SetStatus(p, "held") /\ Bind(p, u) /\ task[t].locked
          \/ UNCHANGED <<status, owner>>
      BY <1>6, <2>1 DEF PanelAnswers
    <2>3. task[t].locked => status[p] \in {"paid", "held"} /\ owner[p] \in {NoUser, u}
      BY <1>3, <2>1 DEF JobFacts
    <2> QED
      BY <2>2, <2>3, Holds, KeepsRows
  <1>7. CASE Mark(t)
    <2>1. PICK p \in Purchase : task[t].p = p /\ task[t].pc = "mark"
      BY <1>1, <1>7 DEF Mark
    <2>2. SetStatus(p, "delivered") /\ Bind(p, owner[p])
      BY <1>7, <2>1, BindsAgain DEF Mark
    <2>3. status[p] \notin {"none", "pending"} /\ owner[p] \in User \cup {NoUser}
      BY <1>3, <2>1, Types DEF JobFacts
    <2> QED
      BY <2>2, <2>3, Delivers
  <1>8. CASE Recover(t)
    <2>1. PICK p \in Purchase : task[t].p = p /\ task[t].pc = "recover"
      BY <1>1, <1>8 DEF Recover
    <2>2. \/ SetStatus(p, "paid") /\ UNCHANGED owner /\ status[p] \in {"pending", "paid"}
          \/ UNCHANGED <<status, owner>>
      BY <1>8, <2>1 DEF Recover
    <2> QED
      BY <2>2, PaysOrStutters, KeepsRows
  <1>9. CASE WalletBuy(t)
    <2>1. PICK p \in Purchase : task[t].p = p /\ task[t].pc = "buy"
      BY <1>1, <1>9 DEF WalletBuy
    <2>2. \/ SetStatus(p, "paid") /\ UNCHANGED owner /\ status[p] = "none"
          \/ UNCHANGED <<status, owner>>
      BY <1>9, <2>1 DEF WalletBuy
    <2> QED
      BY <2>2, PaysOrStutters, KeepsRows
  <1>10. CASE t = Monitor /\ RetryPaid
    <2>1. PICK p \in Purchase : task[t].p = p /\ task[t].pc = "fulfil"
      BY <1>1, <1>10 DEF RetryPaid
    <2>2. kind[p] = "direct"
      BY <1>3, <2>1 DEF JobFacts
    <2>3. \/ Fulfil(t, p) /\ status[p] = "paid"
          \/ UNCHANGED <<status, owner>>
      BY <1>10, <2>1 DEF RetryPaid, rows
    <2> QED
      BY <2>2, <2>3, FulfilMoves, KeepsRows
  <1>11. CASE t = Monitor /\ RetryHeld
    <2>1. PICK p \in Purchase : task[t].p = p /\ task[t].pc = "activate"
      BY <1>1, <1>11 DEF RetryHeld
    <2>2. \/ Activate(t, p, owner[p]) /\ status[p] = "held" /\ owner[p] \in User
          \/ UNCHANGED <<status, owner>>
      BY <1>11, <2>1, Types DEF RetryHeld, rows
    <2> QED
      BY <2>2, ActivateMoves, KeepsRows
  <1>12. CASE Flush(t) \/ PanelFails(t) \/ Raises(t)
    BY <1>12, KeepsRows DEF Flush, PanelFails, Raises, rows
  <1> QED
    BY <1>4, <1>5, <1>6, <1>7, <1>8, <1>9, <1>10, <1>11, <1>12 DEF Step

LEMMA RequestMoves ==
    ASSUME IInv, NEW t \in Task, NEW p \in Purchase, Request(t, p)
    PROVE  [Contract!Next]_(Contract!vars)
  <1>1. RowFacts(p)
    BY DEF IInv
  <1>2. CASE WebhookMismatch(t, p)
    BY <1>1, <1>2, FailsOrStutters DEF WebhookMismatch, RowFacts
  <1>3. CASE WebhookGift(t, p)
    BY <1>3, PaysOrStutters DEF WebhookGift
  <1>4. CASE WebhookFulfil(t, p)
    <2>1. status[p] \in {"pending", "paid"}
      BY <1>1, <1>4, Types DEF RowFacts, WebhookFulfil, Settled, Status
    <2> QED
      BY <1>4, <2>1, FulfilMoves DEF WebhookFulfil, Worker
  <1>5. CASE LandingActivate(t, p)
    <2>1. owner[p] \in User
      BY <1>5, Types DEF LandingActivate
    <2> QED
      BY <1>5, <2>1, ActivateMoves DEF LandingActivate
  <1>6. ASSUME NEW u \in User, Claim(t, p, u) PROVE [Contract!Next]_(Contract!vars)
    BY <1>6, ActivateMoves DEF Claim
  <1>7. ASSUME NEW u \in User, RegisterWithGift(t, p, u)
        PROVE  [Contract!Next]_(Contract!vars)
    BY <1>7, Holds DEF RegisterWithGift
  <1>8. CASE WalletLook(t, p)
    BY <1>8, KeepsRows DEF WalletLook, rows
  <1> QED
    BY <1>2, <1>3, <1>4, <1>5, <1>6, <1>7, <1>8 DEF Request

LEMMA LoopMoves ==
    ASSUME IInv, NEW p \in Purchase, Loop(p)
    PROVE  [Contract!Next]_(Contract!vars)
  <1>1. CASE RecoverPending(p)
    BY <1>1, PaysOrStutters, FailsOrStutters DEF RecoverPending
  <1>2. CASE Pick(p)
    BY <1>2, KeepsRows DEF Pick
  <1>3. CASE FailExhausted(p)
    BY <1>3, FailsOrStutters DEF FailExhausted
  <1> QED
    BY <1>1, <1>2, <1>3 DEF Loop

LEMMA OrderMoves ==
    ASSUME IInv, NEW p \in Purchase, Order(p)
    PROVE  [Contract!Next]_(Contract!vars)
  <1>1. \A q \in Purchase : PhaseOf(status'[q]) = PhaseOf(status[q])
    BY Types DEF Order, SetStatus, PhaseOf
  <1> QED
    BY <1>1, Stutters DEF Order

\* Every step of a task, a request, the loop, the provider or a crash, with or
\* without the lock, is one that Delivery allows.
THEOREM DeliveryIsKept == Spec => ImplementsDelivery
  <1>1. Init => Contract!Init
    BY DEF Init, Contract!Init, Phase
  <1>2. IInv /\ [Next]_vars => [Contract!Next]_(Contract!vars)
    <2> SUFFICES ASSUME IInv, [Next]_vars PROVE [Contract!Next]_(Contract!vars)
      OBVIOUS
    <2>1. CASE UNCHANGED vars
      BY <2>1, KeepsRows DEF vars, rows
    <2>2. CASE Crash
      BY <2>2, KeepsRows DEF Crash, rows
    <2>3. ASSUME NEW p \in Purchase,
                 Age(p) \/ ProviderPaid(p, "right") \/ ProviderPaid(p, "wrong")
          PROVE  [Contract!Next]_(Contract!vars)
      BY <2>3, KeepsRows DEF Age, ProviderPaid, rows
    <2>4. ASSUME NEW u \in User, BuyElsewhere(u) \/ Lapse(u) \/ MarkExpired(u)
          PROVE  [Contract!Next]_(Contract!vars)
      BY <2>4, KeepsRows DEF BuyElsewhere, Lapse, MarkExpired, rows
    <2> QED
      BY <2>1, <2>2, <2>3, <2>4, StepMoves, RequestMoves, LoopMoves, OrderMoves DEF Next
  <1> QED
    BY <1>1, <1>2, Invariance, PTL DEF Spec, ImplementsDelivery, Contract!Spec

=============================================================================
