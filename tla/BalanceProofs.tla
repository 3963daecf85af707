---------------------------- MODULE BalanceProofs ----------------------------
(***************************************************************************)
(* What fills a user's balance and what spends it: proofs about TabPay and *)
(* about Wheel, which share no state here.                                 *)
(*                                                                         *)
(* TabPay, for any number of payments, users, webhook handlers and API     *)
(* checks: the payment row, the deposit and the balance move together, and *)
(* the integration keeps the promise of TopUpLedger.                       *)
(*                                                                         *)
(* Wheel, for every number of tasks, payments by Stars, spins and calls,   *)
(* and every limit and price: WheelInv and what follows from it; then      *)
(* ChargedForPrize, a count of tasks.                                      *)
(***************************************************************************)
EXTENDS TabPay, Wheel, FiniteSetTheorems, TLAPS

-----------------------------------------------------------------------------
(* The inductive invariant.                                                *)

\* A payment without a row has no history; only a sandbox payment is flagged
\* as one; every deposit is backed by money moved at the provider.
RowFacts ==
    /\ \A p \in Payment : prov[p] # "none" => prov[p] \in sent[p]
    /\ \A p \in Payment : row[p].status = "none" => row[p] = NoRow
    /\ \A p \in Payment : row[p].test => kind[p] = "test"
    /\ txns \subseteq Settled

\* What a worker remembers is justified: an event by its announcement, a
\* credit by a live payment whose locked row is not paid.
JobFacts(j) ==
    /\ j # Idle => row[j.p].status # "none"
    /\ j.pc \in {"lock", "fetched"} => j.ev \in sent[j.p]
    /\ j.pc \in {"loaded", "fetched"} => (j.test => kind[j.p] = "test")
    /\ j.pc = "credit" =>
          /\ kind[j.p] = "live"
          /\ "SUCCESS" \in sent[j.p]
          /\ j.was = row[j.p]
          /\ j.existing = (j.p \in txns)
          /\ ~j.was.paid
          /\ j.now.status = "success"
          /\ j.now.paid
          /\ j.now.linked = j.was.linked
          /\ j.now.test = j.was.test

Exclusive ==
    \A v, w \in Worker :
        v # w /\ job[v].pc = "credit" /\ job[w].pc = "credit"
            => job[v].p # job[w].p

IInv ==
    /\ TypeOK
    /\ PaidMeansDeposited
    /\ RowFacts
    /\ \A w \in Worker : JobFacts(job[w])
    /\ Exclusive

-----------------------------------------------------------------------------
(* Lemmas about the vocabulary.                                            *)

\* The stored status of an event is a status, and never "no row".
LEMMA StatusMapRange ==
    ASSUME NEW e \in Event
    PROVE  /\ StatusMap[e] \in Status
           /\ StatusMap[e] # "none"
    BY DEF Event, Status, StatusMap

\* The statuses the handlers write by name are statuses.
LEMMA NamedStatuses ==
    /\ {"success", "pending", "amount_mismatch"} \subseteq Status
    /\ "none" \notin Status
    /\ {"SUCCESS", "CREATED"} \subseteq Event
<1>1. "SUCCESS" \in Event /\ "CREATED" \in Event
    BY DEF Event, StatusMap
<1>2. StatusMap["SUCCESS"] = "success" /\ StatusMap["CREATED"] = "pending"
    BY DEF StatusMap
<1>3. "amount_mismatch" \in Status
    BY DEF Status, FinalStatus
<1>4. "none" \notin Status
    BY DEF Status, FinalStatus, StatusMap, Event
<1> QED BY <1>1, <1>2, <1>3, <1>4, StatusMapRange

\* The pc of a job tells its shape.
LEMMA JobShape ==
    ASSUME NEW j \in Job
    PROVE  /\ j # Idle => j.p \in Payment
           /\ j.pc = "idle" => j = Idle
           /\ j = Idle => j.pc = "idle"
           /\ j.pc \in {"lock", "fetched"} => j.ev \in Event
           /\ j.pc \in {"loaded", "fetched"} =>
                 j.status \in Status /\ j.test \in BOOLEAN
           /\ j.pc = "credit" => /\ j.was \in Row /\ j.now \in Row
                                 /\ j.existing \in BOOLEAN
    BY DEF Job, Idle

-----------------------------------------------------------------------------
(* Steps of the same kind preserve the invariant for the same reason.      *)

\* A step that changes only what one worker remembers, when that is not a
\* credit.
LEMMA JobStep ==
    ASSUME IInv, NEW w \in Worker, NEW j \in Job,
           Become(w, j), UNCHANGED <<world, db>>,
           JobFacts(j), j.pc # "credit"
    PROVE  IInv'
    BY DEF IInv, TypeOK, PaidMeansDeposited, RowFacts, JobFacts, Exclusive,
           Become, world, db, Settled

\* A step that ends a worker and stores a row under the row lock, leaving
\* what concerns the deposit alone.
LEMMA RowStep ==
    ASSUME IInv, NEW w \in Worker, NEW p \in Payment, NEW r \in Row,
           Store(p, r), Become(w, Idle), UNCHANGED <<world, txns, balance>>,
           \A v \in Worker \ {w} : job[v].pc = "credit" => job[v].p # p,
           r.status # "none", row[p].status # "none",
           r.paid = row[p].paid, r.linked = row[p].linked,
           r.test => kind[p] = "test"
    PROVE  IInv'
<1>1. TypeOK'
    BY DEF IInv, TypeOK, Store, Become, world, Job
<1>2. PaidMeansDeposited'
    BY DEF IInv, TypeOK, PaidMeansDeposited, Store
<1>3. RowFacts'
    BY DEF IInv, TypeOK, RowFacts, Settled, Store, world
<1>4. ASSUME NEW v \in Worker PROVE JobFacts(job[v])'
    <2>1. CASE v = w
        BY <2>1 DEF IInv, TypeOK, Become, JobFacts, Idle
    <2>2. CASE v # w
        <3>1. job'[v] = job[v] /\ JobFacts(job[v]) /\ job[v] \in Job
            BY <2>2 DEF IInv, TypeOK, Become
        <3>2. job[v] # Idle => job[v].p \in Payment
            BY <3>1, JobShape
        <3>3. job[v].pc = "credit" => row'[job[v].p] = row[job[v].p]
            BY <2>2, <3>1, <3>2, JobShape DEF IInv, TypeOK, Store, Idle
        <3>4. job[v] # Idle => row'[job[v].p].status # "none"
            BY <3>1, <3>2 DEF IInv, TypeOK, Store, JobFacts
        <3> QED BY <3>1, <3>3, <3>4 DEF JobFacts, world
    <2> QED BY <2>1, <2>2
<1>5. Exclusive'
    BY DEF IInv, TypeOK, Exclusive, Become, Idle
<1> QED BY <1>1, <1>2, <1>3, <1>4, <1>5 DEF IInv

\* A worker that holds the row lock of an unpaid live payment starts to credit.
LEMMA CreditStep ==
    ASSUME IInv, NEW w \in Worker, NEW p \in Payment, NEW r \in Row,
           BeginCredit(w, p, r), UNCHANGED <<world, db>>, LockFree(p),
           kind[p] = "live", "SUCCESS" \in sent[p],
           row[p].status # "none", ~row[p].paid,
           r.status = "success", r.paid,
           r.linked = row[p].linked, r.test = row[p].test
    PROVE  IInv'
<1> DEFINE j == [pc |-> "credit", p |-> p, was |-> row[p], now |-> r,
                 existing |-> p \in txns, seen |-> balance[Owner[p]]]
<1>1. job' = [job EXCEPT ![w] = j]
    BY DEF BeginCredit, Become
<1>2. j \in Job
    BY ConstantsAssumption DEF IInv, TypeOK, Job
<1>3. TypeOK'
    BY <1>1, <1>2 DEF IInv, TypeOK, world, db
<1>4. PaidMeansDeposited' /\ RowFacts'
    BY DEF IInv, PaidMeansDeposited, RowFacts, Settled, world, db
<1>5. ASSUME NEW v \in Worker PROVE JobFacts(job[v])'
    <2>1. CASE v = w
        <3>1. job'[v] = j
            BY <1>1, <2>1 DEF IInv, TypeOK
        <3>2. j' = j /\ JobFacts(j)'
            BY DEF JobFacts, world, db
        <3> HIDE DEF j
        <3> QED BY <3>1, <3>2 DEF JobFacts
    <2>2. CASE v # w
        BY <1>1, <2>2 DEF IInv, TypeOK, JobFacts, world, db
    <2> QED BY <2>1, <2>2
<1>6. Exclusive'
    BY <1>1 DEF IInv, TypeOK, Exclusive, LockFree
<1> QED BY <1>3, <1>4, <1>5, <1>6 DEF IInv

-----------------------------------------------------------------------------
(* The invariance proof: one step per action.                              *)

LEMMA InitInv == Init => IInv
<1> SUFFICES ASSUME Init PROVE IInv
    OBVIOUS
<1>1. NoRow \in Row
    BY NamedStatuses DEF NoRow, Row
<1>2. TypeOK
    BY <1>1, ConstantsAssumption DEF Init, TypeOK, Job
<1>3. PaidMeansDeposited /\ RowFacts /\ Exclusive
    BY DEF Init, PaidMeansDeposited, RowFacts, Exclusive, NoRow, Settled, Idle
<1>4. \A w \in Worker : JobFacts(job[w])
    BY DEF Init, JobFacts, Idle
<1> QED BY <1>2, <1>3, <1>4 DEF IInv

\* What a handler that holds the row lock stores, and what it may rely on.
LEMMA HookRow ==
    ASSUME IInv, NEW h \in Hook, Locked(h)
    PROVE  /\ h \in Worker
           /\ job[h] \in Job
           /\ job[h].p \in Payment
           /\ job[h].ev \in Event
           /\ job[h].ev \in sent[job[h].p]
           /\ row[job[h].p] \in Row
           /\ row[job[h].p].status # "none"
           /\ Remember(row[job[h].p], job[h].ev) \in Row
           /\ Remember(row[job[h].p], "SUCCESS") \in Row
           /\ \A v \in Worker \ {h} : job[v].pc = "credit" => job[v].p # job[h].p
<1>1. h \in Worker /\ job[h] \in Job /\ job[h].pc = "lock" /\ job[h] # Idle
    BY DEF IInv, TypeOK, Locked, Worker, Idle
<1>2. job[h].p \in Payment /\ job[h].ev \in Event
    BY <1>1, JobShape
<1>3. job[h].ev \in sent[job[h].p] /\ row[job[h].p].status # "none"
    BY <1>1 DEF IInv, JobFacts
<1>4. row[job[h].p] \in Row
    BY <1>2 DEF IInv, TypeOK
<1>5. /\ Remember(row[job[h].p], job[h].ev) \in Row
      /\ Remember(row[job[h].p], "SUCCESS") \in Row
    BY <1>2, <1>4, NamedStatuses DEF Remember, Row
<1>6. \A v \in Worker \ {h} : job[v].pc = "credit" => job[v].p # job[h].p
    BY DEF Locked, LockFree
<1> QED BY <1>1, <1>2, <1>3, <1>4, <1>5, <1>6

\* Only the steps of a handler.
LEMMA HookInv ==
    ASSUME IInv, NEW h \in Hook, HookStep(h)
    PROVE  IInv'
<1>1. ASSUME NEW p \in Payment, NEW e \in Event, Deliver(h, p, e)
      PROVE  IInv'
    <2> DEFINE j == [pc |-> "lock", p |-> p, ev |-> e]
    <2>1. h \in Worker /\ j \in Job /\ j.pc # "credit"
        BY DEF Worker, Job
    <2>2. JobFacts(j)
        BY <1>1 DEF Deliver, JobFacts, Idle
    <2>3. Become(h, j) /\ UNCHANGED <<world, db>>
        BY <1>1 DEF Deliver
    <2> HIDE DEF j
    <2> QED BY <2>1, <2>2, <2>3, JobStep
<1>2. CASE HookDuplicate(h)
    <2>1. Idle \in Job /\ JobFacts(Idle) /\ Idle.pc # "credit"
        BY DEF Job, JobFacts, Idle
    <2> QED BY <1>2, <2>1, JobStep DEF HookDuplicate, Worker
<1>3. CASE HookIgnoreFinal(h)
    <2> DEFINE p == job[h].p
               r == Remember(row[p], job[h].ev)
    <2>1. Locked(h)
        BY <1>3 DEF HookIgnoreFinal
    <2>2. /\ r.status = row[p].status /\ r.paid = row[p].paid
          /\ r.linked = row[p].linked /\ r.test = row[p].test
        BY <2>1, HookRow DEF Remember, Row
    <2>3. row[p].test => kind[p] = "test"
        BY <2>1, HookRow DEF IInv, RowFacts
    <2>4. Store(p, r) /\ Become(h, Idle) /\ UNCHANGED <<world, txns, balance>>
        BY <1>3 DEF HookIgnoreFinal
    <2> HIDE DEF r
    <2> QED BY <2>1, <2>2, <2>3, <2>4, HookRow, RowStep DEF r
<1>4. CASE HookSandbox(h)
    <2> DEFINE p == job[h].p
               r == [Remember(row[p], job[h].ev) EXCEPT
                        !.test = TRUE, !.status = StatusMap[job[h].ev]]
    <2>1. Locked(h)
        BY <1>4 DEF HookSandbox, Accepted
    <2>2. r \in Row /\ r.status # "none"
        BY <2>1, HookRow, StatusMapRange DEF Row
    <2>3. r.paid = row[p].paid /\ r.linked = row[p].linked
        BY <2>1, HookRow DEF Remember, Row
    <2>4. kind[p] = "test"
        BY <1>4, <2>1, HookRow DEF HookSandbox, IInv, RowFacts
    <2>5. Store(p, r) /\ Become(h, Idle) /\ UNCHANGED <<world, txns, balance>>
        BY <1>4 DEF HookSandbox
    <2> HIDE DEF r
    <2> QED BY <2>1, <2>2, <2>3, <2>4, <2>5, HookRow, RowStep
<1>5. CASE HookStatus(h)
    <2> DEFINE p == job[h].p
               r == [Remember(row[p], job[h].ev) EXCEPT
                        !.status = StatusMap[job[h].ev]]
    <2>1. Locked(h)
        BY <1>5 DEF HookStatus, Accepted
    <2>2. r \in Row /\ r.status # "none"
        BY <2>1, HookRow, StatusMapRange DEF Row
    <2>3. /\ r.paid = row[p].paid /\ r.linked = row[p].linked
          /\ r.test => kind[p] = "test"
        BY <2>1, HookRow DEF Remember, Row, IInv, RowFacts
    <2>4. Store(p, r) /\ Become(h, Idle) /\ UNCHANGED <<world, txns, balance>>
        BY <1>5 DEF HookStatus
    <2> HIDE DEF r
    <2> QED BY <2>1, <2>2, <2>3, <2>4, HookRow, RowStep
<1>6. CASE HookMismatch(h)
    <2> DEFINE p == job[h].p
               r == [Remember(row[p], "SUCCESS") EXCEPT
                        !.status = "amount_mismatch", !.paid = FALSE]
    <2>1. Locked(h) /\ kind[p] = "short"
        BY <1>6 DEF HookMismatch, Success, Accepted
    <2>2. r \in Row /\ r.status # "none"
        BY <2>1, HookRow, NamedStatuses DEF Row
    <2>3. ~row[p].paid
        BY <2>1, HookRow DEF IInv, RowFacts, Settled, PaidMeansDeposited
    <2>4. /\ r.paid = row[p].paid /\ r.linked = row[p].linked
          /\ r.test => kind[p] = "test"
        BY <2>1, <2>3, HookRow DEF Remember, Row, IInv, RowFacts
    <2>5. Store(p, r) /\ Become(h, Idle) /\ UNCHANGED <<world, txns, balance>>
        BY <1>6 DEF HookMismatch
    <2> HIDE DEF r
    <2> QED BY <2>1, <2>2, <2>4, <2>5, HookRow, RowStep
<1>7. CASE HookAlreadyPaid(h)
    <2> DEFINE p == job[h].p
               r == Remember(row[p], "SUCCESS")
    <2>1. Locked(h)
        BY <1>7 DEF HookAlreadyPaid, Success, Accepted
    <2>2. /\ r.status = row[p].status /\ r.paid = row[p].paid
          /\ r.linked = row[p].linked /\ r.test = row[p].test
        BY <2>1, HookRow DEF Remember, Row
    <2>3. row[p].test => kind[p] = "test"
        BY <2>1, HookRow DEF IInv, RowFacts
    <2>4. Store(p, r) /\ Become(h, Idle) /\ UNCHANGED <<world, txns, balance>>
        BY <1>7 DEF HookAlreadyPaid
    <2> HIDE DEF r
    <2> QED BY <2>1, <2>2, <2>3, <2>4, HookRow, RowStep DEF r
<1>8. CASE HookSuccess(h)
    <2> DEFINE p == job[h].p
               r == MarkPaid(Remember(row[p], "SUCCESS"))
    <2>1. /\ Locked(h) /\ job[h].ev = "SUCCESS"
          /\ kind[p] \notin {"test", "short"} /\ ~row[p].paid
        BY <1>8 DEF HookSuccess, Success, Accepted
    <2>2. r \in Row
        BY <2>1, HookRow, NamedStatuses DEF Row, MarkPaid
    <2>3. /\ r.status = "success" /\ r.paid
          /\ r.linked = row[p].linked /\ r.test = row[p].test
        BY <2>1, HookRow DEF Remember, MarkPaid, Row
    <2>4. kind[p] = "live" /\ "SUCCESS" \in sent[p] /\ LockFree(p)
        BY <2>1, HookRow DEF IInv, TypeOK, Kind, Locked
    <2>5. BeginCredit(h, p, r) /\ UNCHANGED <<world, db>>
        BY <1>8 DEF HookSuccess
    <2> HIDE DEF r
    <2> QED BY <2>1, <2>2, <2>3, <2>4, <2>5, HookRow, CreditStep
<1> QED BY <1>1, <1>2, <1>3, <1>4, <1>5, <1>6, <1>7, <1>8 DEF HookStep

\* Only the steps of an API check.
LEMMA CheckInv ==
    ASSUME IInv, NEW c \in Checker, CheckStep(c)
    PROVE  IInv'
<1> DEFINE p == job[c].p
<1>1. c \in Worker /\ job[c] \in Job
    BY DEF IInv, TypeOK, Worker
<1>2. ASSUME job[c].pc \in {"loaded", "fetched"}
      PROVE  /\ p \in Payment /\ row[p] \in Row /\ row[p].status # "none"
             /\ job[c].status \in Status /\ job[c].test \in BOOLEAN
             /\ row[p].test => kind[p] = "test"
    <2>1. job[c] # Idle
        BY <1>2 DEF Idle
    <2>2. p \in Payment
        BY <1>1, <2>1, JobShape
    <2> QED BY <1>1, <1>2, <2>1, <2>2, JobShape DEF IInv, TypeOK, JobFacts, RowFacts
<1>3. ASSUME job[c].pc = "fetched"
      PROVE  job[c].ev \in Event /\ job[c].ev \in sent[p]
    BY <1>1, <1>3, JobShape DEF IInv, JobFacts
<1>4. ASSUME NEW q \in Payment, CheckLoad(c, q)
      PROVE  IInv'
    <2> DEFINE j == [pc |-> "loaded", p |-> q, status |-> row[q].status,
                     test |-> row[q].test]
    <2>1. row[q] \in Row /\ row[q].status \in PendingStatus
        BY <1>4 DEF CheckLoad, IInv, TypeOK
    <2>2. row[q].status # "none"
        BY <2>1 DEF PendingStatus
    <2>3. j \in Job /\ j.pc # "credit"
        BY <2>1, <2>2 DEF Job, Row
    <2>4. JobFacts(j)
        BY <2>2 DEF JobFacts, IInv, RowFacts
    <2>5. Become(c, j) /\ UNCHANGED <<world, db>>
        BY <1>4 DEF CheckLoad
    <2> HIDE DEF j
    <2> QED BY <1>1, <2>3, <2>4, <2>5, JobStep
<1>5. CASE CheckFetch(c)
    <2> DEFINE j == [pc |-> "fetched", p |-> p, status |-> job[c].status,
                     test |-> job[c].test, ev |-> prov[p]]
    <2>1. job[c].pc \in {"loaded", "fetched"} /\ prov[p] # "none"
        BY <1>5 DEF CheckFetch
    <2>2. prov[p] \in Event /\ prov[p] \in sent[p]
        BY <1>2, <2>1 DEF IInv, TypeOK, RowFacts
    <2>3. j \in Job /\ j.pc # "credit"
        BY <1>2, <2>1, <2>2 DEF Job
    <2>4. JobFacts(j)
        BY <1>1, <1>2, <2>1, <2>2 DEF JobFacts, IInv
    <2>5. Become(c, j) /\ UNCHANGED <<world, db>>
        BY <1>5 DEF CheckFetch
    <2> HIDE DEF j
    <2> QED BY <1>1, <2>3, <2>4, <2>5, JobStep
<1>6. Idle \in Job /\ JobFacts(Idle) /\ Idle.pc # "credit"
    BY DEF Job, JobFacts, Idle
<1>7. CASE CheckSync(c)
    <2> DEFINE r == [row[p] EXCEPT !.status = StatusMap[job[c].ev]]
    <2>1. job[c].pc = "fetched"
        BY <1>7 DEF CheckSync
    <2>2. Become(c, Idle) /\ UNCHANGED <<world, txns, balance>>
        BY <1>7 DEF CheckSync
    <2>3. CASE UNCHANGED row
        <3>1. UNCHANGED <<world, db>>
            BY <2>2, <2>3 DEF db
        <3> QED BY <1>1, <1>6, <2>2, <3>1, JobStep
    <2>4. CASE LockFree(p) /\ Store(p, r)
        <3>1. r \in Row /\ r.status # "none"
            BY <1>2, <1>3, <2>1, StatusMapRange DEF Row
        <3>2. /\ r.paid = row[p].paid /\ r.linked = row[p].linked
              /\ r.test => kind[p] = "test"
            BY <1>2, <2>1 DEF Row
        <3>3. \A v \in Worker \ {c} : job[v].pc = "credit" => job[v].p # p
            BY <2>4 DEF LockFree
        <3> HIDE DEF r
        <3> QED BY <1>1, <1>2, <2>1, <2>2, <2>4, <3>1, <3>2, <3>3, RowStep
    <2> QED BY <1>7, <2>3, <2>4 DEF CheckSync
<1>8. CASE CheckSandbox(c)
    <2> DEFINE r == [row[p] EXCEPT !.status = "success", !.test = TRUE]
    <2>1. job[c].pc = "fetched" /\ LockFree(p)
        BY <1>8 DEF CheckSandbox
    <2>2. kind[p] = "test"
        BY <1>1, <1>8 DEF CheckSandbox, IInv, JobFacts
    <2>3. r \in Row /\ r.status # "none"
        BY <1>2, <2>1, NamedStatuses DEF Row
    <2>4. r.paid = row[p].paid /\ r.linked = row[p].linked
        BY <1>2, <2>1 DEF Row
    <2>5. \A v \in Worker \ {c} : job[v].pc = "credit" => job[v].p # p
        BY <2>1 DEF LockFree
    <2>6. Store(p, r) /\ Become(c, Idle) /\ UNCHANGED <<world, txns, balance>>
        BY <1>8 DEF CheckSandbox
    <2> HIDE DEF r
    <2> QED BY <1>1, <1>2, <2>1, <2>2, <2>3, <2>4, <2>5, <2>6, RowStep
<1>9. CASE CheckMismatch(c)
    <2> DEFINE r == [row[p] EXCEPT !.status = "amount_mismatch"]
    <2>1. job[c].pc = "fetched" /\ LockFree(p)
        BY <1>9 DEF CheckMismatch
    <2>2. r \in Row /\ r.status # "none"
        BY <1>2, <2>1, NamedStatuses DEF Row
    <2>3. /\ r.paid = row[p].paid /\ r.linked = row[p].linked
          /\ r.test => kind[p] = "test"
        BY <1>2, <2>1 DEF Row
    <2>4. \A v \in Worker \ {c} : job[v].pc = "credit" => job[v].p # p
        BY <2>1 DEF LockFree
    <2>5. Store(p, r) /\ Become(c, Idle) /\ UNCHANGED <<world, txns, balance>>
        BY <1>9 DEF CheckMismatch
    <2> HIDE DEF r
    <2> QED BY <1>1, <1>2, <2>1, <2>2, <2>3, <2>4, <2>5, RowStep
<1>10. CASE CheckAlreadyPaid(c)
    BY <1>1, <1>6, <1>10, JobStep DEF CheckAlreadyPaid
<1>11. CASE CheckSuccess(c)
    <2>1. /\ job[c].pc = "fetched" /\ LockFree(p) /\ job[c].ev = "SUCCESS"
          /\ kind[p] \notin {"test", "short"} /\ ~row[p].paid
          /\ UNCHANGED <<world, db>>
        BY <1>11 DEF CheckSuccess, CheckLocked
    <2>2. PICK known \in BOOLEAN :
             BeginCredit(c, p, MarkPaid(IF known THEN Remember(row[p], "SUCCESS")
                                                 ELSE row[p]))
        BY <1>11 DEF CheckSuccess
    <2> DEFINE r == MarkPaid(IF known THEN Remember(row[p], "SUCCESS")
                                      ELSE row[p])
    <2>3. r \in Row
        BY <1>2, <2>1, NamedStatuses DEF Row, MarkPaid, Remember
    <2>4. /\ r.status = "success" /\ r.paid
          /\ r.linked = row[p].linked /\ r.test = row[p].test
        BY <1>2, <2>1 DEF Remember, MarkPaid, Row
    <2>5. kind[p] = "live" /\ "SUCCESS" \in sent[p]
        BY <1>2, <1>3, <2>1 DEF IInv, TypeOK, Kind
    <2>6. BeginCredit(c, p, r)
        BY <2>2
    <2> HIDE DEF r
    <2> QED BY <1>1, <1>2, <2>1, <2>3, <2>4, <2>5, <2>6, CreditStep
<1> QED BY <1>4, <1>5, <1>7, <1>8, <1>9, <1>10, <1>11 DEF CheckStep

\* The commit that credits: the locked row was unpaid, so the payment has no
\* deposit yet, and row, deposit and balance change together.
LEMMA FinalizeEffect ==
    ASSUME IInv, NEW w \in Worker, FinalizeCommit(w)
    PROVE  /\ job[w].p \in Settled \ txns
           /\ job[w].p \in Payment
           /\ row' = [row EXCEPT ![job[w].p] = [job[w].now EXCEPT !.linked = TRUE]]
           /\ txns' = txns \cup {job[w].p}
           /\ balance' = [balance EXCEPT ![Owner[job[w].p]] = @ + Amount[job[w].p]]
           /\ job' = [job EXCEPT ![w] = [pc |-> "after", p |-> job[w].p]]
           /\ UNCHANGED world
<1> DEFINE j == job[w]
           p == job[w].p
<1>1. j \in Job /\ j.pc = "credit" /\ j # Idle /\ JobFacts(j)
    BY DEF IInv, TypeOK, FinalizeCommit, Idle
<1>2. p \in Payment /\ j.now \in Row /\ j.was \in Row
    BY <1>1, JobShape
<1>3. p \in Settled \ txns
    BY <1>1, <1>2 DEF JobFacts, IInv, PaidMeansDeposited, Settled
<1>4. ~j.existing /\ ~j.was.linked /\ ~j.now.test
    BY <1>1, <1>2, <1>3 DEF JobFacts, IInv, PaidMeansDeposited, RowFacts
<1>5. Credits(j)
    BY <1>4 DEF Credits
<1>6. Owner[p] \in User
    BY <1>2, ConstantsAssumption
<1>7. /\ row' = [row EXCEPT ![p] = [j.now EXCEPT !.linked = TRUE]]
      /\ txns' = txns \cup {p}
      /\ job' = [job EXCEPT ![w] = [pc |-> "after", p |-> p]]
      /\ UNCHANGED world
    BY <1>2, <1>4, <1>5 DEF FinalizeCommit, Store, Become, Row
<1>8. balance' = [balance EXCEPT ![Owner[p]] = @ + Amount[p]]
    BY <1>5, <1>6 DEF FinalizeCommit, LockedBalance, IInv, TypeOK
<1> QED BY <1>2, <1>3, <1>7, <1>8

LEMMA FinalizeInv ==
    ASSUME IInv, NEW w \in Worker, FinalizeCommit(w)
    PROVE  IInv'
<1> DEFINE p == job[w].p
           r == [job[w].now EXCEPT !.linked = TRUE]
           after == [pc |-> "after", p |-> p]
<1>1. /\ p \in Payment /\ p \in Settled
      /\ row' = [row EXCEPT ![p] = r]
      /\ txns' = txns \cup {p}
      /\ balance' = [balance EXCEPT ![Owner[p]] = @ + Amount[p]]
      /\ job' = [job EXCEPT ![w] = after]
      /\ UNCHANGED world
    BY FinalizeEffect
<1>2. job[w] \in Job /\ job[w].pc = "credit" /\ JobFacts(job[w])
    BY DEF IInv, TypeOK, FinalizeCommit
<1>3. r \in Row /\ r.paid /\ r.linked /\ r.status = "success" /\ ~r.test
    <2>1. job[w].now \in Row
        BY <1>2, JobShape
    <2>2. job[w].now.paid /\ job[w].now.status = "success"
        BY <1>2 DEF JobFacts
    <2>3. ~job[w].now.test
        BY <1>1, <1>2 DEF JobFacts, IInv, RowFacts
    <2> QED BY <2>1, <2>2, <2>3 DEF Row
<1>4. after \in Job /\ after # Idle /\ after.pc = "after" /\ after.p = p
    BY <1>1 DEF Job, Idle
<1> HIDE DEF r, after
<1>5. TypeOK'
    <2>1. Amount[p] \in Nat /\ Owner[p] \in User
        BY <1>1, ConstantsAssumption
    <2>2. balance' \in [User -> Nat]
        BY <1>1, <2>1 DEF IInv, TypeOK
    <2> QED BY <1>1, <1>3, <1>4, <2>2 DEF IInv, TypeOK, world
<1>6. PaidMeansDeposited'
    BY <1>1, <1>3 DEF IInv, TypeOK, PaidMeansDeposited
<1>7. RowFacts'
    BY <1>1, <1>3 DEF IInv, TypeOK, RowFacts, Settled, world
<1>8. ASSUME NEW v \in Worker PROVE JobFacts(job[v])'
    <2>1. CASE v = w
        BY <1>1, <1>3, <1>4, <2>1 DEF IInv, TypeOK, JobFacts
    <2>2. CASE v # w
        <3>1. job'[v] = job[v] /\ JobFacts(job[v]) /\ job[v] \in Job
            BY <1>1, <2>2 DEF IInv, TypeOK
        <3>2. job[v] # Idle => job[v].p \in Payment
            BY <3>1, JobShape
        <3>3. job[v].pc = "credit" => job[v].p # p /\ job[v] # Idle
            BY <1>2, <2>2 DEF IInv, Exclusive, Idle
        <3>4. job[v] # Idle => row'[job[v].p].status # "none"
            BY <1>1, <1>3, <3>1, <3>2 DEF IInv, TypeOK, JobFacts
        <3>5. job[v].pc = "credit" =>
                 /\ row'[job[v].p] = row[job[v].p]
                 /\ job[v].p \in txns' <=> job[v].p \in txns
            BY <1>1, <3>2, <3>3 DEF IInv, TypeOK
        <3> QED BY <1>1, <3>1, <3>4, <3>5 DEF JobFacts, world
    <2> QED BY <2>1, <2>2
<1>9. Exclusive'
    BY <1>1, <1>4 DEF IInv, TypeOK, Exclusive
<1> QED BY <1>5, <1>6, <1>7, <1>8, <1>9 DEF IInv

LEMMA NextInv == IInv /\ [Next]_vars => IInv'
<1> SUFFICES ASSUME IInv, [Next]_vars PROVE IInv'
    OBVIOUS
<1>1. ASSUME NEW p \in Payment, ProviderStep(p) PROVE IInv'
    <2>1. PICK s \in Moves[prov[p]] :
             /\ prov' = [prov EXCEPT ![p] = s]
             /\ sent' = [sent EXCEPT ![p] = @ \cup {s}]
        BY <1>1 DEF ProviderStep
    <2>2. UNCHANGED <<kind, db, recent, job>>
        BY <1>1 DEF ProviderStep
    <2>3. s \in Event
        <3>1. prov[p] \in Event \cup {"none"}
            BY DEF IInv, TypeOK
        <3> QED BY <2>1, <3>1 DEF Moves, Event, StatusMap
    <2>4. TypeOK' /\ PaidMeansDeposited' /\ Exclusive'
        BY <2>1, <2>2, <2>3 DEF IInv, TypeOK, PaidMeansDeposited, Exclusive, db
    <2>5. RowFacts'
        BY <2>1, <2>2 DEF IInv, TypeOK, RowFacts, Settled, db
    <2>6. ASSUME NEW v \in Worker PROVE JobFacts(job[v])'
        <3>1. job[v] \in Job /\ JobFacts(job[v])
            BY DEF IInv, TypeOK
        <3>2. job[v] # Idle => job[v].p \in Payment
            BY <3>1, JobShape
        <3>3. job[v] # Idle => sent[job[v].p] \subseteq sent'[job[v].p]
            BY <2>1, <3>2 DEF IInv, TypeOK
        <3>4. job[v].pc # "idle" => job[v] # Idle
            BY <3>1, JobShape
        <3> QED BY <2>2, <3>1, <3>3, <3>4 DEF JobFacts, db
    <2> QED BY <2>4, <2>5, <2>6 DEF IInv
<1>2. ASSUME NEW p \in Payment, InsertRow(p) PROVE IInv'
    <2>1. PICK test \in BOOLEAN :
             /\ test => kind[p] = "test"
             /\ row' = [row EXCEPT ![p] = [NoRow EXCEPT !.status = "pending",
                                                        !.test = test]]
        BY <1>2 DEF InsertRow
    <2> DEFINE r == [NoRow EXCEPT !.status = "pending", !.test = test]
    <2>2. row[p] = NoRow /\ row[p].status = "none"
        BY <1>2 DEF InsertRow, IInv, RowFacts
    <2>3. /\ r \in Row /\ r.status # "none" /\ ~r.paid /\ ~r.linked
          /\ r.test => kind[p] = "test"
        BY <2>1, NamedStatuses DEF NoRow, Row
    <2>4. ~row[p].paid /\ ~row[p].linked
        BY <2>2 DEF NoRow
    <2>5. UNCHANGED <<world, txns, balance, job>> /\ row' = [row EXCEPT ![p] = r]
        BY <1>2, <2>1 DEF InsertRow
    <2> HIDE DEF r
    <2>6. TypeOK' /\ PaidMeansDeposited' /\ RowFacts' /\ Exclusive'
        BY <2>3, <2>4, <2>5 DEF IInv, TypeOK, PaidMeansDeposited, RowFacts,
            Settled, Exclusive, world
    <2>7. ASSUME NEW v \in Worker PROVE JobFacts(job[v])'
        <3>1. job[v] \in Job /\ JobFacts(job[v])
            BY DEF IInv, TypeOK
        <3>2. job[v] # Idle => job[v].p \in Payment /\ job[v].p # p
            BY <2>2, <3>1, JobShape DEF JobFacts
        <3>3. job[v] # Idle => row'[job[v].p] = row[job[v].p]
            BY <2>5, <3>2 DEF IInv, TypeOK
        <3>4. job[v].pc # "idle" => job[v] # Idle
            BY <3>1, JobShape
        <3> QED BY <2>5, <3>1, <3>3, <3>4 DEF JobFacts, world
    <2> QED BY <2>6, <2>7 DEF IInv
<1>3. ASSUME NEW p \in Payment, GrowOld(p) PROVE IInv'
    BY <1>3 DEF GrowOld, IInv, TypeOK, PaidMeansDeposited, RowFacts, Settled,
        JobFacts, Exclusive, db
<1>4. ASSUME NEW w \in Worker, StampCredited(w) PROVE IInv'
    <2> DEFINE p == job[w].p
               r == [row[p] EXCEPT !.credited = TRUE]
    <2>1. job[w] \in Job /\ job[w] # Idle /\ LockFree(p)
        BY <1>4 DEF StampCredited, IInv, TypeOK, Idle
    <2>2. p \in Payment /\ row[p] \in Row /\ row[p].status # "none"
        BY <2>1, JobShape DEF IInv, TypeOK, JobFacts
    <2>3. /\ r \in Row /\ r.status # "none"
          /\ r.paid = row[p].paid /\ r.linked = row[p].linked
          /\ r.test => kind[p] = "test"
        BY <2>2 DEF Row, IInv, RowFacts
    <2>4. \A v \in Worker \ {w} : job[v].pc = "credit" => job[v].p # p
        BY <2>1 DEF LockFree
    <2>5. Store(p, r) /\ Become(w, Idle) /\ UNCHANGED <<world, txns, balance>>
        BY <1>4 DEF StampCredited
    <2> HIDE DEF r
    <2> QED BY <2>2, <2>3, <2>4, <2>5, RowStep
<1>5. ASSUME NEW w \in Worker, Fail(w) PROVE IInv'
    <2>1. Idle \in Job /\ JobFacts(Idle) /\ Idle.pc # "credit"
        BY DEF Job, JobFacts, Idle
    <2> QED BY <1>5, <2>1, JobStep DEF Fail
<1>6. CASE Crash
    BY <1>6 DEF Crash, IInv, TypeOK, PaidMeansDeposited, RowFacts, Settled,
        JobFacts, Exclusive, world, db, Job, Idle
<1>7. ASSUME NEW u \in User, NEW a \in Price, Spend(u, a) PROVE IInv'
    <2>1. balance[u] - a \in Nat
        BY <1>7, ConstantsAssumption DEF Spend, Affordable, IInv, TypeOK
    <2>2. balance' \in [User -> Nat]
        BY <1>7, <2>1 DEF Spend, IInv, TypeOK
    <2> QED BY <1>7, <2>2 DEF Spend, IInv, TypeOK, PaidMeansDeposited, RowFacts,
            Settled, JobFacts, Exclusive, world
<1>8. CASE UNCHANGED vars
    BY <1>8 DEF vars, IInv, TypeOK, PaidMeansDeposited, RowFacts, Settled,
        JobFacts, Exclusive
<1> QED
    BY <1>1, <1>2, <1>3, <1>4, <1>5, <1>6, <1>7, <1>8, HookInv, CheckInv,
       FinalizeInv DEF Next

-----------------------------------------------------------------------------
(* Theorems.                                                               *)

THEOREM Invariance == Spec => []IInv
<1>1. Init => IInv
    BY InitInv
<1>2. IInv /\ [Next]_vars => IInv'
    BY NextInv
<1> QED BY <1>1, <1>2, PTL DEF Spec

\* The variables keep their types.
THEOREM TypeCorrect == Spec => []TypeOK
<1>1. IInv => TypeOK
    BY DEF IInv
<1> QED BY <1>1, Invariance, PTL

\* A payment is marked paid exactly when its deposit exists and is linked:
\* the half done credit of a crash, an error or a lost race is never visible.
THEOREM PaidExactlyWhenDeposited == Spec => []PaidMeansDeposited
<1>1. IInv => PaidMeansDeposited
    BY DEF IInv
<1> QED BY <1>1, Invariance, PTL

\* Between the row lock and the commit nobody else touches the payment, so
\* what a handler or a check decided under the lock still holds when it
\* commits.
THEOREM LockProtectsCredit == Spec => []LockedImageIsCurrent
<1>1. IInv => LockedImageIsCurrent
    BY DEF IInv, JobFacts, Exclusive, LockedImageIsCurrent
<1> QED BY <1>1, Invariance, PTL

-----------------------------------------------------------------------------
(* The refinement: every step is a step of the ledger or a stutter.        *)

LEMMA WorkerStutters ==
    ASSUME UNCHANGED <<world, txns, balance>>
    PROVE  UNCHANGED Ledger!vars
    BY DEF Ledger!vars, world, Settled

LEMMA StepRefines ==
    ASSUME IInv, [Next]_vars
    PROVE  [Ledger!Next]_(Ledger!vars)
<1>1. ASSUME NEW p \in Payment, ProviderStep(p)
      PROVE  [Ledger!Next]_(Ledger!vars)
    <2>1. PICK s \in Moves[prov[p]] : sent' = [sent EXCEPT ![p] = @ \cup {s}]
        BY <1>1 DEF ProviderStep
    <2>2. UNCHANGED <<kind, txns, balance>>
        BY <1>1 DEF ProviderStep, db
    <2>3. CASE s = "SUCCESS" /\ kind[p] = "live"
        <3>1. Settled' = Settled \cup {p}
            BY <2>1, <2>2, <2>3 DEF Settled, IInv, TypeOK
        <3>2. Ledger!Settle(p)
            BY <2>2, <3>1 DEF Ledger!Settle
        <3> QED BY <3>2 DEF Ledger!Next
    <2>4. CASE ~(s = "SUCCESS" /\ kind[p] = "live")
        <3>1. Settled' = Settled
            BY <2>1, <2>2, <2>4 DEF Settled, IInv, TypeOK
        <3> QED BY <2>2, <3>1 DEF Ledger!vars
    <2> QED BY <2>3, <2>4
<1>2. ASSUME NEW w \in Worker, FinalizeCommit(w)
      PROVE  [Ledger!Next]_(Ledger!vars)
    <2>1. Settled' = Settled
        BY FinalizeEffect, <1>2 DEF Settled, world
    <2>2. job[w].p \in Payment /\ Ledger!Credit(job[w].p)
        BY FinalizeEffect, <1>2, <2>1 DEF Ledger!Credit
    <2> QED BY <2>2 DEF Ledger!Next
<1>3. ASSUME NEW u \in User, NEW a \in Price, Spend(u, a)
      PROVE  [Ledger!Next]_(Ledger!vars)
    <2>1. Settled' = Settled
        BY <1>3 DEF Spend, Settled, world
    <2>2. Ledger!Spend(u, a)
        BY <1>3, <2>1 DEF Spend, Affordable, Ledger!Spend
    <2> QED BY <2>2 DEF Ledger!Next
<1>4. ASSUME NEW h \in Hook, HookStep(h)
      PROVE  UNCHANGED <<world, txns, balance>>
    BY <1>4 DEF HookStep, Deliver, HookDuplicate, HookIgnoreFinal, HookSandbox,
        HookStatus, HookMismatch, HookAlreadyPaid, HookSuccess, db
<1>5. ASSUME NEW c \in Checker, CheckStep(c)
      PROVE  UNCHANGED <<world, txns, balance>>
    BY <1>5 DEF CheckStep, CheckLoad, CheckFetch, CheckSync, CheckSandbox,
        CheckMismatch, CheckAlreadyPaid, CheckSuccess, db
<1>6. ASSUME NEW p \in Payment, InsertRow(p) \/ GrowOld(p)
      PROVE  UNCHANGED <<kind, sent, txns, balance>>
    BY <1>6 DEF InsertRow, GrowOld, world, db
<1>7. ASSUME NEW w \in Worker, StampCredited(w) \/ Fail(w)
      PROVE  UNCHANGED <<world, txns, balance>>
    BY <1>7 DEF StampCredited, Fail, db
<1>8. CASE Crash \/ UNCHANGED vars
    BY <1>8 DEF Crash, vars, world, db, Ledger!vars, Settled
<1>9. UNCHANGED <<kind, sent, txns, balance>> => UNCHANGED Ledger!vars
    BY DEF Ledger!vars, Settled
<1> QED
    BY <1>1, <1>2, <1>3, <1>4, <1>5, <1>6, <1>7, <1>8, <1>9, WorkerStutters
       DEF Next

\* However webhooks, API checks, purchases, errors and crashes interleave, a
\* payment is credited at most once, only after its money moved, by exactly its
\* amount, and no update of the balance is lost.
THEOREM ImplementsLedger == Spec => LedgerSpec
<1>1. Init => Ledger!Init
    BY DEF Init, Ledger!Init, Settled
<1>2. IInv /\ [Next]_vars => [Ledger!Next]_(Ledger!vars)
    BY StepRefines
<1> QED BY <1>1, <1>2, Invariance, PTL DEF Spec, LedgerSpec, Ledger!Spec

\* A webhook that credits found the payment in no final status.
HookCredit ==
    \A h \in Hook : job[h].pc = "credit" => job[h].was.status \notin FinalStatus

LEMMA HookCreditInv == Spec => []HookCredit
<1>1. Init => HookCredit
    BY DEF Init, HookCredit, Worker, Idle
<1>2. IInv /\ HookCredit /\ [Next]_vars => HookCredit'
    <2> SUFFICES ASSUME IInv, HookCredit, [Next]_vars,
                        NEW h \in Hook, job'[h].pc = "credit", job'[h] # job[h]
                 PROVE  job'[h].was.status \notin FinalStatus
        BY DEF HookCredit
    <2>1. h \in Worker /\ h \notin Checker
        BY ConstantsAssumption DEF Worker
    <2>2. ASSUME NEW w \in Worker, NEW j, Become(w, j), j.pc # "credit"
          PROVE  FALSE
        BY <2>1, <2>2 DEF Become, IInv, TypeOK
    <2>3. Idle.pc # "credit"
        BY DEF Idle
    <2>4. ASSUME NEW g \in Hook, HookStep(g), ~HookSuccess(g)
          PROVE  FALSE
        <3>1. g \in Worker
            BY DEF Worker
        <3> QED BY <2>2, <2>3, <2>4, <3>1 DEF HookStep, Deliver, HookDuplicate,
                HookIgnoreFinal, HookSandbox, HookStatus, HookMismatch,
                HookAlreadyPaid
    <2>5. ASSUME NEW g \in Hook, HookSuccess(g)
          PROVE  job'[h].was.status \notin FinalStatus
        <3>1. g \in Worker /\ g = h
            BY <2>1, <2>5 DEF Worker, HookSuccess, BeginCredit, Become, IInv, TypeOK
        <3>2. job'[h].was = row[job[h].p]
            BY <2>1, <2>5, <3>1 DEF HookSuccess, BeginCredit, Become, IInv, TypeOK
        <3> QED BY <2>5, <3>1, <3>2 DEF HookSuccess, Success, Accepted
    <2>6. ASSUME NEW c \in Checker, CheckStep(c)
          PROVE  FALSE
        <3>1. c \in Worker /\ c # h
            BY <2>1 DEF Worker
        <3>2. ASSUME NEW j, Become(c, j) PROVE FALSE
            BY <2>1, <3>1, <3>2 DEF Become, IInv, TypeOK
        <3> QED BY <2>6, <3>2 DEF CheckStep, CheckLoad, CheckFetch, CheckSync,
                CheckSandbox, CheckMismatch, CheckAlreadyPaid, CheckSuccess,
                BeginCredit
    <2>7. ASSUME NEW w \in Worker, FinalizeCommit(w) \/ StampCredited(w) \/ Fail(w)
          PROVE  FALSE
        <3>1. CASE FinalizeCommit(w)
            <4> DEFINE j == [pc |-> "after", p |-> job[w].p]
            <4>1. Become(w, j) /\ j.pc # "credit"
                BY <3>1, FinalizeEffect DEF Become
            <4> HIDE DEF j
            <4> QED BY <2>2, <4>1
        <3>2. CASE StampCredited(w) \/ Fail(w)
            BY <2>2, <2>3, <3>2 DEF StampCredited, Fail
        <3> QED BY <2>7, <3>1, <3>2
    <2>8. CASE Crash
        BY <2>1, <2>3, <2>8 DEF Crash
    <2>9. CASE UNCHANGED job
        BY <2>9
    <2> QED BY <2>4, <2>5, <2>6, <2>7, <2>8, <2>9
            DEF Next, ProviderStep, InsertRow, GrowOld, Spend, vars
<1> QED BY <1>1, <1>2, Invariance, PTL DEF Spec

\* A webhook re-reads the status under the row lock and leaves a final one
\* alone; only an API check at work on the payment can move it.
THEOREM WebhooksRespectFinal == Spec => WebhooksKeepFinal
<1> DEFINE Kept == \A p \in Payment :
              row[p].status \in FinalStatus /\ row'[p].status # row[p].status
                => \E c \in Checker : /\ job[c] # Idle
                                      /\ job[c].p = p
                                      /\ job'[c] # job[c]
<1>1. IInv /\ HookCredit /\ [Next]_vars => [Kept]_vars
    <2> SUFFICES ASSUME IInv, HookCredit, Next, NEW p \in Payment,
                        row[p].status \in FinalStatus,
                        row'[p].status # row[p].status
                 PROVE  \E c \in Checker : /\ job[c] # Idle
                                           /\ job[c].p = p
                                           /\ job'[c] # job[c]
        OBVIOUS
    <2>1. row' # row
        OBVIOUS
    <2>2. ASSUME NEW q \in Payment, InsertRow(q) PROVE FALSE
        <3>1. q # p
            BY <2>2 DEF InsertRow, FinalStatus
        <3> QED BY <2>2, <3>1 DEF InsertRow, IInv, TypeOK
    <2>3. ASSUME NEW q \in Payment, NEW r, Store(q, r), r.status = row[q].status
          PROVE FALSE
        BY <2>3 DEF Store, IInv, TypeOK
    <2>4. ASSUME NEW q \in Payment, NEW r, Store(q, r) PROVE q = p
        BY <2>4 DEF Store, IInv, TypeOK
    <2>5. ASSUME NEW h \in Hook, HookStep(h) PROVE FALSE
        <3>1. CASE HookIgnoreFinal(h)
            <4>1. Remember(row[job[h].p], job[h].ev).status = row[job[h].p].status
                BY <3>1, HookRow DEF HookIgnoreFinal, Remember, Row
            <4> QED BY <2>3, <3>1, <4>1, HookRow DEF HookIgnoreFinal
        <3>2. ~Accepted(h)
            <4> SUFFICES ASSUME Accepted(h) PROVE FALSE
                OBVIOUS
            <4>1. job[h].p \in Payment /\ job[h].p # p
                BY HookRow DEF Accepted
            <4> QED BY <2>1, <2>4, <2>5, <4>1 DEF Accepted, HookStep, Deliver,
                    HookDuplicate, HookIgnoreFinal, HookSandbox, HookStatus,
                    HookMismatch, HookAlreadyPaid, HookSuccess, db
        <3> QED BY <2>1, <2>5, <3>1, <3>2 DEF HookStep, Deliver, HookDuplicate,
                HookSandbox, HookStatus, HookMismatch, HookAlreadyPaid,
                HookSuccess, Success, db
    <2>6. ASSUME NEW c \in Checker, CheckStep(c)
          PROVE  job[c] # Idle /\ job[c].p = p /\ job'[c] # job[c]
        <3>1. /\ job[c].pc = "fetched"
              /\ Become(c, Idle)
              /\ \E r : Store(job[c].p, r)
            BY <2>1, <2>6 DEF CheckStep, CheckLoad, CheckFetch, CheckSync,
                CheckSandbox, CheckMismatch, CheckAlreadyPaid, CheckSuccess, db
        <3>2. c \in Worker /\ job[c] \in Job /\ job[c] # Idle
            BY <3>1 DEF Worker, IInv, TypeOK, Idle
        <3>3. job[c].p \in Payment
            BY <3>2, JobShape
        <3> QED BY <2>4, <3>1, <3>2, <3>3 DEF Become, IInv, TypeOK
    <2>7. ASSUME NEW w \in Worker, StampCredited(w) PROVE FALSE
        <3>1. job[w] \in Job /\ job[w] # Idle
            BY <2>7 DEF StampCredited, IInv, TypeOK, Idle
        <3>2. job[w].p \in Payment /\ row[job[w].p] \in Row
            BY <3>1, JobShape DEF IInv, TypeOK
        <3> QED BY <2>3, <2>7, <3>2 DEF StampCredited, Row
    <2>8. ASSUME NEW w \in Worker, FinalizeCommit(w)
          PROVE  w \in Checker /\ job[w] # Idle /\ job[w].p = p /\ job'[w] # job[w]
        <3>1. job[w].pc = "credit" /\ job[w].was = row[job[w].p] /\ job[w] # Idle
            BY <2>8 DEF FinalizeCommit, IInv, JobFacts, Idle
        <3>2. job[w].p = p
            BY <2>8, FinalizeEffect DEF IInv, TypeOK
        <3>3. w \notin Hook
            BY <3>1, <3>2 DEF HookCredit
        <3>4. job'[w].pc = "after"
            <4>1. job \in [Worker -> Job]
                BY DEF IInv, TypeOK
            <4>2. job' = [job EXCEPT ![w] = [pc |-> "after", p |-> job[w].p]]
                BY <2>8, FinalizeEffect
            <4> QED BY <4>1, <4>2
        <3> QED BY <3>1, <3>2, <3>3, <3>4 DEF Worker
    <2> QED
        BY <2>1, <2>2, <2>5, <2>6, <2>7, <2>8
           DEF Next, ProviderStep, GrowOld, Fail, Crash, Spend, db
<1> QED BY <1>1, Invariance, HookCreditInv, PTL DEF Spec, WebhooksKeepFinal

-----------------------------------------------------------------------------
(* The wheel of fortune.                                                   *)

\* A spin that has still to be paid for holds the lock under which it saw that it
\* can be paid.
Payable ==
    \A t \in Task :
        /\ play[t].pc = "pay" => lock = t /\ play[t].image >= Fee
        /\ play[t].pc = "prize" /\ play[t].by = "balance" => lock = t /\ money >= Cost

\* As long as no spin has given its lock away, every running one holds it and has
\* counted fewer than the limit.
UnderLock ==
    \/ apart
    \/ /\ spins <= Limit
       /\ \A t \in Task :
             /\ play[t].pc # "record"
             /\ play[t].pc = "pay" => spins < Limit
             /\ play[t].pc = "prize" => play[t].by = "balance" /\ spins < Limit

\* A prize that was not pushed is committed with its record.
Recognised ==
    \A c \in Charge \ hasty : given[c] <= 1 /\ (given[c] = 1 => c \in seen)

WheelInv == WheelTypeOK /\ Payable /\ UnderLock /\ Recognised

-----------------------------------------------------------------------------
LEMMA Initially == WheelInit => WheelInv
<1> SUFFICES ASSUME WheelInit PROVE WheelInv
    OBVIOUS
<1> USE WheelAssumption DEF WheelInit, AtRest
<1>1. WheelTypeOK
    <2>1. play \in [Task -> Play]
        BY DEF Play
    <2>2. money \in Nat /\ days \in Nat
        BY DEF WheelAssumption
    <2>3. given \in [Charge -> Nat] /\ hasty \subseteq Charge /\ seen \subseteq Charge
        OBVIOUS
    <2>4. lock \in Task \cup {Free} /\ spins \in Nat
        OBVIOUS
    <2>5. owed \in Int /\ {forgiven, forfeited} \subseteq Nat
        OBVIOUS
    <2>6. apart \in BOOLEAN
        BY Zenon
    <2> HIDE DEF WheelInit
    <2> QED BY <2>1, <2>2, <2>3, <2>4, <2>5, <2>6 DEF WheelTypeOK
<1>2. Payable
    BY DEF Payable
<1>3. UnderLock
    BY DEF UnderLock
<1>4. Recognised
    BY DEF Recognised
<1> QED BY <1>1, <1>2, <1>3, <1>4 DEF WheelInv

\* What the kinds of jobs are made of.
LEMMA Kinds ==
    ASSUME NEW j \in Play
    PROVE  /\ j.pc \in {"idle", "lock", "pay", "count", "prize", "record"}
           /\ j.pc = "lock" => j.by \in {"balance", "days"}
           /\ j.pc = "pay" => j.by = "days" /\ j.image \in Nat
           /\ j.pc = "count" => j.by \in Charge /\ j.image \in Nat
           /\ j.pc = "prize" => j.by \in Method /\ j.image \in Nat
           /\ j.pc = "record" => j.by \in Method
    BY DEF Play, AtRest, Method

\* One task goes on, the others do not.
LEMMA OneGoesOn ==
    ASSUME WheelTypeOK, NEW t \in Task, NEW j \in Play, Turn(t, j)
    PROVE  /\ play' \in [Task -> Play]
           /\ play'[t] = j
           /\ \A u \in Task \ {t} : play'[u] = play[u]
    BY DEF WheelTypeOK, Turn

\* A step after which the task is about to begin, or has ended, and that changes
\* nothing but the lock it may give back.
LEMMA QuietStep ==
    ASSUME WheelInv, NEW t \in Task, NEW j \in Play, Turn(t, j),
           j.pc \in {"idle", "lock", "count"},
           lock' = lock \/ lock' = Released(t),
           owed' \in Int, forgiven' \in Nat, forfeited' \in Nat,
           UNCHANGED <<accounts, records, apart, given, hasty>>
    PROVE  WheelInv'
<1> USE DEF accounts, records
<1>1. /\ play' \in [Task -> Play]
      /\ play'[t] = j
      /\ \A u \in Task \ {t} : play'[u] = play[u]
    BY OneGoesOn DEF WheelInv
<1>2. lock' \in Task \cup {Free} /\ \A u \in Task \ {t} : lock = u => lock' = u
    BY DEF WheelInv, WheelTypeOK, Released
<1>3. WheelTypeOK'
    BY <1>1, <1>2 DEF WheelInv, WheelTypeOK
<1>4. Payable'
    BY <1>1, <1>2 DEF WheelInv, Payable
<1>5. UnderLock'
    BY <1>1 DEF WheelInv, UnderLock
<1>6. Recognised'
    BY DEF WheelInv, Recognised
<1> QED BY <1>3, <1>4, <1>5, <1>6 DEF WheelInv

\* A second message about the same payment is rolled back.
LEMMA RollsBackInv ==
    ASSUME WheelInv, NEW t \in Task, RollsBack(t)
    PROVE  WheelInv'
<1> AtRest \in Play /\ AtRest.pc = "idle"
    BY DEF Play, AtRest
<1> QED BY QuietStep DEF RollsBack, WheelInv, WheelTypeOK, history

LEMMA AskInv ==
    ASSUME WheelInv, NEW t \in Task, NEW by \in {"balance", "days"}, Ask(t, by)
    PROVE  WheelInv'
<1> DEFINE j == [pc |-> "lock", by |-> by]
<1> j \in Play /\ j.pc = "lock"
    BY DEF Play
<1> HIDE DEF j
<1> Turn(t, j)
    BY DEF Ask, j
<1> QED BY QuietStep DEF Ask, WheelInv, WheelTypeOK, history

LEMMA MessageInv ==
    ASSUME WheelInv, NEW t \in Task, NEW c \in Charge, Message(t, c)
    PROVE  WheelInv'
<1> DEFINE j == [pc |-> "count", by |-> c, image |-> days]
<1> j \in Play /\ j.pc = "count"
    BY DEF Play, WheelInv, WheelTypeOK
<1> HIDE DEF j
<1> Turn(t, j)
    BY DEF Message, j
<1> QED BY QuietStep DEF Message, WheelInv, WheelTypeOK, history

LEMMA BreaksInv ==
    ASSUME WheelInv, NEW t \in Task, Breaks(t)
    PROVE  WheelInv'
<1> AtRest \in Play /\ AtRest.pc = "idle"
    BY DEF Play, AtRest
<1> forfeited' \in Nat
    BY DEF Breaks, WheelInv, WheelTypeOK
<1> QED BY QuietStep DEF Breaks, Broken, WheelInv, WheelTypeOK
LEMMA StartInv ==
    ASSUME WheelInv, NEW t \in Task, Start(t)
    PROVE  WheelInv'
<1> WheelTypeOK /\ play[t] \in Play /\ play[t].pc = "lock"
    BY DEF WheelInv, WheelTypeOK, Start
<1> play[t].by \in {"balance", "days"}
    BY Kinds
<1>1. CASE Full \/ ~StillAffords(play[t].by)
    <2> AtRest \in Play /\ AtRest.pc = "idle"
        BY DEF Play, AtRest
    <2> QED BY <1>1, QuietStep DEF Start, WheelTypeOK, history
<1>2. CASE ~(Full \/ ~StillAffords(play[t].by))
    <2> DEFINE j == [pc |-> IF play[t].by = "days" THEN "pay" ELSE "prize",
                     by |-> play[t].by, image |-> days]
    <2>1. /\ j \in Play /\ j.by = play[t].by /\ j.image = days
          /\ j.pc = IF play[t].by = "days" THEN "pay" ELSE "prize"
        BY DEF Play, Method, WheelTypeOK
    <2> HIDE DEF j
    <2>2. Turn(t, j) /\ lock = Free /\ lock' = t
        BY <1>2 DEF Start, j
    <2>3. UNCHANGED <<money, days, spins, seen, owed, forgiven, forfeited, apart, given, hasty>>
        BY <1>2 DEF Start, accounts, records, history
    <2>4. /\ play' \in [Task -> Play]
          /\ play'[t] = j
          /\ \A u \in Task \ {t} : play'[u] = play[u]
        BY <2>1, <2>2, OneGoesOn
    <2>5. WheelTypeOK'
        BY <2>2, <2>3, <2>4 DEF WheelTypeOK
    <2>6. Payable'
        <3>1. \A u \in Task \ {t} :
                 /\ play[u].pc # "pay"
                 /\ ~(play[u].pc = "prize" /\ play[u].by = "balance")
            BY <2>2, WheelAssumption DEF WheelInv, Payable
        <3>2. play[t].by = "balance" => money >= Cost
            BY <1>2 DEF StillAffords, Affords
        <3>3. play[t].by = "days" => days >= Fee
            BY <1>2, WheelAssumption DEF StillAffords, Affords, WheelTypeOK
        <3> QED BY <2>1, <2>2, <2>3, <2>4, <3>1, <3>2, <3>3 DEF Payable
    <2>7. UnderLock'
        <3>1. spins < Limit
            BY <1>2, WheelAssumption DEF Full, WheelTypeOK
        <3> QED BY <2>1, <2>3, <2>4, <3>1 DEF WheelInv, UnderLock
    <2>8. Recognised'
        BY <2>3 DEF WheelInv, Recognised
    <2> QED BY <2>5, <2>6, <2>7, <2>8 DEF WheelInv
<1> QED BY <1>1, <1>2

LEMMA AcceptInv ==
    ASSUME WheelInv, NEW t \in Task, Accept(t)
    PROVE  WheelInv'
<1> DEFINE j == [play[t] EXCEPT !.pc = "prize"]
<1> WheelTypeOK /\ play[t] \in Play /\ play[t].pc = "count"
    BY DEF WheelInv, WheelTypeOK, Accept
<1>1. j \in Play /\ j.pc = "prize" /\ j.by \in Charge
    BY DEF Play, AtRest, Method
<1> HIDE DEF j
<1>2. Turn(t, j) /\ apart' = TRUE
    BY DEF Accept, j
<1>3. UNCHANGED <<money, days, spins, seen, lock, owed, forgiven, forfeited, given, hasty>>
    BY DEF Accept, accounts, records
<1>4. /\ play' \in [Task -> Play]
      /\ play'[t] = j
      /\ \A u \in Task \ {t} : play'[u] = play[u]
    BY <1>1, <1>2, OneGoesOn
<1>5. WheelTypeOK'
    BY <1>2, <1>3, <1>4 DEF WheelTypeOK
<1>6. Payable'
    BY <1>1, <1>3, <1>4, WheelAssumption DEF WheelInv, Payable
<1>7. UnderLock'
    BY <1>2 DEF UnderLock
<1>8. Recognised'
    BY <1>3 DEF WheelInv, Recognised
<1> QED BY <1>5, <1>6, <1>7, <1>8 DEF WheelInv

LEMMA PayDaysInv ==
    ASSUME WheelInv, NEW t \in Task, PayDays(t)
    PROVE  WheelInv'
<1> DEFINE j == [pc |-> "prize", by |-> "days", image |-> days']
<1> WheelTypeOK /\ play[t] \in Play /\ play[t].pc = "pay"
    BY DEF WheelInv, WheelTypeOK, PayDays
<1>1. days' \in Nat
    BY Kinds, WheelAssumption DEF PayDays, WheelInv, Payable
<1>2. j \in Play /\ j.pc = "prize" /\ j.by = "days"
    BY <1>1 DEF Play, Method
<1> HIDE DEF j
<1>3. Turn(t, j) /\ lock' = Released(t) /\ owed' = owed + 1 /\ apart' = TRUE
    BY DEF PayDays, j
<1>4. UNCHANGED <<money, spins, seen, forgiven, forfeited, given, hasty>>
    BY DEF PayDays, records
<1>5. /\ play' \in [Task -> Play]
      /\ play'[t] = j
      /\ \A u \in Task \ {t} : play'[u] = play[u]
    BY <1>2, <1>3, OneGoesOn
<1>6. lock' \in Task \cup {Free} /\ \A u \in Task \ {t} : lock = u => lock' = u
    BY <1>3 DEF WheelTypeOK, Released
<1>7. WheelTypeOK'
    BY <1>1, <1>3, <1>4, <1>5, <1>6 DEF WheelTypeOK
<1>8. Payable'
    BY <1>2, <1>4, <1>5, <1>6 DEF WheelInv, Payable
<1>9. UnderLock'
    BY <1>3 DEF UnderLock
<1>10. Recognised'
    BY <1>4 DEF WheelInv, Recognised
<1> QED BY <1>7, <1>8, <1>9, <1>10 DEF WheelInv

-----------------------------------------------------------------------------
\* A prize that is committed together with its record: whoever can record holds the
\* lock, or nobody does.
LEMMA SettledStep ==
    ASSUME WheelInv, NEW t \in Task, play[t].pc = "prize",
           ~Duplicate(play[t].by), Recorded(t), NEW paid \in {0, 1},
           Won(play[t].by, paid), Turn(t, AtRest), lock' = Free,
           money' \in Nat, forgiven' \in Nat,
           UNCHANGED <<days, forfeited, apart, hasty>>
    PROVE  WheelInv'
<1> WheelTypeOK /\ play[t] \in Play /\ lock \in {Free, t} /\ spins' = spins + 1
    BY DEF WheelInv, WheelTypeOK, Recorded
<1> AtRest \in Play /\ AtRest.pc = "idle"
    BY DEF Play, AtRest
<1>1. /\ play' \in [Task -> Play]
      /\ play'[t] = AtRest
      /\ \A u \in Task \ {t} : play'[u] = play[u]
    BY OneGoesOn
<1>2. \A u \in Task \ {t} :
         play[u].pc # "pay" /\ ~(play[u].pc = "prize" /\ play[u].by = "balance")
    BY WheelAssumption DEF WheelInv, Payable
<1>3. owed' \in Int
    BY DEF Won, WheelTypeOK
<1>4. given' \in [Charge -> Nat] /\ seen' \subseteq Charge
    BY DEF Won, Recorded, WheelTypeOK
<1>5. WheelTypeOK'
    BY <1>1, <1>3, <1>4 DEF WheelTypeOK
<1>6. Payable'
    BY <1>1, <1>2 DEF Payable
<1>7. UnderLock'
    BY <1>1, <1>2, WheelAssumption DEF WheelInv, UnderLock, WheelTypeOK
<1>8. Recognised'
    <2> SUFFICES ASSUME NEW c \in Charge \ hasty
                 PROVE  given'[c] <= 1 /\ (given'[c] = 1 => c \in seen')
        BY DEF Recognised
    <2>1. given[c] \in Nat /\ given[c] <= 1 /\ (given[c] = 1 => c \in seen)
        BY DEF WheelInv, Recognised, WheelTypeOK
    <2>2. CASE c = play[t].by
        BY <2>1, <2>2 DEF Won, Recorded, Duplicate
    <2>3. CASE c # play[t].by
        BY <2>1, <2>3 DEF Won, Recorded
    <2> QED BY <2>2, <2>3
<1> QED BY <1>5, <1>6, <1>7, <1>8 DEF WheelInv

LEMMA PaidOff ==
    ASSUME WheelInv, NEW t \in Task, play[t].pc = "prize"
    PROVE  Paid(play[t].by) \in {0, 1} /\ money - Cost * Paid(play[t].by) \in Nat
    BY WheelAssumption DEF WheelInv, WheelTypeOK, Payable, Paid

LEMMA WinNothingInv ==
    ASSUME WheelInv, NEW t \in Task, WinNothing(t)
    PROVE  WheelInv'
<1>1. CASE RollsBack(t)
    BY <1>1, RollsBackInv
<1>2. CASE ~RollsBack(t)
    <2>1. /\ play[t].pc = "prize" /\ ~Duplicate(play[t].by) /\ Recorded(t)
          /\ Won(play[t].by, Paid(play[t].by)) /\ Turn(t, AtRest) /\ lock' = Free
          /\ money' = money - Cost * Paid(play[t].by)
          /\ UNCHANGED <<days, forgiven, forfeited, apart, hasty>>
        BY <1>2 DEF WinNothing
    <2>2. forgiven' \in Nat
        BY <2>1 DEF WheelInv, WheelTypeOK
    <2> QED BY <2>1, <2>2, PaidOff, SettledStep
<1> QED BY <1>1, <1>2

LEMMA WinMoneyInv ==
    ASSUME WheelInv, NEW t \in Task, WinMoney(t)
    PROVE  WheelInv'
<1>1. CASE RollsBack(t)
    BY <1>1, RollsBackInv
<1>2. CASE ~RollsBack(t)
    <2>1. /\ play[t].pc = "prize" /\ ~Duplicate(play[t].by) /\ Recorded(t)
          /\ Won(play[t].by, 0) /\ Turn(t, AtRest) /\ lock' = Free
          /\ money' = money + Bonus /\ forgiven' = forgiven + Paid(play[t].by)
          /\ UNCHANGED <<days, forfeited, apart, hasty>>
        BY <1>2 DEF WinMoney
    <2>2. forgiven' \in Nat
        BY <2>1, PaidOff DEF WheelInv, WheelTypeOK
    <2>3. money' \in Nat
        BY <2>1, WheelAssumption DEF WheelInv, WheelTypeOK
    <2> QED BY <2>1, <2>2, <2>3, SettledStep
<1> QED BY <1>1, <1>2

LEMMA WinDaysInv ==
    ASSUME WheelInv, NEW t \in Task, WinDays(t)
    PROVE  WheelInv'
<1> DEFINE j == [pc |-> "record", by |-> play[t].by]
<1> WheelTypeOK /\ play[t] \in Play /\ play[t].pc = "prize"
    BY DEF WheelInv, WheelTypeOK, WinDays
<1>1. j \in Play /\ j.pc = "record"
    BY Kinds DEF Play
<1> HIDE DEF j
<1>2. Turn(t, j) /\ lock' = Released(t) /\ apart' = TRUE
    BY DEF WinDays, j
<1>3. UNCHANGED <<spins, seen, forgiven, forfeited>>
    BY DEF WinDays, records
<1>4. /\ play' \in [Task -> Play]
      /\ play'[t] = j
      /\ \A u \in Task \ {t} : play'[u] = play[u]
    BY <1>1, <1>2, OneGoesOn
<1>5. lock' \in Task \cup {Free} /\ \A u \in Task \ {t} : lock = u => lock' = u
    BY <1>2 DEF WheelTypeOK, Released
<1>6. money' = money - Cost * Paid(play[t].by) /\ money' \in Nat
    BY PaidOff DEF WinDays
<1>7. days' \in Nat
    BY Kinds, WheelAssumption DEF WinDays, WheelTypeOK
<1>8. owed' \in Int /\ given' \in [Charge -> Nat] /\ hasty' \subseteq Charge
    BY PaidOff DEF WinDays, Won, WheelTypeOK
<1>9. WheelTypeOK'
    BY <1>2, <1>3, <1>4, <1>5, <1>6, <1>7, <1>8 DEF WheelTypeOK
<1>10. Payable'
    <2>1. play[t].by = "balance" => lock = t
        BY DEF WheelInv, Payable
    <2>2. play[t].by # "balance" => money' = money
        BY <1>6, WheelAssumption DEF Paid, WheelTypeOK
    <2> QED BY <1>1, <1>4, <1>5, <2>1, <2>2 DEF WheelInv, Payable
<1>11. UnderLock'
    BY <1>2 DEF UnderLock
<1>12. Recognised'
    <2> SUFFICES ASSUME NEW c \in Charge \ hasty'
                 PROVE  given'[c] <= 1 /\ (given'[c] = 1 => c \in seen')
        BY DEF Recognised
    <2>1. c \notin hasty /\ c # play[t].by
        BY DEF WinDays
    <2>2. given'[c] = given[c]
        BY <2>1 DEF WinDays, Won, WheelTypeOK
    <2> QED BY <1>3, <2>1, <2>2 DEF WheelInv, Recognised
<1> QED BY <1>9, <1>10, <1>11, <1>12 DEF WheelInv

LEMMA RecordInv ==
    ASSUME WheelInv, NEW t \in Task, Record(t)
    PROVE  WheelInv'
<1>1. CASE RollsBack(t)
    BY <1>1, RollsBackInv
<1>2. CASE ~RollsBack(t)
    <2>1. /\ play[t].pc = "record" /\ Recorded(t) /\ Turn(t, AtRest)
          /\ UNCHANGED <<money, days, lock, owed, forgiven, forfeited, apart, given, hasty>>
        BY <1>2 DEF Record, accounts, history
    <2> WheelTypeOK /\ AtRest \in Play /\ AtRest.pc = "idle"
        BY DEF WheelInv, Play, AtRest
    <2>2. /\ play' \in [Task -> Play]
          /\ play'[t] = AtRest
          /\ \A u \in Task \ {t} : play'[u] = play[u]
        BY <2>1, OneGoesOn
    <2>3. spins' \in Nat /\ seen \subseteq seen' /\ seen' \subseteq Charge
        BY <2>1 DEF Recorded, WheelTypeOK
    <2>4. WheelTypeOK'
        BY <2>1, <2>2, <2>3 DEF WheelTypeOK
    <2>5. Payable'
        BY <2>1, <2>2 DEF WheelInv, Payable
    <2>6. UnderLock'
        BY <2>1 DEF WheelInv, UnderLock
    <2>7. Recognised'
        BY <2>1, <2>3 DEF WheelInv, Recognised
    <2> QED BY <2>4, <2>5, <2>6, <2>7 DEF WheelInv
<1> QED BY <1>1, <1>2

LEMMA RefundInv ==
    ASSUME WheelInv, NEW t \in Task, Refund(t)
    PROVE  WheelInv'
<1>1. /\ lock = Free /\ money' = money + Cost /\ Turn(t, AtRest)
      /\ UNCHANGED <<days, spins, seen, lock, owed, forgiven, forfeited, apart, given, hasty>>
    BY DEF Refund, records, history
<1> WheelTypeOK /\ AtRest \in Play /\ AtRest.pc = "idle"
    BY DEF WheelInv, Play, AtRest
<1>2. /\ play' \in [Task -> Play]
      /\ play'[t] = AtRest
      /\ \A u \in Task \ {t} : play'[u] = play[u]
    BY <1>1, OneGoesOn
<1>3. money' \in Nat
    BY <1>1, WheelAssumption DEF WheelTypeOK
<1>4. WheelTypeOK'
    BY <1>1, <1>2, <1>3 DEF WheelTypeOK
<1>5. Payable'
    BY <1>1, <1>2, WheelAssumption DEF WheelInv, Payable
<1>6. UnderLock'
    BY <1>1, <1>2 DEF WheelInv, UnderLock
<1>7. Recognised'
    BY <1>1 DEF WheelInv, Recognised
<1> QED BY <1>4, <1>5, <1>6, <1>7 DEF WheelInv

-----------------------------------------------------------------------------
LEMMA Inductive == WheelInv /\ [WheelNext]_wheelVars => WheelInv'
<1> SUFFICES ASSUME WheelInv, [WheelNext]_wheelVars PROVE WheelInv'
    OBVIOUS
<1>1. CASE UNCHANGED wheelVars
    BY <1>1 DEF wheelVars, accounts, records, history, counters, WheelInv, WheelTypeOK, Payable,
                UnderLock, Recognised
<1>2. ASSUME NEW t \in Task, NEW by \in {"balance", "days"}, Ask(t, by) PROVE WheelInv'
    BY <1>2, AskInv
<1>3. ASSUME NEW t \in Task, Start(t) \/ PayDays(t) PROVE WheelInv'
    BY <1>3, StartInv, PayDaysInv
<1>4. ASSUME NEW t \in Task, WinNothing(t) \/ WinMoney(t) \/ WinDays(t) \/ Record(t)
      PROVE  WheelInv'
    BY <1>4, WinNothingInv, WinMoneyInv, WinDaysInv, RecordInv
<1>5. ASSUME NEW t \in Task, NEW c \in Charge, Message(t, c) PROVE WheelInv'
    BY <1>5, MessageInv
<1>6. ASSUME NEW t \in Task, Refund(t) \/ Accept(t) \/ Breaks(t) PROVE WheelInv'
    BY <1>6, RefundInv, AcceptInv, BreaksInv
<1> QED BY <1>1, <1>2, <1>3, <1>4, <1>5, <1>6 DEF WheelNext

LEMMA WheelInvariance == WheelSpec => []WheelInv
    BY Initially, Inductive, PTL DEF WheelSpec

\* Neither the balance nor the days are ever overdrawn, however spins, refunds and
\* pushes meet (_process_stars_payment, _process_days_payment).
THEOREM WheelTypeCorrect == WheelSpec => []WheelTypeOK
<1> WheelInv => WheelTypeOK
    BY DEF WheelInv
<1> QED BY WheelInvariance, PTL

\* Any number of spins keep any limit as long as none gives the lock away between
\* its count and its record (spin, re-check under lock_user_for_update).
THEOREM LimitUnderLock == WheelSpec => []LimitUnlessApart
<1> WheelInv => LimitUnlessApart
    BY DEF WheelInv, UnderLock, LimitUnlessApart, LimitIsKept
<1> QED BY WheelInvariance, PTL

\* However often the message about a payment by Stars is delivered, it wins at most
\* one prize that was not pushed (_handle_wheel_spin_payment).
THEOREM StarsWinOnce == WheelSpec => []OncePerCharge
<1> WheelInv => OncePerCharge
    BY DEF WheelInv, Recognised, OncePerCharge
<1> QED BY WheelInvariance, PTL

-----------------------------------------------------------------------------
\* Spins that have paid by days and not won yet.
Owing(j) == j.pc = "prize" /\ j.by = "days"
Count(j) == IF Owing(j) THEN 1 ELSE 0
Pending == {t \in Task : Owing(play[t])}

LEMMA PendingMoves ==
    ASSUME WheelTypeOK, NEW t \in Task, NEW j \in Play, Turn(t, j)
    PROVE  /\ Cardinality(Pending) \in Nat
           /\ Cardinality(Pending') = Cardinality(Pending) + Count(j) - Count(play[t])
<1>1. /\ play'[t] = j
      /\ \A u \in Task \ {t} : play'[u] = play[u]
    BY OneGoesOn
<1>2. IsFiniteSet(Pending) /\ IsFiniteSet(Pending') /\ Cardinality(Pending) \in Nat
    BY FS_Subset, FS_CardinalityType, WheelAssumption DEF Pending
<1>3. CASE Owing(j) <=> Owing(play[t])
    <2> Pending' = Pending
        BY <1>1, <1>3 DEF Pending
    <2> QED BY <1>2, <1>3 DEF Count
<1>4. CASE Owing(j) /\ ~Owing(play[t])
    <2> Pending' = Pending \cup {t} /\ t \notin Pending
        BY <1>1, <1>4 DEF Pending
    <2> QED BY <1>2, <1>4, FS_AddElement DEF Count
<1>5. CASE ~Owing(j) /\ Owing(play[t])
    <2> Pending' = Pending \ {t} /\ t \in Pending
        BY <1>1, <1>5 DEF Pending
    <2> QED BY <1>2, <1>5, FS_RemoveElement DEF Count
<1> QED BY <1>3, <1>4, <1>5

\* What a step adds to the charges it adds to the spins that owe a prize.
LEMMA AccountStep ==
    ASSUME WheelTypeOK, ChargedForPrize, NEW t \in Task, NEW j \in Play, Turn(t, j),
           owed' + forgiven' - forfeited' =
               owed + forgiven - forfeited + Count(j) - Count(play[t]),
           owed' \in Int, forgiven' \in Nat, forfeited' \in Nat
    PROVE  ChargedForPrize'
<1>1. Pending = {u \in Task : play[u].pc = "prize" /\ play[u].by = "days"}
    BY DEF Pending, Owing
<1>2. Pending' = {u \in Task : play'[u].pc = "prize" /\ play'[u].by = "days"}
    BY DEF Pending, Owing
<1>3. owed + forgiven - forfeited = Cardinality(Pending)
    BY <1>1 DEF ChargedForPrize
<1>4. owed' + forgiven' - forfeited' = Cardinality(Pending')
    BY <1>3, PendingMoves DEF WheelTypeOK, Count
<1> QED BY <1>2, <1>4 DEF ChargedForPrize

\* Only payments by Stars are rolled back as duplicates.
LEMMA RollsBackAccount ==
    ASSUME WheelTypeOK, ChargedForPrize, NEW t \in Task, RollsBack(t)
    PROVE  ChargedForPrize'
<1> AtRest \in Play /\ Count(AtRest) = 0
    BY DEF Play, AtRest, Count, Owing
<1> Count(play[t]) = 0
    BY WheelAssumption DEF RollsBack, Duplicate, WheelTypeOK, Count, Owing
<1> QED BY AccountStep DEF RollsBack, history, WheelTypeOK

LEMMA WinAccount ==
    ASSUME WheelTypeOK, ChargedForPrize, NEW t \in Task,
           WinNothing(t) \/ WinMoney(t) \/ WinDays(t)
    PROVE  ChargedForPrize'
<1>1. CASE RollsBack(t)
    BY <1>1, RollsBackAccount
<1>2. CASE ~RollsBack(t)
    <2> DEFINE by == play[t].by
    <2>1. PICK paid \in {0, 1}, j \in {AtRest, [pc |-> "record", by |-> by]} :
             /\ play[t].pc = "prize" /\ Turn(t, j) /\ Won(by, paid)
             /\ forgiven' + paid = forgiven + Paid(by) /\ forgiven' \in Nat
             /\ forfeited' = forfeited /\ paid <= Paid(by)
        BY <1>2 DEF WinNothing, WinMoney, WinDays, Paid, WheelTypeOK
    <2>2. by \in Method
        BY <2>1, Kinds DEF WheelTypeOK
    <2>3. j \in Play /\ Count(j) = 0
        BY <2>2 DEF Play, AtRest, Count, Owing
    <2>4. CASE by \in Charge
        <3>1. Count(play[t]) = 0 /\ Paid(by) = 0
            BY <2>4, WheelAssumption DEF Count, Owing, Paid
        <3>2. owed' = owed
            BY <2>1, <2>4 DEF Won
        <3> QED BY <2>1, <2>3, <3>1, <3>2, AccountStep DEF WheelTypeOK
    <2>5. CASE by \notin Charge
        <3>1. /\ Paid(by) \in {0, 1} /\ Count(play[t]) \in {0, 1}
              /\ Paid(by) - 1 = 0 - Count(play[t])
            BY <2>1, <2>2, <2>5 DEF Count, Owing, Paid, Method
        <3>2. owed' = owed + paid - 1
            BY <2>1, <2>5 DEF Won
        <3>3. owed' + forgiven' - forfeited' =
                  owed + forgiven - forfeited + Count(j) - Count(play[t])
            BY <2>1, <2>3, <3>1, <3>2 DEF WheelTypeOK
        <3>4. owed' \in Int /\ forfeited' \in Nat
            BY <2>1, <3>2 DEF WheelTypeOK
        <3> QED BY <2>1, <2>3, <3>3, <3>4, AccountStep
    <2> QED BY <2>4, <2>5
<1> QED BY <1>1, <1>2

LEMMA Accounts ==
    WheelInv /\ ChargedForPrize /\ [WheelNext]_wheelVars => ChargedForPrize'
<1> SUFFICES ASSUME WheelInv, ChargedForPrize, [WheelNext]_wheelVars PROVE ChargedForPrize'
    OBVIOUS
<1> WheelTypeOK
    BY DEF WheelInv
<1>1. CASE UNCHANGED wheelVars
    BY <1>1 DEF wheelVars, history, ChargedForPrize
<1>2. ASSUME NEW t \in Task, NEW by \in {"balance", "days"}, Ask(t, by)
      PROVE  ChargedForPrize'
    <2> DEFINE j == [pc |-> "lock", by |-> by]
    <2>1. j \in Play /\ Count(j) = 0 /\ Count(play[t]) = 0 /\ Turn(t, j)
        BY <1>2 DEF Play, Ask, AtRest, Count, Owing
    <2> HIDE DEF j
    <2> QED BY <1>2, <2>1, AccountStep DEF Ask, history, WheelTypeOK
<1>3. ASSUME NEW t \in Task, Start(t) PROVE ChargedForPrize'
    <2>1. PICK j \in Play : Turn(t, j) /\ Count(j) = 0
        <3>1. CASE Full \/ ~StillAffords(play[t].by)
            BY <1>3, <3>1 DEF Start, Play, AtRest, Count, Owing
        <3>2. CASE ~(Full \/ ~StillAffords(play[t].by))
            <4> DEFINE j == [pc |-> IF play[t].by = "days" THEN "pay" ELSE "prize",
                             by |-> play[t].by, image |-> days]
            <4>1. play[t].by \in {"balance", "days"}
                BY <1>3, Kinds DEF Start, WheelTypeOK
            <4>2. j \in Play /\ Count(j) = 0
                BY <4>1 DEF Play, Method, WheelTypeOK, Count, Owing
            <4>3. Turn(t, j)
                BY <1>3, <3>2 DEF Start
            <4> QED BY <4>2, <4>3
        <3> QED BY <3>1, <3>2
    <2>2. Count(play[t]) = 0
        BY <1>3 DEF Start, Count, Owing
    <2> QED BY <1>3, <2>1, <2>2, AccountStep DEF Start, history, WheelTypeOK
<1>4. ASSUME NEW t \in Task, PayDays(t) PROVE ChargedForPrize'
    <2> DEFINE j == [pc |-> "prize", by |-> "days", image |-> days']
    <2>1. days' \in Nat
        BY <1>4, PayDaysInv DEF WheelInv, WheelTypeOK
    <2>2. j \in Play /\ Count(j) = 1 /\ Count(play[t]) = 0 /\ Turn(t, j)
        BY <1>4, <2>1 DEF Play, Method, PayDays, Count, Owing
    <2> HIDE DEF j
    <2> QED BY <1>4, <2>2, AccountStep DEF PayDays, WheelTypeOK
<1>5. ASSUME NEW t \in Task, WinNothing(t) \/ WinMoney(t) \/ WinDays(t)
      PROVE  ChargedForPrize'
    BY <1>5, WinAccount
<1>6. ASSUME NEW t \in Task, Record(t) \/ Refund(t) PROVE ChargedForPrize'
    <2>1. CASE RollsBack(t)
        BY <2>1, RollsBackAccount
    <2>2. CASE ~RollsBack(t)
        <3> AtRest \in Play /\ Count(AtRest) = 0 /\ Count(play[t]) = 0
            BY <1>6, <2>2 DEF Record, Refund, Play, AtRest, Count, Owing
        <3> QED BY <1>6, <2>2, AccountStep DEF Record, Refund, history, WheelTypeOK
    <2> QED BY <2>1, <2>2
<1>7. ASSUME NEW t \in Task, NEW c \in Charge, Message(t, c) PROVE ChargedForPrize'
    <2> DEFINE j == [pc |-> "count", by |-> c, image |-> days]
    <2>1. j \in Play /\ Count(j) = 0 /\ Count(play[t]) = 0 /\ Turn(t, j)
        BY <1>7 DEF Play, Message, AtRest, Count, Owing, WheelTypeOK
    <2> HIDE DEF j
    <2> QED BY <1>7, <2>1, AccountStep DEF Message, history, WheelTypeOK
<1>8. ASSUME NEW t \in Task, Accept(t) PROVE ChargedForPrize'
    <2> DEFINE j == [play[t] EXCEPT !.pc = "prize"]
    <2> play[t] \in Play /\ play[t].pc = "count"
        BY <1>8 DEF Accept, WheelTypeOK
    <2>1. j \in Play /\ j.by \in Charge
        BY DEF Play, AtRest, Method
    <2>2. Count(j) = 0 /\ Count(play[t]) = 0 /\ Turn(t, j)
        BY <1>8, <2>1, WheelAssumption DEF Accept, Count, Owing
    <2> HIDE DEF j
    <2> QED BY <1>8, <2>1, <2>2, AccountStep DEF Accept, WheelTypeOK
<1>9. ASSUME NEW t \in Task, Breaks(t) PROVE ChargedForPrize'
    <2>1. AtRest \in Play /\ Count(AtRest) = 0 /\ Turn(t, AtRest)
        BY <1>9 DEF Breaks, Broken, Play, AtRest, Count, Owing
    <2>2. forfeited' = forfeited + Count(play[t])
        BY <1>9 DEF Breaks, Count, Owing, WheelTypeOK
    <2> QED BY <1>9, <2>1, <2>2, AccountStep DEF Breaks, Count, WheelTypeOK
<1> QED BY <1>1, <1>2, <1>3, <1>4, <1>5, <1>6, <1>7, <1>8, <1>9 DEF WheelNext

\* Any number of spins and failures: no charge without a prize and no prize without
\* a charge, but for the causes it names (spin, _process_days_payment, _apply_prize).
THEOREM ChargesFollowPrizes == WheelSpec => []ChargedForPrize
<1>1. WheelInit => ChargedForPrize
    <2> SUFFICES ASSUME WheelInit PROVE ChargedForPrize
        OBVIOUS
    <2>1. {t \in Task : play[t].pc = "prize" /\ play[t].by = "days"} = {}
        BY DEF WheelInit, AtRest
    <2> QED BY <2>1, FS_EmptySet DEF WheelInit, ChargedForPrize
<1> QED BY <1>1, Accounts, WheelInvariance, PTL DEF WheelSpec
=============================================================================
