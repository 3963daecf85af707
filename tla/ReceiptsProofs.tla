--------------------------- MODULE ReceiptsProofs ---------------------------
(***************************************************************************)
(* Proofs about Receipts: for every number of payments, handlers and       *)
(* administrators, and every limit of attempts.                            *)
(***************************************************************************)
EXTENDS Receipts, SequenceTheorems, TLAPS

(* The inductive invariant.                                                *)

WithEntry == {"look", "send", "mark", "save", "done", "failed",
              "requeue", "lookup", "flag", "push", "read", "unflag"}

\* An entry a pass works on has an attempt left.
AttemptsLeft ==
    \A s \in Sender :
        job[s].pc \in {"look", "send", "mark", "save", "requeue"}
            => job[s].e.attempts < MaxAttempts

\* A created key, and a task that is about to set one, stand for a receipt.
CreatedIsIssued ==
    /\ \A p \in created : issued[p] > 0
    /\ \A w \in Worker : job[w].pc \in {"mark", "read"} => issued[job[w].e.p] > 0

\* What an administrator sees, and may have sent again, is in doubt.
ListedIsUnknown ==
    /\ pending \subseteq unknown
    /\ \A a \in Admin :
          /\ job[a].pc \in WithEntry => job[a].e.p \in unknown
          /\ job[a].pc \in {"delete", "rewrite"} => job[a].rest \subseteq unknown
    /\ \A w \in Worker : job[w].pc = "save" => job[w].e.p \in unknown

\* A worker that may still lead to a request for p.
Live(w, p) ==
    /\ job[w].pc \in {"look", "send", "lookup", "flag", "push", "requeue"}
    /\ job[w].e.p = p

\* As long as no answer was lost, one worker or one entry at most may lead to
\* a request, and none does once there is a receipt.
OneClaim(p) ==
    /\ \A v, w \in Worker : Live(v, p) /\ Live(w, p) => v = w
    /\ \A i, j \in DOMAIN queue : queue[i].p = p /\ queue[j].p = p => i = j
    /\ \A w \in Worker, i \in DOMAIN queue : ~(Live(w, p) /\ queue[i].p = p)
    /\ \A w \in Worker : Live(w, p) => p \in asked /\ issued[p] = 0
    /\ \A i \in DOMAIN queue : queue[i].p = p => p \in asked /\ issued[p] = 0
    /\ issued[p] > 0 => p \in asked
    /\ issued[p] <= 1

OneClaimEach == \A p \in Payment \ unknown : OneClaim(p)

IInv ==
    /\ TypeOK /\ AttemptsLeft
    /\ CreatedIsIssued /\ ListedIsUnknown /\ OneClaimEach

-----------------------------------------------------------------------------
(* Jobs and the queue.                                                     *)

LEMMA Kinds ==
    ASSUME NEW j \in Job
    PROVE  /\ j.pc \in WithEntry \cup {"idle", "pop", "delete", "rewrite"}
           /\ j.pc \in WithEntry => j.e \in Entry
           /\ j.pc \in {"delete", "rewrite"} => j.rest \subseteq Payment
  BY DEF Job, Idle, WithEntry

LEMMA OneGoesOn ==
    ASSUME job \in [Worker -> Job], NEW w \in Worker, NEW j \in Job, Become(w, j)
    PROVE  /\ job' \in [Worker -> Job]
           /\ job'[w] = j
           /\ \A v \in Worker \ {w} : job'[v] = job[v]
  BY DEF Become

\* An entry goes with its worker.
LEMMA EntryGoesOn ==
    ASSUME job \in [Worker -> Job], NEW w \in Worker, NEW pc, Goto(w, pc),
           job[w].pc \in WithEntry, pc \in WithEntry
    PROVE  /\ job' \in [Worker -> Job]
           /\ job'[w].pc = pc /\ job'[w].e = job[w].e /\ job[w].e \in Entry
           /\ \A v \in Worker \ {w} : job'[v] = job[v]
  <1>1. job[w].e \in Entry /\ job[w] \in Job
    BY Kinds
  <1>2. [job[w] EXCEPT !.pc = pc] = [pc |-> pc, e |-> job[w].e]
    BY <1>1 DEF Job, Idle, WithEntry
  <1>3. [pc |-> pc, e |-> job[w].e] \in Job
    BY <1>1 DEF Job, WithEntry
  <1>4. Become(w, [pc |-> pc, e |-> job[w].e])
    BY <1>2 DEF Goto
  <1> QED
    BY <1>1, <1>3, <1>4, OneGoesOn

LEMMA QueueAtHead ==
    ASSUME NEW q \in Seq(Entry), NEW x \in Entry
    PROVE  /\ <<x>> \o q \in Seq(Entry)
           /\ DOMAIN q = 1 .. Len(q) /\ Len(q) \in Nat
           /\ DOMAIN (<<x>> \o q) = 1 .. Len(q) + 1
           /\ (<<x>> \o q)[1] = x
           /\ \A i \in 2 .. Len(q) + 1 : (<<x>> \o q)[i] = q[i - 1]
  OBVIOUS

LEMMA QueueWithoutLast ==
    ASSUME NEW q \in Seq(Entry), q # <<>>
    PROVE  /\ Front(q) \in Seq(Entry)
           /\ DOMAIN q = 1 .. Len(q) /\ Len(q) \in Nat \ {0}
           /\ DOMAIN Front(q) = 1 .. Len(q) - 1
           /\ \A i \in 1 .. Len(q) - 1 : Front(q)[i] = q[i]
           /\ Last(q) = q[Len(q)] /\ Last(q) \in Entry
  <1>1. Len(q) \in Nat \ {0} /\ DOMAIN q = 1 .. Len(q)
    BY EmptySeq, LenProperties
  <1>2. \A i \in 1 .. Len(q) : q[i] \in Entry
    BY ElementOfSeq
  <1>3. /\ SubSeq(q, 1, Len(q) - 1) \in Seq(Entry)
        /\ Len(SubSeq(q, 1, Len(q) - 1)) = Len(q) - 1
        /\ \A i \in 1 .. Len(q) - 1 : SubSeq(q, 1, Len(q) - 1)[i] = q[i]
    BY <1>1, <1>2, SubSeqProperties
  <1>4. DOMAIN SubSeq(q, 1, Len(q) - 1) = 1 .. Len(q) - 1
    BY <1>3, LenProperties
  <1> QED
    BY <1>1, <1>2, <1>3, <1>4 DEF Front, Last

-----------------------------------------------------------------------------
(* Claims.                                                                 *)

\* A step that gives nobody a claim keeps OneClaimEach.
LEMMA QuietClaims ==
    ASSUME OneClaimEach, unknown \subseteq unknown',
           UNCHANGED <<queue, issued, asked>>,
           \A p \in Payment \ unknown', v \in Worker : Live(v, p)' => Live(v, p)
    PROVE  OneClaimEach'
  <1> SUFFICES ASSUME NEW p \in Payment \ unknown' PROVE OneClaim(p)'
    BY DEF OneClaimEach
  <1>1. OneClaim(p)
    BY DEF OneClaimEach
  <1> QED
    BY <1>1 DEF OneClaim

\* A worker moves on with its entry, and not from a place without a claim to one
\* with it.
LEMMA MovesOn ==
    ASSUME IInv, NEW w \in Worker, NEW pc, Goto(w, pc),
           job[w].pc \in WithEntry, pc \in WithEntry \ {"save", "mark", "read"},
           UNCHANGED <<issued, queue, asked>>,
           created \subseteq created' , created' \subseteq created \cup {job[w].e.p},
           created' # created => issued[job[w].e.p] > 0,
           created' \in SUBSET Payment,
           flag' \in SUBSET Payment, faults' \in 0 .. MaxFaults,
           unknown \subseteq unknown', unknown' \subseteq Payment,
           pending' \subseteq unknown',
           w \in Sender /\ pc # "unflag" => job[w].e.attempts < MaxAttempts,
           pc \in {"look", "send", "lookup", "flag", "push", "requeue"} =>
             job[w].e.p \in unknown'
               \/ job[w].pc \in {"look", "send", "lookup", "flag", "push", "requeue"}
    PROVE  IInv'
  <1>1. /\ job' \in [Worker -> Job]
        /\ job'[w].pc = pc /\ job'[w].e = job[w].e /\ job[w].e \in Entry
        /\ \A v \in Worker \ {w} : job'[v] = job[v]
    BY EntryGoesOn DEF IInv, TypeOK
  <1>2. TypeOK'
    BY <1>1 DEF IInv, TypeOK
  <1>3. AttemptsLeft'
    BY <1>1 DEF IInv, AttemptsLeft, Worker
  <1>4. CreatedIsIssued'
    BY <1>1 DEF IInv, CreatedIsIssued, WithEntry
  <1>5. ListedIsUnknown'
    BY <1>1 DEF IInv, ListedIsUnknown, WithEntry, Worker
  <1>6. OneClaimEach'
    <2>1. ASSUME NEW p \in Payment \ unknown', NEW v \in Worker, Live(v, p)'
          PROVE  Live(v, p)
      BY <2>1, <1>1 DEF Live
    <2> QED
      BY <2>1, QuietClaims DEF IInv
  <1> QED
    BY <1>2, <1>3, <1>4, <1>5, <1>6 DEF IInv

\* A worker ends, or turns to something without an entry.
LEMMA LetsGo ==
    ASSUME IInv, NEW w \in Worker, NEW j \in Job, Become(w, j),
           j.pc \in {"idle", "pop", "delete", "rewrite"},
           w \in Admin /\ j.pc \in {"delete", "rewrite"} => j.rest \subseteq unknown',
           UNCHANGED <<issued, queue, asked>>,
           created' \subseteq Payment, \A p \in created' : issued[p] > 0,
           flag' \in SUBSET Payment, faults' \in 0 .. MaxFaults,
           unknown' = unknown,
           pending' \subseteq unknown
    PROVE  IInv'
  <1>1. /\ job' \in [Worker -> Job]
        /\ job'[w] = j
        /\ \A v \in Worker \ {w} : job'[v] = job[v]
    BY OneGoesOn DEF IInv, TypeOK
  <1>2. TypeOK'
    BY <1>1 DEF IInv, TypeOK
  <1>3. AttemptsLeft'
    BY <1>1 DEF IInv, AttemptsLeft, Worker
  <1>4. CreatedIsIssued'
    BY <1>1 DEF IInv, CreatedIsIssued
  <1>5. ListedIsUnknown'
    BY <1>1 DEF IInv, ListedIsUnknown, WithEntry, Worker
  <1>6. OneClaimEach'
    <2>1. ASSUME NEW p \in Payment \ unknown', NEW v \in Worker, Live(v, p)'
          PROVE  Live(v, p)
      BY <2>1, <1>1 DEF Live
    <2> QED
      BY <2>1, QuietClaims DEF IInv
  <1> QED
    BY <1>2, <1>3, <1>4, <1>5, <1>6 DEF IInv

-----------------------------------------------------------------------------
(* create_receipt                                                          *)

LEMMA AfterIsEntry ==
    ASSUME NEW w \in Worker
    PROVE  /\ AfterReceipt(w) \in {"unflag", "read", "done"}
           /\ AfterReceipt(w) = "unflag" <=> w \in Sender
           /\ AfterReceipt(w) = "read" <=> w \in Admin
           /\ AfterNothing(w) \in {"requeue", "failed"}
           /\ AfterNothing(w) = "requeue" <=> w \in Sender
  BY ConstantsAssumption DEF AfterReceipt, AfterNothing, Worker

\* "read" stands for a receipt, which the created key or a request has shown.
LEMMA HasReceipt ==
    ASSUME IInv, NEW w \in Worker, Goto(w, AfterReceipt(w)),
           job[w].pc \in {"look", "mark"}, issued[job[w].e.p] > 0,
           UNCHANGED <<issued, queue, asked, flag, pending, unknown>>,
           created' \in {created, created \cup {job[w].e.p}},
           faults' \in 0 .. MaxFaults
    PROVE  IInv'
  <1>a. job[w].pc \in WithEntry
    BY DEF WithEntry
  <1>b. /\ AfterReceipt(w) \in WithEntry
        /\ AfterReceipt(w) \in {"unflag", "read", "done"}
        /\ w \in Sender => AfterReceipt(w) = "unflag"
    BY AfterIsEntry DEF WithEntry
  <1>1. /\ job' \in [Worker -> Job]
        /\ job'[w].pc = AfterReceipt(w) /\ job'[w].e = job[w].e /\ job[w].e \in Entry
        /\ \A v \in Worker \ {w} : job'[v] = job[v]
    BY <1>a, <1>b, EntryGoesOn DEF IInv, TypeOK
  <1>2. TypeOK'
    BY <1>1 DEF IInv, TypeOK, Entry
  <1>3. AttemptsLeft'
    BY <1>1, <1>b DEF IInv, AttemptsLeft, Worker
  <1>4. CreatedIsIssued'
    BY <1>1 DEF IInv, CreatedIsIssued
  <1>5. ListedIsUnknown'
    BY <1>1, <1>b DEF IInv, ListedIsUnknown, WithEntry, Worker
  <1>6. OneClaimEach'
    <2>1. ASSUME NEW p \in Payment \ unknown', NEW v \in Worker, Live(v, p)'
          PROVE  Live(v, p)
      BY <2>1, <1>1, <1>b DEF Live
    <2> QED
      BY <2>1, QuietClaims DEF IInv
  <1> QED
    BY <1>2, <1>3, <1>4, <1>5, <1>6 DEF IInv

LEMMA LookStep ==
    ASSUME IInv, NEW w \in Worker, Look(w)
    PROVE  IInv'
  <1>1. /\ job[w].pc = "look" /\ job[w].pc \in WithEntry /\ job[w].e \in Entry
        /\ UNCHANGED <<issued, created, flag, queue, pending, asked, unknown, faults>>
    BY Kinds DEF Look, At, WithEntry, redis, IInv, TypeOK
  <1>2. /\ pending \subseteq unknown /\ unknown \subseteq Payment
        /\ created \in SUBSET Payment /\ flag \in SUBSET Payment /\ faults \in 0 .. MaxFaults
        /\ w \in Sender => job[w].e.attempts < MaxAttempts
    BY <1>1 DEF IInv, TypeOK, ListedIsUnknown, AttemptsLeft
  <1>3. CASE job[w].e.p \in created /\ Goto(w, AfterReceipt(w))
    <2>1. issued[job[w].e.p] > 0
      BY <1>3 DEF IInv, CreatedIsIssued
    <2> QED
      BY <1>1, <1>2, <1>3, <2>1, HasReceipt
  <1>4. ASSUME NEW pc \in {"send", "lookup", "requeue", "failed"}, Goto(w, pc)
        PROVE  IInv'
    <2>1. pc \in WithEntry \ {"save", "mark", "read"}
      BY DEF WithEntry
    <2> QED
      BY <1>1, <1>2, <1>4, <2>1, MovesOn
  <1>5. \/ job[w].e.p \in created /\ Goto(w, AfterReceipt(w))
        \/ \E pc \in {"send", "lookup", "requeue", "failed"} : Goto(w, pc)
    BY AfterIsEntry DEF Look
  <1> QED
    BY <1>3, <1>4, <1>5

LEMMA Facts ==
    ASSUME IInv
    PROVE  /\ job \in [Worker -> Job] /\ issued \in [Payment -> Nat]
           /\ created \in SUBSET Payment /\ flag \in SUBSET Payment
           /\ asked \in SUBSET Payment /\ unknown \in SUBSET Payment
           /\ pending \subseteq unknown
           /\ queue \in Seq(Entry) /\ faults \in 0 .. MaxFaults
           /\ \A p \in created : issued[p] > 0
  BY DEF IInv, TypeOK, ListedIsUnknown, CreatedIsIssued

LEMMA FaultType ==
    ASSUME IInv, Fault
    PROVE  faults' \in 0 .. MaxFaults
  BY Facts, ConstantsAssumption DEF Fault

\* A receipt: the claim is used up.
LEMMA Issues ==
    ASSUME IInv, NEW w \in Worker, job[w].pc = "send", Goto(w, "mark"),
           issued' = [issued EXCEPT ![job[w].e.p] = @ + 1],
           UNCHANGED <<redis, asked, unknown, faults>>
    PROVE  IInv'
  <1>1. /\ job' \in [Worker -> Job]
        /\ job'[w].pc = "mark" /\ job'[w].e = job[w].e /\ job[w].e \in Entry
        /\ \A v \in Worker \ {w} : job'[v] = job[v]
    BY EntryGoesOn, Facts DEF WithEntry
  <1>2. job[w].e.p \in Payment
    BY <1>1 DEF Entry
  <1>3. /\ issued' \in [Payment -> Nat]
        /\ issued'[job[w].e.p] = issued[job[w].e.p] + 1
        /\ \A p \in Payment : p # job[w].e.p => issued'[p] = issued[p]
    BY <1>2, Facts
  <1>4. TypeOK'
    BY <1>1, <1>3 DEF IInv, TypeOK, redis
  <1>5. AttemptsLeft'
    BY <1>1 DEF IInv, AttemptsLeft, Worker
  <1>6. CreatedIsIssued'
    <2>1. \A p \in Payment : issued[p] > 0 => issued'[p] > 0
      BY <1>3, Facts
    <2>2. \A v \in Worker : job[v].pc \in {"mark", "read"} => job[v].e.p \in Payment
      BY Kinds, Facts DEF WithEntry, Entry
    <2>3. issued'[job[w].e.p] > 0
      BY <1>2, <1>3, Facts
    <2> QED
      BY <2>1, <2>2, <2>3, <1>1, Facts DEF IInv, CreatedIsIssued, redis
  <1>7. ListedIsUnknown'
    BY <1>1 DEF IInv, ListedIsUnknown, WithEntry, Worker, redis
  <1>8. OneClaimEach'
    <2> SUFFICES ASSUME NEW p \in Payment \ unknown PROVE OneClaim(p)'
      BY DEF OneClaimEach
    <2>1. OneClaim(p)
      BY DEF IInv, OneClaimEach
    <2>2. \A v \in Worker : Live(v, p)' => Live(v, p) /\ v # w
      BY <1>1 DEF Live
    <2>3. CASE p = job[w].e.p
      <3>1. Live(w, p)
        BY <2>3 DEF Live
      <3>2. /\ \A v \in Worker : Live(v, p) => v = w
            /\ \A i \in DOMAIN queue : queue[i].p # p
            /\ p \in asked /\ issued[p] = 0
        BY <2>1, <3>1 DEF OneClaim
      <3> QED
        BY <2>2, <2>3, <3>2, <1>3 DEF OneClaim, redis
    <2>4. CASE p # job[w].e.p
      BY <2>1, <2>2, <2>4, <1>3 DEF OneClaim, redis
    <2> QED
      BY <2>3, <2>4
  <1> QED
    BY <1>4, <1>5, <1>6, <1>7, <1>8 DEF IInv

\* No answer: whether there is a receipt is not known.
LEMMA LosesAnswer ==
    ASSUME IInv, NEW w \in Worker, job[w].pc = "send", Goto(w, "save"), Fault,
           \/ issued' = [issued EXCEPT ![job[w].e.p] = @ + 1]
           \/ UNCHANGED issued,
           unknown' = unknown \cup {job[w].e.p},
           UNCHANGED <<redis, asked>>
    PROVE  IInv'
  <1>1. /\ job' \in [Worker -> Job]
        /\ job'[w].pc = "save" /\ job'[w].e = job[w].e /\ job[w].e \in Entry
        /\ \A v \in Worker \ {w} : job'[v] = job[v]
    BY EntryGoesOn, Facts DEF WithEntry
  <1>2. job[w].e.p \in Payment
    BY <1>1 DEF Entry
  <1>3. /\ issued' \in [Payment -> Nat]
        /\ issued'[job[w].e.p] \in {issued[job[w].e.p], issued[job[w].e.p] + 1}
        /\ \A p \in Payment : p # job[w].e.p => issued'[p] = issued[p]
    BY <1>2, Facts
  <1>4. TypeOK'
    BY <1>1, <1>2, <1>3, FaultType DEF IInv, TypeOK, redis
  <1>5. AttemptsLeft'
    BY <1>1 DEF IInv, AttemptsLeft, Worker
  <1>6. CreatedIsIssued'
    <2>1. \A p \in Payment : issued[p] > 0 => issued'[p] > 0
      BY <1>3, Facts
    <2>2. \A v \in Worker : job[v].pc \in {"mark", "read"} => job[v].e.p \in Payment
      BY Kinds, Facts DEF WithEntry, Entry
    <2> QED
      BY <2>1, <2>2, <1>1, Facts DEF IInv, CreatedIsIssued, redis
  <1>7. ListedIsUnknown'
    BY <1>1 DEF IInv, ListedIsUnknown, WithEntry, Worker, redis
  <1>8. OneClaimEach'
    <2> SUFFICES ASSUME NEW p \in Payment \ unknown' PROVE OneClaim(p)'
      BY DEF OneClaimEach
    <2>1. OneClaim(p) /\ p # job[w].e.p
      BY DEF IInv, OneClaimEach
    <2>2. \A v \in Worker : Live(v, p)' => Live(v, p)
      BY <1>1 DEF Live
    <2> QED
      BY <2>1, <2>2, <1>3 DEF OneClaim, redis
  <1> QED
    BY <1>4, <1>5, <1>6, <1>7, <1>8 DEF IInv

LEMMA SendStep ==
    ASSUME IInv, NEW w \in Worker, Send(w)
    PROVE  IInv'
  <1>1. job[w].pc = "send" /\ UNCHANGED <<redis, asked>>
    BY DEF Send, At
  <1>2. CASE /\ issued' = [issued EXCEPT ![job[w].e.p] = @ + 1]
             /\ Goto(w, "mark") /\ UNCHANGED <<unknown, faults>>
    BY <1>1, <1>2, Issues
  <1>3. CASE Goto(w, AfterNothing(w)) /\ UNCHANGED <<issued, unknown, faults>>
    <2>1. /\ AfterNothing(w) \in {"requeue", "failed"}
          /\ AfterNothing(w) \in WithEntry \ {"save", "mark", "read"}
          /\ job[w].pc \in WithEntry
      BY <1>1, AfterIsEntry DEF WithEntry
    <2>2. w \in Sender => job[w].e.attempts < MaxAttempts
      BY <1>1 DEF IInv, AttemptsLeft
    <2> QED
      BY <1>1, <1>3, <2>1, <2>2, Facts, MovesOn DEF redis
  <1>4. CASE /\ Fault /\ Goto(w, "save")
             /\ \/ issued' = [issued EXCEPT ![job[w].e.p] = @ + 1]
                \/ UNCHANGED issued
             /\ unknown' = unknown \cup {job[w].e.p}
    BY <1>1, <1>4, LosesAnswer
  <1> QED
    BY <1>2, <1>3, <1>4 DEF Send

LEMMA MarkStep ==
    ASSUME IInv, NEW w \in Worker, Mark(w)
    PROVE  IInv'
  <1>1. issued[job[w].e.p] > 0
    BY DEF Mark, At, IInv, CreatedIsIssued
  <1>2. faults' \in 0 .. MaxFaults
    BY Facts, FaultType DEF Mark
  <1> QED
    BY <1>1, <1>2, HasReceipt DEF Mark, At

LEMMA SaveStep ==
    ASSUME IInv, NEW w \in Worker, Save(w)
    PROVE  IInv'
  <1>1. /\ job[w].pc = "save" /\ job[w].pc \in WithEntry
        /\ job[w].e.p \in unknown
        /\ w \in Sender => job[w].e.attempts < MaxAttempts
    BY DEF Save, At, WithEntry, IInv, ListedIsUnknown, AttemptsLeft
  <1>2. pending' \subseteq unknown /\ faults' \in 0 .. MaxFaults
    BY <1>1, Facts, FaultType DEF Save
  <1>3. AfterNothing(w) \in WithEntry \ {"save", "mark", "read"}
    BY AfterIsEntry DEF WithEntry
  <1> QED
    BY <1>1, <1>2, <1>3, Facts, MovesOn DEF Save

LEMMA CreateStep ==
    ASSUME IInv, NEW w \in Worker, Create(w)
    PROVE  IInv'
  BY LookStep, SendStep, MarkStep, SaveStep DEF Create

-----------------------------------------------------------------------------
(* The handler of a payment, and _queue_receipt.                           *)

\* A worker takes up an entry that has a claim nobody else has, or is in doubt.
LEMMA TakesUp ==
    ASSUME IInv, NEW w \in Worker, NEW e \in Entry, Become(w, [pc |-> "look", e |-> e]),
           w \in Sender => e.attempts < MaxAttempts,
           w \in Admin => e.p \in unknown,
           asked' \in {asked, asked \cup {e.p}},
           e.p \notin unknown =>
               /\ e.p \in asked'
               /\ \A v \in Worker : ~Live(v, e.p)
               /\ \A i \in DOMAIN queue : queue[i].p # e.p
               /\ issued[e.p] = 0,
           UNCHANGED <<issued, redis, unknown, faults>>
    PROVE  IInv'
  <1>1. /\ job' \in [Worker -> Job]
        /\ job'[w].pc = "look" /\ job'[w].e = e
        /\ \A v \in Worker \ {w} : job'[v] = job[v]
    <2>1. [pc |-> "look", e |-> e] \in Job
      BY DEF Job
    <2> QED
      BY <2>1, OneGoesOn, Facts
  <1>2. e.p \in Payment
    BY DEF Entry
  <1>3. TypeOK'
    BY <1>1, <1>2 DEF IInv, TypeOK, redis
  <1>4. AttemptsLeft'
    BY <1>1 DEF IInv, AttemptsLeft, Worker
  <1>5. CreatedIsIssued'
    BY <1>1 DEF IInv, CreatedIsIssued, redis
  <1>6. ListedIsUnknown'
    BY <1>1 DEF IInv, ListedIsUnknown, WithEntry, Worker, redis
  <1>7. OneClaimEach'
    <2> SUFFICES ASSUME NEW p \in Payment \ unknown PROVE OneClaim(p)'
      BY DEF OneClaimEach
    <2>1. OneClaim(p)
      BY DEF IInv, OneClaimEach
    <2>2. \A v \in Worker \ {w} : Live(v, p)' => Live(v, p)
      BY <1>1 DEF Live
    <2>3. Live(w, p)' => p = e.p
      BY <1>1 DEF Live
    <2> QED
      BY <2>1, <2>2, <2>3 DEF OneClaim, redis
  <1> QED
    BY <1>3, <1>4, <1>5, <1>6, <1>7 DEF IInv

LEMMA AskStep ==
    ASSUME IInv, NEW h \in Handler, NEW p \in Payment, Ask(h, p)
    PROVE  IInv'
  <1> DEFINE e == [p |-> p, attempts |-> 0]
  <1>1. e \in Entry /\ e.p = p
    BY ConstantsAssumption DEF Entry
  <1>2. h \in Worker /\ h \notin Sender /\ h \notin Admin
    BY ConstantsAssumption DEF Worker
  <1>3. p \notin unknown =>
            /\ \A v \in Worker : ~Live(v, p)
            /\ \A i \in DOMAIN queue : queue[i].p # p
            /\ issued[p] = 0
    <2>1. p \notin unknown => OneClaim(p)
      BY DEF IInv, OneClaimEach
    <2>2. p \notin asked /\ issued[p] \in Nat
      BY Facts DEF Ask
    <2> QED
      BY <2>1, <2>2 DEF OneClaim
  <1>4. Become(h, [pc |-> "look", e |-> e])
    BY DEF Ask
  <1> HIDE DEF e
  <1> QED
    BY <1>1, <1>2, <1>3, <1>4, TakesUp DEF Ask

LEMMA QueueLookStep ==
    ASSUME IInv, NEW h \in Handler, QueueLook(h)
    PROVE  IInv'
  <1>1. h \in Worker /\ h \notin Sender /\ h \notin Admin
    BY ConstantsAssumption DEF Worker
  <1>2. job[h].pc = "lookup" /\ job[h].pc \in WithEntry /\ "flag" \in WithEntry
    BY DEF QueueLook, At, WithEntry
  <1>3. Idle \in Job /\ Idle.pc = "idle"
    BY DEF Idle, Job
  <1>4. CASE Become(h, Idle)
    BY <1>1, <1>3, <1>4, Facts, LetsGo DEF QueueLook, redis
  <1>5. CASE Goto(h, "flag")
    BY <1>1, <1>2, <1>5, Facts, MovesOn DEF QueueLook, redis
  <1> QED
    BY <1>4, <1>5 DEF QueueLook

LEMMA FlagStep ==
    ASSUME IInv, NEW h \in Handler, Flag(h)
    PROVE  IInv'
  <1>1. h \in Worker /\ h \notin Sender /\ h \notin Admin
    BY ConstantsAssumption DEF Worker
  <1>2. /\ job[h].pc = "flag" /\ job[h].pc \in WithEntry /\ "push" \in WithEntry
        /\ job[h].e.p \in Payment
    BY Facts, Kinds, <1>1 DEF Flag, At, WithEntry, Entry
  <1>3. Idle \in Job /\ Idle.pc = "idle"
    BY DEF Idle, Job
  <1>4. flag' \in SUBSET Payment /\ faults' \in 0 .. MaxFaults
    BY <1>2, Facts, FaultType DEF Flag
  <1>5. CASE Become(h, Idle)
    BY <1>1, <1>3, <1>4, <1>5, Facts, LetsGo DEF Flag
  <1>6. CASE Goto(h, "push")
    BY <1>1, <1>2, <1>4, <1>6, Facts, MovesOn DEF Flag
  <1> QED
    BY <1>5, <1>6 DEF Flag

\* A worker puts its entry into the queue and keeps nothing.
LEMMA PutsInQueue ==
    ASSUME IInv, NEW w \in Worker, job[w].pc \in {"push", "requeue"}, Become(w, Idle),
           NEW x \in Entry, x.p = job[w].e.p, queue' = <<x>> \o queue,
           UNCHANGED <<issued, created, flag, pending, asked, unknown, faults>>
    PROVE  IInv'
  <1>1. /\ job' \in [Worker -> Job]
        /\ job'[w] = Idle
        /\ \A v \in Worker \ {w} : job'[v] = job[v]
    BY OneGoesOn, Facts DEF Idle, Job
  <1>2. /\ queue' \in Seq(Entry) /\ Len(queue) \in Nat
        /\ DOMAIN queue = 1 .. Len(queue) /\ DOMAIN queue' = 1 .. Len(queue) + 1
        /\ queue'[1] = x
        /\ \A i \in 2 .. Len(queue) + 1 : queue'[i] = queue[i - 1]
    BY QueueAtHead, Facts
  <1>3. TypeOK'
    BY <1>1, <1>2 DEF IInv, TypeOK
  <1>4. AttemptsLeft'
    BY <1>1 DEF IInv, AttemptsLeft, Worker, Idle
  <1>c. CreatedIsIssued'
    BY <1>1 DEF IInv, CreatedIsIssued, Idle
  <1>l. ListedIsUnknown'
    <2>1. job'[w].pc = "idle"
      BY <1>1 DEF Idle
    <2> QED
      BY <1>1, <2>1 DEF IInv, ListedIsUnknown, WithEntry, Worker
  <1>5. OneClaimEach'
    <2> SUFFICES ASSUME NEW p \in Payment \ unknown PROVE OneClaim(p)'
      BY DEF OneClaimEach
    <2>1. OneClaim(p)
      BY DEF IInv, OneClaimEach
    <2>2. \A v \in Worker : Live(v, p)' => Live(v, p) /\ v # w
      BY <1>1 DEF Live, Idle
    <2>3. \A i \in DOMAIN queue' :
              queue'[i].p = p =>
                  (i = 1 /\ p = x.p) \/ (i - 1 \in DOMAIN queue /\ queue[i - 1].p = p)
      BY <1>2
    <2>4. CASE p = x.p
      <3>1. Live(w, p)
        BY <2>4 DEF Live
      <3>2. /\ \A v \in Worker : Live(v, p) => v = w
            /\ \A i \in DOMAIN queue : queue[i].p # p
            /\ p \in asked /\ issued[p] = 0
        BY <2>1, <3>1 DEF OneClaim
      <3> QED
        BY <2>2, <2>3, <3>2 DEF OneClaim
    <2>5. CASE p # x.p
      <3>1. \A i \in DOMAIN queue' :
                queue'[i].p = p => i - 1 \in DOMAIN queue /\ queue[i - 1].p = p
        BY <2>3, <2>5
      <3>2. \A i, k \in DOMAIN queue' : queue'[i].p = p /\ queue'[k].p = p => i = k
        <4> SUFFICES ASSUME NEW i \in DOMAIN queue', NEW k \in DOMAIN queue',
                            queue'[i].p = p, queue'[k].p = p
                     PROVE  i = k
          OBVIOUS
        <4>1. i - 1 = k - 1
          BY <3>1, <2>1 DEF OneClaim
        <4> QED
          BY <4>1, <1>2
      <3> QED
        BY <2>1, <2>2, <3>1, <3>2 DEF OneClaim
    <2> QED
      BY <2>4, <2>5
  <1> QED
    BY <1>3, <1>4, <1>c, <1>l, <1>5 DEF IInv

LEMMA PushStep ==
    ASSUME IInv, NEW h \in Handler, Push(h)
    PROVE  IInv'
  <1>1. h \in Worker
    BY DEF Worker
  <1>2. /\ job[h].pc = "push" /\ job[h].e \in Entry /\ job[h].e.p \in Payment
        /\ Idle \in Job /\ Idle.pc = "idle"
    BY <1>1, Facts, Kinds DEF Push, At, WithEntry, Entry, Idle, Job
  <1>3. CASE queue' = <<job[h].e>> \o queue /\ UNCHANGED <<flag, faults>>
    BY <1>1, <1>2, <1>3, PutsInQueue DEF Push
  <1>4. CASE Fault /\ flag' \in {flag, flag \ {job[h].e.p}} /\ UNCHANGED queue
    BY <1>1, <1>2, <1>4, Facts, FaultType, LetsGo DEF Push
  <1> QED
    BY <1>3, <1>4 DEF Push

LEMMA ReturnStep ==
    ASSUME IInv, NEW w \in Worker, Return(w)
    PROVE  IInv'
  <1>1. Idle \in Job /\ Idle.pc = "idle"
    BY DEF Idle, Job
  <1> QED
    BY <1>1, Facts, LetsGo DEF Return, redis

-----------------------------------------------------------------------------
(* The passes.                                                             *)

LEMMA StartStep ==
    ASSUME IInv, NEW s \in Sender, Start(s)
    PROVE  IInv'
  <1> DEFINE j == [pc |-> "pop"]
  <1>1. j \in Job /\ j.pc = "pop" /\ s \in Worker
    BY DEF Job, Worker
  <1>2. Become(s, j)
    BY DEF Start
  <1> HIDE DEF j
  <1> QED
    BY <1>1, <1>2, Facts, LetsGo DEF Start, redis

\* rpop: the claim passes from the queue to the worker.
LEMMA TakesFromQueue ==
    ASSUME IInv, NEW s \in Sender, queue # <<>>, queue' = Front(queue),
           Become(s, [pc |-> IF Exhausted(Last(queue)) THEN "unflag" ELSE "look",
                      e |-> Last(queue)]),
           UNCHANGED <<issued, created, flag, pending, asked, unknown, faults>>
    PROVE  IInv'
  <1> DEFINE x == Last(queue)
             n == Len(queue)
  <1>1. /\ queue' \in Seq(Entry) /\ n \in Nat \ {0}
        /\ DOMAIN queue = 1 .. n /\ DOMAIN queue' = 1 .. n - 1
        /\ \A i \in 1 .. n - 1 : queue'[i] = queue[i]
        /\ x = queue[n] /\ x \in Entry
    BY QueueWithoutLast, Facts
  <1>2. s \in Worker /\ s \notin Admin
    BY ConstantsAssumption DEF Worker
  <1>3. PICK pc \in {"unflag", "look"} :
            /\ Become(s, [pc |-> pc, e |-> x])
            /\ pc = "look" => ~Exhausted(x)
    OBVIOUS
  <1> HIDE DEF x, n
  <1>4. [pc |-> pc, e |-> x] \in Job
    BY <1>1 DEF Job
  <1>5. /\ job' \in [Worker -> Job]
        /\ job'[s].pc = pc /\ job'[s].e = x
        /\ \A v \in Worker \ {s} : job'[v] = job[v]
    BY <1>2, <1>3, <1>4, OneGoesOn, Facts
  <1>6. TypeOK'
    BY <1>1, <1>5 DEF IInv, TypeOK
  <1>7. AttemptsLeft'
    <2>1. pc = "look" => x.attempts < MaxAttempts
      BY <1>1, <1>3, ConstantsAssumption DEF Exhausted, Entry
    <2> QED
      BY <2>1, <1>2, <1>5 DEF IInv, AttemptsLeft, Worker
  <1>8. CreatedIsIssued'
    BY <1>5 DEF IInv, CreatedIsIssued
  <1>9. ListedIsUnknown'
    BY <1>2, <1>5 DEF IInv, ListedIsUnknown, WithEntry, Worker
  <1>10. OneClaimEach'
    <2> SUFFICES ASSUME NEW p \in Payment \ unknown PROVE OneClaim(p)'
      BY DEF OneClaimEach
    <2>1. OneClaim(p)
      BY DEF IInv, OneClaimEach
    <2>2. \A v \in Worker \ {s} : Live(v, p)' => Live(v, p)
      BY <1>5 DEF Live
    <2>3. Live(s, p)' => p = x.p
      BY <1>5 DEF Live
    <2>4. \A i \in DOMAIN queue' : i \in DOMAIN queue /\ i # n /\ queue'[i] = queue[i]
      BY <1>1
    <2>5. n \in DOMAIN queue /\ queue[n].p = x.p
      BY <1>1
    <2> QED
      BY <2>1, <2>2, <2>3, <2>4, <2>5 DEF OneClaim
  <1> QED
    BY <1>6, <1>7, <1>8, <1>9, <1>10 DEF IInv

LEMMA PopStep ==
    ASSUME IInv, NEW s \in Sender, Pop(s)
    PROVE  IInv'
  <1>1. s \in Worker /\ Idle \in Job /\ Idle.pc = "idle"
    BY DEF Worker, Idle, Job
  <1>2. CASE Become(s, Idle) /\ UNCHANGED queue
    BY <1>1, <1>2, Facts, LetsGo DEF Pop
  <1>3. CASE queue # <<>> /\ ~(Become(s, Idle) /\ UNCHANGED queue)
    BY <1>3, TakesFromQueue DEF Pop, Taken
  <1> QED
    BY <1>2, <1>3 DEF Pop

LEMMA UnflagStep ==
    ASSUME IInv, NEW s \in Sender, Unflag(s)
    PROVE  IInv'
  <1> DEFINE j == [pc |-> "pop"]
  <1>1. j \in Job /\ j.pc = "pop" /\ s \in Worker
    BY DEF Job, Worker
  <1>2. Become(s, j)
    BY DEF Unflag
  <1>3. flag' \in SUBSET Payment /\ faults' \in 0 .. MaxFaults
    BY Facts, FaultType DEF Unflag
  <1> HIDE DEF j
  <1> QED
    BY <1>1, <1>2, <1>3, Facts, LetsGo DEF Unflag

LEMMA RequeueStep ==
    ASSUME IInv, NEW s \in Sender, Requeue(s)
    PROVE  IInv'
  <1>1. s \in Worker /\ Idle \in Job /\ Idle.pc = "idle"
    BY DEF Worker, Idle, Job
  <1>2. /\ job[s].pc = "requeue" /\ job[s].e \in Entry
        /\ job[s].e.attempts < MaxAttempts
    BY <1>1, Facts, Kinds DEF Requeue, At, WithEntry, IInv, AttemptsLeft
  <1>3. Again(job[s].e) \in Entry /\ Again(job[s].e).p = job[s].e.p
    BY <1>2, ConstantsAssumption DEF Again, Entry
  <1>4. CASE queue' = <<Again(job[s].e)>> \o queue /\ UNCHANGED faults
    BY <1>1, <1>2, <1>3, <1>4, PutsInQueue DEF Requeue
  <1>5. CASE Fault /\ UNCHANGED queue
    BY <1>1, <1>5, Facts, FaultType, LetsGo DEF Requeue
  <1> QED
    BY <1>4, <1>5 DEF Requeue

-----------------------------------------------------------------------------
(* The administrator's list.                                               *)

LEMMA RetryStep ==
    ASSUME IInv, NEW a \in Admin, NEW p \in Payment, Retry(a, p)
    PROVE  IInv'
  <1> DEFINE e == [p |-> p, attempts |-> 0]
  <1>1. e \in Entry /\ e.p = p
    BY ConstantsAssumption DEF Entry
  <1>2. a \in Worker /\ a \notin Sender
    BY ConstantsAssumption DEF Worker
  <1>3. p \in unknown
    BY Facts DEF Retry
  <1>4. Become(a, [pc |-> "look", e |-> e]) /\ UNCHANGED <<issued, redis, unknown, faults>>
    BY DEF Retry
  <1>5. asked' = asked
    BY DEF Retry
  <1> HIDE DEF e
  <1> QED
    BY <1>1, <1>2, <1>3, <1>4, <1>5, TakesUp

LEMMA ReadBackStep ==
    ASSUME IInv, NEW a \in Admin, ReadBack(a)
    PROVE  IInv'
  <1>1. a \in Worker
    BY DEF Worker
  <1>2. job[a].pc = "read" /\ job[a].e.p \in Payment /\ issued[job[a].e.p] > 0
    BY <1>1, Facts, Kinds DEF ReadBack, At, WithEntry, Entry, IInv, CreatedIsIssued
  <1> DEFINE j == [pc |-> "delete", rest |-> Without(job[a].e.p)]
  <1>3. /\ j \in Job /\ j.pc = "delete" /\ j.rest \subseteq unknown
        /\ Idle \in Job /\ Idle.pc = "idle"
    BY Facts DEF Job, Without, Idle
  <1>4. CASE Become(a, j) /\ created' = created \cup {job[a].e.p}
    <2> HIDE DEF j
    <2> QED
      BY <1>1, <1>2, <1>3, <1>4, Facts, LetsGo DEF ReadBack
  <1>5. CASE Become(a, Idle) /\ UNCHANGED created
    BY <1>1, <1>3, <1>5, Facts, LetsGo DEF ReadBack
  <1> QED
    BY <1>4, <1>5 DEF ReadBack

LEMMA VerifiedStep ==
    ASSUME IInv, NEW a \in Admin, NEW p \in Payment, Verified(a, p)
    PROVE  IInv'
  <1> DEFINE j == [pc |-> "delete", rest |-> Without(p)]
  <1>1. a \in Worker /\ j \in Job /\ j.pc = "delete" /\ j.rest \subseteq unknown
    BY Facts DEF Worker, Job, Without
  <1>2. Become(a, j)
    BY DEF Verified
  <1> HIDE DEF j
  <1> QED
    BY <1>1, <1>2, Facts, LetsGo DEF Verified, redis

LEMMA DeleteStep ==
    ASSUME IInv, NEW a \in Admin, Delete(a)
    PROVE  IInv'
  <1> DEFINE j == [job[a] EXCEPT !.pc = "rewrite"]
  <1>1. a \in Worker /\ job[a].pc = "delete" /\ job[a] \in Job
    BY Facts DEF Worker, Delete, At
  <1>2. j \in Job /\ j.pc = "rewrite" /\ j.rest \subseteq unknown
    BY <1>1 DEF Job, Idle, IInv, ListedIsUnknown
  <1>3. Become(a, j)
    BY DEF Delete, Goto
  <1> HIDE DEF j
  <1> QED
    BY <1>1, <1>2, <1>3, Facts, LetsGo DEF Delete

LEMMA RewriteStep ==
    ASSUME IInv, NEW a \in Admin, Rewrite(a)
    PROVE  IInv'
  <1>1. a \in Worker /\ job[a].pc = "rewrite" /\ job[a] \in Job /\ job[a].rest \subseteq unknown
    BY Facts DEF Worker, Rewrite, At, IInv, ListedIsUnknown
  <1>2. CASE Become(a, Idle) /\ UNCHANGED pending
    <2>1. Idle \in Job /\ Idle.pc = "idle"
      BY DEF Idle, Job
    <2> QED
      BY <1>1, <1>2, <2>1, Facts, LetsGo DEF Rewrite
  <1>3. ASSUME NEW q \in job[a].rest, pending' = pending \cup {q},
               Become(a, [job[a] EXCEPT !.rest = @ \ {q}])
        PROVE  IInv'
    <2> DEFINE j == [job[a] EXCEPT !.rest = @ \ {q}]
    <2>1. j \in Job /\ j.pc = "rewrite" /\ j.rest \subseteq unknown
      BY <1>1 DEF Job, Idle
    <2>2. Become(a, j) /\ pending' \subseteq unknown
      BY <1>1, <1>3, Facts
    <2> HIDE DEF j
    <2> QED
      BY <1>1, <2>1, <2>2, Facts, LetsGo DEF Rewrite
  <1> QED
    BY <1>2, <1>3 DEF Rewrite

LEMMA ClearStep ==
    ASSUME IInv, NEW a \in Admin, Clear(a)
    PROVE  IInv'
  <1>1. OneClaimEach'
    BY QuietClaims DEF IInv, Clear, Live
  <1>2. TypeOK' /\ AttemptsLeft' /\ CreatedIsIssued'
    BY DEF IInv, TypeOK, AttemptsLeft, CreatedIsIssued, Clear
  <1>3. ListedIsUnknown'
    BY DEF IInv, ListedIsUnknown, Clear
  <1> QED
    BY <1>1, <1>2, <1>3 DEF IInv

-----------------------------------------------------------------------------
(* The process dies, and the whole.                                        *)

LEMMA CrashStep ==
    ASSUME IInv, Crash
    PROVE  IInv'
  <1>1. job' = [w \in Worker |-> Idle] /\ UNCHANGED <<issued, redis, asked>>
    BY DEF Crash
  <1>2. unknown' \subseteq Payment /\ unknown \subseteq unknown'
    <2>1. \A w \in Worker : job[w].pc = "mark" => job[w].e.p \in Payment
      BY Facts, Kinds DEF WithEntry, Entry
    <2> QED
      BY <2>1, Facts DEF Crash, At
  <1>3. faults' \in 0 .. MaxFaults
    BY FaultType DEF Crash
  <1>4. TypeOK'
    BY <1>1, <1>2, <1>3 DEF IInv, TypeOK, redis, Idle, Job
  <1>5. AttemptsLeft'
    BY <1>1 DEF AttemptsLeft, Idle, Worker
  <1>6. CreatedIsIssued'
    BY <1>1 DEF IInv, CreatedIsIssued, Idle, redis
  <1>7. ListedIsUnknown'
    BY <1>1, <1>2 DEF IInv, ListedIsUnknown, Idle, WithEntry, Worker, redis
  <1>8. OneClaimEach'
    BY <1>1, <1>2, QuietClaims DEF IInv, Live, Idle, redis
  <1> QED
    BY <1>4, <1>5, <1>6, <1>7, <1>8 DEF IInv

LEMMA Initially == Init => IInv
  <1> SUFFICES ASSUME Init PROVE IInv
    OBVIOUS
  <1>1. TypeOK
    BY ConstantsAssumption DEF Init, TypeOK, Idle, Job
  <1>2. AttemptsLeft /\ CreatedIsIssued /\ ListedIsUnknown
    BY DEF Init, AttemptsLeft, CreatedIsIssued, ListedIsUnknown, Idle, Worker, WithEntry
  <1>3. OneClaimEach
    BY DEF Init, OneClaimEach, OneClaim, Live, Idle
  <1> QED
    BY <1>1, <1>2, <1>3 DEF IInv

LEMMA Inductive == IInv /\ [Next]_vars => IInv'
  <1> SUFFICES ASSUME IInv, [Next]_vars PROVE IInv'
    OBVIOUS
  <1>1. ASSUME NEW h \in Handler,
               \/ \E p \in Payment : Ask(h, p)
               \/ Create(h) \/ QueueLook(h) \/ Flag(h) \/ Push(h) \/ Return(h)
        PROVE  IInv'
    <2>1. h \in Worker
      BY DEF Worker
    <2> QED
      BY <1>1, <2>1, AskStep, CreateStep, QueueLookStep, FlagStep, PushStep, ReturnStep
  <1>2. ASSUME NEW s \in Sender, SenderStep(s)
        PROVE  IInv'
    <2>1. s \in Worker
      BY DEF Worker
    <2> QED
      BY <1>2, <2>1, StartStep, PopStep, CreateStep, UnflagStep, RequeueStep DEF SenderStep
  <1>3. ASSUME NEW a \in Admin,
               \/ \E p \in Payment : Retry(a, p) \/ Verified(a, p)
               \/ Create(a) \/ Return(a) \/ ReadBack(a) \/ Delete(a)
               \/ Rewrite(a) \/ Clear(a)
        PROVE  IInv'
    <2>1. a \in Worker
      BY DEF Worker
    <2> QED
      BY <1>3, <2>1, RetryStep, VerifiedStep, CreateStep, ReturnStep, ReadBackStep,
         DeleteStep, RewriteStep, ClearStep
  <1>4. CASE Crash
    BY <1>4, CrashStep
  <1>5. CASE UNCHANGED vars
    BY <1>5 DEF vars, IInv, TypeOK, AttemptsLeft, CreatedIsIssued, ListedIsUnknown,
                OneClaimEach, OneClaim, Live
  <1> QED
    BY <1>1, <1>2, <1>3, <1>4, <1>5 DEF Next

LEMMA Invariance == Spec => []IInv
  BY Initially, Inductive, PTL DEF Spec

-----------------------------------------------------------------------------
(* A queued entry.                                                         *)

InPass == {"look", "send", "mark", "save", "requeue"}

\* A step of a worker that does not hold p's entry leaves it queued.
LEMMA NotItsEntry ==
    ASSUME IInv, NEW w \in Worker, NEW j, Become(w, j), UNCHANGED queue,
           NEW p \in Payment, ~Held(w, p), Queued(p)
    PROVE  Queued(p)'
  <1>1. \A v \in Worker \ {w} : job'[v] = job[v]
    BY Facts DEF Become
  <1> QED
    BY <1>1 DEF Queued, Held, Worker

\* A pass that goes on with an entry has it still.
LEMMA StillHeld ==
    ASSUME IInv, NEW s \in Sender, NEW p \in Payment, Held(s, p),
           NEW pc \in InPass, Goto(s, pc)
    PROVE  Queued(p)'
  <1>1. s \in Worker /\ job[s].pc \in WithEntry /\ job[s].e.p = p
    BY DEF Worker, Held, WithEntry
  <1>2. job'[s].pc = pc /\ job'[s].e = job[s].e
    BY <1>1, EntryGoesOn, Facts DEF WithEntry, InPass
  <1> QED
    BY <1>1, <1>2 DEF Queued, Held, InPass

LEMMA QueuedInCreate ==
    ASSUME IInv, NEW w \in Worker, Create(w), NEW p \in Payment, Queued(p), ~Queued(p)'
    PROVE  issued'[p] > 0
  <1>1. PICK pc : Goto(w, pc)
    BY DEF Create, Look, Send, Mark, Save
  <1>2. UNCHANGED queue /\ job[w].pc \in {"look", "send", "mark", "save"}
    BY DEF Create, Look, Send, Mark, Save, redis, At
  <1>3. Held(w, p)
    BY <1>1, <1>2, NotItsEntry DEF Goto
  <1>4. w \in Sender /\ job[w].e.p = p
    BY <1>2, <1>3 DEF Held
  <1>5. w \notin Handler
    BY <1>4, ConstantsAssumption
  <1>6. CASE Look(w)
    <2>1. CASE p \in created
      BY <2>1, <1>6, Facts DEF Look
    <2>2. CASE p \notin created
      BY <2>2, <1>3, <1>4, <1>5, <1>6, StillHeld DEF Look, AfterNothing, InPass
    <2> QED
      BY <2>1, <2>2
  <1>7. CASE Send(w)
    BY <1>3, <1>4, <1>7, StillHeld DEF Send, AfterNothing, InPass
  <1>8. CASE Mark(w)
    BY <1>4, <1>8 DEF Mark, At, IInv, CreatedIsIssued
  <1>9. CASE Save(w)
    BY <1>3, <1>4, <1>9, StillHeld DEF Save, AfterNothing, InPass
  <1> QED
    BY <1>6, <1>7, <1>8, <1>9 DEF Create

\* Popped: given up, or in the hands of the pass.
LEMMA QueuedInPop ==
    ASSUME IInv, NEW s \in Sender, Pop(s), NEW p \in Payment, Queued(p), ~Queued(p)'
    PROVE  GivenUp(p)'
  <1>1. s \in Worker /\ ~Held(s, p)
    BY DEF Worker, Pop, At, Held
  <1>2. \A v \in Worker \ {s} : job'[v] = job[v]
    BY Facts DEF Pop, Become
  <1>3. queue # <<>> /\ Taken
    BY <1>1, NotItsEntry DEF Pop
  <1> DEFINE n == Len(queue)
             x == Last(queue)
             pc == IF Exhausted(x) THEN "unflag" ELSE "look"
  <1>4. /\ n \in Nat \ {0} /\ DOMAIN queue = 1 .. n /\ DOMAIN queue' = 1 .. n - 1
        /\ \A i \in 1 .. n - 1 : queue'[i] = queue[i]
        /\ x = queue[n] /\ x \in Entry
    BY <1>3, QueueWithoutLast, Facts DEF Taken
  <1>5. job'[s] = [pc |-> pc, e |-> x]
    BY <1>1, <1>3, Facts DEF Pop, Become
  <1>6. \A v \in Handler \cup Sender : Held(v, p) => Held(v, p)'
    BY <1>1, <1>2 DEF Held, Worker
  <1> HIDE DEF n, x
  <1>7. x.p = p
    <2>1. PICK i \in DOMAIN queue : queue[i].p = p
      BY <1>6 DEF Queued
    <2>2. i \notin DOMAIN queue'
      BY <2>1, <1>4 DEF Queued
    <2> QED
      BY <2>1, <2>2, <1>4
  <1>8. Exhausted(x)
    BY <1>5, <1>7 DEF Queued, Held
  <1>9. x = [p |-> p, attempts |-> MaxAttempts]
    BY <1>4, <1>7, <1>8, ConstantsAssumption DEF Exhausted, Entry
  <1> QED
    BY <1>5, <1>8, <1>9 DEF GivenUp

\* An entry that is pushed is in the queue.
LEMMA QueuedInPush ==
    ASSUME IInv, NEW w \in Worker, NEW x \in Entry, queue' = <<x>> \o queue,
           Become(w, Idle), NEW p \in Payment, Held(w, p) => x.p = p, Queued(p)
    PROVE  Queued(p)'
  <1>1. /\ Len(queue) \in Nat
        /\ DOMAIN queue = 1 .. Len(queue) /\ DOMAIN queue' = 1 .. Len(queue) + 1
        /\ queue'[1] = x
        /\ \A i \in 2 .. Len(queue) + 1 : queue'[i] = queue[i - 1]
    BY QueueAtHead, Facts
  <1>2. CASE \E i \in DOMAIN queue : queue[i].p = p
    <2>1. PICK i \in DOMAIN queue : queue[i].p = p
      BY <1>2
    <2>2. i + 1 \in DOMAIN queue' /\ queue'[i + 1] = queue[i]
      BY <1>1
    <2> QED
      BY <2>1, <2>2 DEF Queued
  <1>3. CASE Held(w, p)
    BY <1>1, <1>3 DEF Queued
  <1>4. CASE \E v \in (Handler \cup Sender) \ {w} : Held(v, p)
    BY <1>4, Facts DEF Queued, Held, Become, Worker
  <1> QED
    BY <1>2, <1>3, <1>4 DEF Queued

LEMMA LeavesQueue ==
    ASSUME IInv, Next, NEW p \in Payment, Queued(p), ~Queued(p)', UNCHANGED faults
    PROVE  issued'[p] > 0 \/ GivenUp(p)'
  <1>f. ~Fault
    BY Facts, ConstantsAssumption DEF Fault
  <1>1. ASSUME NEW h \in Handler, NEW q \in Payment, Ask(h, q)
        PROVE  FALSE
    BY <1>1, NotItsEntry DEF Ask, Held, Idle, Worker, redis
  <1>2. ASSUME NEW w \in Worker, Create(w)
        PROVE  issued'[p] > 0
    BY <1>2, QueuedInCreate
  <1>3. ASSUME NEW h \in Handler, QueueLook(h)
        PROVE  FALSE
    BY <1>3, NotItsEntry, ConstantsAssumption DEF QueueLook, Goto, At, Held, Worker, redis
  <1>4. ASSUME NEW h \in Handler, Flag(h)
        PROVE  FALSE
    BY <1>4, NotItsEntry, ConstantsAssumption DEF Flag, Goto, At, Held, Worker
  <1>5. ASSUME NEW h \in Handler, Push(h)
        PROVE  FALSE
    <2>1. h \in Worker /\ job[h].pc \in WithEntry /\ job[h].e \in Entry
      BY <1>5, Facts, Kinds DEF Push, At, WithEntry, Worker
    <2> QED
      BY <1>5, <1>f, <2>1, QueuedInPush DEF Push, Held
  <1>6. ASSUME NEW w \in Worker, Return(w)
        PROVE  FALSE
    BY <1>6, NotItsEntry DEF Return, At, Held, redis
  <1>7. ASSUME NEW s \in Sender, Start(s) \/ Unflag(s)
        PROVE  FALSE
    <2>1. s \in Worker /\ ~Held(s, p) /\ UNCHANGED queue
      BY <1>7 DEF Start, Unflag, At, Held, Idle, Worker, redis
    <2> QED
      BY <1>7, <2>1, NotItsEntry DEF Start, Unflag
  <1>8. ASSUME NEW s \in Sender, Pop(s)
        PROVE  GivenUp(p)'
    BY <1>8, QueuedInPop
  <1>9. ASSUME NEW s \in Sender, Requeue(s)
        PROVE  FALSE
    <2>1. /\ s \in Worker /\ job[s].pc \in WithEntry /\ job[s].e \in Entry
          /\ job[s].e.attempts < MaxAttempts
      BY <1>9, Facts, Kinds DEF Requeue, At, WithEntry, Worker, IInv, AttemptsLeft
    <2>2. Again(job[s].e) \in Entry /\ Again(job[s].e).p = job[s].e.p
      BY <2>1, ConstantsAssumption DEF Again, Entry
    <2> QED
      BY <1>9, <1>f, <2>1, <2>2, QueuedInPush DEF Requeue, Held
  <1>10. ASSUME NEW a \in Admin, UNCHANGED queue, \E j : Become(a, j)
         PROVE  FALSE
    <2>1. a \in Worker /\ a \notin Handler \cup Sender
      BY ConstantsAssumption DEF Worker
    <2>2. \A v \in Worker \ {a} : job'[v] = job[v]
      BY <1>10, Facts DEF Become
    <2> QED
      BY <1>10, <2>1, <2>2 DEF Queued, Held, Worker
  <1>11. ASSUME NEW a \in Admin,
                \/ \E q \in Payment : Retry(a, q) \/ Verified(a, q)
                \/ ReadBack(a) \/ Delete(a) \/ Rewrite(a)
         PROVE  FALSE
    BY <1>10, <1>11 DEF Retry, Verified, ReadBack, Delete, Rewrite, Goto, redis
  <1>12. ASSUME NEW a \in Admin, Clear(a)
         PROVE  FALSE
    BY <1>12 DEF Clear, Queued, Held
  <1>13. ~Crash
    BY <1>f DEF Crash
  <1> QED
    BY <1>1, <1>2, <1>3, <1>4, <1>5, <1>6, <1>7, <1>8, <1>9, <1>11, <1>12, <1>13
    DEF Next, SenderStep, Worker

-----------------------------------------------------------------------------
(* The theorems.                                                           *)

\* The variables keep their types: no entry is tried more than MaxAttempts times
\* (nalogo_queue_service.py looks at the count of an entry as it pops it).
THEOREM TypeCorrect == Spec => []TypeOK
  <1>1. IInv => TypeOK
    BY DEF IInv
  <1> QED
    BY <1>1, Invariance, PTL

\* A second receipt for a payment takes a request whose outcome the bot never
\* learned: neither the handler and the queue, nor the loop and the button, nor an
\* administrator's retry ask twice otherwise (create_receipt, _queue_receipt,
\* _process_pending_receipts, retry_pending_receipt).
THEOREM NoSecondReceipt == Spec => []SecondNeedsDoubt
  <1>1. IInv => SecondNeedsDoubt
    BY DEF IInv, OneClaimEach, OneClaim, SecondNeedsDoubt, TypeOK
  <1> QED
    BY <1>1, Invariance, PTL

\* A queued receipt is not forgotten: it leaves the queue issued, or given up after
\* MaxAttempts attempts, unless the process dies or an error of Redis is swallowed
\* (_process_pending_receipts pops an entry and puts it back).
THEOREM QueuedIsNotForgotten == Spec => QueuedIsKept
  <1>1. ASSUME IInv, [Next]_vars
        PROVE  [\A p \in Payment :
                   Queued(p) /\ ~Queued(p)'
                     => issued'[p] > 0 \/ GivenUp(p)' \/ faults' # faults]_vars
    BY <1>1, LeavesQueue
  <1> QED
    BY <1>1, Invariance, PTL DEF Spec, QueuedIsKept

=============================================================================
