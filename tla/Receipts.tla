------------------------------ MODULE Receipts ------------------------------
(***************************************************************************)
(* Fiscal receipts of the tax service (NaloGO).  When a payment has been   *)
(* credited its handler asks for a receipt.  If the service does not let   *)
(* the bot in, the request goes to a queue in Redis which a loop, and an   *)
(* administrator's button, work off; if the answer to the request itself   *)
(* is lost, the receipt may exist and is listed for an administrator to    *)
(* verify.  Nothing is locked: Redis keys and the tasks of one process.    *)
(*                                                                         *)
(* A step is what happens between two awaits on Redis or on the service;   *)
(* logging in touches no shared state and is part of the step before it.   *)
(***************************************************************************)
EXTENDS Integers, Sequences, SequencesExt

CONSTANTS
    Payment,        \* credited payments
    Handler,        \* tasks that have credited a payment
    Loop, Forced,    \* the queue's loop; the administrator's "send now"
    Admin,          \* administrators who verify receipts
    MaxAttempts,    \* NALOGO_QUEUE_MAX_ATTEMPTS
    MaxFaults       \* bound: lost answers, Redis errors and crashes

Sender == {Loop, Forced}
Worker == Handler \cup Sender \cup Admin

ASSUME ConstantsAssumption ==
    /\ Loop # Forced
    /\ Handler \cap Sender = {}
    /\ Admin \cap (Handler \cup Sender) = {}
    /\ MaxAttempts \in Nat
    /\ MaxFaults \in Nat

VARIABLES
    issued,     \* [Payment -> Nat], receipts the tax service has issued
    created,    \* keys nalogo:created
    flag,       \* keys nalogo:queued
    queue,      \* nalogo:receipt_queue, pushed at its head, popped at its end
    pending,    \* the receipts to verify, a list that is searched by payment
    asked,      \* payments whose handler has come to the receipt
    unknown,    \* payments with a request whose outcome the bot did not learn
    job,        \* [Worker -> Job]
    faults

vars == <<issued, created, flag, queue, pending, asked, unknown, job, faults>>
redis == <<created, flag, queue, pending>>

Entry == [p : Payment, attempts : 0 .. MaxAttempts]

Idle == [pc |-> "idle"]

\* rest: the entries an administrator's task is going to write back.
Job == {Idle} \cup [pc : {"pop"}]
    \cup [pc : {"look", "send", "mark", "save", "done", "failed",
                "requeue", "lookup", "flag", "push", "read"}, e : Entry]
    \cup [pc : {"unflag"}, e : Entry]
    \cup [pc : {"delete", "rewrite"}, rest : SUBSET Payment]

TypeOK ==
    /\ issued \in [Payment -> Nat]
    /\ created \subseteq Payment
    /\ flag \subseteq Payment
    /\ queue \in Seq(Entry)
    /\ pending \subseteq Payment
    /\ asked \subseteq Payment
    /\ unknown \subseteq Payment
    /\ job \in [Worker -> Job]
    /\ faults \in 0 .. MaxFaults

Init ==
    /\ issued = [p \in Payment |-> 0]
    /\ created = {} /\ flag = {}
    /\ queue = <<>> /\ pending = {}
    /\ asked = {} /\ unknown = {}
    /\ job = [w \in Worker |-> Idle]
    /\ faults = 0

-----------------------------------------------------------------------------
(* What a worker is doing.                                                 *)

Become(w, j) == job' = [job EXCEPT ![w] = j]

At(w, pc) == job[w].pc = pc

Goto(w, pc) == Become(w, [job[w] EXCEPT !.pc = pc])

Fault == faults < MaxFaults /\ faults' = faults + 1

\* What create_receipt returns to, with a receipt or without one.
AfterReceipt(w) == IF w \in Sender THEN "unflag"
                   ELSE IF w \in Admin THEN "read" ELSE "done"

\* Mutant: a failed attempt of the queue ends like a success.
AfterNothing_Dropped(w) == IF w \in Sender THEN "unflag" ELSE "failed"

AfterNothing(w) == IF w \in Sender THEN "requeue" ELSE "failed"

-----------------------------------------------------------------------------
(* create_receipt                                                          *)

\* The created key is looked up; then the bot logs in.  A handler that cannot
\* log in queues the receipt; the others were told not to.
Look(w) ==
    /\ At(w, "look")
    /\ \/ /\ job[w].e.p \in created
          /\ Goto(w, AfterReceipt(w))
       \/ /\ job[w].e.p \notin created
          /\ \/ Goto(w, "send")
             \/ Goto(w, IF w \in Handler THEN "lookup" ELSE AfterNothing(w))
    /\ UNCHANGED <<issued, redis, asked, unknown, faults>>

\* The request: a receipt; a refusal; or no answer, and nobody knows.
Send(w) ==
    LET p == job[w].e.p IN
    /\ At(w, "send")
    /\ \/ /\ issued' = [issued EXCEPT ![p] = @ + 1]
          /\ Goto(w, "mark")
          /\ UNCHANGED <<unknown, faults>>
       \/ /\ Goto(w, AfterNothing(w))
          /\ UNCHANGED <<issued, unknown, faults>>
       \/ /\ Fault
          /\ \/ issued' = [issued EXCEPT ![p] = @ + 1]
             \/ UNCHANGED issued
          /\ unknown' = unknown \cup {p}
          /\ Goto(w, "save")
    /\ UNCHANGED <<redis, asked>>

\* The created key is set.  An error of Redis is swallowed.
Mark(w) ==
    /\ At(w, "mark")
    /\ \/ created' = created \cup {job[w].e.p} /\ UNCHANGED faults
       \/ Fault /\ UNCHANGED created
    /\ Goto(w, AfterReceipt(w))
    /\ UNCHANGED <<issued, flag, queue, pending, asked, unknown>>

\* _save_pending_verification
Save(w) ==
    /\ At(w, "save")
    /\ \/ pending' = pending \cup {job[w].e.p} /\ UNCHANGED faults
       \/ Fault /\ UNCHANGED pending
    /\ Goto(w, AfterNothing(w))
    /\ UNCHANGED <<issued, created, flag, queue, asked, unknown>>

-----------------------------------------------------------------------------
(* The handler of a payment, and _queue_receipt.                           *)

\* A payment is credited once, and its receipt asked for once after that.
Ask(h, p) ==
    /\ job[h] = Idle
    /\ p \notin asked
    /\ asked' = asked \cup {p}
    /\ Become(h, [pc |-> "look", e |-> [p |-> p, attempts |-> 0]])
    /\ UNCHANGED <<issued, redis, unknown, faults>>

\* A second look at the created key.
QueueLook(h) ==
    /\ At(h, "lookup")
    /\ IF job[h].e.p \in created THEN Become(h, Idle) ELSE Goto(h, "flag")
    /\ UNCHANGED <<issued, redis, asked, unknown, faults>>

\* SET NX of the queued key; an error reads as "already there".
Flag(h) ==
    /\ At(h, "flag")
    /\ \/ /\ job[h].e.p \notin flag
          /\ flag' = flag \cup {job[h].e.p}
          /\ Goto(h, "push")
          /\ UNCHANGED faults
       \/ /\ job[h].e.p \in flag
          /\ Become(h, Idle)
          /\ UNCHANGED <<flag, faults>>
       \/ /\ Fault
          /\ Become(h, Idle)
          /\ UNCHANGED flag
    /\ UNCHANGED <<issued, created, queue, pending, asked, unknown>>

\* The push; if it fails the flag is taken back, if that works.
Push(h) ==
    /\ At(h, "push")
    /\ \/ queue' = <<job[h].e>> \o queue /\ UNCHANGED <<flag, faults>>
       \/ /\ Fault
          /\ flag' \in {flag, flag \ {job[h].e.p}}
          /\ UNCHANGED queue
    /\ Become(h, Idle)
    /\ UNCHANGED <<issued, created, pending, asked, unknown>>

\* The handler and an administrator's retry are through.
Return(w) ==
    /\ At(w, "done") \/ At(w, "failed")
    /\ Become(w, Idle)
    /\ UNCHANGED <<issued, redis, asked, unknown, faults>>

-----------------------------------------------------------------------------
(* _process_pending_receipts, run by the loop and by force_process.        *)

Start(s) ==
    /\ job[s] = Idle
    /\ queue # <<>>
    /\ Become(s, [pc |-> "pop"])
    /\ UNCHANGED <<issued, redis, asked, unknown, faults>>

\* Mutant: the entry is read and removed only later.
Taken_Peeked == queue' \in {queue, Front(queue)}

\* rpop
Taken == queue' = Front(queue)

\* Mutant: one attempt too many.
Exhausted_OffByOne(e) == e.attempts > MaxAttempts

Exhausted(e) == e.attempts >= MaxAttempts

Pop(s) ==
    /\ At(s, "pop")
    /\ \/ /\ queue = <<>>
          /\ Become(s, Idle)
          /\ UNCHANGED queue
       \/ /\ queue # <<>>
          /\ Taken
          /\ Become(s, [pc |-> IF Exhausted(Last(queue)) THEN "unflag" ELSE "look",
                        e |-> Last(queue)])
    /\ UNCHANGED <<issued, created, flag, pending, asked, unknown, faults>>

\* The receipt exists, or was given up: the queued key goes; the pass goes on.
Unflag(s) ==
    /\ s \in Sender
    /\ At(s, "unflag")
    /\ \/ flag' = flag \ {job[s].e.p} /\ UNCHANGED faults
       \/ Fault /\ UNCHANGED flag
    /\ Become(s, [pc |-> "pop"])
    /\ UNCHANGED <<issued, created, queue, pending, asked, unknown>>

\* Mutant: the attempt is not counted.
Again_Uncounted(e) == e

Again(e) == [e EXCEPT !.attempts = @ + 1]

\* requeue_receipt, and the pass ends.
Requeue(s) ==
    /\ At(s, "requeue")
    /\ \/ queue' = <<Again(job[s].e)>> \o queue /\ UNCHANGED faults
       \/ Fault /\ UNCHANGED queue
    /\ Become(s, Idle)
    /\ UNCHANGED <<issued, created, flag, pending, asked, unknown>>

-----------------------------------------------------------------------------
(* The administrator's list.                                               *)

\* retry_pending_receipt: "not issued, send it again".
Retry(a, p) ==
    /\ job[a] = Idle
    /\ p \in pending
    /\ Become(a, [pc |-> "look", e |-> [p |-> p, attempts |-> 0]])
    /\ UNCHANGED <<issued, redis, asked, unknown, faults>>

\* mark_pending_as_verified: the list is read ...
Without(p) == pending \ {p}

\* ... after a retry, which sets the created key as well, ...
ReadBack(a) ==
    /\ At(a, "read")
    /\ \/ /\ job[a].e.p \in pending
          /\ created' = created \cup {job[a].e.p}
          /\ Become(a, [pc |-> "delete", rest |-> Without(job[a].e.p)])
       \/ /\ job[a].e.p \notin pending
          /\ Become(a, Idle)
          /\ UNCHANGED created
    /\ UNCHANGED <<issued, flag, queue, pending, asked, unknown, faults>>

\* ... or for "it was issued", which the button says without a receipt's id, so
\* that no created key is set ...
Verified(a, p) ==
    /\ job[a] = Idle
    /\ p \in pending
    /\ Become(a, [pc |-> "delete", rest |-> Without(p)])
    /\ UNCHANGED <<issued, redis, asked, unknown, faults>>

\* ... deleted ...
Delete(a) ==
    /\ At(a, "delete")
    /\ pending' = {}
    /\ Goto(a, "rewrite")
    /\ UNCHANGED <<issued, created, flag, queue, asked, unknown, faults>>

\* ... and pushed back entry by entry.
Rewrite(a) ==
    LET rest == job[a].rest IN
    /\ At(a, "rewrite")
    /\ \/ /\ rest = {}
          /\ Become(a, Idle)
          /\ UNCHANGED pending
       \/ \E q \in rest :
             /\ pending' = pending \cup {q}
             /\ Become(a, [job[a] EXCEPT !.rest = @ \ {q}])
    /\ UNCHANGED <<issued, created, flag, queue, asked, unknown, faults>>

\* clear_pending_verification
Clear(a) ==
    /\ job[a] = Idle
    /\ pending # {}
    /\ pending' = {}
    /\ UNCHANGED <<issued, created, flag, queue, asked, unknown, job, faults>>

-----------------------------------------------------------------------------
\* The process dies: what its tasks held is gone, Redis stays.  A request on
\* its way leaves its outcome unknown.
Crash ==
    /\ Fault
    /\ unknown' = unknown \cup {job[w].e.p : w \in {v \in Worker : At(v, "mark")}}
    /\ job' = [w \in Worker |-> Idle]
    /\ UNCHANGED <<issued, redis, asked>>

Create(w) == Look(w) \/ Send(w) \/ Mark(w) \/ Save(w)

SenderStep(s) == Start(s) \/ Pop(s) \/ Create(s) \/ Unflag(s) \/ Requeue(s)

Next ==
    \/ \E h \in Handler :
          \/ \E p \in Payment : Ask(h, p)
          \/ Create(h) \/ QueueLook(h) \/ Flag(h) \/ Push(h) \/ Return(h)
    \/ \E s \in Sender : SenderStep(s)
    \/ \E a \in Admin :
          \/ \E p \in Payment : Retry(a, p) \/ Verified(a, p)
          \/ Create(a) \/ Return(a) \/ ReadBack(a) \/ Delete(a)
          \/ Rewrite(a) \/ Clear(a)
    \/ Crash

Spec == Init /\ [][Next]_vars

-----------------------------------------------------------------------------
(* Safety.                                                                 *)

\* A payment's queue entry is in the queue, or a pass holds it, or a handler is
\* about to push it.
Held(w, p) ==
    /\ job[w].pc \in IF w \in Sender
                      THEN {"look", "send", "mark", "save", "requeue"}
                      ELSE {"push"}
    /\ job[w].e.p = p

Queued(p) ==
    \/ \E i \in DOMAIN queue : queue[i].p = p
    \/ \E w \in Handler \cup Sender : Held(w, p)

\* Two receipts for one payment take a request whose outcome the bot never
\* learned: popping is atomic, and created stops whoever looks later.
SecondNeedsDoubt ==
    \A p \in Payment : issued[p] > 1 => p \in unknown

\* A queued receipt is not forgotten: it leaves the queue issued, or given up
\* after MaxAttempts attempts, or with a fault.
GivenUp(p) ==
    \E s \in Sender : /\ job[s].pc = "unflag"
                      /\ job[s].e = [p |-> p, attempts |-> MaxAttempts]

QueuedIsKept ==
    [][\A p \in Payment :
          Queued(p) /\ ~Queued(p)'
            => issued'[p] > 0 \/ GivenUp(p)' \/ faults' # faults]_vars

-----------------------------------------------------------------------------
(* Liveness.  The loop comes back to the queue, and a task that is running  *)
(* goes on; the button need not be pressed.                                 *)

Fairness ==
    /\ WF_vars(SenderStep(Loop))
    /\ WF_vars(job[Forced] # Idle /\ SenderStep(Forced))
    /\ \A h \in Handler : WF_vars(Push(h))

FairSpec == Spec /\ Fairness

\* The queue is worked off: no entry goes round in it forever.
QueueDrains == \A p \in Payment : Queued(p) ~> ~Queued(p)
=============================================================================
