----------------------------- MODULE GraceProofs -----------------------------
(***************************************************************************)
(* For any dates, bounds and acts: the dates of overlays never become end  *)
(* dates, and the advisory lock keeps what a worker has decided.           *)
(***************************************************************************)
EXTENDS Grace, TLAPS

-----------------------------------------------------------------------------
(* Types.                                                                  *)

\* A job that is not idle.
Jobs == [pc : Pc, s : Session, b : Billing, tail : Date \cup {None},
         after : {"recheck", "finish"}, loop : BOOLEAN]

\* What a PATCH may want.
Target == [status : {"active", "expired", "disabled"}, date : Date \cup {None},
           plan : Fields, ext : BOOLEAN]

LEMMA JobParts ==
    ASSUME NEW j \in Job
    PROVE  /\ j = Idle \/ j \in Jobs
           /\ j = Idle => j.pc = "idle"
           /\ j \in Jobs => /\ j.pc \in Pc /\ j.pc # "idle" /\ j # Idle
                            /\ j.s \in Session /\ j.b \in Billing
                            /\ j.tail \in Date \cup {None}
                            /\ j.after \in {"recheck", "finish"} /\ j.loop \in BOOLEAN
    BY DEF Job, Jobs, Idle, Pc

LEMMA JobKeeps ==
    ASSUME NEW j \in Jobs, NEW p \in Pc
    PROVE  /\ [j EXCEPT !.pc = p] \in Jobs
           /\ [j EXCEPT !.pc = p].pc = p
           /\ [j EXCEPT !.pc = p].s = j.s
           /\ [j EXCEPT !.pc = p].b = j.b
           /\ [j EXCEPT !.pc = p].tail = j.tail
           /\ [j EXCEPT !.pc = p].loop = j.loop
    BY DEF Jobs

LEMMA JobReads ==
    ASSUME NEW j \in Jobs, NEW p \in Pc, NEW b \in Billing
    PROVE  /\ [j EXCEPT !.b = b] \in Jobs
           /\ [j EXCEPT !.b = b].s = j.s
           /\ [j EXCEPT !.b = b].b = b
           /\ [j EXCEPT !.b = b].tail = j.tail
           /\ [j EXCEPT !.b = b].loop = j.loop
           /\ [j EXCEPT !.pc = p, !.b = b, !.after = "finish"] \in Jobs
           /\ [j EXCEPT !.pc = p, !.b = b, !.after = "finish"].pc = p
           /\ [j EXCEPT !.pc = p, !.b = b, !.after = "finish"].s = j.s
           /\ [j EXCEPT !.pc = p, !.b = b, !.after = "finish"].b = b
    BY DEF Jobs

LEMMA DateParts ==
    ASSUME NEW d \in Date
    PROVE  d.at \in Nat /\ d.by \in Origin /\ d # None
    BY ConstantsAssumption DEF Date, None, Origin

LEMMA NewDate ==
    ASSUME NEW a \in Nat, a <= MaxTime + Period + Duration, NEW by \in Origin
    PROVE  [at |-> a, by |-> by] \in Date
    BY ConstantsAssumption DEF Date

LEMMA PanelParts ==
    ASSUME NEW p \in Panel
    PROVE  /\ p.status \in {"active", "expired", "disabled"} /\ p.date \in Date
           /\ p.plan \in Fields /\ p.ext \in BOOLEAN
    BY DEF Panel

LEMMA BillingParts ==
    ASSUME NEW b \in Billing
    PROVE  /\ b.status \in {"active", "expired", "disabled"} /\ b.end \in Date
           /\ b.plan \in Fields
    BY DEF Billing

LEMMA SessionParts ==
    ASSUME NEW s \in Session
    PROVE  /\ s.state \in State /\ s.inc \in Date /\ s.plan \in Fields
           /\ s.before \in Panel /\ s.until \in Date /\ s # NoSession
    BY DEF Session, NoSession, State

LEMMA SessionKeeps ==
    ASSUME NEW s \in Session, NEW x \in State
    PROVE  /\ [s EXCEPT !.state = x] \in Session
           /\ [s EXCEPT !.state = x].inc = s.inc
           /\ [s EXCEPT !.state = x].until = s.until
           /\ [s EXCEPT !.state = x].before = s.before
    BY DEF Session

\* Times.
LEMMA Clock ==
    ASSUME TypeOK
    PROVE  /\ now \in Nat /\ now <= MaxTime
           /\ MaxTime \in Nat /\ Period \in Nat /\ Duration \in Nat /\ Duration > 1
    BY ConstantsAssumption DEF TypeOK, Window

LEMMA StaleType ==
    ASSUME TypeOK, NEW d \in Date \cup {None}, NEW by \in Origin
    PROVE  /\ Stale(d, by) \in Date \cup {None}
           /\ Stale(d, by) # None => Stale(d, by).by = by
           /\ Stale(d, by) = None => d.at <= now + Window
<1>1. d.at \in Int
    BY DateParts DEF None
<1>2. now + 1 \in Nat /\ now + 1 <= MaxTime + Period + Duration
    BY Clock
<1>3. [at |-> now + 1, by |-> by] \in Date
    BY <1>2, NewDate
<1>4. [at |-> now + 1, by |-> by] # None
    BY <1>3, DateParts
<1> QED BY <1>1, <1>3, <1>4, Clock DEF Stale, Window

LEMMA ResolvedType ==
    ASSUME TypeOK, NEW b \in Billing
    PROVE  /\ Resolved(b) \in {"active", "expired", "disabled"}
           /\ Resolved(b) = "expired" => ~(b.end.at > now)
    BY BillingParts DEF Resolved, Actual

LEMMA TargetType ==
    ASSUME TypeOK, NEW b \in Billing, NEW c \in Date \cup {None}, NEW by \in Origin
    PROVE  BillingTarget(b, c, by) \in Target
    BY StaleType, ResolvedType, BillingParts DEF BillingTarget, Target

LEMMA RestoreType ==
    ASSUME TypeOK, NEW s \in Session
    PROVE  RestoreTarget(s) \in Target
<1>1. s.before \in Panel /\ panel \in Panel
    BY SessionParts DEF TypeOK
<1>2. Stale(panel.date, "closing") \in Date \cup {None}
    BY <1>1, PanelParts, StaleType DEF Origin
<1> QED BY <1>1, <1>2, PanelParts DEF RestoreTarget, Target

LEMMA PatchedType ==
    ASSUME TypeOK, NEW t \in Target
    PROVE  Patched(t) \in Panel
<1>1. panel \in Panel
    BY DEF TypeOK
<1> QED BY <1>1, PanelParts DEF Patched, Target, Panel

-----------------------------------------------------------------------------
(* The inductive invariant.                                                *)

\* m is the marker, g the incidents granted, t the time.
Two(g) == \E d, e \in g : d # e

\* A date of an overlay is the marked one, or that of an earlier grace.
Known(d, m, g) ==
    d.by = "grace" => /\ m # None /\ d.at <= m.at
                      /\ d = m \/ Two(g)

\* A date of an overlay that billing took is that of an earlier grace.
Bought(d, m, g) ==
    d.by = "grace" => /\ m # None /\ d.at < m.at
                      /\ Two(g)

\* An account that the panel expired does not carry a date of an overlay to come.
Calm(p, t) == p.status = "expired" /\ p.date.by = "grace" => p.date.at <= t

\* An account for which a grace can be granted.
Source(p, m, g, t) ==
    p.status # "active" /\ Calm(p, t) /\ Known(p.date, m, g)

\* A session about to be created.
Fresh(s, m, g, t) ==
    /\ s.state = "pending" /\ s.inc \notin g
    /\ s.until.by = "grace" /\ s.until.at <= t + Duration
    /\ m # None => m.at <= s.until.at
    /\ Source(s.before, m, g, t)

\* A worker in one of these holds the lock.
Locked == Pc \ {"started", "restoring"}

MarkFacts ==
    mark # None => mark.by = "grace" /\ mark.at <= now + Duration /\ granted # {}

SessionFacts ==
    session # NoSession =>
        /\ mark # None /\ session.until = mark
        /\ Source(session.before, mark, granted, now)

Dates ==
    /\ Calm(panel, now) /\ Known(panel.date, mark, granted)
    /\ Bought(billing.end, mark, granted)
    /\ snap.pc = "read" => Known(snap.got.date, mark, granted)
    /\ \A w \in Worker : job[w] # Idle => Bought(job[w].b.end, mark, granted)

Locking == \A w \in Worker : job[w].pc \in Locked => lock = w

Creating ==
    \A w \in Worker :
        job[w].pc = "create" =>
            w = Bot /\ session = NoSession /\ Fresh(job[w].s, mark, granted, now)

\* What a worker with the lock knows of the session is current.
Working ==
    \A w \in Worker :
        job[w].pc \in Locked \ {"create"} => session # NoSession /\ job[w].s = session

\* Before an overlay goes out, the account is not alive unless an administrator
\* extended it, and the incident is not suppressed.
Going ==
    \A w \in Worker :
        job[w].pc \in {"detach", "overlay"} =>
            /\ panel.status = "active" => panel.date.by = "panel"
            /\ suppressed # None => session.inc.at > suppressed.at

\* Before a session is completed, its overlay is gone.
Closed == \A w \in Worker : job[w].pc \in {"finish", "recheck"} => ~Running

IInv ==
    /\ TypeOK
    /\ MarkFacts /\ SessionFacts /\ Dates
    /\ Locking /\ Creating /\ Working /\ Going /\ Closed

-----------------------------------------------------------------------------
(* Steps of the same shape preserve the invariant for the same reason.     *)

LEMMA StampKeeps ==
    ASSUME Stamp, snap \in Snapshot
    PROVE  /\ snap' \in Snapshot
           /\ snap'.pc = "read" => snap.pc = "read" /\ snap'.got = snap.got
<1>1. CASE snap = NoSnapshot
    BY <1>1 DEF Stamp, NoSnapshot, Snapshot
<1>2. CASE snap \in [pc : {"read"}, got : Panel, fresh : BOOLEAN]
    <2>1. snap.pc = "read" /\ snap.got \in Panel /\ snap.fresh \in BOOLEAN
        BY <1>2
    <2>2. PICK f \in BOOLEAN : snap' = [snap EXCEPT !.fresh = f]
        <3>1. (snap.fresh /\ UNCHANGED <<billing, suppressed, mark, tail, session>>) \in BOOLEAN
            OBVIOUS
        <3> QED BY <2>1, <3>1 DEF Stamp
    <2>3. /\ [snap EXCEPT !.fresh = f] \in [pc : {"read"}, got : Panel, fresh : BOOLEAN]
          /\ [snap EXCEPT !.fresh = f].got = snap.got
        BY <1>2
    <2> QED BY <2>1, <2>2, <2>3 DEF Snapshot
<1> QED BY <1>1, <1>2 DEF Snapshot

\* A worker that holds the lock, or finds it free, is alone with it.
LEMMA Alone ==
    ASSUME IInv, NEW w \in Worker, lock \in {w, "free"}, NEW v \in Worker, v # w
    PROVE  job[v].pc \notin Locked
    BY ConstantsAssumption DEF IInv, Locking

LEMMA WorkerStep ==
    ASSUME IInv, Stamp, NEW w \in Worker, NEW j \in Job, Become(w, j),
           lock \in {w, "free"}, UNCHANGED <<env, mark, granted>>,
           panel' \in Panel, session' \in Session \cup {NoSession},
           tail' \in Date \cup {None}, lock' \in Worker \cup {"free"},
           faults' \in 0 .. MaxFaults,
           SessionFacts', Calm(panel', now), Known(panel'.date, mark, granted),
           j # Idle => Bought(j.b.end, mark, granted),
           j.pc \in Locked => lock' = w,
           j.pc = "create" =>
               w = Bot /\ session' = NoSession /\ Fresh(j.s, mark, granted, now),
           j.pc \in Locked \ {"create"} => session' # NoSession /\ j.s = session',
           j.pc \in {"detach", "overlay"} =>
               /\ panel'.status = "active" => panel'.date.by = "panel"
               /\ suppressed # None => session'.inc.at > suppressed.at,
           j.pc \in {"finish", "recheck"} => ~Running'
    PROVE  IInv'
<1>1. /\ job'[w] = j
      /\ \A v \in Worker : v # w => job'[v] = job[v] /\ job'[v].pc \notin Locked
    BY Alone DEF Become, IInv, TypeOK
<1>0. TypeOK'
    <2>1. job' \in [Worker -> Job]
        BY DEF Become, IInv, TypeOK
    <2>2. snap' \in Snapshot
        BY StampKeeps DEF IInv, TypeOK
    <2> QED BY <2>1, <2>2 DEF IInv, TypeOK, env
<1>2. MarkFacts'
    BY DEF IInv, MarkFacts, env
<1>3. Dates'
    <2>1. snap'.pc = "read" => Known(snap'.got.date, mark, granted)
        BY StampKeeps DEF IInv, TypeOK, Dates
    <2>2. \A v \in Worker : job'[v] # Idle => Bought(job'[v].b.end, mark, granted)
        BY <1>1 DEF IInv, Dates
    <2> QED BY <2>1, <2>2 DEF IInv, Dates, env
<1>4. Locking' /\ Creating' /\ Working'
    BY <1>1 DEF Locking, Creating, Working, Locked, Pc, env
<1>5. Going' /\ Closed'
    <2>1. "detach" \in Locked /\ "overlay" \in Locked /\ "finish" \in Locked /\ "recheck" \in Locked
        BY DEF Locked, Pc
    <2>2. Going'
        BY <1>1, <2>1 DEF Going, env
    <2>3. Closed'
        BY <1>1, <2>1 DEF Closed
    <2> QED BY <2>2, <2>3
<1> QED BY <1>0, <1>2, <1>3, <1>4, <1>5 DEF IInv

\* Nobody's job changes.
LEMMA EnvStep ==
    ASSUME IInv, TypeOK', UNCHANGED <<job, lock, mark, granted>>, now' >= now,
           Calm(panel', now'), Known(panel'.date, mark, granted),
           Bought(billing'.end, mark, granted),
           snap'.pc = "read" => Known(snap'.got.date, mark, granted),
           \/ lock = "free" /\ session' \in {session, NoSession}
           \/ /\ UNCHANGED <<session, suppressed>>
              /\ panel'.status = "active" =>
                    \/ panel'.date.by = "panel"
                    \/ panel.status = "active" /\ panel'.date = panel.date
              /\ Running' => Running
    PROVE  IInv'
<1>1. now \in Nat /\ now' \in Nat
    BY Clock DEF IInv, TypeOK
<1>2. MarkFacts'
    BY <1>1, Clock, DateParts DEF IInv, MarkFacts, TypeOK
<1>3. SessionFacts'
    <2>1. session' \in {session, NoSession}
        OBVIOUS
    <2>2. ASSUME session # NoSession, session' = session PROVE SessionFacts'
        <3>1. session \in Session /\ session.before \in Panel
            BY <2>2, SessionParts DEF IInv, TypeOK
        <3>2. session.before.date.at \in Nat
            BY <3>1, PanelParts, DateParts
        <3>3. Source(session.before, mark, granted, now)
            BY <2>2 DEF IInv, SessionFacts
        <3>4. Source(session.before, mark, granted, now')
            BY <1>1, <3>2, <3>3 DEF Source, Calm
        <3> QED BY <2>2, <3>4 DEF IInv, SessionFacts
    <2>3. CASE session' = NoSession
        BY <2>3 DEF SessionFacts
    <2> QED BY <2>1, <2>2, <2>3
<1>4. Dates'
    BY DEF IInv, Dates
<1>5. Locking'
    BY DEF IInv, Locking
<1>6. lock = "free" => \A w \in Worker : job[w].pc \notin Locked
    BY ConstantsAssumption DEF IInv, Locking
<1>7. Creating'
    <2> SUFFICES ASSUME NEW w \in Worker, job[w].pc = "create"
                 PROVE  w = Bot /\ session' = NoSession /\ Fresh(job[w].s, mark, granted, now')
        BY DEF Creating
    <2>1. w = Bot /\ session = NoSession /\ Fresh(job[w].s, mark, granted, now)
        BY DEF IInv, Creating
    <2>2. job[w].s \in Session
        BY JobParts DEF IInv, TypeOK, Idle
    <2>3. job[w].s.before.date.at \in Nat /\ job[w].s.until.at \in Nat
        BY <2>2, SessionParts, PanelParts, DateParts
    <2>4. Fresh(job[w].s, mark, granted, now')
        BY <1>1, <2>1, <2>3, Clock DEF Fresh, Source, Calm, IInv
    <2> QED BY <2>1, <2>4
<1>8. Working'
    BY <1>6 DEF IInv, Working
<1>9. Going'
    <2>1. "detach" \in Locked /\ "overlay" \in Locked
        BY DEF Locked, Pc
    <2> QED BY <1>6, <2>1 DEF IInv, Going
<1>10. Closed'
    <2>1. "finish" \in Locked /\ "recheck" \in Locked
        BY DEF Locked, Pc
    <2> QED BY <1>6, <2>1 DEF IInv, Closed
<1> QED BY <1>2, <1>3, <1>4, <1>5, <1>7, <1>8, <1>9, <1>10 DEF IInv

-----------------------------------------------------------------------------
(* What goes to the panel.                                                 *)

\* What is pushed for billing carries no overlay.
LEMMA Pushed ==
    ASSUME IInv, NEW b \in Billing, Bought(b.end, mark, granted),
           NEW c \in Date \cup {None}, NEW by \in {"closing", "cut"},
           NEW p, p = Patched(BillingTarget(b, c, by))
    PROVE  /\ p \in Panel /\ p.ext = TRUE
           /\ Calm(p, now) /\ Known(p.date, mark, granted)
<1> DEFINE t == BillingTarget(b, c, by)
<1>1. TypeOK /\ by \in Origin /\ by # "grace" /\ b.end \in Date
    BY BillingParts DEF IInv, Origin
<1>2. t \in Target
    BY <1>1, TargetType
<1>3. p \in Panel
    BY <1>1, <1>2, PatchedType
<1>4. /\ p.ext = TRUE
      /\ p.status = IF t.status = "expired" THEN panel.status ELSE t.status
      /\ p.date = IF t.date = None THEN panel.date ELSE t.date
      /\ t.status = Resolved(b)
      /\ t.date = IF b.end.at > now THEN b.end ELSE Stale(c, by)
    BY DEF Patched, BillingTarget
<1>5. Calm(panel, now) /\ Known(panel.date, mark, granted)
    BY DEF IInv, Dates
<1>6. Known(b.end, mark, granted)
    <2>1. mark \in Date \cup {None}
        BY DEF IInv, TypeOK
    <2> QED BY <1>1, <2>1, DateParts DEF Known, Bought
<1>7. Stale(c, by) # None => Stale(c, by).by # "grace"
    BY <1>1, StaleType
<1>8. Known(p.date, mark, granted)
    <2>1. CASE p.date \in {panel.date, b.end}
        BY <2>1, <1>5, <1>6
    <2>2. CASE p.date.by # "grace"
        BY <2>2 DEF Known
    <2> QED BY <1>4, <1>7, <2>1, <2>2
<1>9. Calm(p, now)
    <2> SUFFICES ASSUME p.status = "expired", p.date.by = "grace" PROVE p.date.at <= now
        BY DEF Calm
    <2>1. t.status = "expired" /\ panel.status = "expired"
        BY <1>1, <1>4, ResolvedType
    <2>2. ~(b.end.at > now)
        BY <1>1, <1>4, <2>1, ResolvedType
    <2>3. p.date = panel.date
        BY <1>4, <1>7, <2>2
    <2> QED BY <1>5, <2>1, <2>3 DEF Calm
<1> QED BY <1>3, <1>4, <1>8, <1>9

\* What is restored is what there was before the grace, or a date that the panel
\* is about to reach.
LEMMA Restored ==
    ASSUME IInv, NEW s \in Session, Source(s.before, mark, granted, now), mark.by = "grace",
           NEW t, t = RestoreTarget(s), NEW p, p = Patched(t)
    PROVE  /\ p \in Panel
           /\ Calm(p, now) /\ Known(p.date, mark, granted)
           /\ p.status = "active" /\ p.date = mark => Waits(t, p)
<1>1. TypeOK /\ s.before \in Panel /\ panel \in Panel /\ now \in Nat
    BY SessionParts, Clock DEF IInv, TypeOK
<1>2. /\ s.before.date \in Date /\ panel.date \in Date /\ "closing" \in Origin
      /\ s.before.date # None /\ s.before.date.at \in Nat
      /\ s.before.status \in {"expired", "disabled"}
    BY <1>1, PanelParts, DateParts DEF Source, Origin
<1>3. p \in Panel
    BY <1>1, RestoreType, PatchedType
<1> DEFINE old == s.before
           cut == Stale(panel.date, "closing")
<1>4. /\ t.status = IF old.status = "disabled" THEN "disabled" ELSE "expired"
      /\ t.date = IF old.date.at > now THEN old.date ELSE cut
      /\ p.status = IF t.status = "expired" THEN panel.status ELSE t.status
      /\ p.date = IF t.date = None THEN panel.date ELSE t.date
    BY DEF Patched, RestoreTarget
<1>5. /\ cut # None => cut.by = "closing"
      /\ cut = None => panel.date.at <= now + Window
    BY <1>1, <1>2, StaleType
<1>6. Calm(panel, now) /\ Known(panel.date, mark, granted)
      /\ Calm(old, now) /\ Known(old.date, mark, granted)
    BY DEF IInv, Dates, Source
<1>7. Known(p.date, mark, granted)
    <2>1. CASE p.date \in {panel.date, old.date}
        BY <2>1, <1>6
    <2>2. CASE p.date.by = "closing"
        BY <2>2 DEF Known
    <2> QED BY <1>2, <1>4, <1>5, <2>1, <2>2
<1>8. t.status = "expired" /\ old.date.by = "grace" => ~(old.date.at > now)
    BY <1>1, <1>2, <1>4, <1>6 DEF Calm
<1>9. t.status = "expired" /\ p.date.by = "grace" => t.date = None
    BY <1>2, <1>4, <1>5, <1>8
<1>10. Calm(p, now)
    <2> SUFFICES ASSUME p.status = "expired", p.date.by = "grace" PROVE p.date.at <= now
        BY DEF Calm
    <2>1. t.status = "expired" /\ panel.status = "expired"
        BY <1>4
    <2> QED BY <1>4, <1>6, <1>9, <2>1 DEF Calm
<1>11. ASSUME p.status = "active", p.date = mark PROVE Waits(t, p)
    <2>1. t.status = "expired"
        BY <1>4, <1>11
    <2>2. t.date = None /\ p.date = panel.date
        BY <1>4, <1>9, <1>11, <2>1
    <2>3. cut = None
        BY <1>2, <1>4, <2>2
    <2> QED BY <1>5, <1>11, <2>1, <2>2, <2>3 DEF Waits
<1> QED BY <1>3, <1>7, <1>10, <1>11

-----------------------------------------------------------------------------
(* The steps of a worker.                                                  *)

\* A pass or a retry begins on the open session.
LEMMA BeginInv ==
    ASSUME IInv, Stamp, NEW w \in Worker, NEW pc \in {"activate", "apply", "finish"},
           NEW after \in {"recheck", "finish"}, NEW loop \in BOOLEAN,
           session # NoSession, LockFree, Begin(w, pc, session, after, loop),
           UNCHANGED <<env, mark, tail, session, granted, panel, faults>>,
           pc = "finish" => ~Running
    PROVE  IInv'
<1> DEFINE j == [pc |-> pc, s |-> session, b |-> billing, tail |-> None,
                 after |-> after, loop |-> loop]
<1>1. session \in Session /\ billing \in Billing
    BY DEF IInv, TypeOK
<1>2. j \in Jobs /\ j \in Job
    BY <1>1 DEF Jobs, Job, Pc
<1>3. Become(w, j) /\ lock' = w
    BY DEF Begin
<1>4. SessionFacts'
    BY DEF IInv, SessionFacts, env
<1>5. Calm(panel', now) /\ Known(panel'.date, mark, granted) /\ Bought(billing.end, mark, granted)
    BY DEF IInv, Dates
<1>6. ~Running => ~Running'
    BY DEF Running
<1>7. j.pc = pc /\ j.s = session /\ j.b = billing
    OBVIOUS
<1>8. /\ panel' \in Panel /\ session' \in Session \cup {NoSession} /\ tail' \in Date \cup {None}
      /\ lock' \in Worker \cup {"free"} /\ faults' \in 0 .. MaxFaults
    BY <1>3 DEF IInv, TypeOK
<1> HIDE DEF j
<1> QED BY <1>2, <1>3, <1>4, <1>5, <1>6, <1>7, <1>8, WorkerStep DEF LockFree

LEMMA ObserveInv ==
    ASSUME IInv, Stamp, Observe
    PROVE  IInv'
<1> DEFINE j == [pc |-> "create", s |-> NewSession, b |-> billing, tail |-> None,
                 after |-> "finish", loop |-> FALSE]
<1>1. /\ Become(Bot, j) /\ lock' = Bot /\ lock = "free" /\ session = NoSession
      /\ UNCHANGED <<env, mark, tail, session, granted, panel, faults>>
    BY DEF Observe, Begin, Candidate, LockFree
<1>2. panel \in Panel /\ billing \in Billing /\ billing.end \in Date /\ billing.plan \in Fields
      /\ now \in Nat /\ Duration \in Nat /\ mark \in Date \cup {None} /\ Bot \in Worker
    BY Clock, BillingParts DEF IInv, TypeOK, Worker
<1>3. NewSession \in Session
    <2>1. [at |-> now + Duration, by |-> "grace"] \in Date
        BY <1>2, Clock, ConstantsAssumption DEF Observe, Date, Origin, IInv
    <2> QED BY <1>2, <2>1 DEF NewSession, Session, State
<1>4. j \in Job
    BY <1>2, <1>3 DEF Job, Pc
<1>5. Fresh(NewSession, mark, granted, now)
    <2>1. Source(panel, mark, granted, now)
        BY DEF Observe, Source, IInv, Dates
    <2>2. mark # None => mark.at <= now + Duration
        BY DEF IInv, MarkFacts
    <2> QED BY <1>2, <2>1, <2>2 DEF Fresh, NewSession, Observe
<1>6. SessionFacts'
    BY <1>1 DEF SessionFacts
<1>7. Calm(panel', now) /\ Known(panel'.date, mark, granted) /\ Bought(billing.end, mark, granted)
    BY <1>1 DEF IInv, Dates
<1>8. j.pc = "create" /\ j.s = NewSession /\ j.b = billing
    OBVIOUS
<1>9. /\ panel' \in Panel /\ session' \in Session \cup {NoSession} /\ tail' \in Date \cup {None}
      /\ lock' \in Worker \cup {"free"} /\ faults' \in 0 .. MaxFaults
    BY <1>1, <1>2 DEF IInv, TypeOK
<1> HIDE DEF j
<1> QED BY <1>1, <1>2, <1>4, <1>5, <1>6, <1>7, <1>8, <1>9, WorkerStep

\* The marker is overwritten: what is known of earlier dates stays true, with two
\* incidents.
LEMMA MarkMoves ==
    ASSUME NEW d \in Date, NEW m \in Date \cup {None}, NEW m2 \in Date, NEW g, NEW i, i \notin g,
           m # None => g # {} /\ m.at <= m2.at
    PROVE  /\ Known(d, m, g) => Known(d, m2, g \cup {i})
           /\ Bought(d, m, g) => Bought(d, m2, g \cup {i})
<1>1. g # {} => Two(g \cup {i})
    BY DEF Two
<1>2. d.at \in Nat /\ m2.at \in Nat /\ m2 # None /\ (m # None => m.at \in Nat)
    BY DateParts
<1> QED BY <1>1, <1>2 DEF Known, Bought

LEMMA CreateInv ==
    ASSUME IInv, Stamp, Create
    PROVE  IInv'
<1> DEFINE s == job[Bot].s
           j == [job[Bot] EXCEPT !.pc = "started"]
<1>1. job[Bot].pc = "create" /\ Bot \in Worker
    BY DEF Create, Worker
<1>2. job[Bot] \in Jobs /\ s \in Session /\ s.until \in Date /\ s.before \in Panel
      /\ s.before.date \in Date /\ s # NoSession
    BY <1>1, JobParts, SessionParts, PanelParts DEF IInv, TypeOK, Idle
<1>3. /\ session' = s /\ granted' = granted \cup {s.inc} /\ mark' = s.until
      /\ lock' = "free" /\ job' = [job EXCEPT ![Bot] = j]
      /\ UNCHANGED <<now, billing, suppressed, panel>>
    BY DEF Create, Goto, Become, env
<1>4. session = NoSession /\ Fresh(s, mark, granted, now)
    BY <1>1 DEF IInv, Creating
<1>5. mark \in Date \cup {None} /\ panel.date \in Date /\ billing.end \in Date
      /\ (mark # None => granted # {})
    BY PanelParts, BillingParts DEF IInv, TypeOK, MarkFacts
<1>6. ASSUME NEW d \in Date
      PROVE  /\ Known(d, mark, granted) => Known(d, mark', granted')
             /\ Bought(d, mark, granted) => Bought(d, mark', granted')
    <2>1. s.inc \notin granted /\ (mark # None => mark.at <= s.until.at)
        BY <1>4 DEF Fresh
    <2> QED BY <1>2, <1>3, <1>5, <2>1, MarkMoves
<1>7. MarkFacts'
    BY <1>3, <1>4 DEF MarkFacts, Fresh
<1>8. SessionFacts'
    <2>1. Source(s.before, mark', granted', now)
        BY <1>2, <1>4, <1>6 DEF Fresh, Source
    <2>2. mark' # None
        BY <1>2, <1>3, DateParts
    <2> QED BY <1>3, <2>1, <2>2 DEF SessionFacts
<1>9. j \in Jobs /\ j.pc = "started" /\ j.b = job[Bot].b
    BY <1>2, JobKeeps DEF Pc
<1>10. /\ job'[Bot] = j
       /\ \A v \in Worker : v # Bot => job'[v] = job[v] /\ job'[v].pc \notin Locked
    <2>1. lock = Bot
        BY <1>1 DEF IInv, Locking, Locked, Pc
    <2> QED BY <1>3, <2>1, Alone, <1>1 DEF IInv, TypeOK
<1>11. Dates'
    <2>1. Calm(panel, now) /\ Known(panel.date, mark', granted') /\ Bought(billing.end, mark', granted')
        BY <1>5, <1>6 DEF IInv, Dates
    <2>2. snap'.pc = "read" => Known(snap'.got.date, mark', granted')
        <3>1. snap \in Snapshot
            BY DEF IInv, TypeOK
        <3>2. snap.pc = "read" => snap.got \in Panel /\ snap.got.date \in Date
            BY <3>1, PanelParts DEF Snapshot, NoSnapshot
        <3> QED BY <1>6, <3>1, <3>2, StampKeeps DEF IInv, Dates
    <2>3. ASSUME NEW v \in Worker, job'[v] # Idle
          PROVE  Bought(job'[v].b.end, mark', granted')
        <3>1. job[v] \in Jobs /\ job'[v].b = job[v].b
            BY <1>2, <1>9, <1>10, <2>3, JobParts DEF IInv, TypeOK
        <3>2. job[v] \in Job
            BY DEF IInv, TypeOK
        <3>3. job[v] # Idle /\ job[v].b \in Billing
            BY <3>1, <3>2, JobParts
        <3>4. job[v].b.end \in Date
            BY <3>3, BillingParts
        <3>5. Bought(job[v].b.end, mark, granted)
            BY <3>3 DEF IInv, Dates
        <3> QED BY <1>6, <3>1, <3>4, <3>5
    <2> QED BY <1>3, <2>1, <2>2, <2>3 DEF Dates
<1>12. \A v \in Worker : job'[v].pc \notin Locked
    BY <1>9, <1>10 DEF Locked
<1>13. Locking' /\ Creating' /\ Working' /\ Going' /\ Closed'
    <2>1. {"create", "detach", "overlay", "finish", "recheck"} \subseteq Locked
        BY DEF Locked, Pc
    <2> QED BY <1>12, <2>1 DEF Locking, Creating, Working, Going, Closed
<1>14. TypeOK'
    <2>1. job' \in [Worker -> Job]
        BY <1>3, <1>9, JobParts DEF IInv, TypeOK, Job, Jobs
    <2>2. snap' \in Snapshot
        BY StampKeeps DEF IInv, TypeOK
    <2>3. s.inc \in Date
        BY <1>2, SessionParts
    <2> QED BY <1>2, <1>3, <2>1, <2>2, <2>3 DEF IInv, TypeOK, Create, env
<1> QED BY <1>7, <1>8, <1>11, <1>13, <1>14 DEF IInv

\* The open session, the account and the row.
LEMMA Opened ==
    ASSUME IInv, session # NoSession
    PROVE  /\ session \in Session /\ session.until = mark /\ mark # None /\ mark \in Date
           /\ mark.by = "grace" /\ Source(session.before, mark, granted, now)
           /\ billing \in Billing /\ Bought(billing.end, mark, granted)
           /\ panel \in Panel /\ Calm(panel, now) /\ Known(panel.date, mark, granted)
    BY DEF IInv, TypeOK, MarkFacts, SessionFacts, Dates

\* A worker that holds the lock.
LEMMA Holding ==
    ASSUME IInv, NEW w \in Worker, job[w].pc \in Locked \ {"create"}
    PROVE  /\ job[w] \in Jobs /\ lock = w /\ session # NoSession /\ job[w].s = session
           /\ job[w].b \in Billing /\ Bought(job[w].b.end, mark, granted)
<1>1. job[w] \in Job
    BY DEF IInv, TypeOK
<1>2. job[w] # Idle
    BY DEF Locked, Pc, Idle
<1>3. job[w] \in Jobs /\ job[w].b \in Billing
    BY <1>1, <1>2, JobParts
<1>4. lock = w /\ session # NoSession /\ job[w].s = session
    BY DEF IInv, Locking, Working
<1>5. Bought(job[w].b.end, mark, granted)
    BY <1>2 DEF IInv, Dates
<1> QED BY <1>3, <1>4, <1>5

\* A worker takes or keeps the lock, and leaves the session as it is.
LEMMA Onward ==
    ASSUME IInv, Stamp, NEW w \in Worker, NEW j \in Jobs, Become(w, j),
           lock \in {w, "free"}, lock' = w, session # NoSession,
           UNCHANGED <<env, mark, tail, session, granted>>,
           j.s = session, j.pc \notin {"create", "started", "restoring"},
           Bought(j.b.end, mark, granted),
           panel' \in Panel, Calm(panel', now), Known(panel'.date, mark, granted),
           faults' \in 0 .. MaxFaults,
           j.pc \in {"detach", "overlay"} =>
               /\ panel'.status = "active" => panel'.date.by = "panel"
               /\ suppressed # None => session.inc.at > suppressed.at,
           j.pc \in {"finish", "recheck"} => ~Running'
    PROVE  IInv'
<1>1. j \in Job
    BY DEF Job, Jobs
<1>2. SessionFacts'
    BY DEF IInv, SessionFacts, env
<1>3. /\ session' \in Session \cup {NoSession} /\ tail' \in Date \cup {None}
      /\ lock' \in Worker \cup {"free"}
    BY DEF IInv, TypeOK
<1> QED BY <1>1, <1>2, <1>3, WorkerStep

LEMMA BeginRestoreInv ==
    ASSUME IInv, Stamp, NEW w \in Worker, NEW loop \in BOOLEAN, session # NoSession,
           lock \in {w, "free"}, BeginRestore(w, session, loop),
           UNCHANGED <<env, mark, tail, granted, panel, faults>>
    PROVE  IInv'
<1> DEFINE s == [session EXCEPT !.state = "restoring"]
           j == [pc |-> "restoring", s |-> s, b |-> billing, tail |-> None,
                 after |-> "finish", loop |-> loop]
           pc == IF Recovered(session, billing) THEN "apply" ELSE "patchback"
<1>1. /\ s \in Session /\ s.until = session.until /\ s.before = session.before
      /\ session \in Session /\ billing \in Billing
    BY Opened, SessionKeeps DEF State
<1>2. j \in Jobs /\ j.pc = "restoring" /\ j.s = s /\ j.b = billing
    BY <1>1 DEF Jobs, Pc
<1>3. panel' \in Panel /\ Calm(panel', now) /\ Known(panel'.date, mark, granted)
      /\ faults' \in 0 .. MaxFaults /\ Bought(billing.end, mark, granted)
    BY Opened DEF IInv, TypeOK
<1>4. CASE session.state = "restoring"
    <2>1. lock' = w /\ UNCHANGED session
        BY <1>4 DEF BeginRestore
    <2>2. PICK k : k = [j EXCEPT !.s = session, !.b = billing, !.pc = pc] /\ Become(w, k)
        BY <1>4 DEF BeginRestore, Restore
    <2>3. pc \in Pc /\ pc \notin {"create", "started", "restoring", "detach", "overlay", "finish", "recheck"}
        BY DEF Pc
    <2> HIDE DEF j, pc
    <2>4. k \in Jobs /\ k.pc = pc /\ k.s = session /\ k.b = billing
        BY <1>1, <1>2, <2>2, <2>3 DEF Jobs
    <2> QED BY <1>3, <2>1, <2>2, <2>3, <2>4, Onward
<1>5. CASE session.state # "restoring"
    <2>1. Become(w, j) /\ lock' = "free" /\ session' = s
        BY <1>5 DEF BeginRestore
    <2>2. SessionFacts'
        BY <1>1, <2>1, Opened DEF SessionFacts, env
    <2>3. j \in Job /\ j.pc \notin Locked /\ j.pc # "create"
        BY <1>2 DEF Job, Jobs, Locked
    <2>4. /\ session' \in Session \cup {NoSession} /\ tail' \in Date \cup {None}
          /\ lock' \in Worker \cup {"free"}
        BY <1>1, <2>1 DEF IInv, TypeOK
    <2>5. j.pc \notin {"detach", "overlay", "finish", "recheck"} /\ j.b = billing
        BY <1>2
    <2> HIDE DEF j, s
    <2> QED BY <1>3, <2>1, <2>2, <2>3, <2>4, <2>5, WorkerStep
<1> QED BY <1>4, <1>5

LEMMA RetryInv ==
    ASSUME IInv, Stamp, Retry
    PROVE  IInv'
<1>1. Bot \in Worker
    BY DEF Worker
<1> QED BY <1>1, BeginInv DEF Retry, Candidate

LEMMA ReconcileInv ==
    ASSUME IInv, Stamp, NEW w \in Worker, Reconcile(w)
    PROVE  IInv'
<1>1. CASE Supersede(w)
    <2>1. /\ session # NoSession /\ LockFree
          /\ UNCHANGED <<env, mark, tail, session, granted, panel, faults>>
          /\ Begin(w, "apply", session, IF Revoked(billing) THEN "recheck" ELSE "finish", TRUE)
        BY <1>1 DEF Supersede, Pass
    <2> QED BY <2>1, BeginInv
<1>2. CASE ActivatePending(w)
    <2>1. /\ session # NoSession /\ LockFree
          /\ UNCHANGED <<env, mark, tail, session, granted, panel, faults>>
          /\ Begin(w, "activate", session, "finish", TRUE)
        BY <1>2 DEF ActivatePending, Pass
    <2> QED BY <2>1, BeginInv
<1>3. CASE Abandon(w)
    <2>1. /\ session # NoSession /\ LockFree
          /\ UNCHANGED <<env, mark, tail, session, granted, panel, faults>>
          /\ Begin(w, IF panel.status = "active" THEN "apply" ELSE "finish",
                   session, "finish", TRUE)
        BY <1>3 DEF Abandon, Pass
    <2>2. panel.status # "active" => ~Running
        BY DEF Running
    <2> QED BY <2>1, <2>2, BeginInv
<1>4. CASE Withdraw(w)
    BY <1>4, BeginRestoreInv DEF Withdraw, Pass, LockFree
<1> QED BY <1>1, <1>2, <1>3, <1>4 DEF Reconcile

LEMMA ResumeInv ==
    ASSUME IInv, Stamp, NEW w \in Worker, Resume(w)
    PROVE  IInv'
<1>1. /\ job[w].pc \in {"started", "restoring"} /\ lock = "free"
      /\ UNCHANGED <<env, mark, tail, session, granted, panel, faults>>
    BY DEF Resume, LockFree
<1>2. job[w] \in Jobs /\ job[w].b \in Billing /\ Bought(job[w].b.end, mark, granted)
    BY <1>1, JobParts DEF IInv, TypeOK, Dates, Idle
<1>3. panel' \in Panel /\ Calm(panel', now) /\ Known(panel'.date, mark, granted)
      /\ faults' \in 0 .. MaxFaults
    BY <1>1 DEF IInv, TypeOK, Dates
<1>4. CASE Become(w, Idle) /\ UNCHANGED lock
    <2>1. SessionFacts'
        BY <1>1 DEF IInv, SessionFacts, env
    <2>2. /\ session' \in Session \cup {NoSession} /\ tail' \in Date \cup {None}
          /\ lock' \in Worker \cup {"free"}
        BY <1>1, <1>4 DEF IInv, TypeOK
    <2>3. Idle \in Job /\ Idle.pc = "idle" /\ "idle" \notin Locked
        BY DEF Job, Idle, Locked, Pc
    <2> QED BY <1>1, <1>3, <1>4, <2>1, <2>2, <2>3, WorkerStep
<1>5. ASSUME NEW pc \in {"activate", "apply", "patchback"}, NEW b \in {job[w].b, billing},
             session # NoSession, lock' = w,
             NEW k \in Jobs, k.pc = pc, k.s = session, k.b = b, Become(w, k)
      PROVE  IInv'
    <2>1. Bought(k.b.end, mark, granted)
        BY <1>2, <1>5, Opened
    <2> QED BY <1>1, <1>3, <1>5, <2>1, Onward
<1>6. CASE /\ session # NoSession /\ lock' = w /\ job[w].pc = "started"
           /\ Become(w, [job[w] EXCEPT !.s = session, !.pc = "activate"])
    <2>1. session \in Session /\ billing \in Billing
        BY <1>6, Opened
    <2>2. PICK k : k = [job[w] EXCEPT !.s = session, !.pc = "activate"] /\ Become(w, k)
        BY <1>6
    <2>3. k \in Jobs /\ k.pc = "activate" /\ k.s = session /\ k.b = job[w].b
        BY <1>2, <2>1, <2>2 DEF Jobs, Pc
    <2> QED BY <1>5, <1>6, <2>2, <2>3
<1>7. CASE session # NoSession /\ lock' = w /\ Restore(w, job[w], session)
    <2>1. session \in Session /\ billing \in Billing
        BY <1>7, Opened
    <2> DEFINE pc == IF Recovered(session, billing) THEN "apply" ELSE "patchback"
    <2>2. PICK k : k = [job[w] EXCEPT !.s = session, !.b = billing, !.pc = pc] /\ Become(w, k)
        BY <1>7 DEF Restore
    <2>3. pc \in Pc /\ pc \in {"activate", "apply", "patchback"}
        BY DEF Pc
    <2> HIDE DEF pc
    <2>4. k \in Jobs /\ k.pc = pc /\ k.s = session /\ k.b = billing
        BY <1>2, <2>1, <2>2, <2>3 DEF Jobs
    <2> QED BY <1>5, <1>7, <2>2, <2>3, <2>4
<1> QED BY <1>4, <1>6, <1>7 DEF Resume

\* A worker ends its pass.
LEMMA CommitInv ==
    ASSUME IInv, Stamp, NEW w \in Worker, job[w].pc \in Locked \ {"create"},
           NEW s \in Session \cup {NoSession}, Commit(w, s),
           UNCHANGED <<env, mark, granted, panel, faults>>,
           s # NoSession => s.until = session.until /\ s.before = session.before
    PROVE  IInv'
<1>1. job[w] \in Jobs /\ lock = w /\ session # NoSession
    BY Holding
<1>2. session' = s /\ lock' = "free" /\ Become(w, Idle)
    BY DEF Commit
<1>3. tail' \in Date \cup {None}
    BY <1>1 DEF Commit, IInv, TypeOK, Jobs
<1>4. SessionFacts'
    BY <1>1, <1>2, Opened DEF SessionFacts, env
<1>5. panel' \in Panel /\ Calm(panel', now) /\ Known(panel'.date, mark, granted)
      /\ faults' \in 0 .. MaxFaults /\ lock' \in Worker \cup {"free"}
      /\ session' \in Session \cup {NoSession}
    BY <1>2 DEF IInv, TypeOK, Dates
<1>6. Idle \in Job /\ Idle.pc = "idle" /\ "idle" \notin Locked
    BY DEF Job, Idle, Locked, Pc
<1> QED BY <1>1, <1>2, <1>3, <1>4, <1>5, <1>6, WorkerStep

\* A panel call.
LEMMA CallParts ==
    ASSUME TypeOK, NEW w \in Worker, NEW p, NEW j \in Jobs, Call(w, p, j)
    PROVE  /\ faults' \in 0 .. MaxFaults
           /\ \E k \in Jobs :
                /\ Become(w, k) /\ k.s = j.s /\ k.b = j.b
                /\ (k = j /\ panel' = p) \/ (k.pc = "keep" /\ panel' \in {p, panel})
<1>1. faults \in 0 .. MaxFaults /\ MaxFaults \in Nat
    BY ConstantsAssumption DEF TypeOK
<1>2. CASE panel' = p /\ Become(w, j) /\ UNCHANGED faults
    BY <1>1, <1>2
<1>3. CASE /\ faults < MaxFaults /\ faults' = faults + 1 /\ panel' \in {p, panel}
           /\ Become(w, [j EXCEPT !.pc = "keep"])
    <2>1. PICK k : k = [j EXCEPT !.pc = "keep"] /\ Become(w, k)
        BY <1>3
    <2>2. k \in Jobs /\ k.pc = "keep" /\ k.s = j.s /\ k.b = j.b
        BY <2>1 DEF Jobs, Pc
    <2>3. faults' \in 0 .. MaxFaults
        BY <1>1, <1>3
    <2> QED BY <1>3, <2>1, <2>2, <2>3
<1> QED BY <1>2, <1>3 DEF Call

LEMMA CallInv ==
    ASSUME IInv, Stamp, NEW w \in Worker, job[w].pc \in Locked \ {"create"},
           NEW p \in Panel, NEW j \in Jobs, Call(w, p, j),
           UNCHANGED <<env, mark, tail, session, granted, lock>>,
           j.s = session, j.pc \notin {"create", "started", "restoring"},
           Bought(j.b.end, mark, granted),
           Calm(p, now), Known(p.date, mark, granted),
           j.pc \in {"detach", "overlay"} =>
               /\ p.status = "active" => p.date.by = "panel"
               /\ suppressed # None => session.inc.at > suppressed.at,
           j.pc \in {"finish", "recheck"} =>
               ~(p.status = "active" /\ p.plan = "grace" /\ ~p.ext /\ p.date = mark)
    PROVE  IInv'
<1>1. TypeOK /\ lock = w /\ session # NoSession
    BY Holding DEF IInv
<1>2. faults' \in 0 .. MaxFaults
    BY <1>1, CallParts
<1>3. PICK k \in Jobs :
        /\ Become(w, k) /\ k.s = session /\ k.b = j.b
        /\ (k = j /\ panel' = p) \/ (k.pc = "keep" /\ panel' \in {p, panel})
    BY <1>1, CallParts
<1>4. panel' \in Panel /\ Calm(panel', now) /\ Known(panel'.date, mark, granted)
    BY <1>1, <1>3, Opened
<1>5. k.pc \notin {"create", "started", "restoring"} /\ Bought(k.b.end, mark, granted)
    BY <1>3
<1>6. k.pc \in {"detach", "overlay"} =>
         /\ panel'.status = "active" => panel'.date.by = "panel"
         /\ suppressed # None => session.inc.at > suppressed.at
    BY <1>3
<1>7. k.pc \in {"finish", "recheck"} => ~Running'
    BY <1>3 DEF Running
<1> QED BY <1>1, <1>2, <1>3, <1>4, <1>5, <1>6, <1>7, Onward

LEMMA ActivateInv ==
    ASSUME IInv, Stamp, NEW w \in Worker, Activate(w)
    PROVE  IInv'
<1>1. job[w].pc = "activate" /\ job[w].pc \in Locked \ {"create"}
      /\ UNCHANGED <<env, mark, tail, granted, panel, faults>>
    BY DEF Activate, Locked, Pc
<1>2. job[w] \in Jobs /\ lock = w /\ session # NoSession /\ job[w].s = session
    BY <1>1, Holding
<1>3. billing \in Billing /\ Bought(billing.end, mark, granted)
      /\ panel' \in Panel /\ Calm(panel', now) /\ Known(panel'.date, mark, granted)
      /\ faults' \in 0 .. MaxFaults
    BY <1>1, <1>2, Opened DEF IInv, TypeOK
<1> DEFINE j == [job[w] EXCEPT !.b = billing]
<1>4. j \in Jobs /\ j.s = session /\ j.b = billing /\ j.loop = job[w].loop /\ j.loop \in BOOLEAN
    BY <1>2, <1>3 DEF Jobs
<1>5. ASSUME NEW pc \in {"apply", "confirm", "detach"}, Become(w, [j EXCEPT !.pc = pc]),
             UNCHANGED <<session, lock>>,
             pc = "detach" => /\ panel.status # "active"
                              /\ suppressed # None => session.inc.at > suppressed.at
      PROVE  IInv'
    <2>1. PICK k : k = [j EXCEPT !.pc = pc] /\ Become(w, k)
        BY <1>5
    <2> HIDE DEF j
    <2>2. k \in Jobs /\ k.pc = pc /\ k.s = session /\ k.b = billing
        BY <1>4, <2>1 DEF Jobs, Pc
    <2> QED BY <1>1, <1>2, <1>3, <1>5, <2>1, <2>2, Onward
<1>6. CASE Recovered(j.s, billing) /\ Become(w, [j EXCEPT !.pc = "apply"]) /\ UNCHANGED <<session, lock>>
    BY <1>5, <1>6
<1>7. CASE BeginRestore(w, j.s, j.loop)
    <2> HIDE DEF j
    <2> QED BY <1>1, <1>2, <1>4, <1>7, BeginRestoreInv
<1>8. CASE /\ Stays(w) /\ UNCHANGED <<session, lock>>
           /\ Become(w, [j EXCEPT !.pc = IF Overlaid(j.s) THEN "confirm"
                                         ELSE IF Untouched(j.s) THEN "detach"
                                         ELSE "apply"])
    <2>1. suppressed # None => session.inc.at > suppressed.at
        BY <1>2, <1>8 DEF Stays, Eligible, Matches
    <2>2. Untouched(session) => panel.status # "active"
        <3>1. session.before \in Panel /\ panel \in Panel /\ session.before.status # "active"
            BY <1>2, Opened, SessionParts DEF Source
        <3> QED BY <3>1 DEF Untouched, Panel
    <2>3. CASE Overlaid(session)
        BY <1>4, <1>5, <1>8, <2>3
    <2>4. CASE ~Overlaid(session) /\ Untouched(session)
        BY <1>4, <1>5, <1>8, <2>1, <2>2, <2>4
    <2>5. CASE ~Overlaid(session) /\ ~Untouched(session)
        BY <1>4, <1>5, <1>8, <2>5
    <2> QED BY <2>3, <2>4, <2>5
<1> QED BY <1>6, <1>7, <1>8 DEF Activate

LEMMA DetachInv ==
    ASSUME IInv, Stamp, NEW w \in Worker, Detach(w)
    PROVE  IInv'
<1>1. job[w].pc = "detach" /\ job[w].pc \in Locked \ {"create"}
      /\ UNCHANGED <<env, mark, tail, session, granted, lock>>
    BY DEF Detach, Locked, Pc
<1>2. job[w] \in Jobs /\ session # NoSession /\ job[w].s = session
      /\ Bought(job[w].b.end, mark, granted)
    BY <1>1, Holding
<1>3. PICK p, j : /\ p = [panel EXCEPT !.ext = FALSE]
                  /\ j = [job[w] EXCEPT !.pc = "overlay"]
                  /\ Call(w, p, j)
    BY DEF Detach
<1>4. p \in Panel /\ p.status = panel.status /\ p.date = panel.date
    BY <1>2, <1>3, Opened DEF Panel
<1>5. j \in Jobs /\ j.pc = "overlay" /\ j.s = session /\ j.b = job[w].b
    BY <1>2, <1>3 DEF Jobs, Pc
<1>6. Calm(p, now) /\ Known(p.date, mark, granted)
    BY <1>2, <1>4, Opened DEF Calm
<1>7. /\ p.status = "active" => p.date.by = "panel"
      /\ suppressed # None => session.inc.at > suppressed.at
    BY <1>1, <1>4 DEF IInv, Going
<1> QED BY <1>1, <1>2, <1>3, <1>4, <1>5, <1>6, <1>7, CallInv

LEMMA OverlayInv ==
    ASSUME IInv, Stamp, NEW w \in Worker, Overlay(w)
    PROVE  IInv'
<1>1. job[w].pc = "overlay" /\ job[w].pc \in Locked \ {"create"}
      /\ UNCHANGED <<env, mark, tail, session, granted, lock>>
    BY DEF Overlay, Locked, Pc
<1>2. job[w] \in Jobs /\ session # NoSession /\ job[w].s = session
      /\ Bought(job[w].b.end, mark, granted)
    BY <1>1, Holding
<1>3. PICK p, j : /\ p = [panel EXCEPT !.status = "active", !.date = job[w].s.until, !.plan = "grace"]
                  /\ j = [job[w] EXCEPT !.pc = "confirm"]
                  /\ Call(w, p, j)
    BY DEF Overlay
<1>4. p \in Panel /\ p.status = "active" /\ p.date = mark
    BY <1>2, <1>3, Opened DEF Panel, Fields
<1>5. j \in Jobs /\ j.pc = "confirm" /\ j.s = session /\ j.b = job[w].b
    BY <1>2, <1>3 DEF Jobs, Pc
<1>6. Calm(p, now) /\ Known(p.date, mark, granted)
    <2>1. mark \in Date /\ mark # None /\ mark.at \in Nat
        BY <1>2, Opened, DateParts
    <2> QED BY <1>4, <2>1 DEF Calm, Known
<1> QED BY <1>1, <1>2, <1>3, <1>4, <1>5, <1>6, CallInv

LEMMA ConfirmInv ==
    ASSUME IInv, Stamp, NEW w \in Worker, Confirm(w)
    PROVE  IInv'
<1>1. job[w].pc = "confirm" /\ job[w].pc \in Locked \ {"create"}
      /\ UNCHANGED <<env, mark, granted, panel, faults>>
    BY DEF Confirm, Locked, Pc
<1>2. job[w] \in Jobs /\ lock = w /\ session # NoSession /\ job[w].s = session
    BY <1>1, Holding
<1>3. billing \in Billing /\ Bought(billing.end, mark, granted) /\ session \in Session
      /\ panel' \in Panel /\ Calm(panel', now) /\ Known(panel'.date, mark, granted)
      /\ faults' \in 0 .. MaxFaults
    BY <1>1, <1>2, Opened DEF IInv, TypeOK
<1> DEFINE j == [job[w] EXCEPT !.b = billing]
<1>4. j \in Jobs /\ j.s = session /\ j.b = billing /\ j.loop \in BOOLEAN
    BY <1>2, <1>3 DEF Jobs
<1>5. CASE Become(w, [j EXCEPT !.pc = "apply"]) /\ UNCHANGED <<session, tail, lock>>
    <2>1. PICK k : k = [j EXCEPT !.pc = "apply"] /\ Become(w, k)
        BY <1>5
    <2> HIDE DEF j
    <2>2. k \in Jobs /\ k.pc = "apply" /\ k.s = session /\ k.b = billing
        BY <1>4, <2>1 DEF Jobs, Pc
    <2> QED BY <1>1, <1>2, <1>3, <1>5, <2>1, <2>2, Onward
<1>6. CASE BeginRestore(w, j.s, j.loop) /\ UNCHANGED tail
    <2> HIDE DEF j
    <2> QED BY <1>1, <1>2, <1>4, <1>6, BeginRestoreInv
<1>7. CASE Commit(w, [j.s EXCEPT !.state = "active"])
    <2>1. PICK s : s = [session EXCEPT !.state = "active"] /\ Commit(w, s)
        BY <1>4, <1>7
    <2>2. s \in Session /\ s.until = session.until /\ s.before = session.before
        BY <1>3, <2>1 DEF Session, State
    <2> QED BY <1>1, <2>1, <2>2, CommitInv
<1> QED BY <1>5, <1>6, <1>7 DEF Confirm

LEMMA ApplyLiveInv ==
    ASSUME IInv, Stamp, NEW w \in Worker, ApplyLive(w)
    PROVE  IInv'
<1>1. job[w].pc = "apply" /\ job[w].pc \in Locked \ {"create"}
      /\ UNCHANGED <<env, mark, tail, session, granted, lock>>
    BY DEF ApplyLive, Locked, Pc
<1>2. job[w] \in Jobs /\ session # NoSession /\ job[w].s = session
      /\ job[w].b \in Billing /\ Bought(job[w].b.end, mark, granted)
    BY <1>1, Holding
<1>3. PICK p, j : /\ p = Patched(BillingTarget(job[w].b, None, "closing"))
                  /\ j = [job[w] EXCEPT !.pc = job[w].after]
                  /\ Call(w, p, j)
    BY DEF ApplyLive
<1>4. p \in Panel /\ p.ext = TRUE /\ Calm(p, now) /\ Known(p.date, mark, granted)
    BY <1>2, <1>3, Pushed
<1>5. j \in Jobs /\ j.pc \in {"recheck", "finish"} /\ j.s = session /\ j.b = job[w].b
    BY <1>2, <1>3 DEF Jobs, Pc
<1> QED BY <1>1, <1>2, <1>3, <1>4, <1>5, CallInv

\* A date written to the tail.
LEMMA TailedJob ==
    ASSUME IInv, NEW t \in Target, NEW j \in Jobs
    PROVE  Tailed(t, j) \in Jobs /\ Tailed(t, j).s = j.s /\ Tailed(t, j).b = j.b
<1>1. PICK x \in Date \cup {None} : Tailed(t, j) = [j EXCEPT !.tail = x]
    <2>1. panel.date \in Date /\ t.date \in Date \cup {None} /\ j.tail \in Date \cup {None}
        BY PanelParts DEF IInv, TypeOK, Target, Jobs
    <2> QED BY <2>1 DEF Tailed, Jobs
<1> QED BY <1>1 DEF Jobs

\* The account stays as it is.
LEMMA GotoInv ==
    ASSUME IInv, Stamp, NEW w \in Worker, job[w].pc \in Locked \ {"create"},
           NEW pc \in {"keep", "finish", "recheck"}, Goto(w, pc),
           UNCHANGED <<env, mark, tail, session, granted, lock, panel, faults>>,
           pc # "keep" => ~Running
    PROVE  IInv'
<1>1. job[w] \in Jobs /\ lock = w /\ session # NoSession /\ job[w].s = session
      /\ Bought(job[w].b.end, mark, granted)
    BY Holding
<1>2. PICK k : k = [job[w] EXCEPT !.pc = pc] /\ Become(w, k)
    BY DEF Goto
<1>3. k \in Jobs /\ k.pc = pc /\ k.s = session /\ k.b = job[w].b
    BY <1>1, <1>2 DEF Jobs, Pc
<1>4. panel' \in Panel /\ Calm(panel', now) /\ Known(panel'.date, mark, granted)
      /\ faults' \in 0 .. MaxFaults
    BY DEF IInv, TypeOK, Dates
<1>5. ~Running => ~Running'
    BY DEF Running
<1> QED BY <1>1, <1>2, <1>3, <1>4, <1>5, Onward

LEMMA ApplyExpiredInv ==
    ASSUME IInv, Stamp, NEW w \in Worker, ApplyExpired(w)
    PROVE  IInv'
<1> DEFINE t == BillingTarget(job[w].b, panel.date, "closing")
           p == Patched(t)
           conflict == IF job[w].loop THEN "finish" ELSE "keep"
<1>1. job[w].pc = "apply" /\ job[w].pc \in Locked \ {"create"}
      /\ UNCHANGED <<env, mark, tail, session, granted, lock>>
    BY DEF ApplyExpired, Locked, Pc
<1>2. job[w] \in Jobs /\ session # NoSession /\ job[w].s = session
      /\ job[w].b \in Billing /\ Bought(job[w].b.end, mark, granted)
    BY <1>1, Holding
<1>3. job[w].after \in {"recheck", "finish"}
    BY <1>2 DEF Jobs
<1>4. session.until = mark /\ panel \in Panel /\ panel.date \in Date \cup {None}
    BY <1>2, Opened, PanelParts
<1>5. CASE /\ AtTarget(t) \/ Closing(t) \/ ~Overlaid(session)
           /\ Goto(w, IF AtTarget(t) THEN job[w].after
                      ELSE IF Closing(t) THEN "keep" ELSE conflict)
           /\ UNCHANGED <<panel, faults>>
    <2>1. AtTarget(t) \/ ~Overlaid(session) => ~Running
        BY <1>4 DEF AtTarget, Overlaid, Running
    <2> HIDE DEF t
    <2>2. CASE AtTarget(t)
        BY <1>1, <1>3, <1>5, <2>1, <2>2, GotoInv
    <2>3. CASE ~AtTarget(t) /\ Closing(t)
        BY <1>1, <1>5, <2>3, GotoInv
    <2>4. CASE ~AtTarget(t) /\ ~Closing(t)
        BY <1>1, <1>5, <2>1, <2>4, GotoInv
    <2> QED BY <2>2, <2>3, <2>4
<1>6. CASE Call(w, p, [Tailed(t, job[w]) EXCEPT
                         !.pc = IF p.status = "expired" THEN job[w].after
                                ELSE IF Waits(t, p) THEN "keep" ELSE conflict])
    <2> DEFINE pc == IF p.status = "expired" THEN job[w].after
                     ELSE IF Waits(t, p) THEN "keep" ELSE conflict
    <2>1. PICK j : j = [Tailed(t, job[w]) EXCEPT !.pc = pc] /\ Call(w, p, j)
        BY <1>6
    <2>2. pc \in Pc /\ pc \in {"keep", "recheck", "finish"}
        BY <1>3 DEF Pc
    <2>3. t \in Target
        BY <1>2, <1>4, TargetType DEF IInv, Origin
    <2>4. p \in Panel /\ p.ext = TRUE /\ Calm(p, now) /\ Known(p.date, mark, granted)
        BY <1>2, <1>4, Pushed
    <2> HIDE DEF t, pc, p
    <2>5. j \in Jobs /\ j.pc = pc /\ j.s = session /\ j.b = job[w].b
        <3>1. PICK i : i = Tailed(t, job[w]) /\ j = [i EXCEPT !.pc = pc]
            BY <2>1
        <3>2. i \in Jobs /\ i.s = session /\ i.b = job[w].b
            BY <1>2, <2>3, <3>1, TailedJob
        <3> QED BY <2>2, <3>1, <3>2 DEF Jobs
    <2> QED BY <1>1, <1>2, <2>1, <2>2, <2>4, <2>5, CallInv
<1> QED BY <1>2, <1>5, <1>6 DEF ApplyExpired

LEMMA PatchBackInv ==
    ASSUME IInv, Stamp, NEW w \in Worker, PatchBack(w)
    PROVE  IInv'
<1> DEFINE t == RestoreTarget(job[w].s)
           p == Patched(t)
<1>1. job[w].pc = "patchback" /\ job[w].pc \in Locked \ {"create"}
      /\ UNCHANGED <<env, mark, tail, session, granted, lock>>
    BY DEF PatchBack, Locked, Pc
<1>2. job[w] \in Jobs /\ session # NoSession /\ job[w].s = session
      /\ Bought(job[w].b.end, mark, granted)
    BY <1>1, Holding
<1>3. /\ session \in Session /\ session.until = mark /\ mark.by = "grace"
      /\ Source(session.before, mark, granted, now)
    BY <1>2, Opened
<1>4. CASE /\ \/ AtTarget(t)
              \/ t.status = "expired" /\ Closing(t)
              \/ ~Overlaid(session) /\ ~Untouched(session)
           /\ Goto(w, IF ~AtTarget(t) /\ t.status = "expired" /\ Closing(t)
                        THEN "keep" ELSE "recheck")
           /\ UNCHANGED <<panel, faults>>
    <2>1. AtTarget(t) \/ ~Overlaid(session) => ~Running
        BY <1>3 DEF AtTarget, Overlaid, Running
    <2> HIDE DEF t
    <2>2. CASE ~AtTarget(t) /\ t.status = "expired" /\ Closing(t)
        BY <1>1, <1>4, <2>2, GotoInv
    <2>3. CASE ~(~AtTarget(t) /\ t.status = "expired" /\ Closing(t))
        <3>1. Goto(w, "recheck") /\ ~Running
            BY <1>4, <2>1, <2>3
        <3> QED BY <1>1, <1>4, <3>1, GotoInv
    <2> QED BY <2>2, <2>3
<1>5. CASE Call(w, p, [Tailed(t, job[w]) EXCEPT
                         !.pc = IF Waits(t, p) THEN "keep" ELSE "recheck"])
    <2> DEFINE pc == IF Waits(t, p) THEN "keep" ELSE "recheck"
    <2>1. PICK j : j = [Tailed(t, job[w]) EXCEPT !.pc = pc] /\ Call(w, p, j)
        BY <1>5
    <2>2. pc \in Pc /\ pc \in {"keep", "recheck"}
        BY DEF Pc
    <2>3. t \in Target
        BY <1>2, <1>3, RestoreType DEF IInv
    <2>4. /\ p \in Panel /\ Calm(p, now) /\ Known(p.date, mark, granted)
          /\ p.status = "active" /\ p.date = mark => Waits(t, p)
        BY <1>2, <1>3, Restored
    <2>5. pc = "recheck" => ~Waits(t, p)
        OBVIOUS
    <2> HIDE DEF t, pc, p
    <2>6. j \in Jobs /\ j.pc = pc /\ j.s = session /\ j.b = job[w].b
        <3>1. PICK i : i = Tailed(t, job[w]) /\ j = [i EXCEPT !.pc = pc]
            BY <2>1
        <3>2. i \in Jobs /\ i.s = session /\ i.b = job[w].b
            BY <1>2, <2>3, <3>1, TailedJob
        <3> QED BY <2>2, <3>1, <3>2 DEF Jobs
    <2> QED BY <1>1, <1>2, <2>1, <2>2, <2>4, <2>5, <2>6, CallInv
<1> QED BY <1>2, <1>4, <1>5 DEF PatchBack

LEMMA RecheckInv ==
    ASSUME IInv, Stamp, NEW w \in Worker, Recheck(w)
    PROVE  IInv'
<1>1. job[w].pc = "recheck" /\ job[w].pc \in Locked \ {"create"}
      /\ UNCHANGED <<env, mark, granted, panel, faults>>
    BY DEF Recheck, Locked, Pc
<1>2. job[w] \in Jobs /\ lock = w /\ session # NoSession /\ job[w].s = session
    BY <1>1, Holding
<1>3. billing \in Billing /\ Bought(billing.end, mark, granted)
      /\ panel' \in Panel /\ Calm(panel', now) /\ Known(panel'.date, mark, granted)
      /\ faults' \in 0 .. MaxFaults
    BY <1>1, <1>2, Opened DEF IInv, TypeOK
<1>4. CASE /\ Become(w, [job[w] EXCEPT !.pc = "apply", !.b = billing, !.after = "finish"])
           /\ UNCHANGED <<session, tail, lock>>
    <2>1. PICK k : /\ k = [job[w] EXCEPT !.pc = "apply", !.b = billing, !.after = "finish"]
                   /\ Become(w, k)
        BY <1>4
    <2>2. k \in Jobs /\ k.pc = "apply" /\ k.s = session /\ k.b = billing
        BY <1>2, <1>3, <2>1 DEF Jobs, Pc
    <2> QED BY <1>1, <1>2, <1>3, <1>4, <2>1, <2>2, Onward
<1>5. CASE Commit(w, NoSession)
    BY <1>1, <1>5, CommitInv
<1> QED BY <1>4, <1>5 DEF Recheck

LEMMA FinishInv ==
    ASSUME IInv, Stamp, NEW w \in Worker, Finish(w) \/ Keep(w)
    PROVE  IInv'
<1>1. job[w].pc \in Locked \ {"create"} /\ UNCHANGED <<env, mark, granted, panel, faults>>
    BY DEF Finish, Keep, Locked, Pc
<1>2. session \in Session \cup {NoSession}
    BY DEF IInv, TypeOK
<1>3. CASE Commit(w, NoSession)
    BY <1>1, <1>3, CommitInv
<1>4. CASE Commit(w, session)
    BY <1>1, <1>2, <1>4, CommitInv
<1> QED BY <1>3, <1>4 DEF Finish, Keep

\* What the others know is theirs: their lock, or none.
LEMMA CrashInv ==
    ASSUME IInv, Stamp, NEW w \in Worker, Crash(w)
    PROVE  IInv'
<1>1. /\ UNCHANGED <<env, mark, tail, session, granted, panel>>
      /\ job' = [job EXCEPT ![w] = Idle]
      /\ lock' = IF lock = w THEN "free" ELSE lock
      /\ faults' \in 0 .. MaxFaults
    BY ConstantsAssumption DEF Crash, Become, IInv, TypeOK
<1>2. /\ job'[w] = Idle
      /\ \A v \in Worker : v # w => job'[v] = job[v]
    BY <1>1 DEF IInv, TypeOK
<1>3. TypeOK'
    <2>1. job' \in [Worker -> Job]
        BY <1>1 DEF IInv, TypeOK, Job
    <2>2. snap' \in Snapshot
        BY StampKeeps DEF IInv, TypeOK
    <2> QED BY <1>1, <2>1, <2>2 DEF IInv, TypeOK, env
<1>4. MarkFacts' /\ SessionFacts'
    BY <1>1 DEF IInv, MarkFacts, SessionFacts, env
<1>5. Dates'
    <2>1. snap'.pc = "read" => Known(snap'.got.date, mark, granted)
        BY StampKeeps DEF IInv, TypeOK, Dates
    <2>2. \A v \in Worker : job'[v] # Idle => Bought(job'[v].b.end, mark, granted)
        BY <1>2 DEF IInv, Dates
    <2> QED BY <1>1, <2>1, <2>2 DEF IInv, Dates, env
<1>6. Idle.pc = "idle" /\ "idle" \notin Locked
    BY DEF Idle, Locked, Pc
<1>7. Locking' /\ Creating' /\ Working'
    BY <1>1, <1>2, <1>6 DEF IInv, Locking, Creating, Working, Locked, Pc, env
<1>8. Going' /\ Closed'
    <2>1. Running' => Running
        BY <1>1 DEF Running
    <2> QED BY <1>1, <1>2, <1>6, <2>1 DEF IInv, Going, Closed, Locked, Pc, env
<1> QED BY <1>3, <1>4, <1>5, <1>7, <1>8 DEF IInv

LEMMA StepInv ==
    ASSUME IInv, Stamp, NEW w \in Worker, Step(w)
    PROVE  IInv'
    BY ResumeInv, ActivateInv, DetachInv, OverlayInv, ConfirmInv, ApplyLiveInv,
       ApplyExpiredInv, PatchBackInv, RecheckInv, FinishInv DEF Step

-----------------------------------------------------------------------------
(* The steps of everyone else.                                             *)

\* Where things stand before any step.
LEMMA Standings ==
    ASSUME IInv
    PROVE  /\ panel \in Panel /\ panel.date \in Date /\ panel.date.at \in Nat
           /\ billing \in Billing /\ billing.end \in Date
           /\ Calm(panel, now) /\ Known(panel.date, mark, granted)
           /\ Bought(billing.end, mark, granted)
           /\ now \in Nat /\ now <= MaxTime
           /\ snap \in Snapshot
           /\ snap.pc = "read" => snap.got \in Panel /\ Known(snap.got.date, mark, granted)
<1>1. panel \in Panel /\ billing \in Billing
    BY DEF IInv, TypeOK
<1>2. panel.date \in Date /\ panel.date.at \in Nat /\ billing.end \in Date
    BY <1>1, PanelParts, BillingParts, DateParts
<1>3. snap \in Snapshot /\ (snap.pc = "read" => snap.got \in Panel)
    BY DEF IInv, TypeOK, Snapshot, NoSnapshot
<1> QED BY <1>1, <1>2, <1>3, Clock DEF IInv, Dates

\* What a snapshot keeps when the row is stamped.
LEMMA SnapKnown ==
    ASSUME IInv, Stamp
    PROVE  snap' \in Snapshot /\ (snap'.pc = "read" => Known(snap'.got.date, mark, granted))
    BY StampKeeps, Standings

LEMMA TickInv ==
    ASSUME IInv, Stamp, Tick \/ Restart
    PROVE  IInv'
<1>1. UNCHANGED <<billing, suppressed, mark, tail, session, granted, panel, job, lock, faults>>
    BY DEF Tick, Restart
<1>2. now' \in Nat /\ now' >= now /\ now' \in 0 .. MaxTime
    BY Standings, ConstantsAssumption DEF Tick, Restart
<1>3. TypeOK'
    BY <1>1, <1>2, SnapKnown, ConstantsAssumption DEF Tick, Restart, IInv, TypeOK
<1>4. Calm(panel', now')
    BY <1>1, <1>2, Standings DEF Calm
<1>5. Running' => Running
    BY <1>1 DEF Running
<1> QED BY <1>1, <1>2, <1>3, <1>4, <1>5, SnapKnown, Standings, EnvStep

LEMMA BillInv ==
    ASSUME IInv, Stamp, Bill
    PROVE  IInv'
<1>1. /\ UNCHANGED <<now, mode, suppressed, mark, tail, session, granted, panel, job, lock, faults>>
      /\ edits' \in 0 .. MaxEdits
    BY ConstantsAssumption DEF Bill, IInv, TypeOK
<1>2. billing' \in Billing /\ Bought(billing'.end, mark, granted)
    <2>1. CASE \E plan \in Plan : billing' = [status |-> "active", plan |-> plan,
                                              end |-> [at |-> now + Period, by |-> "plan"]]
        <3>1. [at |-> now + Period, by |-> "plan"] \in Date
            BY Standings, ConstantsAssumption DEF Date, Origin
        <3> QED BY <2>1, <3>1 DEF Billing, Fields, Bought
    <2>2. CASE \E plan \in Plan : billing' = [billing EXCEPT !.plan = plan]
        BY <2>2, Standings DEF Billing, Fields
    <2>3. CASE billing' = [billing EXCEPT !.status = "disabled"]
        BY <2>3, Standings DEF Billing
    <2> QED BY <2>1, <2>2, <2>3 DEF Bill
<1>3. TypeOK'
    BY <1>1, <1>2, SnapKnown DEF IInv, TypeOK
<1>4. Running' => Running
    BY <1>1 DEF Running
<1> QED BY <1>1, <1>2, <1>3, <1>4, SnapKnown, Standings, EnvStep

LEMMA PushInv ==
    ASSUME IInv, Stamp, Push
    PROVE  IInv'
<1>1. /\ UNCHANGED <<env, mark, tail, granted, job, lock>> /\ lock = "free"
      /\ session' \in {session, NoSession} /\ faults' \in 0 .. MaxFaults
    BY ConstantsAssumption DEF Push, LockFree, IInv, TypeOK
<1>2. panel' \in Panel /\ Calm(panel', now) /\ Known(panel'.date, mark, granted)
    <2>1. PICK c \in {panel.date, None} : panel' = Patched(BillingTarget(billing, c, "cut"))
        BY DEF Push
    <2>2. c \in Date \cup {None}
        BY <2>1, Standings
    <2> QED BY <2>1, <2>2, Standings, Pushed
<1>3. TypeOK'
    BY <1>1, <1>2, SnapKnown DEF IInv, TypeOK, env
<1> QED BY <1>1, <1>2, <1>3, SnapKnown, Standings, EnvStep DEF env

LEMMA SwitchInv ==
    ASSUME IInv, Stamp, Disable \/ Enable
    PROVE  IInv'
<1>1. /\ UNCHANGED <<now, mode, billing, mark, tail, session, granted, job, lock>> /\ lock = "free"
      /\ edits' \in 0 .. MaxEdits /\ faults' \in 0 .. MaxFaults
    BY ConstantsAssumption DEF Disable, Enable, LockFree, IInv, TypeOK
<1>2. suppressed' \in Date \cup {None}
    BY Standings DEF Disable, Enable, IInv, TypeOK
<1>3. panel' \in {panel, [panel EXCEPT !.status = "disabled"], [panel EXCEPT !.status = "active"]}
    BY DEF Disable, Enable
<1>4. panel' \in Panel /\ Calm(panel', now) /\ Known(panel'.date, mark, granted)
    BY <1>3, Standings DEF Panel, Calm
<1>5. TypeOK'
    BY <1>1, <1>2, <1>4, SnapKnown DEF IInv, TypeOK
<1> QED BY <1>1, <1>4, <1>5, SnapKnown, Standings, EnvStep

LEMMA PanelInv ==
    ASSUME IInv, Stamp, PanelExpires \/ PanelEdit
    PROVE  IInv'
<1>1. /\ UNCHANGED <<now, mode, billing, suppressed, mark, tail, session, granted, job, lock, faults>>
      /\ edits' \in 0 .. MaxEdits
    BY ConstantsAssumption DEF PanelExpires, PanelEdit, env, IInv, TypeOK
<1>2. /\ panel' \in Panel /\ Calm(panel', now) /\ Known(panel'.date, mark, granted)
      /\ panel'.status = "active" =>
            \/ panel'.date.by = "panel"
            \/ panel.status = "active" /\ panel'.date = panel.date
      /\ Running' => Running
    <2>1. CASE PanelExpires
        BY <2>1, Standings DEF PanelExpires, Panel, Calm, Running
    <2>2. CASE panel' = [panel EXCEPT !.status = "disabled"]
        BY <2>2, Standings DEF Panel, Calm, Running
    <2>3. CASE panel' = [panel EXCEPT !.status = "active",
                                      !.date = [at |-> now + Period, by |-> "panel"]]
        <3>1. PICK d : d = [at |-> now + Period, by |-> "panel"]
            OBVIOUS
        <3>2. d \in Date /\ d.by = "panel"
            BY <3>1, Standings, ConstantsAssumption DEF Date, Origin
        <3>3. panel' = [panel EXCEPT !.status = "active", !.date = d]
            BY <2>3, <3>1
        <3>4. panel' \in Panel /\ panel'.status = "active" /\ panel'.date = d
            BY <3>2, <3>3, Standings DEF Panel
        <3>5. mark # d /\ mark' = mark
            BY <1>1, <3>2, DateParts DEF IInv, MarkFacts
        <3> QED BY <3>2, <3>4, <3>5 DEF Calm, Known, Running
    <2>4. CASE \E plan \in Plan : panel' = [panel EXCEPT !.plan = plan]
        <3>1. PICK plan \in Plan : panel' = [panel EXCEPT !.plan = plan]
            BY <2>4
        <3>2. panel' \in Panel /\ panel'.status = panel.status /\ panel'.date = panel.date
              /\ panel'.plan # "grace"
            BY <3>1, Standings, ConstantsAssumption DEF Panel, Fields
        <3> QED BY <3>2, Standings DEF Calm, Running
    <2> QED BY <2>1, <2>2, <2>3, <2>4 DEF PanelEdit
<1>3. TypeOK'
    BY <1>1, <1>2, SnapKnown DEF IInv, TypeOK
<1> QED BY <1>1, <1>2, <1>3, SnapKnown, Standings, EnvStep

LEMMA ReadPanelInv ==
    ASSUME IInv, ReadPanel
    PROVE  IInv'
<1>1. /\ UNCHANGED <<env, mark, tail, session, granted, panel, job, lock, faults>>
      /\ snap' = [pc |-> "read", got |-> panel, fresh |-> TRUE]
    BY DEF ReadPanel
<1>2. TypeOK'
    BY <1>1, Standings DEF IInv, TypeOK, env, Snapshot
<1>3. Running' => Running
    BY <1>1 DEF Running
<1> QED BY <1>1, <1>2, <1>3, Standings, EnvStep DEF env

\* A row that takes over a date of an overlay takes that of an earlier grace.
LEMMA ProjectedKeeps ==
    ASSUME IInv, NEW p \in Panel, Known(p.date, mark, granted)
    PROVE  Projected(p) \in Billing /\ Bought(Projected(p).end, mark, granted)
<1>1. billing \in Billing /\ Bought(billing.end, mark, granted) /\ p.date \in Date
      /\ p.status \in {"active", "expired", "disabled"} /\ p.plan \in Fields
    BY Standings, PanelParts
<1>2. p.date # mark => Bought(p.date, mark, granted)
    <2> SUFFICES ASSUME p.date # mark, p.date.by = "grace"
                 PROVE  mark # None /\ p.date.at < mark.at /\ Two(granted)
        BY DEF Bought
    <2>1. mark # None /\ mark.by = "grace" /\ mark \in Date
        BY DEF Known, IInv, MarkFacts, TypeOK
    <2>2. p.date.at # mark.at
        BY <1>1, <2>1 DEF Date
    <2> QED BY <1>1, <2>1, <2>2, DateParts DEF Known
<1>3. CASE Projected(p) \in {billing, [billing EXCEPT !.status = "expired"]}
    BY <1>1, <1>3 DEF Billing
<1>4. CASE /\ p.date # mark
           /\ Projected(p) = [status |-> IF p.status = "active" /\ p.date.at <= now
                                           THEN "expired" ELSE p.status,
                              end |-> p.date, plan |-> p.plan]
    BY <1>1, <1>2, <1>4 DEF Billing
<1> QED BY <1>3, <1>4 DEF Projected

LEMMA ImportInv ==
    ASSUME IInv, SyncRow \/ KeepAlive
    PROVE  IInv'
<1>1. /\ UNCHANGED <<now, mode, suppressed, mark, tail, session, granted, panel, job, lock, edits, faults>>
      /\ snap.pc = "read" /\ snap' = NoSnapshot
      /\ billing' \in {billing, Projected(snap.got)}
    BY DEF SyncRow, KeepAlive
<1>2. billing' \in Billing /\ Bought(billing'.end, mark, granted)
    BY <1>1, Standings, ProjectedKeeps
<1>3. TypeOK'
    BY <1>1, <1>2 DEF IInv, TypeOK, Snapshot
<1>4. (Running' => Running) /\ snap'.pc # "read"
    BY <1>1 DEF Running, NoSnapshot
<1> QED BY <1>1, <1>2, <1>3, <1>4, Standings, EnvStep

-----------------------------------------------------------------------------
LEMMA InitInv ==
    ASSUME Init
    PROVE  IInv
<1>1. /\ now = 0 /\ mark = None /\ session = NoSession /\ granted = {} /\ lock = "free"
      /\ snap = NoSnapshot
      /\ \A w \in Worker : job[w] = Idle
    BY DEF Init
<1>2. PICK plan \in Plan :
        /\ billing = [status |-> "active", end |-> [at |-> 1, by |-> "plan"], plan |-> plan]
        /\ panel = [status |-> "active", date |-> [at |-> 1, by |-> "plan"],
                    plan |-> plan, ext |-> TRUE]
    BY DEF Init
<1>3. [at |-> 1, by |-> "plan"] \in Date
    BY ConstantsAssumption DEF Date, Origin, Window
<1>4. TypeOK
    <2>1. billing \in Billing /\ panel \in Panel
        BY <1>2, <1>3 DEF Billing, Panel, Fields
    <2>2. job \in [Worker -> Job]
        BY DEF Init, Job
    <2> QED BY <2>1, <2>2, ConstantsAssumption DEF Init, TypeOK, Snapshot
<1>5. /\ Calm(panel, now) /\ Known(panel.date, mark, granted) /\ Bought(billing.end, mark, granted)
    BY <1>2 DEF Calm, Known, Bought
<1>6. Idle.pc = "idle" /\ "idle" \notin Locked /\ snap.pc # "read"
    BY <1>1 DEF Idle, Locked, Pc, NoSnapshot
<1>7. MarkFacts /\ SessionFacts /\ Dates
    BY <1>1, <1>5, <1>6 DEF MarkFacts, SessionFacts, Dates
<1>8. Locking /\ Creating /\ Working /\ Going /\ Closed
    BY <1>1, <1>6 DEF Locking, Creating, Working, Going, Closed, Locked, Pc
<1> QED BY <1>4, <1>7, <1>8 DEF IInv

LEMMA NextInv ==
    ASSUME IInv, [Next]_vars
    PROVE  IInv'
<1>1. CASE UNCHANGED vars
    BY <1>1 DEF IInv, TypeOK, MarkFacts, SessionFacts, Dates, Locking, Creating, Working,
                Going, Closed, Running, vars
<1>2. CASE ReadPanel \/ SyncRow \/ KeepAlive
    BY <1>2, ReadPanelInv, ImportInv
<1>3. CASE Stamp /\ (Observe \/ Retry \/ Create)
    BY <1>3, ObserveInv, RetryInv, CreateInv
<1>4. CASE Stamp /\ \E w \in Worker : Reconcile(w) \/ Step(w) \/ Crash(w)
    BY <1>4, ReconcileInv, StepInv, CrashInv
<1>5. CASE /\ Stamp
           /\ \/ Tick \/ Restart \/ Bill \/ Push \/ Disable \/ Enable
              \/ PanelExpires \/ PanelEdit
    BY <1>5, TickInv, BillInv, PushInv, SwitchInv, PanelInv
<1> QED BY <1>1, <1>2, <1>3, <1>4, <1>5 DEF Next

LEMMA Invariance == Spec => []IInv
    BY InitInv, NextInv, PTL DEF Spec

-----------------------------------------------------------------------------
(* Which steps touch the account, which end a session.                     *)

Patches(w) ==
    Detach(w) \/ Overlay(w) \/ ApplyLive(w) \/ ApplyExpired(w) \/ PatchBack(w)

LEMMA PanelMoves ==
    ASSUME IInv, [Next]_vars, panel' # panel
    PROVE  edits' # edits \/ PanelExpires \/ Push \/ \E w \in Worker : Patches(w)
<1>1. edits \in Nat
    BY ConstantsAssumption DEF IInv, TypeOK
<1>2. CASE UNCHANGED vars \/ ReadPanel \/ SyncRow \/ KeepAlive
    BY <1>2 DEF vars, ReadPanel, SyncRow, KeepAlive
<1>3. CASE Observe \/ Retry \/ Create
    BY <1>3 DEF Observe, Retry, Create
<1>4. CASE \E w \in Worker : Reconcile(w) \/ Crash(w)
    BY <1>4 DEF Reconcile, Supersede, ActivatePending, Abandon, Withdraw, Pass, Crash
<1>5. ASSUME NEW w \in Worker, Step(w)
      PROVE  Patches(w)
    BY <1>5 DEF Step, Patches, Resume, Activate, Confirm, Recheck, Finish, Keep
<1>6. CASE Tick \/ Restart \/ Bill \/ Disable \/ Enable \/ PanelEdit
    BY <1>1, <1>6 DEF Tick, Restart, Bill, Disable, Enable, PanelEdit
<1> QED BY <1>2, <1>3, <1>4, <1>5, <1>6 DEF Next

\* A worker that touches the account holds the lock and an open session.
LEMMA Patcher ==
    ASSUME IInv, NEW w \in Worker, Patches(w)
    PROVE  /\ session # NoSession /\ session' = session /\ job[w].s = session
           /\ job[w] \in Jobs /\ job[w].b \in Billing
<1>1. job[w].pc \in Locked \ {"create"} /\ UNCHANGED session
    BY DEF Patches, Detach, Overlay, ApplyLive, ApplyExpired, PatchBack, Locked, Pc
<1> QED BY <1>1, Holding

LEMMA RestoreKeepsOpen ==
    ASSUME NEW w, NEW s \in Session, NEW loop, BeginRestore(w, s, loop), session = s
    PROVE  session' # NoSession
<1>1. s # NoSession /\ [s EXCEPT !.state = "restoring"] # NoSession
    BY SessionParts, SessionKeeps DEF State
<1> QED BY <1>1 DEF BeginRestore

LEMMA SessionEnds ==
    ASSUME IInv, [Next]_vars, session # NoSession, session' = NoSession
    PROVE  Push \/ \E w \in Worker : Recheck(w) \/ Finish(w)
<1>1. session \in Session
    BY Opened
<1>2. CASE UNCHANGED vars \/ ReadPanel \/ SyncRow \/ KeepAlive
    BY <1>2 DEF vars, ReadPanel, SyncRow, KeepAlive
<1>3. CASE Observe \/ Retry
    BY <1>3 DEF Observe, Retry
<1>4. CASE Create
    <2>1. job[Bot].pc = "create" /\ Bot \in Worker
        BY <1>4 DEF Create, Worker
    <2> QED BY <2>1 DEF IInv, Creating
<1>5. ASSUME NEW w \in Worker, Reconcile(w) \/ Crash(w)
      PROVE  FALSE
    <2>1. CASE Withdraw(w)
        BY <1>1, <2>1, RestoreKeepsOpen DEF Withdraw
    <2>2. CASE Supersede(w) \/ ActivatePending(w) \/ Abandon(w) \/ Crash(w)
        BY <2>2 DEF Supersede, ActivatePending, Abandon, Crash
    <2> QED BY <1>5, <2>1, <2>2 DEF Reconcile
<1>6. ASSUME NEW w \in Worker, Step(w)
      PROVE  Recheck(w) \/ Finish(w)
    <2>1. CASE Activate(w)
        <3>1. job[w] \in Jobs /\ job[w].s = session
            BY <2>1, Holding DEF Activate, Locked, Pc
        <3>2. PICK j : j = [job[w] EXCEPT !.b = billing]
            OBVIOUS
        <3>3. j.s = session
            BY <3>1, <3>2 DEF Jobs
        <3>4. (session' = session) \/ BeginRestore(w, j.s, j.loop)
            BY <2>1, <3>2 DEF Activate
        <3> QED BY <1>1, <3>3, <3>4, RestoreKeepsOpen
    <2>2. CASE Confirm(w)
        <3>1. job[w] \in Jobs /\ job[w].s = session
            BY <2>2, Holding DEF Confirm, Locked, Pc
        <3>2. PICK j : j = [job[w] EXCEPT !.b = billing]
            OBVIOUS
        <3>3. j.s = session
            BY <3>1, <3>2 DEF Jobs
        <3>4. \/ session' = session \/ BeginRestore(w, j.s, j.loop)
              \/ session' = [j.s EXCEPT !.state = "active"]
            BY <2>2, <3>2 DEF Confirm, Commit
        <3>5. [session EXCEPT !.state = "active"] # NoSession
            BY <1>1, SessionParts, SessionKeeps DEF State
        <3> QED BY <1>1, <3>3, <3>4, <3>5, RestoreKeepsOpen
    <2>3. CASE Resume(w) \/ Patches(w) \/ Keep(w)
        BY <2>3, Patcher DEF Resume, Keep, Commit
    <2> QED BY <1>6, <2>1, <2>2, <2>3 DEF Step, Patches
<1>7. CASE Tick \/ Restart \/ Bill \/ Disable \/ Enable \/ PanelExpires \/ PanelEdit
    BY <1>7 DEF Tick, Restart, Bill, Disable, Enable, PanelExpires, PanelEdit
<1> QED BY <1>2, <1>3, <1>4, <1>5, <1>6, <1>7 DEF Next

-----------------------------------------------------------------------------
(* What the inductive invariant shows.                                     *)

\* Every variable keeps its type, whatever interleaves.
THEOREM TypeCorrect == Spec => []TypeOK
    BY Invariance, PTL DEF IInv

\* The date of the last overlay never becomes the subscription's end date, that of an
\* earlier one only after a second grace, for every length of a grace and a renewal.
THEOREM NoRenewalByOverlay == Spec => []OverlayIsNoRenewal
<1>1. ASSUME IInv PROVE OverlayIsNoRenewal
    <2>1. Bought(billing.end, mark, granted) /\ billing.end \in Date /\ mark \in Date \cup {None}
        BY <1>1, Standings DEF IInv, TypeOK
    <2>2. mark # None => mark.by = "grace" /\ mark.at \in Nat
        BY <1>1, <2>1, DateParts DEF IInv, MarkFacts
    <2> QED BY <2>1, <2>2, DateParts DEF OverlayIsNoRenewal, Bought, Two
<1> QED BY <1>1, Invariance, PTL

\* No step but an administrator's leaves a running overlay without a session that will
\* take it away.
THEOREM OverlayIsCovered == Spec => NothingLeftBehind
<1>1. ASSUME IInv, [Next]_vars, Covered, ~Covered'
      PROVE  edits' # edits
    <2>1. Running' /\ session' = NoSession /\ (Running => session # NoSession)
        BY <1>1 DEF Covered
    <2>2. CASE session # NoSession
        <3>1. PICK w \in Worker : Push \/ Recheck(w) \/ Finish(w)
            BY <1>1, <2>1, <2>2, SessionEnds, ConstantsAssumption DEF Worker
        <3>2. CASE Push
            <4>1. PICK c \in {panel.date, None} : panel' = Patched(BillingTarget(billing, c, "cut"))
                BY <3>2 DEF Push
            <4>2. panel'.ext = TRUE
                BY <1>1, <4>1, Standings, Pushed
            <4> QED BY <2>1, <4>2 DEF Running
        <3>3. CASE Recheck(w) \/ Finish(w)
            <4>1. ~Running /\ UNCHANGED <<panel, mark>>
                BY <1>1, <3>3 DEF IInv, Closed, Recheck, Finish
            <4> QED BY <2>1, <4>1 DEF Running
        <3> QED BY <3>1, <3>2, <3>3
    <2>3. CASE session = NoSession
        <3>1. mark' = mark
            <4>1. ~Create
                <5>1. Bot \in Worker
                    BY DEF Worker
                <5>2. Create => job[Bot].s \in Session /\ session' = job[Bot].s
                    BY <1>1, <5>1, JobParts DEF Create, IInv, TypeOK, Idle
                <5> QED BY <2>1, <5>2, SessionParts
            <4> QED BY <1>1, <4>1 DEF Next, vars, env, ReadPanel, SyncRow, KeepAlive, Observe, Retry,
                       Reconcile, Supersede, ActivatePending, Abandon, Withdraw, Pass, Crash, Step,
                       Resume, Activate, Detach, Overlay, Confirm, ApplyLive, ApplyExpired, PatchBack,
                       Recheck, Finish, Keep, Tick, Restart, Bill, Push, Disable, Enable,
                       PanelExpires, PanelEdit
        <3>2. panel' # panel
            BY <2>1, <2>3, <3>1 DEF Running
        <3>3. CASE PanelExpires
            BY <1>1, <2>1, <3>3, Standings DEF PanelExpires, Panel, Running
        <3>4. CASE Push
            <4>1. PICK c \in {panel.date, None} : panel' = Patched(BillingTarget(billing, c, "cut"))
                BY <3>4 DEF Push
            <4>2. panel'.ext = TRUE
                BY <1>1, <4>1, Standings, Pushed
            <4> QED BY <2>1, <4>2 DEF Running
        <3> QED BY <1>1, <2>3, <3>2, <3>3, <3>4, PanelMoves, Patcher
    <2> QED BY <2>2, <2>3
<1>2. IInv /\ [Next]_vars => [Covered /\ ~Covered' => edits' # edits]_vars
    BY <1>1
<1> QED BY <1>2, Invariance, PTL DEF Spec, NothingLeftBehind

\* An account that shows what is paid is changed by an administrator, by a payment's own
\* push or by one that a later payment overtook, never by an overlay, by a restore or by
\* an expired state decided on before.
THEOREM PaidIsServed == Spec => PaidAccessStays
<1>1. ASSUME IInv, [Next]_vars, Served, panel' # panel
      PROVE  edits' # edits \/ Overtaken
    <2>1. /\ billing.status = "active" /\ billing.end.at > now /\ Resolved(billing) = "active"
          /\ billing.end \in Date /\ billing.end # None /\ billing.end.by = "plan"
        BY <1>1, Standings, DateParts DEF Served, Actual, Resolved
    <2>2. ASSUME NEW c, NEW by
          PROVE  Patched(BillingTarget(billing, c, by)) =
                    [status |-> "active", date |-> billing.end, plan |-> billing.plan, ext |-> TRUE]
        BY <2>1 DEF Patched, BillingTarget
    <2>3. panel = [status |-> "active", date |-> billing.end, plan |-> billing.plan, ext |-> TRUE]
        BY <1>1, <2>2 DEF Served
    <2>4. panel.status = "active" /\ panel.date = billing.end /\ panel.ext = TRUE
        BY <2>3
    <2>5. ~PanelExpires
        BY <2>1, <2>4, <1>1, Standings, DateParts DEF PanelExpires
    <2>6. ~Push
        BY <1>1, <2>2, <2>3 DEF Push
    <2>7. ASSUME NEW w \in Worker, Patches(w)
          PROVE  Overtaken
        <3>1. /\ session # NoSession /\ job[w].s = session /\ job[w] \in Jobs
            BY <1>1, <2>7, Patcher
        <3>2. CASE Detach(w) \/ Overlay(w)
            BY <1>1, <2>1, <2>4, <3>2 DEF Detach, Overlay, IInv, Going
        <3>3. CASE ApplyLive(w)
            <4>1. job[w].pc = "apply" /\ Resolved(job[w].b) # "expired"
                BY <3>3 DEF ApplyLive, BillingTarget
            <4>2. job[w].b # billing
                BY <1>1, <2>2, <2>3, <3>3 DEF ApplyLive, Call
            <4> QED BY <4>1, <4>2 DEF Overtaken
        <3>4. CASE ApplyExpired(w)
            BY <1>1, <2>4, <3>1, <3>4 DEF ApplyExpired, Overlaid
        <3>5. CASE PatchBack(w)
            <4>1. Overlaid(session) \/ Untouched(session)
                BY <1>1, <3>1, <3>5 DEF PatchBack
            <4>2. ~Overlaid(session)
                BY <2>4 DEF Overlaid
            <4>3. session.before \in Panel /\ session.before.status # "active" /\ panel \in Panel
                BY <1>1, <3>1, Opened, SessionParts DEF Source
            <4>4. ~Untouched(session)
                BY <2>4, <4>3 DEF Untouched, Panel
            <4> QED BY <4>1, <4>2, <4>4
        <3> QED BY <2>7, <3>2, <3>3, <3>4, <3>5 DEF Patches
    <2> QED BY <1>1, <2>5, <2>6, <2>7, PanelMoves
<1>2. IInv /\ [Next]_vars => [Served /\ panel' # panel => edits' # edits \/ Overtaken]_vars
    BY <1>1
<1> QED BY <1>2, Invariance, PTL DEF Spec, PaidAccessStays

\* No overlay goes out for an incident that an administrator has suppressed, for any
\* interleaving of his disable with the worker's steps.
THEOREM DisableHasPriority == Spec => SuppressedNeverActivated
<1>1. IInv /\ [Next]_vars =>
         [OverlayGoesOut /\ suppressed # None => session.inc.at > suppressed.at]_vars
    BY DEF IInv, Going, OverlayGoesOut
<1> QED BY <1>1, Invariance, PTL DEF Spec, SuppressedNeverActivated

=============================================================================
