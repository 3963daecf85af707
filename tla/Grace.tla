------------------------------- MODULE Grace -------------------------------
(***************************************************************************)
(* Grace access of one subscription that expired: for a while its account  *)
(* in the Remnawave panel is put into a restricted squad (the overlay),    *)
(* then given back.  A session goes pending, active, restoring, completed. *)
(*                                                                         *)
(* The database and the panel share no transaction.  A worker (the bot's   *)
(* reconciler, or the command restore-all run beside it) holds the         *)
(* subscription's advisory lock from its first read to its commit, except  *)
(* that the checkpoints PENDING and RESTORING commit, which releases the   *)
(* lock, and take it again.  It is split at every panel call and commit;   *)
(* what it has written and not committed is part of its job.  Meanwhile    *)
(* clients pay, administrators act in the bot and in the panel, the panel  *)
(* expires accounts, and imports copy the panel into the bot.              *)
(***************************************************************************)
EXTENDS Integers

CONSTANTS
    Bot, Cli,       \* the bot process; restore-all in a process of its own
    Plan,           \* limits and squads a tariff can give
    Period,         \* what a renewal buys
    Duration,       \* length of a grace access
    PanelActs,      \* what administrators do in the panel itself
    MaxTime,        \* bound: the clock stops here
    MaxEdits,       \* bound: payments and administrators' acts
    MaxFaults       \* bound: crashes and failed panel calls

Worker == {Bot, Cli}

\* A date in the panel's past or in its next minutes will expire the account
\* by itself: the reconciler leaves such a date alone (_ALREADY_EXTINGUISHED).
Window == 1

ASSUME ConstantsAssumption ==
    /\ Bot # Cli /\ "free" \notin Worker
    /\ "grace" \notin Plan
    /\ Period \in Nat
    /\ Duration \in Nat /\ Duration > Window
    /\ PanelActs \subseteq {"disable", "extend", "replan"}
    /\ MaxTime \in Nat /\ MaxEdits \in Nat /\ MaxFaults \in Nat

\* Dates carry microseconds: two that were computed in different places never
\* coincide, so a date remembers where it came from.
Origin == {"plan", "panel", "grace", "closing", "cut"}
Date == [at : 0 .. MaxTime + Period + Duration, by : Origin]
None == [at |-> -1, by |-> "none"]

Fields == Plan \cup {"grace"}

\* The account: status, expiry, limits and squads, external squad attached.
Panel == [status : {"active", "expired", "disabled"}, date : Date,
          plan : Fields, ext : BOOLEAN]

\* The subscription row: stored status, end date, limits and squads.
Billing == [status : {"active", "expired", "disabled"}, end : Date,
            plan : Fields]

State == {"pending", "active", "restoring"}

\* inc is the incident: the end date the session was granted for.
Session == [state : State, inc : Date, plan : Fields, before : Panel,
            until : Date]

NoSession == [state |-> "none"]
Idle == [pc |-> "idle"]
NoSnapshot == [pc |-> "idle"]

VARIABLES
    now,
    mode,       \* GRACE_ACCESS_MODE of the running bot: active or drain
    billing,    \* the subscription as the bot's database has it
    suppressed, \* grace_suppressed_until
    mark,       \* grace_overlay_expire_at
    tail,       \* grace_tail_expire_at
    session,    \* the open session; open is also subscriptions.grace_session_open
    granted,    \* incidents that have or had a session
    panel,      \* the account in the panel
    job,        \* what each worker is doing
    lock,       \* who holds the advisory lock
    snap,       \* what an import has read of the panel and of the row
    edits, faults

vars == <<now, mode, billing, suppressed, mark, tail, session, granted, panel,
          job, lock, snap, edits, faults>>
env == <<now, mode, billing, suppressed, edits>>

Pc == {"create", "started", "activate", "detach", "overlay", "confirm",
       "apply", "restoring", "patchback", "recheck", "finish", "keep"}

\* s: the session as the worker last read it; b: the billing it last read;
\* tail: a date it has written to grace_tail_expire_at and not committed;
\* after: where applying billing leads; loop: a reconciler's pass rather than
\* the processing of a candidate.
Job == {Idle} \cup
       [pc : Pc, s : Session, b : Billing, tail : Date \cup {None},
        after : {"recheck", "finish"}, loop : BOOLEAN]

\* A snapshot of the account, and whether it is still newer than the row.
Snapshot == {NoSnapshot} \cup [pc : {"read"}, got : Panel, fresh : BOOLEAN]

TypeOK ==
    /\ now \in 0 .. MaxTime
    /\ mode \in {"active", "drain"}
    /\ billing \in Billing
    /\ suppressed \in Date \cup {None}
    /\ mark \in Date \cup {None}
    /\ tail \in Date \cup {None}
    /\ session \in Session \cup {NoSession}
    /\ granted \subseteq Date
    /\ panel \in Panel
    /\ job \in [Worker -> Job]
    /\ lock \in Worker \cup {"free"}
    /\ snap \in Snapshot
    /\ edits \in 0 .. MaxEdits
    /\ faults \in 0 .. MaxFaults

\* A paid subscription whose account is in order.
Init ==
    /\ now = 0
    /\ mode = "active"
    /\ \E plan \in Plan :
          /\ billing = [status |-> "active", end |-> [at |-> 1, by |-> "plan"],
                        plan |-> plan]
          /\ panel = [status |-> "active", date |-> [at |-> 1, by |-> "plan"],
                      plan |-> plan, ext |-> TRUE]
    /\ suppressed = None /\ mark = None /\ tail = None
    /\ session = NoSession
    /\ granted = {}
    /\ job = [w \in Worker |-> Idle]
    /\ lock = "free"
    /\ snap = NoSnapshot
    /\ edits = 0 /\ faults = 0

-----------------------------------------------------------------------------
(* What the bot concludes from billing and from the account.               *)

\* actual_status: an active subscription whose date has passed is expired.
Actual(b) ==
    IF b.status = "active" /\ b.end.at <= now THEN "expired" ELSE b.status

\* billing_incident_is_eligible
Eligible(b) ==
    /\ Actual(b) = "expired"
    /\ suppressed # None => b.end.at > suppressed.at

\* billing_is_revoked
Revoked(b) == b.status = "disabled"

\* billing_echoes_overlay: an import brought the overlay's date into the bot.
Echoes(s, b) == b.end = s.until

\* billing_has_recovered
Recovered(s, b) ==
    /\ ~Echoes(s, b)
    /\ Actual(b) = "active"
    /\ b.end.at > s.inc.at

\* billing_still_matches_session
Matches(s, b) ==
    /\ Actual(b) = "expired"
    /\ b.end = s.inc
    /\ b.plan = s.plan

\* panel_matches_overlay
Overlaid(s) ==
    /\ panel.status = "active" \/ now >= s.until.at
    /\ panel.date = s.until
    /\ panel.plan = "grace"
    /\ ~panel.ext

\* panel_is_safe_pending_source: as it was, or with the external squad already
\* detached by an earlier attempt.
Untouched(s) ==
    /\ panel.ext => s.before.ext
    /\ [panel EXCEPT !.ext = TRUE] = [s.before EXCEPT !.ext = TRUE]

-----------------------------------------------------------------------------
(* What the bot wants the account to be.  A target without a date leaves   *)
(* the date alone; the status expired is derived by the panel, never sent. *)

\* stale_panel_expire_at: the panel refuses past dates, so a future date of an
\* expired subscription is replaced by the nearest date it accepts.
Stale(date, by) ==
    IF date.at > now + Window THEN [at |-> now + 1, by |-> by] ELSE None

\* resolve_panel_status: an expired subscription with a future date is a
\* contradiction and is disabled.
Resolved(b) ==
    IF Actual(b) = "active" THEN "active"
    ELSE IF b.status = "disabled" \/ b.end.at > now THEN "disabled"
    ELSE "expired"

\* _build_billing_target; current is the panel's date if the caller knows it.
\* A date put back is "closing" if grace does it, "cut" if the ordinary writer.
BillingTarget(b, current, by) ==
    [status |-> Resolved(b),
     date |-> IF b.end.at > now THEN b.end ELSE Stale(current, by),
     plan |-> b.plan, ext |-> TRUE]

\* _build_restore_target, of a session for an expired subscription
RestoreTarget(s) ==
    [status |-> IF s.before.status = "disabled" THEN "disabled" ELSE "expired",
     date |-> IF s.before.date.at > now THEN s.before.date
              ELSE Stale(panel.date, "closing"),
     plan |-> s.before.plan, ext |-> s.before.ext]

\* Mutant: a date left out of the target is sent as null.
Patched_NullDate(t) ==
    [status |-> IF t.status = "expired" THEN panel.status ELSE t.status,
     date |-> t.date, plan |-> t.plan, ext |-> t.ext]

\* The account after a PATCH built by _serialize_panel_target.
Patched(t) ==
    [status |-> IF t.status = "expired" THEN panel.status ELSE t.status,
     date |-> IF t.date = None THEN panel.date ELSE t.date,
     plan |-> t.plan, ext |-> t.ext]

\* _panel_matches_target, for the statuses expired and disabled
AtTarget(t) ==
    /\ \/ panel.status = "expired"
       \/ panel.status = "disabled" /\ t.status = "disabled"
    /\ panel.plan = t.plan /\ panel.ext = t.ext

\* _expired_transition_is_pending: the fields are in place and the panel will
\* expire the account by itself.
Closing(t) ==
    /\ panel.status = "active" /\ panel.date.at <= now + Window
    /\ panel.plan = t.plan /\ panel.ext = t.ext

-----------------------------------------------------------------------------
(* Steps of a worker.                                                      *)

\* Mutant: the advisory lock is not taken.
LockFree_NoLock == TRUE

\* pg_advisory_xact_lock, and in the bot the process lock around it.
LockFree == lock = "free"

Become(w, j) == job' = [job EXCEPT ![w] = j]

Goto(w, pc) == Become(w, [job[w] EXCEPT !.pc = pc])

\* Take the lock and start on session s.
Begin(w, pc, s, after, loop) ==
    /\ lock' = w
    /\ Become(w, [pc |-> pc, s |-> s, b |-> billing, tail |-> None,
                  after |-> after, loop |-> loop])

\* End of the transaction: what was written becomes visible, the lock is free.
Commit(w, s) ==
    /\ session' = s
    /\ tail' = IF job[w].tail = None THEN tail ELSE job[w].tail
    /\ lock' = "free"
    /\ Become(w, Idle)

\* Mutant: an error of the call is logged and the pass goes on.
Call_Swallowed(w, p, j) ==
    \/ panel' = p /\ Become(w, j) /\ UNCHANGED faults
    \/ /\ faults < MaxFaults
       /\ faults' = faults + 1
       /\ panel' \in {p, panel}
       /\ Become(w, j)

\* A panel call that would leave the account as p and the worker as j.  It may
\* fail before or after it reached the panel: then the error is recorded, the
\* session stays as it is and a later pass tries again.
Call(w, p, j) ==
    \/ panel' = p /\ Become(w, j) /\ UNCHANGED faults
    \/ /\ faults < MaxFaults
       /\ faults' = faults + 1
       /\ panel' \in {p, panel}
       /\ Become(w, [j EXCEPT !.pc = "keep"])

\* _restore_and_complete: paid billing wins over the old snapshot.
Restore(w, j, s) ==
    Become(w, [j EXCEPT !.s = s, !.b = billing,
                        !.pc = IF Recovered(s, billing) THEN "apply"
                               ELSE "patchback"])

\* RESTORING is committed, which releases the lock, before the panel is touched.
BeginRestore(w, s, loop) ==
    LET j == [pc |-> "restoring", s |-> [s EXCEPT !.state = "restoring"],
              b |-> billing, tail |-> None, after |-> "finish", loop |-> loop] IN
    IF s.state = "restoring"
      THEN /\ Restore(w, j, s)
           /\ lock' = w
           /\ UNCHANGED session
      ELSE /\ Become(w, j)
           /\ lock' = "free"
           /\ session' = j.s

-----------------------------------------------------------------------------
(* A candidate is considered: a webhook or the worker saw it expire.       *)

NewSession ==
    [state |-> "pending", inc |-> billing.end, plan |-> billing.plan,
     before |-> panel, until |-> [at |-> now + Duration, by |-> "grace"]]

Candidate ==
    /\ job[Bot] = Idle
    /\ LockFree
    /\ mode = "active"
    /\ Eligible(billing)

\* Bound: no grace is granted that would outlast the clock.
Observe ==
    /\ Candidate
    /\ now + Duration <= MaxTime
    /\ session = NoSession
    /\ panel.status \in {"expired", "disabled"}
    /\ billing.end \notin granted
    /\ Begin(Bot, "create", NewSession, "finish", FALSE)
    /\ UNCHANGED <<env, mark, tail, session, granted, panel, faults>>

\* An event about a subscription whose session is still pending retries it.
Retry ==
    /\ Candidate
    /\ session # NoSession
    /\ session.state = "pending"
    /\ Begin(Bot, "activate", session, "finish", FALSE)
    /\ UNCHANGED <<env, mark, tail, session, granted, panel, faults>>

\* store.create: PENDING and the overlay's date are committed before any PATCH.
Create ==
    LET s == job[Bot].s IN
    /\ job[Bot].pc = "create"
    /\ session' = s
    /\ granted' = granted \cup {s.inc}
    /\ mark' = s.until
    /\ lock' = "free"
    /\ Goto(Bot, "started")
    /\ UNCHANGED <<env, tail, panel, faults>>

\* After a checkpoint the lock is taken again and the session read again: it
\* may have been restored or completed meanwhile.
Resume(w) ==
    LET s == session IN
    /\ job[w].pc \in {"started", "restoring"}
    /\ LockFree
    /\ IF s = NoSession \/ s.inc # job[w].s.inc
            \/ (job[w].pc = "started" /\ s.state # "pending")
         THEN Become(w, Idle) /\ UNCHANGED lock
         ELSE /\ lock' = w
              /\ IF job[w].pc = "started"
                   THEN Become(w, [job[w] EXCEPT !.s = s, !.pc = "activate"])
                   ELSE Restore(w, job[w], s)
    /\ UNCHANGED <<env, mark, tail, session, granted, panel, faults>>

-----------------------------------------------------------------------------
(* _activate_pending                                                       *)

\* Mutant: a suppression since the session was created is not looked at.
Stays_Unsuppressed(w) ==
    now < job[w].s.until.at /\ Matches(job[w].s, billing)

Stays(w) ==
    /\ now < job[w].s.until.at
    /\ Eligible(billing)
    /\ Matches(job[w].s, billing)

Activate(w) ==
    LET j == [job[w] EXCEPT !.b = billing] IN
    /\ job[w].pc = "activate"
    /\ \/ /\ Recovered(j.s, billing)
          /\ Become(w, [j EXCEPT !.pc = "apply"])
          /\ UNCHANGED <<session, lock>>
       \/ /\ ~Recovered(j.s, billing)
          /\ ~Stays(w)
          /\ BeginRestore(w, j.s, j.loop)
       \/ /\ Stays(w)
          /\ Become(w, [j EXCEPT !.pc = IF Overlaid(j.s) THEN "confirm"
                                        ELSE IF Untouched(j.s) THEN "detach"
                                        ELSE "apply"])
          /\ UNCHANGED <<session, lock>>
    /\ UNCHANGED <<env, mark, tail, granted, panel, faults>>

\* apply_overlay: the external squad goes first, in a PATCH of its own.
Detach(w) ==
    /\ job[w].pc = "detach"
    /\ Call(w, [panel EXCEPT !.ext = FALSE], [job[w] EXCEPT !.pc = "overlay"])
    /\ UNCHANGED <<env, mark, tail, session, granted, lock>>

Overlay(w) ==
    /\ job[w].pc = "overlay"
    /\ Call(w, [panel EXCEPT !.status = "active", !.date = job[w].s.until,
                             !.plan = "grace"],
            [job[w] EXCEPT !.pc = "confirm"])
    /\ UNCHANGED <<env, mark, tail, session, granted, lock>>

\* Billing is read again after the overlay went out.
Confirm(w) ==
    LET j == [job[w] EXCEPT !.b = billing] IN
    /\ job[w].pc = "confirm"
    /\ \/ /\ Recovered(j.s, billing) \/ Revoked(billing)
          /\ Become(w, [j EXCEPT !.pc = "apply"])
          /\ UNCHANGED <<session, tail, lock>>
       \/ /\ ~Recovered(j.s, billing) /\ ~Revoked(billing)
          /\ ~(Eligible(billing) /\ Matches(j.s, billing))
          /\ BeginRestore(w, j.s, j.loop)
          /\ UNCHANGED tail
       \/ /\ Eligible(billing) /\ Matches(j.s, billing)
          /\ Commit(w, [j.s EXCEPT !.state = "active"])
    /\ UNCHANGED <<env, mark, granted, panel, faults>>

-----------------------------------------------------------------------------
(* apply_billing_state and restore_snapshot: read the account, then PATCH. *)

\* After a PATCH without a status the account may still be active, and the
\* panel is about to expire it: the session waits for that.
Waits(t, p) ==
    t.status = "expired" /\ p.status = "active" /\ p.date.at <= now + Window

\* The date a PATCH leaves in the panel is written to the row first.
Tailed(t, j) ==
    [j EXCEPT !.tail = IF t.status = "disabled" THEN @
                       ELSE IF t.date = None THEN panel.date ELSE t.date]

\* Billing that is active or disabled is pushed whatever the panel holds.
ApplyLive(w) ==
    LET t == BillingTarget(job[w].b, None, "closing") IN
    /\ job[w].pc = "apply"
    /\ t.status # "expired"
    /\ Call(w, Patched(t), [job[w] EXCEPT !.pc = job[w].after])
    /\ UNCHANGED <<env, mark, tail, session, granted, lock>>

\* Expired billing replaces only the overlay or what an earlier attempt left;
\* anything else is a conflict, which closes the session in a reconciler's pass.
ApplyExpired(w) ==
    LET t == BillingTarget(job[w].b, panel.date, "closing")
        p == Patched(t)
        j == job[w]
        conflict == IF j.loop THEN "finish" ELSE "keep" IN
    /\ j.pc = "apply"
    /\ t.status = "expired"
    /\ IF AtTarget(t) \/ Closing(t) \/ ~Overlaid(j.s)
         THEN /\ Goto(w, IF AtTarget(t) THEN j.after
                         ELSE IF Closing(t) THEN "keep" ELSE conflict)
              /\ UNCHANGED <<panel, faults>>
         ELSE Call(w, p, [Tailed(t, j) EXCEPT
                            !.pc = IF p.status = "expired" THEN j.after
                                   ELSE IF Waits(t, p) THEN "keep"
                                   ELSE conflict])
    /\ UNCHANGED <<env, mark, tail, session, granted, lock>>

PatchBack(w) ==
    LET j == job[w]
        t == RestoreTarget(j.s)
        p == Patched(t) IN
    /\ j.pc = "patchback"
    /\ IF \/ AtTarget(t)
          \/ t.status = "expired" /\ Closing(t)
          \/ ~Overlaid(j.s) /\ ~Untouched(j.s)
         THEN /\ Goto(w, IF ~AtTarget(t) /\ t.status = "expired" /\ Closing(t)
                         THEN "keep" ELSE "recheck")
              /\ UNCHANGED <<panel, faults>>
         ELSE Call(w, p, [Tailed(t, j) EXCEPT
                            !.pc = IF Waits(t, p) THEN "keep" ELSE "recheck"])
    /\ UNCHANGED <<env, mark, tail, session, granted, lock>>

\* A payment may have landed during the restore: it still wins.
Recheck(w) ==
    /\ job[w].pc = "recheck"
    /\ IF Recovered(job[w].s, billing)
         THEN /\ Become(w, [job[w] EXCEPT !.pc = "apply", !.b = billing,
                                          !.after = "finish"])
              /\ UNCHANGED <<session, tail, lock>>
         ELSE Commit(w, NoSession)
    /\ UNCHANGED <<env, mark, granted, panel, faults>>

\* _complete and the commit that ends the pass.
Finish(w) ==
    /\ job[w].pc = "finish"
    /\ Commit(w, NoSession)
    /\ UNCHANGED <<env, mark, granted, panel, faults>>

\* The pass ends with the session still open: it waits for the panel, or an
\* error was recorded.
Keep(w) ==
    /\ job[w].pc = "keep"
    /\ Commit(w, session)
    /\ UNCHANGED <<env, mark, granted, panel, faults>>

\* The process dies, or is stopped, which cancels its task: the transaction is
\* rolled back.
Crash(w) ==
    /\ job[w] # Idle
    /\ faults < MaxFaults
    /\ faults' = faults + 1
    /\ Become(w, Idle)
    /\ lock' = IF lock = w THEN "free" ELSE lock
    /\ UNCHANGED <<env, mark, tail, session, granted, panel>>

-----------------------------------------------------------------------------
(* _reconcile_one: the loop of the bot, or restore-all, which restores at    *)
(* once.  The command wants the stored mode to be drain; the bot may still   *)
(* run with the mode it was started with.                                    *)

Pass(w) ==
    /\ job[w] = Idle
    /\ LockFree
    /\ session # NoSession
    /\ UNCHANGED <<env, mark, tail, granted, panel, faults>>

\* The session's incident is still the one billing shows.
Standing ==
    /\ ~Recovered(session, billing)
    /\ ~Revoked(billing)
    /\ Echoes(session, billing) \/ (Eligible(billing) /\ Matches(session, billing))

\* Paid, revoked or changed: canonical billing wins.
Supersede(w) ==
    /\ Pass(w)
    /\ ~Standing
    /\ Begin(w, "apply", session,
             IF Revoked(billing) THEN "recheck" ELSE "finish", TRUE)
    /\ UNCHANGED session

\* Mutant: the end of the session is not looked at.
Continues_Forever(w) == w = Bot

\* May the session go on?  Not in restore-all, not past its end.
Continues(w) == w = Bot /\ now < session.until.at

\* A drain never activates.
ActivatePending(w) ==
    /\ Pass(w)
    /\ Standing
    /\ session.state = "pending"
    /\ Continues(w) /\ mode = "active"
    /\ Begin(w, "activate", session, "finish", TRUE)
    /\ UNCHANGED session

\* The overlay is gone though the session runs: it is not put back.
Abandon(w) ==
    /\ Pass(w)
    /\ Standing
    /\ session.state = "active"
    /\ Continues(w)
    /\ ~Overlaid(session)
    /\ Begin(w, IF panel.status = "active" THEN "apply" ELSE "finish",
             session, "finish", TRUE)
    /\ UNCHANGED session

Withdraw(w) ==
    /\ Pass(w)
    /\ Standing
    /\ session.state = "pending" => ~(Continues(w) /\ mode = "active")
    /\ session.state = "active" => ~Continues(w)
    /\ BeginRestore(w, session, TRUE)

Reconcile(w) ==
    Supersede(w) \/ ActivatePending(w) \/ Abandon(w) \/ Withdraw(w)

-----------------------------------------------------------------------------
(* Everyone else.                                                          *)

\* The clock.  Bound: an import is shorter than a tick, which is minutes.
Tick ==
    /\ now < MaxTime
    /\ snap = NoSnapshot
    /\ now' = now + 1
    /\ UNCHANGED <<mode, billing, suppressed, mark, tail, session, granted,
                   panel, job, lock, edits, faults>>

\* The mode is read at start-up.
Restart ==
    /\ job[Bot] = Idle
    /\ edits < MaxEdits
    /\ edits' = edits + 1
    /\ mode' = IF mode = "active" THEN "drain" ELSE "active"
    /\ UNCHANGED <<now, billing, suppressed, mark, tail, session, granted,
                   panel, job, lock, faults>>

\* A renewal, a change of tariff or a deactivation commits billing without the
\* lock; what becomes of it in the panel is up to Push.
Bill ==
    /\ edits < MaxEdits
    /\ edits' = edits + 1
    /\ \/ \E plan \in Plan :
             /\ Actual(billing) # "active"
             /\ billing' = [status |-> "active", plan |-> plan,
                            end |-> [at |-> now + Period, by |-> "plan"]]
       \/ \E plan \in Plan : billing' = [billing EXCEPT !.plan = plan]
       \/ billing' = [billing EXCEPT !.status = "disabled"]
    /\ UNCHANGED <<now, mode, suppressed, mark, tail, session, granted, panel,
                   job, lock, faults>>

\* update_remnawave_user, on billing read again under the lock: canonical values,
\* except that while a session is open those of an expired subscription wait for
\* the reconciler and those of a paid one complete it.
Push ==
    /\ LockFree
    /\ \/ /\ session = NoSession \/ Actual(billing) # "expired"
          /\ session # NoSession => ~Recovered(session, billing)
          /\ panel' = Patched(BillingTarget(billing, panel.date, "cut"))
          /\ UNCHANGED <<session, faults>>
       \/ /\ session # NoSession
          /\ Recovered(session, billing)
          /\ panel' = Patched(BillingTarget(billing, None, "cut"))
          /\ \/ session' = NoSession /\ UNCHANGED faults
             \/ /\ faults < MaxFaults
                /\ faults' = faults + 1
                /\ UNCHANGED session
    /\ UNCHANGED <<env, mark, tail, granted, job, lock>>

\* set_panel_user_enabled_state_grace_safe: the marker is committed even if the
\* answer to a disable is lost, and only a crash loses it.
Disable ==
    /\ LockFree
    /\ edits < MaxEdits
    /\ edits' = edits + 1
    /\ \/ /\ suppressed' = billing.end
          /\ panel' = [panel EXCEPT !.status = "disabled"]
          /\ UNCHANGED faults
       \/ /\ faults < MaxFaults
          /\ faults' = faults + 1
          /\ \/ suppressed' = billing.end /\ UNCHANGED panel
             \/ /\ panel' = [panel EXCEPT !.status = "disabled"]
                /\ UNCHANGED suppressed
    /\ UNCHANGED <<now, mode, billing, mark, tail, session, granted, job, lock>>

Enable ==
    /\ LockFree
    /\ panel.status = "disabled"
    /\ edits < MaxEdits
    /\ edits' = edits + 1
    /\ suppressed' = None
    /\ panel' = [panel EXCEPT !.status = "active"]
    /\ UNCHANGED <<now, mode, billing, mark, tail, session, granted, job, lock, faults>>

\* The panel's own scheduler.
PanelExpires ==
    /\ panel.status = "active"
    /\ panel.date.at <= now
    /\ panel' = [panel EXCEPT !.status = "expired"]
    /\ UNCHANGED <<env, mark, tail, session, granted, job, lock, faults>>

\* An administrator works in the panel itself.
PanelEdit ==
    /\ edits < MaxEdits
    /\ edits' = edits + 1
    /\ \/ /\ "disable" \in PanelActs
          /\ panel' = [panel EXCEPT !.status = "disabled"]
       \/ /\ "extend" \in PanelActs
          /\ panel' = [panel EXCEPT
                         !.status = "active",
                         !.date = [at |-> now + Period, by |-> "panel"]]
       \/ /\ "replan" \in PanelActs
          /\ \E plan \in Plan : panel' = [panel EXCEPT !.plan = plan]
    /\ UNCHANGED <<now, mode, billing, suppressed, mark, tail, session, granted,
                   job, lock, faults>>

\* An import reads the account first and the row after it.
ReadPanel ==
    /\ snap = NoSnapshot
    /\ snap' = [pc |-> "read", got |-> panel, fresh |-> TRUE]
    /\ UNCHANGED <<env, mark, tail, session, granted, panel, job, lock, faults>>

\* Mutant: the date of the overlay is not recognised.
Projected_Unmarked(p) ==
    IF session # NoSession \/ p.date = tail THEN billing
    ELSE [status |-> IF p.status = "active" /\ p.date.at <= now
                       THEN "expired" ELSE p.status,
          end |-> p.date, plan |-> p.plan]

\* project_onto_subscription, "the panel is the truth": nothing while a session
\* is open or when the account carries the date of an overlay; with the tail of
\* a grace only a status that billing's own date confirms.
Projected(p) ==
    IF session # NoSession THEN billing
    ELSE IF p.date = tail
      THEN IF p.status = "expired" /\ billing.end.at <= now
                /\ billing.status = "active"
             THEN [billing EXCEPT !.status = "expired"] ELSE billing
    ELSE IF p.date = mark THEN billing
    ELSE [status |-> IF p.status = "active" /\ p.date.at <= now
                       THEN "expired" ELSE p.status,
          end |-> p.date,
          plan |-> p.plan]

\* The full synchronisation leaves a row alone that has been touched since the
\* snapshot.  Here it loads and commits at once; PanelSync parts the two.
SyncRow ==
    /\ snap.pc = "read"
    /\ billing' = IF snap.fresh THEN Projected(snap.got) ELSE billing
    /\ snap' = NoSnapshot
    /\ UNCHANGED <<now, mode, suppressed, mark, tail, session, granted, panel,
                   job, lock, edits, faults>>

\* _panel_keeps_alive: monitoring, about to expire a subscription by its date,
\* reads the row again and takes a later date from an account that is alive.
KeepAlive ==
    /\ snap.pc = "read"
    /\ snap.got.status = "active" /\ snap.got.date.at > now
    /\ billing.status = "active" /\ Actual(billing) = "expired"
    /\ session = NoSession
    /\ snap.got.date \notin {tail, mark}
    /\ billing' = Projected(snap.got)
    /\ snap' = NoSnapshot
    /\ UNCHANGED <<now, mode, suppressed, mark, tail, session, granted, panel,
                   job, lock, edits, faults>>

\* Every write to the row stamps it (updated_at), a snapshot read before is
\* then stale.
Stamp ==
    snap' = IF snap.pc = "read"
              THEN [snap EXCEPT !.fresh =
                      @ /\ UNCHANGED <<billing, suppressed, mark, tail, session>>]
              ELSE snap

-----------------------------------------------------------------------------
Step(w) ==
    \/ Resume(w) \/ Activate(w) \/ Detach(w) \/ Overlay(w) \/ Confirm(w)
    \/ ApplyLive(w) \/ ApplyExpired(w)
    \/ PatchBack(w) \/ Recheck(w)
    \/ Finish(w) \/ Keep(w)

Next ==
    \/ /\ \/ Observe \/ Retry \/ Create
          \/ \E w \in Worker : Reconcile(w) \/ Step(w) \/ Crash(w)
          \/ Tick \/ Restart \/ Bill \/ Push \/ Disable \/ Enable
          \/ PanelExpires \/ PanelEdit
       /\ Stamp
    \/ ReadPanel \/ SyncRow \/ KeepAlive

Spec == Init /\ [][Next]_vars

-----------------------------------------------------------------------------
(* Safety.                                                                 *)

\* The account carries the running overlay of the last grace only while a session is
\* open that will take it away, wherever a worker stopped: the session is committed
\* before the overlay goes out and completed after it is gone (_activate_pending,
\* _restore_and_complete).  Only an administrator, enabling an account disabled
\* in mid-grace, can bring an overlay back without a session.
Running ==
    panel.status = "active" /\ panel.plan = "grace" /\ ~panel.ext /\ panel.date = mark

Covered == Running => session # NoSession

NothingLeftBehind ==
    [][Covered /\ ~Covered' => edits' # edits]_vars

\* What was bought in the bot stays: while billing is active and the account
\* shows it, no worker takes it back to an overlay, a snapshot or an expired state it
\* decided on before the payment (the lock, and billing read again under it).
Served ==
    /\ Actual(billing) = "active" /\ billing.end.by = "plan"
    /\ panel = Patched(BillingTarget(billing, None, "cut"))

\* A worker is about to push what billing was before the last change, which has a
\* push of its own to follow: a plan changed to and fro, say.
Overtaken ==
    \E w \in Worker :
        job[w].pc = "apply" /\ job[w].b # billing /\ Resolved(job[w].b) # "expired"

PaidAccessStays ==
    [][Served /\ panel' # panel => edits' # edits \/ Overtaken]_vars

OverlayGoesOut ==
    /\ panel' # panel
    /\ \E w \in Worker : job[w].pc = "overlay" /\ panel'.date = job[w].s.until

\* "A manual disable has priority": no overlay goes out for an incident that
\* was suppressed when the worker took the lock or at any time since.
SuppressedNeverActivated ==
    [][OverlayGoesOut /\ suppressed # None => session.inc.at > suppressed.at]_vars

\* The date of an overlay never becomes the subscription's end date, however
\* late a snapshot is applied: grace_overlay_expire_at is committed before the
\* overlay goes out and is not cleared.  It is one date: once a second session
\* has overwritten it, what the first left in the panel is no longer recognised.
OverlayIsNoRenewal ==
    /\ mark # None => billing.end # mark
    /\ billing.end.by = "grace" => \E d, e \in granted : d # e

-----------------------------------------------------------------------------
(* Liveness.  The reconciler's loop keeps running, in either mode; a worker  *)
(* that can go on does; the panel's scheduler runs; time passes.  The lock   *)
(* is contended, hence strong fairness of taking it.                         *)

Fairness ==
    /\ SF_vars(Reconcile(Bot) /\ Stamp)
    /\ WF_vars(Create /\ Stamp)
    /\ \A w \in Worker : WF_vars(Step(w) /\ Stamp) /\ SF_vars(Resume(w) /\ Stamp)
    /\ SF_vars(Tick /\ Stamp) /\ WF_vars(PanelExpires /\ Stamp)
    /\ WF_vars(SyncRow)

FairSpec == Spec /\ Fairness

\* Every session ends, whatever failed on the way.
SessionsEnd == session # NoSession ~> session = NoSession
=============================================================================
