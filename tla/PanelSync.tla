------------------------------ MODULE PanelSync ------------------------------
(***************************************************************************)
(* The two directions between the bot's subscription and its account in    *)
(* the panel.  A renewal commits the new date and then pushes it; a push   *)
(* that times out goes to a retry queue in memory.  The panel expires its  *)
(* account by itself and sends webhooks, and what it says is imported, for *)
(* "the panel is the truth": by the full synchronisation, by webhooks, and *)
(* by monitoring before it expires a subscription.                         *)
(*                                                                         *)
(* One paid subscription that is linked to its account.  Grace is off, as  *)
(* it is by default: no advisory lock is taken around a push (module Grace *)
(* has the locks and the overlays).  Nobody edits the account by hand.     *)
(***************************************************************************)
EXTENDS Integers, Sequences, FiniteSets

CONSTANTS
    Task,       \* requests of the user that renew the subscription
    Loop,       \* the retry queue's loop
    None,
    Period,     \* of a renewal
    MaxRetries, \* of an item of the queue
    MaxHooks, MaxTime, MaxRenewals, MaxReaders, MaxFaults   \* bounds

ASSUME ConstantsAssumption ==
    /\ Loop \notin Task
    /\ None \notin {"ACTIVE", "DISABLED"} \cup {"active", "expired", "disabled"} \cup Nat
    /\ Period \in Nat \ {0} /\ MaxRetries \in Nat \ {0}
    /\ {MaxHooks, MaxTime, MaxRenewals, MaxReaders, MaxFaults} \subseteq Nat

VARIABLES
    now,
    row,        \* the subscription
    newer,      \* updated_at or last_webhook_update_at is later than the
                \* snapshot of the synchronisation in progress
    recent,     \* a webhook updated it in this tick
    panel,      \* its account
    hooks,      \* webhooks on their way
    job,        \* [Worker -> what it is doing]
    queue,      \* attempts made for each item of the retry queue
    batch,      \* and of those process_pending has taken out of it
    sync,       \* the full synchronisation
    mon,        \* monitoring
    visit,      \* a request of the user holds a row that was due
    paid,       \* the date paid for, 0 when it has passed
    lost,       \* where, for a cause the code leaves open, it need not hold
    renewals, faults

program == <<job, queue, batch, sync, mon, visit>>
counters == <<renewals, faults>>
vars == <<now, row, newer, recent, panel, hooks, program, paid, lost, counters>>

Worker == Task \cup {Loop}
MaxOf(a, b) == IF a > b THEN a ELSE b
Idle == [pc |-> "idle"]

Row == [status : {"active", "expired", "disabled"}, end : Nat]
Account == [status : {"ACTIVE", "EXPIRED", "DISABLED"}, end : Nat]
\* What a push sends; a date in the past and a status the panel derives itself
\* are left out.
Request == [status : {"ACTIVE", "DISABLED", None}, end : Nat, dated : BOOLEAN]
Hook ==
    [kind : {"expired", "disabled", "enabled"}] \cup [kind : {"modified"}, got : Account]
Job ==
    {Idle} \cup [pc : {"push"}] \cup [pc : {"patch"}, sent : Request]
\* renewed: a renewal that began after the snapshot was committed before the
\* rows were read, and its stamp is still there.  write: the fields that differ
\* from the row as it was read; stale: they may take away what the snapshot
\* could not know of.
Sync ==
    {Idle}
    \cup [pc : {"fetched"}, got : Account, renewed : BOOLEAN]
    \cup [pc : {"loaded"}, stale : BOOLEAN,
          write : [status : {"active", "expired", "disabled", None}, end : Nat \cup {None}]]
Monitor ==
    {Idle}
    \cup [pc : {"expire"}] \cup [pc : {"decide"}, got : Account \cup {None}]
    \cup [pc : {"import"}, got : Account]

\* Type correctness.
TypeOK ==
    /\ now \in Nat /\ row \in Row /\ panel \in Account
    /\ newer \in BOOLEAN /\ recent \in BOOLEAN /\ visit \in BOOLEAN
    /\ hooks \subseteq Hook
    /\ job \in [Worker -> Job]
    /\ queue \in Seq(0 .. MaxRetries - 1) /\ batch \in Seq(0 .. MaxRetries - 1)
    /\ sync \in Sync /\ mon \in Monitor
    /\ paid \in Nat /\ lost \subseteq {"row", "panel"}

Init ==
    /\ now = 0
    /\ row = [status |-> "active", end |-> 1]
    /\ panel = [status |-> "ACTIVE", end |-> 1]
    /\ newer = FALSE /\ recent = FALSE /\ visit = FALSE
    /\ hooks = {} /\ job = [w \in Worker |-> Idle]
    /\ queue = <<>> /\ batch = <<>>
    /\ sync = Idle /\ mon = Idle
    /\ paid = 1 /\ lost = {}
    /\ renewals = 0 /\ faults = 0

-----------------------------------------------------------------------------
\* The row, the account, still honours what was paid for.
Kept(r) == paid = 0 \/ (r.status = "active" /\ r.end >= paid)
Shows(a) == paid = 0 \/ (a.status = "ACTIVE" /\ a.end >= paid)
\* What a step that is allowed to take it away does to it.
RowLost(allowed) ==
    lost' = IF allowed /\ Kept(row) /\ ~Kept(row') THEN lost \cup {"row"} ELSE lost

Fault == faults < MaxFaults /\ faults' = faults + 1
Stamp == newer' = (sync.pc = "fetched")
\* The synchronisation, monitoring and a visit read the row and write it later.
Reading ==
    {p \in {"sync", "mon", "visit"} :
        \/ p = "sync" /\ sync # Idle
        \/ p = "mon" /\ mon # Idle
        \/ p = "visit" /\ visit}
Reader == Cardinality(Reading) < MaxReaders

\* A webhook may be lost.
Emit(h) ==
    \/ hooks' = hooks
    \/ Cardinality(hooks) < MaxHooks /\ hooks' = hooks \cup {h}

-----------------------------------------------------------------------------
(* The push.                                                               *)

Due(r) == r.status = "active" /\ r.end <= now
Live(r) == r.status = "active" /\ r.end > now

\* Mutant: a status is sent that the panel derives itself.
PatchStatus_Derived(r) ==
    IF Live(r) THEN "ACTIVE"
    ELSE IF r.status # "disabled" /\ r.end <= now THEN "EXPIRED" ELSE "DISABLED"

\* resolve_panel_status and update_kwargs.  The panel derives EXPIRED itself, so
\* it is not sent; expired with a date ahead is taken for a contradiction and
\* disabled.
PatchStatus(r) ==
    IF Live(r) THEN "ACTIVE"
    ELSE IF r.status # "disabled" /\ r.end <= now THEN None ELSE "DISABLED"

Payload(r) == [status |-> PatchStatus(r), end |-> r.end, dated |-> r.end > now]

\* The account after the PATCH and after _extinguish_stale_date, which ends what
\* the bot knows to be over; the few minutes it leaves are none here.  A
\* request to disable an expired account may be ignored.
Patched(a, p) ==
    LET end == IF p.dated THEN p.end ELSE IF a.end > now THEN now ELSE a.end
        statuses == CASE p.status = None -> {a.status}
                      [] p.status = "ACTIVE" -> {"ACTIVE"}
                      [] p.status = "DISABLED" ->
                           IF a.status = "EXPIRED" THEN {"EXPIRED", "DISABLED"}
                           ELSE {"DISABLED"}
    IN {[status |-> s, end |-> end] : s \in statuses}

\* SubscriptionRenewalService.finalize extends the row while it holds it FOR
\* UPDATE; updated_at is the moment extend_subscription began, which may be
\* earlier than a snapshot of the panel that was taken before the commit.
Renew(t) ==
    /\ job[t] = Idle /\ renewals < MaxRenewals
    /\ renewals' = renewals + 1
    /\ row' = [status |-> "active", end |-> MaxOf(row.end, now) + Period]
    /\ \/ newer' = newer
          /\ sync' = IF sync.pc = "loaded" THEN [sync EXCEPT !.stale = TRUE] ELSE sync
       \/ /\ sync.pc = "fetched"
          /\ newer' = TRUE /\ sync' = [sync EXCEPT !.renewed = TRUE]
    /\ paid' = row'.end /\ lost' = {}
    /\ job' = [job EXCEPT ![t] = [pc |-> "push"]]
    /\ UNCHANGED <<now, recent, panel, hooks, queue, batch, mon, visit, faults>>

\* update_remnawave_user reads the row again, whatever its caller had read.
ReadRow(w) ==
    /\ \/ w \in Task /\ job[w].pc = "push"
       \/ w = Loop /\ job[w] = Idle /\ batch # <<>>
    /\ job' = [job EXCEPT ![w] = [pc |-> "patch", sent |-> Payload(row)]]
    /\ UNCHANGED <<now, row, newer, recent, panel, hooks, queue, batch, sync, mon,
                   visit, paid, lost, counters>>

\* Mutant: a push that timed out is not enqueued.
Enqueued_Forgotten == queue

\* Deduplicated by subscription, against what is in the queue.
Enqueued == IF queue = <<>> THEN <<0>> ELSE queue

\* _requeue: not deduplicated; given up after MaxRetries.
Attempts == Head(batch) + 1
Requeued == IF Attempts < MaxRetries THEN Append(queue, Attempts) ELSE queue

\* Without the advisory lock a push may bring what it read before a renewal
\* whose own push overtook it.
Overtaken(w) ==
    IF Shows(panel) /\ ~Shows(panel') /\ job[w].sent # Payload(row)
      THEN {"panel"} ELSE {}
Unshown == IF Shows(panel') THEN {} ELSE {"panel"}

Arrives(w) ==
    /\ panel' \in Patched(panel, job[w].sent)
    /\ \/ panel' = panel /\ hooks' = hooks
       \/ panel' # panel /\ Emit([kind |-> "modified", got |-> panel'])
       \/ /\ panel'.status # panel.status
          /\ Emit([kind |-> IF panel'.status = "ACTIVE" THEN "enabled" ELSE "disabled"])
Done(w) ==
    /\ job' = [job EXCEPT ![w] = Idle]
    /\ UNCHANGED <<now, row, newer, recent, sync, mon, visit, paid, renewals>>

Delivered(w) ==
    /\ job[w].pc = "patch"
    /\ Arrives(w)
    /\ batch' = IF w = Loop THEN Tail(batch) ELSE batch
    /\ lost' = lost \cup Overtaken(w)
    /\ Done(w)
    /\ UNCHANGED <<queue, faults>>

\* The panel refuses, or its answer is lost: the error is swallowed and None is
\* returned.  The loop looks at it, finalize does not.
Fails(w) ==
    /\ job[w].pc = "patch"
    /\ Fault
    /\ Arrives(w) \/ UNCHANGED <<panel, hooks>>
    /\ IF w = Loop
         THEN /\ batch' = Tail(batch) /\ queue' = Requeued
              /\ lost' = lost \cup Overtaken(w)
                           \cup IF Attempts < MaxRetries THEN {} ELSE Unshown
         ELSE /\ UNCHANGED <<batch, queue>>
              /\ lost' = lost \cup Overtaken(w) \cup Unshown
    /\ Done(w)

\* asyncio.timeout cuts the push short, which may still arrive.
TimesOut(t) ==
    /\ job[t].pc = "patch"
    /\ Fault
    /\ Arrives(t) \/ UNCHANGED <<panel, hooks>>
    /\ queue' = Enqueued
    /\ lost' = lost \cup Overtaken(t)
    /\ Done(t)
    /\ UNCHANGED batch

\* Mutant: a single item is not taken.
Pending_OffByOne == Len(queue) > 1

Pending == queue # <<>>

\* process_pending empties the queue before it looks at the items.
TakeBatch ==
    /\ job[Loop] = Idle /\ batch = <<>> /\ Pending
    /\ batch' = queue /\ queue' = <<>>
    /\ UNCHANGED <<now, row, newer, recent, panel, hooks, job, sync, mon, visit,
                   paid, lost, counters>>

-----------------------------------------------------------------------------
(* The panel.                                                              *)

PanelExpires ==
    /\ panel.status = "ACTIVE" /\ panel.end <= now
    /\ panel' = [panel EXCEPT !.status = "EXPIRED"]
    /\ Emit([kind |-> "expired"])
    /\ UNCHANGED <<now, row, newer, recent, program, paid, lost, counters>>

-----------------------------------------------------------------------------
(* Imports.  A webhook is handled in one step: what it would overwrite of a *)
(* write in between it also overwrites when it arrives later.              *)

Handle(h) ==
    /\ h \in hooks /\ hooks' = hooks \ {h}
    /\ recent' = TRUE /\ Stamp
    /\ RowLost(TRUE)
    /\ UNCHANGED <<now, panel, program, paid, counters>>

\* _handle_user_expired: without a look at the date.
OnExpired ==
    /\ row' = [row EXCEPT !.status = "expired"]
    /\ Handle([kind |-> "expired"])

\* Not soon after another webhook, for it may be an echo.
OnDisabled ==
    /\ row' = IF row.status = "active" /\ recent THEN row
              ELSE [row EXCEPT !.status = "disabled"]
    /\ Handle([kind |-> "disabled"])

OnEnabled ==
    /\ row' = IF row.status = "disabled" /\ row.end > now
                THEN [row EXCEPT !.status = "active"] ELSE row
    /\ Handle([kind |-> "enabled"])

\* project_onto_subscription with the policy WEBHOOK: a date for a row the bot
\* has not disabled, and any status but expired.
OnModified(got) ==
    LET end == IF row.status = "disabled" THEN row.end ELSE got.end IN
    /\ row' = [end |-> end,
               status |-> IF got.status = "ACTIVE" /\ end > now THEN "active"
                          ELSE IF got.status = "DISABLED" THEN "disabled"
                          ELSE row.status]
    /\ Handle([kind |-> "modified", got |-> got])

\* The policy PANEL_TRUTH.
Projected(r, got, trusted) ==
    [end |-> got.end,
     status |-> IF ~trusted THEN r.status
                ELSE CASE got.status = "ACTIVE" ->
                            IF got.end <= now THEN "expired" ELSE "active"
                       [] got.status = "EXPIRED" -> "expired"
                       [] got.status = "DISABLED" -> "disabled"]

\* _sync_users_from_panel_multi: the panel's list first, all rows after it, and
\* then a commit that writes what differs from the row as it was read.
SyncFetch ==
    /\ sync = Idle /\ Reader
    /\ sync' = [pc |-> "fetched", got |-> panel, renewed |-> FALSE]
    /\ UNCHANGED <<now, row, newer, recent, panel, hooks, job, queue, batch, mon,
                   visit, paid, lost, counters>>

\* Mutant: the stamp is not looked at.
Applied_Unstamped == Projected(row, sync.got, ~recent)

\* A row stamped after the snapshot is left alone.
Applied == IF newer THEN row ELSE Projected(row, sync.got, ~recent)

\* Only what differs from the row as it was read is written.
Differing(new, old) == IF new = old THEN None ELSE new
Written(new, old) == IF new = None THEN old ELSE new

SyncLoad ==
    /\ sync.pc = "fetched"
    /\ LET new == Applied
       IN sync' = IF new = row THEN Idle
                  ELSE [pc |-> "loaded", stale |-> ~sync.renewed /\ ~Shows(sync.got),
                        write |-> [status |-> Differing(new.status, row.status),
                                   end |-> Differing(new.end, row.end)]]
    /\ newer' = FALSE
    /\ UNCHANGED <<now, row, recent, panel, hooks, job, queue, batch, mon, visit,
                   paid, lost, counters>>

SyncCommit ==
    /\ sync.pc = "loaded"
    /\ row' = [status |-> Written(sync.write.status, row.status),
               end |-> Written(sync.write.end, row.end)]
    /\ RowLost(sync.stale)
    /\ sync' = Idle
    /\ UNCHANGED <<now, newer, recent, panel, hooks, job, queue, batch, mon, visit,
                   paid, counters>>

-----------------------------------------------------------------------------
(* The end of the term.                                                    *)

\* _check_expired_subscriptions lists what is due, asks the panel, which may
\* not answer, and reads the row again.
MonitorAsks ==
    /\ mon = Idle /\ Reader /\ Due(row) /\ ~recent
    /\ \E got \in {panel, None} : mon' = [pc |-> "decide", got |-> got]
    /\ UNCHANGED <<now, row, newer, recent, panel, hooks, job, queue, batch, sync,
                   visit, paid, lost, counters>>

MonitorDecides ==
    /\ mon.pc = "decide"
    /\ mon' = IF ~Due(row) THEN Idle
              ELSE IF mon.got # None /\ mon.got.status = "ACTIVE" /\ mon.got.end > now
                THEN [pc |-> "import", got |-> mon.got]
              ELSE [pc |-> "expire"]
    /\ UNCHANGED <<now, row, newer, recent, panel, hooks, job, queue, batch, sync,
                   visit, paid, lost, counters>>

\* The date alone differs from the row as it was read; updated_at is the start
\* of the transaction, and may be earlier than the stamp it replaces.
MonitorImports ==
    /\ mon.pc = "import"
    /\ mon' = Idle
    /\ row' = [row EXCEPT !.end = mon.got.end]
    /\ \/ Stamp /\ sync' = sync
       \/ /\ newer' = FALSE
          /\ sync' = IF sync.pc = "fetched" THEN [sync EXCEPT !.renewed = FALSE] ELSE sync
    /\ RowLost(~Shows(mon.got))
    /\ UNCHANGED <<now, recent, panel, hooks, job, queue, batch, visit, paid, counters>>

\* Mutant: the row is updated by its id alone.
Hit_Unconditional == TRUE

\* expire_subscription_if_still_due: the condition is part of the UPDATE.
Hit == Due(row)

MonitorExpires ==
    /\ mon.pc = "expire"
    /\ mon' = Idle
    /\ row' = IF Hit THEN [row EXCEPT !.status = "expired"] ELSE row
    /\ newer' = IF Hit THEN sync.pc = "fetched" ELSE newer
    /\ UNCHANGED <<now, recent, panel, hooks, job, queue, batch, sync, visit, paid,
                   lost, counters>>

\* The middleware of the bot expires what it has loaded, without that condition.
Visit ==
    /\ ~visit /\ Reader /\ Due(row) /\ visit' = TRUE
    /\ UNCHANGED <<now, row, newer, recent, panel, hooks, job, queue, batch, sync,
                   mon, paid, lost, counters>>

VisitExpires ==
    /\ visit /\ visit' = FALSE
    /\ row' = [row EXCEPT !.status = "expired"]
    /\ Stamp
    /\ RowLost(TRUE)
    /\ UNCHANGED <<now, recent, panel, hooks, job, queue, batch, sync, mon, paid,
                   counters>>

-----------------------------------------------------------------------------
\* A call of the panel is shorter than a tick, and so is the minute after a
\* webhook in which its word is not doubted.
Tick ==
    /\ now < MaxTime
    /\ \A w \in Worker : job[w].pc # "patch"
    /\ now' = now + 1 /\ recent' = FALSE
    /\ IF paid <= now' THEN paid' = 0 /\ lost' = {} ELSE UNCHANGED <<paid, lost>>
    /\ UNCHANGED <<row, newer, panel, hooks, program, counters>>

\* The bot stops: a push may have arrived, the queue is gone.
Restart ==
    /\ Fault
    /\ panel' \in {panel} \cup
         UNION {Patched(panel, job[w].sent) : w \in {v \in Worker : job[v].pc = "patch"}}
    /\ job' = [w \in Worker |-> Idle] /\ queue' = <<>> /\ batch' = <<>>
    /\ sync' = Idle /\ mon' = Idle /\ visit' = FALSE /\ newer' = FALSE
    /\ lost' = lost \cup Unshown
    /\ UNCHANGED <<now, row, recent, hooks, paid, renewals>>

WorkerStep(w) == ReadRow(w) \/ Delivered(w) \/ Fails(w)
TaskStep(t) == TimesOut(t) \/ WorkerStep(t)

Next ==
    \/ \E t \in Task : Renew(t) \/ TaskStep(t)
    \/ WorkerStep(Loop) \/ TakeBatch
    \/ PanelExpires
    \/ OnExpired \/ OnDisabled \/ OnEnabled
    \/ \E h \in hooks : h.kind = "modified" /\ OnModified(h.got)
    \/ SyncFetch \/ SyncLoad \/ SyncCommit
    \/ MonitorAsks \/ MonitorDecides \/ MonitorImports \/ MonitorExpires
    \/ Visit \/ VisitExpires
    \/ Tick \/ Restart

Spec == Init /\ [][Next]_vars

\* A request and the queue's loop, which catches what goes wrong, go on.
Fairness ==
    /\ \A t \in Task : WF_vars(TaskStep(t))
    /\ WF_vars(WorkerStep(Loop)) /\ WF_vars(TakeBatch)

FairSpec == Spec /\ Fairness

-----------------------------------------------------------------------------
\* The row honours what was paid for until its end, but for a webhook that was
\* late, an import of what the panel did not know yet, and a visit of the user.
\* Monitoring never expires it, nor does the full synchronisation take it back
\* from a renewal it could have seen (projection.py, expire_subscription_if_still_due).
PaidIsKept == "row" \in lost \/ Kept(row)

\* What was paid for gets to the panel, after every timeout and refusal, by
\* whichever push comes last, unless one of the causes is met.
PaidReachesPanel ==
    ~Shows(panel) ~> Shows(panel) \/ lost # {}

\* "Bound each inline sync with asyncio.timeout and fall back to
\* remnawave_retry_queue (the same branch the sync errors already use)"
\* (tests/cabinet/test_remnawave_sync_timeout.py): what a renewal could not bring
\* to the panel is in the queue.
FailedSyncIsQueued ==
    [][\A t \in Task : Fails(t) /\ ~Shows(panel') => queue' # <<>>]_vars
=============================================================================
