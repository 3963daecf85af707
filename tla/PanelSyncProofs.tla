-------------------------- MODULE PanelSyncProofs --------------------------
(***************************************************************************)
(* Proofs about PanelSync: for every number of requests, readers and       *)
(* webhooks, every period and every limit of the queue's retries.          *)
(***************************************************************************)
EXTENDS PanelSync, SequenceTheorems, TLAPS

(* The inductive invariant.                                                *)

\* What was paid for lies ahead.
PaidAhead == paid = 0 \/ paid > now

\* The queue's loop works on the first item of its batch.
LoopHasItem == job[Loop].pc = "patch" => batch # <<>>

\* The synchronisation leaves a renewal it could see alone, and what it is about
\* to write takes nothing away that the snapshot showed.
SyncFacts ==
    /\ sync.pc = "fetched" /\ sync.renewed => newer
    /\ sync.pc = "loaded" /\ ~sync.stale /\ paid # 0 =>
          /\ sync.write.status \in {None, "active"}
          /\ sync.write.end = None \/ sync.write.end >= paid

\* A request that will bring the account to what was paid for.
Carries(p) == paid = 0 \/ (p.status = "ACTIVE" /\ p.dated /\ p.end >= paid)

\* A push of what is in the row is still to come, or one of it is on its way.
\* The item the loop is working on promises no other.
Pushing ==
    \/ queue # <<>>
    \/ batch # <<>> /\ job[Loop].pc # "patch"
    \/ Len(batch) > 1
    \/ \E t \in Task : job[t].pc = "push"
    \/ \E w \in Worker : job[w].pc = "patch" /\ Carries(job[w].sent)

\* As long as none of the causes is met, what the panel does not show yet is on
\* its way there, through every timeout, refusal and retry.
PushIsPending == Shows(panel) \/ lost # {} \/ Pushing

IInv ==
    /\ TypeOK /\ PaidAhead /\ LoopHasItem
    /\ SyncFacts /\ PaidIsKept
    /\ PushIsPending

-----------------------------------------------------------------------------
(* Jobs, readers and webhooks.                                             *)

LEMMA Types ==
    ASSUME TypeOK
    PROVE  /\ now \in Nat /\ paid \in Nat /\ paid \in Int /\ now \in Int
           /\ row \in Row /\ row.status \in {"active", "expired", "disabled"}
           /\ row.end \in Nat
           /\ panel \in Account /\ panel.status \in {"ACTIVE", "EXPIRED", "DISABLED"}
           /\ panel.end \in Nat
           /\ lost \subseteq {"row", "panel"}
           /\ Period \in Nat \ {0} /\ MaxRetries \in Nat \ {0} /\ Loop \in Worker
  BY ConstantsAssumption DEF TypeOK, Row, Account, Worker

LEMMA JobKinds ==
    ASSUME NEW j \in Job
    PROVE  /\ j = Idle \/ j.pc \in {"push", "patch"}
           /\ j.pc = "patch" => j.sent \in Request
  BY DEF Job, Idle

LEMMA SyncKinds ==
    ASSUME NEW s \in Sync
    PROVE  /\ s.pc \in {"idle", "fetched", "loaded"}
           /\ s.pc = "idle" => s = Idle
           /\ s.pc = "fetched" =>
                /\ s.got \in Account /\ s.renewed \in BOOLEAN
                /\ s \in [pc : {"fetched"}, got : Account, renewed : BOOLEAN]
           /\ s.pc = "loaded" =>
                /\ s.stale \in BOOLEAN
                /\ s.write.status \in {"active", "expired", "disabled", None}
                /\ s.write.end \in Nat \cup {None}
  BY DEF Sync, Idle

\* A snapshot, or an image of the rows, that a renewal outdates.
LEMMA SyncMarks ==
    ASSUME NEW s \in Sync, NEW b \in BOOLEAN
    PROVE  /\ s.pc = "fetched" =>
                /\ [s EXCEPT !.renewed = b] \in Sync
                /\ [s EXCEPT !.renewed = b].pc = "fetched"
                /\ [s EXCEPT !.renewed = b].renewed = b
           /\ s.pc = "loaded" =>
                /\ [s EXCEPT !.stale = b] \in Sync
                /\ [s EXCEPT !.stale = b].pc = "loaded"
                /\ [s EXCEPT !.stale = b].stale = b
  <1> DEFINE F == [pc : {"fetched"}, got : Account, renewed : BOOLEAN]
             W == [status : {"active", "expired", "disabled", None}, end : Nat \cup {None}]
             L == [pc : {"loaded"}, stale : BOOLEAN, write : W]
  <1>1. Sync = {Idle} \cup F \cup L  BY DEF Sync
  <1>2. CASE s.pc = "fetched"
    <2>1. s \in F  BY <1>2, SyncKinds
    <2>2. [s EXCEPT !.renewed = b] \in F  BY <2>1
    <2> QED BY <1>1, <1>2, <2>1, <2>2
  <1>3. CASE s.pc = "loaded"
    <2> HIDE DEF W
    <2>1. s \in L  BY <1>1, <1>3 DEF Idle
    <2>2. [s EXCEPT !.stale = b] \in L  BY <2>1
    <2> QED BY <1>1, <1>3, <2>1, <2>2
  <1> QED BY <1>2, <1>3

LEMMA MonitorKinds ==
    ASSUME NEW m \in Monitor
    PROVE  /\ m.pc = "decide" => m.got \in Account \cup {None}
           /\ m.pc = "import" => m.got \in Account
  BY DEF Monitor, Idle

LEMMA HookKinds ==
    ASSUME NEW h \in Hook, h.kind = "modified"
    PROVE  h.got \in Account
  BY DEF Hook

\* What a request does to the account; one that carries what was paid for makes
\* the account show it.
LEMMA PatchedType ==
    ASSUME NEW a \in Account, NEW p \in Request, NEW b \in Patched(a, p), now \in Nat
    PROVE  b \in Account
  BY DEF Patched, Account, Request

LEMMA PatchedShows ==
    ASSUME NEW a \in Account, NEW p \in Request, NEW b \in Patched(a, p), Carries(p)
    PROVE  Shows(b)
  <1>1. CASE paid = 0  BY <1>1 DEF Shows
  <1>2. CASE paid # 0
    <2>1. p.status = "ACTIVE" /\ p.dated /\ p.end >= paid /\ p.status # None
      BY <1>2, ConstantsAssumption DEF Carries
    <2>2. b.status = "ACTIVE" /\ b.end = p.end  BY <2>1 DEF Patched
    <2> QED BY <2>1, <2>2 DEF Shows
  <1> QED BY <1>1, <1>2

\* Whoever reads a row that honours what was paid for brings it to the panel.
LEMMA PayloadCarries ==
    ASSUME TypeOK, PaidAhead, Kept(row)
    PROVE  Carries(Payload(row))
  <1>1. CASE paid = 0  BY <1>1 DEF Carries
  <1>2. CASE paid # 0
    <2>1. row.status = "active" /\ row.end >= paid /\ paid > now
      BY <1>2 DEF Kept, PaidAhead
    <2>2. row.end > now  BY <2>1, Types
    <2>3. PatchStatus(row) = "ACTIVE"  BY <2>1, <2>2 DEF PatchStatus, Live
    <2>4. /\ Payload(row).status = PatchStatus(row) /\ Payload(row).end = row.end
          /\ Payload(row).dated = (row.end > now)
      BY DEF Payload
    <2> QED BY <2>1, <2>2, <2>3, <2>4 DEF Carries
  <1> QED BY <1>1, <1>2

LEMMA PayloadType ==
    ASSUME TypeOK
    PROVE  Payload(row) \in Request
  BY Types DEF Payload, PatchStatus, Request

-----------------------------------------------------------------------------
(* The queue.                                                              *)

LEMMA Attempted ==
    ASSUME TypeOK, batch # <<>>
    PROVE  /\ Attempts \in Nat
           /\ Tail(batch) \in Seq(0 .. MaxRetries - 1)
           /\ Requeued \in Seq(0 .. MaxRetries - 1)
           /\ Attempts < MaxRetries => Requeued # <<>>
  <1>1. batch \in Seq(0 .. MaxRetries - 1) /\ queue \in Seq(0 .. MaxRetries - 1)
    BY DEF TypeOK
  <1>2. Head(batch) \in 0 .. MaxRetries - 1 /\ Tail(batch) \in Seq(0 .. MaxRetries - 1)
    BY <1>1, HeadTailProperties
  <1>3. Attempts \in Nat /\ (Attempts < MaxRetries => Attempts \in 0 .. MaxRetries - 1)
    BY <1>2, Types DEF Attempts
  <1>4. Attempts < MaxRetries => Append(queue, Attempts) \in Seq(0 .. MaxRetries - 1)
                                 /\ Append(queue, Attempts) # <<>>
    BY <1>1, <1>3
  <1> QED BY <1>1, <1>2, <1>3, <1>4 DEF Requeued

LEMMA Enqueues ==
    ASSUME TypeOK
    PROVE  Enqueued \in Seq(0 .. MaxRetries - 1) /\ Enqueued # <<>>
  <1>1. 0 \in 0 .. MaxRetries - 1  BY Types
  <1>2. <<0>> \in Seq(0 .. MaxRetries - 1) /\ <<0>> # <<>>  BY <1>1
  <1> QED BY <1>2 DEF Enqueued, TypeOK

-----------------------------------------------------------------------------
(* Readers and webhooks: they write the row and leave the pushes alone.    *)

\* What RowLost leaves: the row honours what was paid for, or it is said why not.
LEMMA LosesRow ==
    ASSUME IInv, NEW a \in BOOLEAN, RowLost(a), UNCHANGED paid,
           a \/ (Kept(row) => Kept(row'))
    PROVE  /\ lost \subseteq lost' /\ lost' \subseteq {"row", "panel"}
           /\ "row" \in lost' \/ Kept(row)'
  <1>1. lost \subseteq {"row", "panel"} /\ ("row" \in lost \/ Kept(row))
    BY DEF IInv, TypeOK, PaidIsKept
  <1>2. Kept(row)' = Kept(row')  BY DEF Kept
  <1>3. CASE a /\ Kept(row) /\ ~Kept(row')
    <2>1. lost' = lost \cup {"row"}  BY <1>3 DEF RowLost
    <2> QED BY <1>1, <2>1
  <1>4. CASE ~(a /\ Kept(row) /\ ~Kept(row'))
    <2>1. lost' = lost  BY <1>4 DEF RowLost
    <2> QED BY <1>1, <1>2, <1>4, <2>1
  <1> QED BY <1>3, <1>4

\* Pushes are as pending as before, if more causes have been met at most.
LEMMA StillPending ==
    ASSUME IInv, UNCHANGED <<panel, paid, job, queue, batch>>, lost \subseteq lost'
    PROVE  PushIsPending'
  <1>1. Shows(panel)' = Shows(panel)  BY DEF Shows
  <1>2. Pushing' = Pushing  BY DEF Pushing, Carries
  <1>3. lost # {} => lost' # {}  OBVIOUS
  <1> QED BY <1>1, <1>2, <1>3 DEF IInv, PushIsPending

\* A step of a reader or of a webhook.
LEMMA ReaderStep ==
    ASSUME IInv, UNCHANGED <<now, panel, job, queue, batch, paid>>,
           row' \in Row, hooks' \subseteq Hook,
           newer' \in BOOLEAN, recent' \in BOOLEAN, visit' \in BOOLEAN,
           sync' \in Sync, mon' \in Monitor,
           lost \subseteq lost', lost' \subseteq {"row", "panel"},
           "row" \in lost' \/ Kept(row)', SyncFacts'
    PROVE  IInv'
  <1>1. TypeOK'  BY DEF IInv, TypeOK
  <1>2. PaidAhead' /\ LoopHasItem'  BY DEF IInv, PaidAhead, LoopHasItem
  <1>3. PushIsPending'  BY StillPending
  <1>4. PaidIsKept'  BY DEF PaidIsKept
  <1> QED BY <1>1, <1>2, <1>3, <1>4 DEF IInv

\* A stamp on the row, or none, while the synchronisation goes on unchanged.
LEMMA SyncUndisturbed ==
    ASSUME IInv, UNCHANGED <<paid, sync>>, newer' = newer \/ Stamp
    PROVE  SyncFacts' /\ newer' \in BOOLEAN
  BY DEF IInv, TypeOK, SyncFacts, Stamp

LEMMA HandleStep ==
    ASSUME IInv, NEW h, Handle(h), row' \in Row
    PROVE  IInv'
  <1>1. /\ UNCHANGED <<now, panel, job, queue, batch, sync, mon, visit, paid>>
        /\ hooks' \subseteq hooks /\ recent' = TRUE /\ Stamp /\ RowLost(TRUE)
    BY DEF Handle, program
  <1>2. /\ lost \subseteq lost' /\ lost' \subseteq {"row", "panel"}
        /\ "row" \in lost' \/ Kept(row)'
    BY <1>1, LosesRow
  <1>3. SyncFacts' /\ newer' \in BOOLEAN  BY <1>1, SyncUndisturbed
  <1>4. hooks' \subseteq Hook /\ visit' \in BOOLEAN /\ sync' \in Sync /\ mon' \in Monitor
    BY <1>1 DEF IInv, TypeOK
  <1> QED BY <1>1, <1>2, <1>3, <1>4, ReaderStep

LEMMA WebhookStep ==
    ASSUME IInv,
           \/ OnExpired \/ OnDisabled \/ OnEnabled
           \/ \E h \in hooks : h.kind = "modified" /\ OnModified(h.got)
    PROVE  IInv'
  <1> USE Types DEF IInv
  <1>1. CASE OnExpired
    <2>1. row' \in Row  BY <1>1 DEF OnExpired, Row
    <2> QED BY <1>1, <2>1, HandleStep DEF OnExpired
  <1>2. CASE OnDisabled
    <2>1. row' \in Row  BY <1>2 DEF OnDisabled, Row
    <2> QED BY <1>2, <2>1, HandleStep DEF OnDisabled
  <1>3. CASE OnEnabled
    <2>1. row' \in Row  BY <1>3 DEF OnEnabled, Row
    <2> QED BY <1>3, <2>1, HandleStep DEF OnEnabled
  <1>4. ASSUME NEW h \in hooks, h.kind = "modified", OnModified(h.got)
        PROVE  IInv'
    <2>1. h.got \in Account  BY <1>4, HookKinds DEF TypeOK
    <2>2. h.got.end \in Nat  BY <2>1 DEF Account
    <2>3. row' \in Row  BY <1>4, <2>2 DEF OnModified, Row
    <2> QED BY <1>4, <2>3, HandleStep DEF OnModified
  <1> QED BY <1>1, <1>2, <1>3, <1>4

LEMMA SyncFetchStep ==
    ASSUME IInv, SyncFetch
    PROVE  IInv'
  <1>1. sync' = [pc |-> "fetched", got |-> panel, renewed |-> FALSE]
    BY DEF SyncFetch
  <1>2. sync' \in Sync  BY <1>1, Types DEF IInv, Sync
  <1>3. SyncFacts'  BY <1>1 DEF SyncFacts
  <1>4. Kept(row)' = Kept(row)  BY DEF SyncFetch, Kept
  <1> QED BY <1>2, <1>3, <1>4, ReaderStep DEF SyncFetch, IInv, TypeOK, PaidIsKept

\* What the snapshot shows is what is written, or more.
LEMMA ProjectedShows ==
    ASSUME IInv, NEW got \in Account, Shows(got), paid # 0, NEW trusted \in BOOLEAN
    PROVE  /\ Projected(row, got, trusted).end >= paid
           /\ Projected(row, got, trusted).status \in {row.status, "active"}
  <1>1. got.end \in Nat /\ now \in Nat /\ paid \in Nat  BY Types DEF IInv, Account
  <1>2. got.status = "ACTIVE" /\ got.end >= paid /\ paid > now
    BY DEF Shows, IInv, PaidAhead
  <1>3. ~(got.end <= now)  BY <1>1, <1>2
  <1> QED BY <1>2, <1>3 DEF Projected

LEMMA ProjectedType ==
    ASSUME IInv, NEW got \in Account, NEW trusted \in BOOLEAN
    PROVE  Projected(row, got, trusted) \in Row
  <1>1. got.end \in Nat /\ got.status \in {"ACTIVE", "EXPIRED", "DISABLED"}
    BY DEF Account
  <1> QED BY <1>1, Types DEF Projected, IInv, Row

LEMMA SyncLoadStep ==
    ASSUME IInv, SyncLoad
    PROVE  IInv'
  <1> DEFINE got == sync.got
             new == Applied
  <1>1. /\ sync.pc = "fetched" /\ got \in Account /\ sync.renewed \in BOOLEAN
        /\ newer \in BOOLEAN /\ recent \in BOOLEAN
    BY SyncKinds DEF SyncLoad, IInv, TypeOK
  <1>2. new = IF newer THEN row ELSE Projected(row, got, ~recent)
    BY DEF Applied
  <1>3. new \in Row  BY <1>1, <1>2, ProjectedType, Types DEF IInv
  <1>4. CASE new = row
    <2>1. sync' = Idle  BY <1>4 DEF SyncLoad
    <2>2. sync' \in Sync /\ SyncFacts'  BY <2>1 DEF Sync, SyncFacts, Idle
    <2>3. Kept(row)' = Kept(row)  BY DEF SyncLoad, Kept
    <2> QED BY <2>2, <2>3, ReaderStep DEF SyncLoad, IInv, TypeOK, PaidIsKept
  <1>5. CASE new # row
    <2>1. sync' = [pc |-> "loaded", stale |-> ~sync.renewed /\ ~Shows(got),
                   write |-> [status |-> Differing(new.status, row.status),
                              end |-> Differing(new.end, row.end)]]
      BY <1>5 DEF SyncLoad
    <2>2. ~newer /\ new = Projected(row, got, ~recent)  BY <1>2, <1>5
    <2>3. ~sync.renewed  BY <1>1, <2>2 DEF IInv, SyncFacts
    <2>4. /\ new.status \in {"active", "expired", "disabled"}
          /\ new.end \in Nat
      BY <1>3 DEF Row
    <2>5. /\ Differing(new.status, row.status) \in {"active", "expired", "disabled", None}
          /\ Differing(new.end, row.end) \in Nat \cup {None}
      BY <2>4 DEF Differing
    <2>6. (~sync.renewed /\ ~Shows(got)) \in BOOLEAN  OBVIOUS
    <2> HIDE DEF new
    <2>7. sync' \in Sync  BY <2>1, <2>5, <2>6 DEF Sync
    <2>8. SyncFacts'
      <3>1. sync'.pc = "loaded"  BY <2>1
      <3>2. ASSUME ~sync'.stale, paid' # 0
            PROVE  /\ sync'.write.status \in {None, "active"}
                   /\ sync'.write.end = None \/ sync'.write.end >= paid'
        <4>1. paid' = paid  BY DEF SyncLoad
        <4>2. Shows(got)  BY <2>1, <2>3, <3>2
        <4>3. new.end >= paid /\ new.status \in {row.status, "active"}
          BY <1>1, <2>2, <3>2, <4>1, <4>2, ProjectedShows
        <4>4. /\ sync'.write.status = Differing(new.status, row.status)
              /\ sync'.write.end = Differing(new.end, row.end)
          BY <2>1
        <4> QED BY <4>1, <4>3, <4>4 DEF Differing
      <3> QED BY <3>1, <3>2 DEF SyncFacts
    <2>9. Kept(row)' = Kept(row)  BY DEF SyncLoad, Kept
    <2> QED BY <2>7, <2>8, <2>9, ReaderStep DEF SyncLoad, IInv, TypeOK, PaidIsKept
  <1> QED BY <1>4, <1>5

\* An image that is not stale may be written over a row that was changed since.
LEMMA SyncCommitStep ==
    ASSUME IInv, SyncCommit
    PROVE  IInv'
  <1> DEFINE w == sync.write
  <1>1. /\ sync.stale \in BOOLEAN
        /\ w.status \in {"active", "expired", "disabled", None}
        /\ w.end \in Nat \cup {None}
    BY SyncKinds DEF SyncCommit, IInv, TypeOK
  <1>2. row' = [status |-> Written(w.status, row.status), end |-> Written(w.end, row.end)]
    BY DEF SyncCommit
  <1>3. row'.status = Written(w.status, row.status) /\ row'.end = Written(w.end, row.end)
    BY <1>2
  <1>4. row' \in Row
    <2>1. Written(w.status, row.status) \in {"active", "expired", "disabled"}
      BY <1>1, Types DEF Written, IInv
    <2>2. Written(w.end, row.end) \in Nat  BY <1>1, Types DEF Written, IInv
    <2> QED BY <1>2, <2>1, <2>2 DEF Row
  <1>5. sync.stale \/ (Kept(row) => Kept(row'))
    <2>1. SUFFICES ASSUME ~sync.stale, Kept(row), paid # 0
                   PROVE  row'.status = "active" /\ row'.end >= paid
      BY DEF Kept
    <2>2. row.status = "active" /\ row.end >= paid  BY <2>1 DEF Kept
    <2>3. w.status \in {None, "active"} /\ (w.end = None \/ w.end >= paid)
      BY <2>1 DEF SyncCommit, IInv, SyncFacts
    <2> QED BY <1>3, <2>2, <2>3 DEF Written
  <1>6. UNCHANGED paid /\ RowLost(sync.stale)  BY DEF SyncCommit
  <1>7. /\ lost \subseteq lost' /\ lost' \subseteq {"row", "panel"}
        /\ "row" \in lost' \/ Kept(row)'
    BY <1>1, <1>5, <1>6, LosesRow
  <1>8. sync' \in Sync /\ SyncFacts'  BY DEF SyncCommit, Sync, SyncFacts, Idle
  <1> QED BY <1>4, <1>7, <1>8, ReaderStep DEF SyncCommit, IInv, TypeOK

LEMMA MonitorAsksStep ==
    ASSUME IInv, MonitorAsks \/ MonitorDecides
    PROVE  IInv'
  <1>1. mon' \in Monitor
    <2>1. CASE MonitorAsks  BY <2>1, Types DEF MonitorAsks, IInv, Monitor
    <2>2. CASE MonitorDecides
      <3>1. mon.got \in Account \cup {None}
        BY <2>2, MonitorKinds DEF MonitorDecides, IInv, TypeOK
      <3> QED BY <2>2, <3>1 DEF MonitorDecides, Monitor, Idle
    <2> QED BY <2>1, <2>2
  <1>2. UNCHANGED <<now, row, newer, recent, panel, hooks, job, queue, batch, sync,
                    visit, paid, lost>>
    BY DEF MonitorAsks, MonitorDecides
  <1>3. SyncFacts'  BY <1>2, SyncUndisturbed
  <1>4. Kept(row)' = Kept(row)  BY <1>2 DEF Kept
  <1> QED BY <1>1, <1>2, <1>3, <1>4, ReaderStep DEF IInv, TypeOK, PaidIsKept

LEMMA MonitorImportsStep ==
    ASSUME IInv, MonitorImports
    PROVE  IInv'
  <1>1. mon.got \in Account  BY MonitorKinds DEF MonitorImports, IInv, TypeOK
  <1>2. mon.got.end \in Nat  BY <1>1 DEF Account
  <1>3. row' = [row EXCEPT !.end = mon.got.end]  BY DEF MonitorImports
  <1>4. row' \in Row /\ row'.status = row.status /\ row'.end = mon.got.end
    BY <1>2, <1>3, Types DEF IInv, Row
  <1>5. ~Shows(mon.got) \/ (Kept(row) => Kept(row'))
    BY <1>4 DEF Shows, Kept
  <1>6. /\ UNCHANGED paid
        /\ (~Shows(mon.got)) \in BOOLEAN
        /\ RowLost(~Shows(mon.got))
    <2>1. UNCHANGED paid  BY DEF MonitorImports
    <2>2. (~Shows(mon.got)) \in BOOLEAN  OBVIOUS
    <2>3. RowLost(~Shows(mon.got))  BY DEF MonitorImports
    <2> QED BY <2>1, <2>2, <2>3
  <1>7. /\ lost \subseteq lost' /\ lost' \subseteq {"row", "panel"}
        /\ "row" \in lost' \/ Kept(row)'
    BY <1>5, <1>6, LosesRow
  <1>8. sync' \in Sync /\ SyncFacts' /\ newer' \in BOOLEAN
    <2>1. CASE Stamp /\ sync' = sync
      BY <1>6, <2>1, SyncUndisturbed DEF IInv, TypeOK
    <2>2. CASE newer' = FALSE /\ sync.pc = "fetched"
               /\ sync' = [sync EXCEPT !.renewed = FALSE]
      <3>1. sync' \in Sync /\ sync'.pc = "fetched" /\ ~sync'.renewed
        BY <2>2, SyncMarks DEF IInv, TypeOK
      <3> QED BY <2>2, <3>1 DEF SyncFacts
    <2>3. CASE newer' = FALSE /\ sync.pc # "fetched" /\ sync' = sync
      BY <1>6, <2>3 DEF IInv, TypeOK, SyncFacts
    <2> QED BY <2>1, <2>2, <2>3 DEF MonitorImports
  <1>9. mon' \in Monitor  BY DEF MonitorImports, Monitor
  <1> QED BY <1>4, <1>7, <1>8, <1>9, ReaderStep DEF MonitorImports, IInv, TypeOK

\* A row that is due does not hold anything that is paid for.
LEMMA DueIsOver ==
    ASSUME IInv, Due(row), Kept(row)
    PROVE  paid = 0
  <1>1. row.end \in Nat /\ now \in Nat /\ paid \in Nat  BY Types DEF IInv
  <1> QED BY <1>1 DEF Due, Kept, IInv, PaidAhead

LEMMA MonitorExpiresStep ==
    ASSUME IInv, MonitorExpires
    PROVE  IInv'
  <1>1. /\ UNCHANGED <<now, recent, panel, hooks, job, queue, batch, sync, visit, paid, lost>>
        /\ row' = IF Hit THEN [row EXCEPT !.status = "expired"] ELSE row
        /\ newer' = newer \/ Stamp
        /\ mon' = Idle
    BY DEF MonitorExpires, Stamp
  <1>2. row' \in Row  BY <1>1, Types DEF IInv, Row
  <1>3. Kept(row) => Kept(row)'
    <2>1. CASE Hit
      BY <1>1, <2>1, DueIsOver DEF Hit, Kept
    <2>2. CASE ~Hit  BY <1>1, <2>2 DEF Kept
    <2> QED BY <2>1, <2>2
  <1>4. "row" \in lost' \/ Kept(row)'  BY <1>1, <1>3 DEF IInv, PaidIsKept
  <1>5. SyncFacts' /\ newer' \in BOOLEAN
    BY <1>1, SyncUndisturbed DEF MonitorExpires
  <1>6. mon' \in Monitor  BY DEF MonitorExpires, Monitor
  <1> QED BY <1>1, <1>2, <1>4, <1>5, <1>6, ReaderStep DEF IInv, TypeOK

LEMMA VisitStep ==
    ASSUME IInv, Visit \/ VisitExpires
    PROVE  IInv'
  <1>1. CASE Visit
    <2>1. UNCHANGED <<now, row, newer, recent, panel, hooks, job, queue, batch, sync,
                      mon, paid, lost>> /\ visit' = TRUE
      BY <1>1 DEF Visit
    <2>2. SyncFacts'  BY <2>1, SyncUndisturbed
    <2>3. Kept(row)' = Kept(row)  BY <2>1 DEF Kept
    <2> QED BY <2>1, <2>2, <2>3, ReaderStep DEF IInv, TypeOK, PaidIsKept
  <1>2. CASE VisitExpires
    <2>1. /\ UNCHANGED <<now, recent, panel, hooks, job, queue, batch, sync, mon, paid>>
          /\ row' = [row EXCEPT !.status = "expired"] /\ Stamp /\ RowLost(TRUE)
          /\ visit' = FALSE
      BY <1>2 DEF VisitExpires
    <2>2. row' \in Row  BY <2>1, Types DEF IInv, Row
    <2>3. /\ lost \subseteq lost' /\ lost' \subseteq {"row", "panel"}
          /\ "row" \in lost' \/ Kept(row)'
      BY <2>1, LosesRow
    <2>4. SyncFacts' /\ newer' \in BOOLEAN  BY <2>1, SyncUndisturbed
    <2> QED BY <2>1, <2>2, <2>3, <2>4, ReaderStep DEF IInv, TypeOK
  <1> QED BY <1>1, <1>2

-----------------------------------------------------------------------------
(* Pushes.                                                                 *)

LEMMA ArrivesType ==
    ASSUME IInv, NEW w \in Worker, job[w].pc = "patch", Arrives(w)
    PROVE  panel' \in Account /\ hooks' \subseteq Hook
  <1>1. job[w].sent \in Request  BY JobKinds DEF IInv, TypeOK
  <1>2. panel' \in Account
    BY <1>1, PatchedType, Types DEF Arrives, IInv
  <1>3. /\ [kind |-> "modified", got |-> panel'] \in Hook
        /\ [kind |-> "enabled"] \in Hook /\ [kind |-> "disabled"] \in Hook
    BY <1>2 DEF Hook
  <1> QED BY <1>2, <1>3 DEF Arrives, Emit, IInv, TypeOK

\* A push that is done: it arrived or not, and other causes may have been met.
LEMMA PushDone ==
    ASSUME IInv, NEW w \in Worker, Done(w),
           panel' \in Account, hooks' \subseteq Hook,
           queue' \in Seq(0 .. MaxRetries - 1), batch' \in Seq(0 .. MaxRetries - 1),
           w # Loop => UNCHANGED batch,
           lost \subseteq lost', lost' \subseteq {"row", "panel"},
           PushIsPending'
    PROVE  IInv'
  <1>1. /\ job' = [job EXCEPT ![w] = Idle]
        /\ UNCHANGED <<now, row, newer, recent, sync, mon, visit, paid>>
    BY DEF Done
  <1>2. Idle \in Job  BY DEF Job
  <1>3. TypeOK'  BY <1>1, <1>2 DEF IInv, TypeOK
  <1>4. PaidAhead' /\ SyncFacts' /\ PaidIsKept'
    BY <1>1 DEF IInv, PaidAhead, SyncFacts, PaidIsKept, Kept
  <1>5. LoopHasItem'
    <2>1. CASE w = Loop
      <3>1. job'[Loop].pc = "idle"  BY <1>1, <2>1 DEF IInv, TypeOK, Idle
      <3> QED BY <3>1 DEF LoopHasItem
    <2>2. CASE w # Loop
      BY <1>1, <2>2 DEF IInv, LoopHasItem
    <2> QED BY <2>1, <2>2
  <1> QED BY <1>3, <1>4, <1>5 DEF IInv

\* A push that arrives brings what was paid for, or is noted as overtaken, or
\* leaves an account that another push has still to reach.
LEMMA ArrivalTells ==
    ASSUME IInv, NEW w \in Worker, job[w].pc = "patch", Arrives(w), UNCHANGED paid,
           lost \cup Overtaken(w) \subseteq lost'
    PROVE  \/ Shows(panel)' \/ lost' # {}
           \/ ~Shows(panel) /\ ~Carries(job[w].sent)
  <1>1. SUFFICES ASSUME lost' = {}, ~Shows(panel)'
                 PROVE  ~Shows(panel) /\ ~Carries(job[w].sent)
    OBVIOUS
  <1>2. Shows(panel)' = Shows(panel')  BY DEF Shows
  <1>3. panel' \in Patched(panel, job[w].sent) /\ job[w].sent \in Request
    BY JobKinds DEF Arrives, IInv, TypeOK
  <1>4. ~Carries(job[w].sent)
    BY <1>1, <1>2, <1>3, PatchedShows, Types DEF IInv
  <1>5. Kept(row)  BY <1>1 DEF IInv, PaidIsKept
  <1>6. job[w].sent # Payload(row)  BY <1>4, <1>5, PayloadCarries DEF IInv
  <1>7. ~Shows(panel)  BY <1>1, <1>2, <1>6 DEF Overtaken
  <1> QED BY <1>4, <1>7

\* Whatever promises a push besides w's own, and the item it works on, still does.
LEMMA OthersPush ==
    ASSUME IInv, NEW w \in Worker, job[w].pc = "patch", ~Carries(job[w].sent), Done(w),
           Pushing, UNCHANGED queue,
           batch' = IF w = Loop THEN Tail(batch) ELSE batch
    PROVE  Pushing'
  <1>1. job' = [job EXCEPT ![w] = Idle] /\ UNCHANGED paid  BY DEF Done
  <1>2. job \in [Worker -> Job] /\ batch \in Seq(0 .. MaxRetries - 1)
    BY DEF IInv, TypeOK
  <1>3. \A v \in Worker : v # w => job'[v] = job[v]  BY <1>1, <1>2
  <1>4. job'[w] = Idle /\ Idle.pc = "idle"  BY <1>1, <1>2 DEF Idle
  <1>5. \A p : Carries(p)' <=> Carries(p)  BY <1>1 DEF Carries
  <1>6. CASE queue # <<>>  BY <1>6 DEF Pushing
  <1>7. CASE batch # <<>> /\ job[Loop].pc # "patch"
    BY <1>3, <1>7, Types DEF Pushing, IInv
  <1>8. CASE Len(batch) > 1
    <2>1. batch # <<>> /\ Tail(batch) \in Seq(0 .. MaxRetries - 1)
          /\ Len(Tail(batch)) = Len(batch) - 1
      BY <1>2, <1>8, HeadTailProperties
    <2>2. Tail(batch) # <<>>  BY <1>2, <1>8, <2>1
    <2> QED BY <1>4, <1>8, <2>2 DEF Pushing
  <1>9. CASE \E t \in Task : job[t].pc = "push"
    BY <1>3, <1>9 DEF Pushing, Worker
  <1>10. CASE \E v \in Worker : job[v].pc = "patch" /\ Carries(job[v].sent)
    <2>1. PICK v \in Worker : job[v].pc = "patch" /\ Carries(job[v].sent)  BY <1>10
    <2>2. v # w  BY <2>1
    <2> QED BY <1>3, <1>5, <2>1, <2>2 DEF Pushing
  <1> QED BY <1>6, <1>7, <1>8, <1>9, <1>10 DEF Pushing

LEMMA DeliveredStep ==
    ASSUME IInv, NEW w \in Worker, Delivered(w)
    PROVE  IInv'
  <1>1. /\ job[w].pc = "patch" /\ Arrives(w) /\ Done(w) /\ UNCHANGED <<queue, paid>>
        /\ batch' = IF w = Loop THEN Tail(batch) ELSE batch
        /\ lost' = lost \cup Overtaken(w)
    BY DEF Delivered, Done
  <1>2. panel' \in Account /\ hooks' \subseteq Hook  BY <1>1, ArrivesType
  <1>3. queue' \in Seq(0 .. MaxRetries - 1) /\ batch' \in Seq(0 .. MaxRetries - 1)
    BY <1>1, Attempted DEF IInv, TypeOK, LoopHasItem
  <1>4. lost \subseteq lost' /\ lost' \subseteq {"row", "panel"}
    BY <1>1, Types DEF Overtaken, IInv
  <1>5. PushIsPending'
    <2>1. \/ Shows(panel)' \/ lost' # {}
          \/ ~Shows(panel) /\ ~Carries(job[w].sent)
      BY <1>1, ArrivalTells
    <2>2. CASE Shows(panel)' \/ lost' # {}  BY <2>2 DEF PushIsPending
    <2>3. CASE ~Shows(panel) /\ ~Carries(job[w].sent) /\ lost' = {}
      <3>1. Pushing  BY <1>4, <2>3 DEF IInv, PushIsPending
      <3> QED BY <1>1, <2>3, <3>1, OthersPush DEF PushIsPending
    <2> QED BY <2>1, <2>2, <2>3
  <1> QED BY <1>1, <1>2, <1>3, <1>4, <1>5, PushDone

LEMMA FailsStep ==
    ASSUME IInv, NEW w \in Worker, Fails(w)
    PROVE  IInv'
  <1>1. /\ job[w].pc = "patch"
        /\ Arrives(w) \/ UNCHANGED <<panel, hooks>>
        /\ Done(w) /\ UNCHANGED paid
    BY DEF Fails, Done
  <1>2. panel' \in Account /\ hooks' \subseteq Hook
    BY <1>1, ArrivesType DEF Fails, IInv, TypeOK
  <1>3. Shows(panel)' = Shows(panel')  BY <1>1 DEF Shows
  <1>4. Unshown \subseteq {"panel"} /\ Overtaken(w) \subseteq {"panel"}
    BY DEF Unshown, Overtaken
  <1>5. CASE w = Loop
    <2>1. /\ batch' = Tail(batch) /\ queue' = Requeued
          /\ lost' = lost \cup Overtaken(w)
                       \cup IF Attempts < MaxRetries THEN {} ELSE Unshown
      BY <1>5 DEF Fails
    <2>2. batch # <<>>  BY <1>5 DEF Fails, IInv, LoopHasItem
    <2>3. /\ Tail(batch) \in Seq(0 .. MaxRetries - 1)
          /\ Requeued \in Seq(0 .. MaxRetries - 1)
          /\ Attempts < MaxRetries => Requeued # <<>>
      BY <2>2, Attempted DEF IInv
    <2>4. lost \subseteq lost' /\ lost' \subseteq {"row", "panel"}
      BY <1>4, <2>1, Types DEF IInv
    <2>5. PushIsPending'
      <3>1. CASE Attempts < MaxRetries
        BY <2>1, <2>3, <3>1 DEF PushIsPending, Pushing
      <3>2. CASE ~(Attempts < MaxRetries)
        BY <1>3, <2>1, <3>2 DEF PushIsPending, Unshown
      <3> QED BY <3>1, <3>2
    <2> QED BY <1>1, <1>2, <1>5, <2>1, <2>3, <2>4, <2>5, PushDone
  <1>6. CASE w # Loop
    <2>1. UNCHANGED <<batch, queue>> /\ lost' = lost \cup Overtaken(w) \cup Unshown
      BY <1>6 DEF Fails
    <2>2. lost \subseteq lost' /\ lost' \subseteq {"row", "panel"}
      BY <1>4, <2>1, Types DEF IInv
    <2>3. PushIsPending'  BY <1>3, <2>1 DEF PushIsPending, Unshown
    <2> QED BY <1>1, <1>2, <1>6, <2>1, <2>2, <2>3, PushDone DEF IInv, TypeOK
  <1> QED BY <1>5, <1>6

LEMMA TimesOutStep ==
    ASSUME IInv, NEW t \in Task, TimesOut(t)
    PROVE  IInv'
  <1>1. /\ job[t].pc = "patch"
        /\ Arrives(t) \/ UNCHANGED <<panel, hooks>>
        /\ Done(t) /\ UNCHANGED batch /\ queue' = Enqueued
        /\ lost' = lost \cup Overtaken(t)
    BY DEF TimesOut
  <1>2. t \in Worker /\ t # Loop  BY ConstantsAssumption DEF Worker
  <1>3. panel' \in Account /\ hooks' \subseteq Hook
    BY <1>1, <1>2, ArrivesType DEF TimesOut, IInv, TypeOK
  <1>4. lost \subseteq lost' /\ lost' \subseteq {"row", "panel"}
    BY <1>1, Types DEF Overtaken, IInv
  <1>5. queue' \in Seq(0 .. MaxRetries - 1) /\ queue' # <<>>
    BY <1>1, Enqueues DEF IInv
  <1>6. PushIsPending'  BY <1>5 DEF PushIsPending, Pushing
  <1> QED BY <1>1, <1>2, <1>3, <1>4, <1>5, <1>6, PushDone DEF IInv, TypeOK

\* What reads the row takes up what was paid for.
LEMMA ReadRowStep ==
    ASSUME IInv, NEW w \in Worker, ReadRow(w)
    PROVE  IInv'
  <1> DEFINE j == [pc |-> "patch", sent |-> Payload(row)]
  <1>1. /\ job' = [job EXCEPT ![w] = j]
        /\ UNCHANGED <<now, row, newer, recent, panel, hooks, queue, batch, sync, mon,
                       visit, paid, lost>>
    BY DEF ReadRow
  <1>2. j \in Job /\ j.pc = "patch" /\ j.sent = Payload(row)
    BY PayloadType DEF IInv, Job
  <1> HIDE DEF j
  <1>3. TypeOK'  BY <1>1, <1>2 DEF IInv, TypeOK
  <1>4. PaidAhead' /\ SyncFacts' /\ PaidIsKept'
    BY <1>1 DEF IInv, PaidAhead, SyncFacts, PaidIsKept, Kept
  <1>5. job'[w] = j  BY <1>1 DEF IInv, TypeOK
  <1>6. LoopHasItem'
    <2>1. CASE w = Loop
      <3>1. batch # <<>>  BY <2>1, ConstantsAssumption DEF ReadRow
      <3> QED BY <1>1, <3>1 DEF LoopHasItem
    <2>2. CASE w # Loop  BY <1>1, <2>2 DEF IInv, LoopHasItem
    <2> QED BY <2>1, <2>2
  <1>7. PushIsPending'
    <2>1. CASE lost # {}  BY <1>1, <2>1 DEF PushIsPending
    <2>2. CASE lost = {}
      <3>1. Kept(row)  BY <2>2 DEF IInv, PaidIsKept
      <3>2. Carries(j.sent)  BY <1>2, <3>1, PayloadCarries DEF IInv
      <3>3. (job[w].pc = "patch" /\ Carries(job[w].sent))'
        BY <1>1, <1>2, <1>5, <3>2 DEF Carries
      <3> QED BY <3>3 DEF PushIsPending, Pushing
    <2> QED BY <2>1, <2>2
  <1> QED BY <1>3, <1>4, <1>6, <1>7 DEF IInv

LEMMA TakeBatchStep ==
    ASSUME IInv, TakeBatch
    PROVE  IInv'
  <1>1. /\ job[Loop] = Idle /\ batch = <<>> /\ queue # <<>>
        /\ batch' = queue /\ queue' = <<>>
        /\ UNCHANGED <<now, row, newer, recent, panel, hooks, job, sync, mon, visit,
                       paid, lost>>
    BY DEF TakeBatch, Pending
  <1>2. TypeOK'
    <2>1. <<>> \in Seq(0 .. MaxRetries - 1)  OBVIOUS
    <2> QED BY <1>1, <2>1 DEF IInv, TypeOK
  <1>3. PaidAhead' /\ SyncFacts' /\ PaidIsKept' /\ LoopHasItem'
    BY <1>1 DEF IInv, PaidAhead, SyncFacts, PaidIsKept, Kept, LoopHasItem
  <1>4. PushIsPending'  BY <1>1 DEF PushIsPending, Pushing, Idle
  <1> QED BY <1>2, <1>3, <1>4 DEF IInv

\* A renewal starts a push of its own.
LEMMA RenewStep ==
    ASSUME IInv, NEW t \in Task, Renew(t)
    PROVE  IInv'
  <1> DEFINE end == MaxOf(row.end, now) + Period
  <1>1. /\ job' = [job EXCEPT ![t] = [pc |-> "push"]]
        /\ row' = [status |-> "active", end |-> end]
        /\ paid' = row'.end /\ lost' = {}
        /\ UNCHANGED <<now, recent, panel, hooks, queue, batch, mon, visit>>
    BY DEF Renew
  <1>2. end \in Nat /\ end > now  BY Types DEF MaxOf, IInv
  <1> HIDE DEF end
  <1>3. row' \in Row /\ paid' = end /\ row'.end = end /\ row'.status = "active"
    BY <1>1, <1>2 DEF Row
  <1>4. job'[t] = [pc |-> "push"] /\ job' \in [Worker -> Job]
    <2>1. t \in Worker /\ [pc |-> "push"] \in Job  BY DEF Worker, Job
    <2> QED BY <1>1, <2>1 DEF IInv, TypeOK
  <1>5. sync' \in Sync /\ newer' \in BOOLEAN /\ SyncFacts'
    <2>1. sync \in Sync /\ newer \in BOOLEAN  BY DEF IInv, TypeOK
    <2>2. CASE sync.pc = "fetched" /\ newer' = TRUE
               /\ sync' = [sync EXCEPT !.renewed = TRUE]
      <3>1. sync' \in Sync /\ sync'.pc = "fetched"
        BY <2>1, <2>2, SyncMarks
      <3> QED BY <2>2, <3>1 DEF SyncFacts
    <2>3. CASE sync.pc = "loaded" /\ newer' = newer
               /\ sync' = [sync EXCEPT !.stale = TRUE]
      <3>1. sync' \in Sync /\ sync'.pc = "loaded" /\ sync'.stale
        BY <2>1, <2>3, SyncMarks
      <3> QED BY <2>1, <2>3, <3>1 DEF SyncFacts
    <2>4. CASE sync.pc # "loaded" /\ newer' = newer /\ sync' = sync
      BY <2>1, <2>4 DEF SyncFacts, IInv
    <2> QED BY <2>2, <2>3, <2>4 DEF Renew
  <1>6. TypeOK'  BY <1>1, <1>2, <1>3, <1>4, <1>5 DEF IInv, TypeOK
  <1>7. PaidAhead'  BY <1>1, <1>2, <1>3 DEF PaidAhead
  <1>8. PaidIsKept'
    <2>1. row'.end >= paid'  BY <1>2, <1>3
    <2> QED BY <1>3, <2>1 DEF PaidIsKept, Kept
  <1>9. LoopHasItem'
    <2>1. job'[Loop] = job[Loop]  BY <1>1, ConstantsAssumption DEF Worker, IInv, TypeOK
    <2> QED BY <1>1, <2>1 DEF IInv, LoopHasItem
  <1>10. PushIsPending'  BY <1>4 DEF PushIsPending, Pushing
  <1> QED BY <1>5, <1>6, <1>7, <1>8, <1>9, <1>10 DEF IInv

-----------------------------------------------------------------------------
(* The panel, the clock, restarts.                                         *)

LEMMA PanelExpiresStep ==
    ASSUME IInv, PanelExpires
    PROVE  IInv'
  <1>1. /\ panel.end <= now /\ panel' = [panel EXCEPT !.status = "EXPIRED"]
        /\ Emit([kind |-> "expired"])
        /\ UNCHANGED <<now, row, newer, recent, job, queue, batch, sync, mon, visit,
                       paid, lost>>
    BY DEF PanelExpires, program
  <1>2. panel' \in Account  BY <1>1, Types DEF IInv, Account
  <1>3. hooks' \subseteq Hook
    <2>1. [kind |-> "expired"] \in Hook  BY DEF Hook
    <2> QED BY <1>1, <2>1 DEF Emit, IInv, TypeOK
  <1>4. TypeOK'  BY <1>1, <1>2, <1>3 DEF IInv, TypeOK
  <1>5. PaidAhead' /\ SyncFacts' /\ PaidIsKept' /\ LoopHasItem'
    BY <1>1 DEF IInv, PaidAhead, SyncFacts, PaidIsKept, Kept, LoopHasItem
  <1>6. Shows(panel) => Shows(panel)'
    BY <1>1, Types DEF Shows, IInv, PaidAhead
  <1>7. Pushing' = Pushing  BY <1>1 DEF Pushing, Carries
  <1>8. PushIsPending'  BY <1>1, <1>6, <1>7 DEF IInv, PushIsPending
  <1> QED BY <1>4, <1>5, <1>8 DEF IInv

LEMMA TickStep ==
    ASSUME IInv, Tick
    PROVE  IInv'
  <1>1. /\ now' = now + 1 /\ recent' = FALSE
        /\ UNCHANGED <<row, newer, panel, hooks, job, queue, batch, sync, mon, visit>>
        /\ IF paid <= now' THEN paid' = 0 /\ lost' = {} ELSE UNCHANGED <<paid, lost>>
    BY DEF Tick, program
  <1>2. TypeOK'
    <2>1. now \in Nat  BY Types DEF IInv
    <2>3. now' \in Nat
      <3>1. now' = now + 1  BY DEF Tick
      <3> QED BY <2>1, <3>1
    <2>4. recent' \in BOOLEAN  BY DEF Tick
    <2>2. paid' \in Nat /\ lost' \subseteq {"row", "panel"}  BY <1>1, Types DEF IInv
    <2> QED BY <1>1, <2>2, <2>3, <2>4 DEF IInv, TypeOK
  <1>3. LoopHasItem'  BY <1>1 DEF IInv, LoopHasItem
  <1>4. CASE paid <= now' /\ paid' = 0 /\ lost' = {}
    <2>1. PaidAhead' /\ PaidIsKept' /\ PushIsPending'
      BY <1>4 DEF PaidAhead, PaidIsKept, Kept, PushIsPending, Shows
    <2>2. SyncFacts'  BY <1>1, <1>4 DEF IInv, SyncFacts
    <2> QED BY <1>2, <1>3, <2>1, <2>2 DEF IInv
  <1>5. CASE ~(paid <= now') /\ UNCHANGED <<paid, lost>>
    <2>1. PaidAhead'  BY <1>1, <1>5, Types DEF PaidAhead, IInv
    <2>2. PaidIsKept' /\ SyncFacts'
      BY <1>1, <1>5 DEF IInv, PaidIsKept, Kept, SyncFacts
    <2>3. PushIsPending'  BY <1>1, <1>5, StillPending
    <2> QED BY <1>2, <1>3, <2>1, <2>2, <2>3 DEF IInv
  <1> QED BY <1>1, <1>4, <1>5

LEMMA RestartStep ==
    ASSUME IInv, Restart
    PROVE  IInv'
  <1>1. /\ job' = [w \in Worker |-> Idle] /\ queue' = <<>> /\ batch' = <<>>
        /\ sync' = Idle /\ mon' = Idle /\ visit' = FALSE /\ newer' = FALSE
        /\ lost' = lost \cup Unshown
        /\ UNCHANGED <<now, row, recent, hooks, paid>>
    BY DEF Restart
  <1>2. panel' \in Account
    <2>1. CASE panel' = panel  BY <2>1, Types DEF IInv
    <2>2. ASSUME NEW w \in Worker, job[w].pc = "patch",
                 panel' \in Patched(panel, job[w].sent)
          PROVE  panel' \in Account
      <3>1. job[w].sent \in Request  BY <2>2, JobKinds DEF IInv, TypeOK
      <3> QED BY <2>2, <3>1, PatchedType, Types DEF IInv
    <2> QED BY <2>1, <2>2 DEF Restart
  <1>3. TypeOK'
    <2>1. Idle \in Job /\ Idle \in Sync /\ Idle \in Monitor
      BY DEF Job, Sync, Monitor
    <2>2. lost' \subseteq {"row", "panel"}  BY <1>1, Types DEF Unshown, IInv
    <2>3. <<>> \in Seq(0 .. MaxRetries - 1)  OBVIOUS
    <2> QED BY <1>1, <1>2, <2>1, <2>2, <2>3 DEF IInv, TypeOK
  <1>4. PaidAhead'  BY <1>1 DEF IInv, PaidAhead
  <1>5. PaidIsKept'  BY <1>1 DEF IInv, PaidIsKept, Kept
  <1>6. SyncFacts'  BY <1>1 DEF SyncFacts, Idle
  <1>7. LoopHasItem'  BY <1>1, Types DEF LoopHasItem, Idle, IInv
  <1>8. PushIsPending'  BY <1>1 DEF PushIsPending, Unshown, Shows
  <1> QED BY <1>3, <1>4, <1>5, <1>6, <1>7, <1>8 DEF IInv

-----------------------------------------------------------------------------
(* The theorems.                                                           *)

LEMMA Initially == Init => IInv
  <1> SUFFICES ASSUME Init PROVE IInv
    OBVIOUS
  <1>1. TypeOK
    <2>1. Idle \in Job /\ Idle \in Sync /\ Idle \in Monitor
      BY DEF Job, Sync, Monitor
    <2>2. <<>> \in Seq(0 .. MaxRetries - 1)  OBVIOUS
    <2>3. row \in Row /\ panel \in Account  BY DEF Init, Row, Account
    <2> QED BY <2>1, <2>2, <2>3 DEF Init, TypeOK
  <1>2. PaidAhead /\ PaidIsKept  BY DEF Init, PaidAhead, PaidIsKept, Kept
  <1>3. LoopHasItem /\ SyncFacts
    BY <1>1, Types DEF Init, LoopHasItem, SyncFacts, Idle
  <1>4. PushIsPending  BY DEF Init, PushIsPending, Shows
  <1> QED BY <1>1, <1>2, <1>3, <1>4 DEF IInv

LEMMA Inductive == IInv /\ [Next]_vars => IInv'
  <1> SUFFICES ASSUME IInv, [Next]_vars PROVE IInv'
    OBVIOUS
  <1>1. CASE UNCHANGED vars
    <2>1. UNCHANGED <<now, row, newer, recent, panel, hooks, job, queue, batch, sync,
                      mon, visit, paid, lost>>
      BY <1>1 DEF vars, program
    <2> QED
      BY <2>1, ReaderStep, SyncUndisturbed DEF IInv, TypeOK, PaidIsKept, Kept
  <1>2. ASSUME NEW w \in Worker, WorkerStep(w)
        PROVE  IInv'
    BY <1>2, ReadRowStep, DeliveredStep, FailsStep DEF WorkerStep
  <1>3. ASSUME NEW t \in Task, Renew(t) \/ TaskStep(t)
        PROVE  IInv'
    <2>1. t \in Worker  BY DEF Worker
    <2> QED BY <1>2, <1>3, <2>1, RenewStep, TimesOutStep DEF TaskStep
  <1>4. CASE \/ OnExpired \/ OnDisabled \/ OnEnabled
             \/ \E h \in hooks : h.kind = "modified" /\ OnModified(h.got)
    BY <1>4, WebhookStep
  <1>5. CASE SyncFetch \/ SyncLoad \/ SyncCommit
    BY <1>5, SyncFetchStep, SyncLoadStep, SyncCommitStep
  <1>6. CASE MonitorAsks \/ MonitorDecides \/ MonitorImports \/ MonitorExpires
    BY <1>6, MonitorAsksStep, MonitorImportsStep, MonitorExpiresStep
  <1>7. CASE Visit \/ VisitExpires
    BY <1>7, VisitStep
  <1>8. CASE TakeBatch \/ PanelExpires \/ Tick \/ Restart
    BY <1>8, TakeBatchStep, PanelExpiresStep, TickStep, RestartStep
  <1> QED BY <1>1, <1>2, <1>3, <1>4, <1>5, <1>6, <1>7, <1>8, Types DEF Next, IInv

LEMMA Invariance == Spec => []IInv
  BY Initially, Inductive, PTL DEF Spec

\* Type correctness: row, account, requests, webhooks and the attempts of every
\* item of the queue stay within their types.
THEOREM TypeCorrect == Spec => []TypeOK
  <1>1. IInv => TypeOK  BY DEF IInv
  <1> QED BY <1>1, Invariance, PTL

\* Whatever else writes it, neither monitoring nor a synchronisation that could
\* see a renewal takes from the row what was paid for.
THEOREM PaidStays == Spec => []PaidIsKept
  <1>1. IInv => PaidIsKept  BY DEF IInv
  <1> QED BY <1>1, Invariance, PTL

\* Unless a cause is met, what the panel does not show yet of what was paid for
\* is about to be pushed: by the renewal, or by the retry queue, in which a push
\* cut short by its timeout is found again.
THEOREM PaidIsPushed == Spec => []PushIsPending
  <1>1. IInv => PushIsPending  BY DEF IInv
  <1> QED BY <1>1, Invariance, PTL

=============================================================================
