------------------------ MODULE IngestionQueueProofs ------------------------
(***************************************************************************)
(* Theorems about the ingestion queue, for any number of documents,        *)
(* workers, slots and clients.                                             *)
(***************************************************************************)
EXTENDS IngestionQueue, TLAPS

\* A row built from values of its columns' types is a job row.
LEMMA RowType ==
    ASSUME NEW s \in JobState, NEW a \in Nat, NEW w \in LockedBy, NEW l \in Lock,
           NEW due \in BOOLEAN
    PROVE  Row(s, a, w, l, due) \in Job
BY DEF Row, Job

\* An UPDATE of a row by a session that saw another version of it is a row.
LEMMA FlushType ==
    ASSUME NEW view \in Job, NEW new \in Job, NEW row \in Job
    PROVE  Flush(view, new, row) \in Job
BY DEF Flush, Column, Job

\* A status column holds a document status, whether it is written or kept.
LEMMA ColumnType ==
    ASSUME NEW old \in DocStatus, NEW new \in DocStatus, NEW row \in DocStatus
    PROVE  Column(old, new, row) \in DocStatus
BY DEF Column

\* The absent job, the empty view, the idle slot and the idle request are well formed.
LEMMA NullTypes ==
    /\ NoJob \in Job
    /\ NoView \in View
    /\ Idle \in Slot
    /\ NoRequest \in Request
BY DEF NoJob, Row, Job, NoView, View, Idle, Busy, Slot, NoRequest, Request, DocStatus,
       JobState, LockedBy, Lock, Phase

\* What a failure leaves is a job row.
LEMMA AfterFailureType ==
    ASSUME NEW a \in Nat, NEW due \in BOOLEAN
    PROVE  AfterFailure(a, due) \in Job
BY RowType DEF AfterFailure, JobState, LockedBy, Lock

\* A view is a job row and a document status.
LEMMA ViewFields ==
    ASSUME NEW view \in View
    PROVE  view.job \in Job /\ view.status \in DocStatus
BY DEF View

\* The columns of a job row.
LEMMA JobFields ==
    ASSUME NEW row \in Job
    PROVE  /\ row.state \in JobState /\ row.attempts \in Nat
           /\ row.lockedBy \in LockedBy /\ row.lock \in Lock /\ row.due \in BOOLEAN
BY DEF Job

\* What a slot knows.
LEMMA SlotFields ==
    ASSUME NEW x \in Slot
    PROVE  /\ x.phase \in Phase /\ x.doc \in Docs \cup {NoDoc}
           /\ x.view \in View /\ x.seen \subseteq Generations
BY DEF Slot

\* What a request knows.
LEMMA RequestFields ==
    ASSUME NEW x \in Request
    PROVE  /\ x.doc \in Docs \cup {NoDoc} /\ x.view \in View
           /\ x.seen \subseteq Generations
BY DEF Request

\* A slot that is given a document is well formed and has what it was given.
LEMMA BusyType ==
    ASSUME NEW p \in Phase, NEW d \in Docs \cup {NoDoc}, NEW view \in View
    PROVE  /\ Busy(p, d, view) \in Slot
           /\ Busy(p, d, view).phase = p
           /\ Busy(p, d, view).doc = d
           /\ Busy(p, d, view).view = view
BY DEF Busy, Slot

\* The idle slot.
LEMMA IdleIsIdle == Idle \in Slot /\ Idle.phase = "idle"
BY NullTypes DEF Idle, Busy

\* A session that reads a document and its job holds a view.
LEMMA ViewType ==
    ASSUME TypeOK, NEW d \in Docs
    PROVE  ViewOf(d) \in View
BY DEF TypeOK, ViewOf, View

\* Handing a document to a background task keeps the slots well formed.
LEMMA DispatchType ==
    ASSUME TypeOK, NEW d \in Docs, Dispatch(d)
    PROVE  /\ slot' \in [Slots -> Slot]
           /\ \A s \in Slots : slot'[s].phase # "idle" => slot'[s].doc \in Docs
<1>1. "submitted" \in Phase
  BY DEF Phase
<1>2. CASE slot' = slot
  BY <1>2 DEF TypeOK, Active
<1>3. ASSUME NEW s \in Slots, slot' = [slot EXCEPT ![s] = Busy("submitted", d, NoView)]
      PROVE  /\ slot' \in [Slots -> Slot]
             /\ \A t \in Slots : slot'[t].phase # "idle" => slot'[t].doc \in Docs
  BY <1>1, <1>3, BusyType, NullTypes DEF TypeOK, Active
<1> QED
  BY <1>2, <1>3 DEF Dispatch

\* Every row, view and process state keeps its shape through every claim, run, reclaim,
\* request and crash: the type invariant of the queue.
THEOREM Typing == Spec => []TypeOK
<1>1. Init => TypeOK
  BY NullTypes, IdleIsIdle, QueueConstants
     DEF Init, TypeOK, Active, NoRequest, DocStatus, PollerState
<1>2. TypeOK /\ [Next]_vars => TypeOK'
  <2> SUFFICES ASSUME TypeOK, [Next]_vars PROVE TypeOK'
    OBVIOUS
  <2> USE QueueConstants
  <2>1. ASSUME NEW d \in Docs, Create(d) PROVE TypeOK'
    <3>1. Row("queued", 0, NoWorker, "none", TRUE) \in Job
      BY RowType DEF JobState, LockedBy, Lock
    <3> QED
      BY <2>1, <3>1, DispatchType DEF Create, TypeOK, Active, DocStatus
  <2>2. ASSUME NEW c \in Clients, NEW d \in Docs, RetryRead(c, d) PROVE TypeOK'
    <3>1. [op |-> "retry", doc |-> d, view |-> ViewOf(d), seen |-> {}] \in Request
      BY ViewType DEF Request
    <3> QED
      BY <2>2, <3>1 DEF RetryRead, rows, TypeOK, Active
  <2>3. ASSUME NEW c \in Clients, RetryCommit(c) PROVE TypeOK'
    <3> DEFINE d == client[c].doc
               new == Row("queued", 0, NoWorker, "none", TRUE)
    <3>1. d \in Docs /\ client[c].view \in View
      BY <2>3, RequestFields DEF RetryCommit, TypeOK
    <3>2. Flush(client[c].view.job, new, job[d]) \in Job
      <4>1. new \in Job
        BY RowType DEF JobState, LockedBy, Lock
      <4> QED
        BY <3>1, <4>1, FlushType, ViewFields DEF TypeOK
    <3>3. Column(client[c].view.status, "queued", doc[d]) \in DocStatus
      BY <3>1, ViewFields DEF Column, TypeOK, DocStatus
    <3> QED
      BY <2>3, <3>1, <3>2, <3>3, DispatchType, NullTypes
         DEF RetryCommit, TypeOK, Active, NoRequest
  <2>4. ASSUME NEW c \in Clients, NEW d \in Docs, ArchiveRead(c, d) PROVE TypeOK'
    <3>1. [op |-> "archive", doc |-> d, view |-> ViewOf(d), seen |-> chunks[d]]
          \in Request
      BY ViewType DEF Request, TypeOK
    <3> QED
      BY <2>4, <3>1 DEF ArchiveRead, rows, TypeOK, Active
  <2>5. ASSUME NEW c \in Clients, ArchiveCommit(c) PROVE TypeOK'
    <3>1. client[c].doc \in Docs
      BY <2>5 DEF ArchiveCommit, TypeOK
    <3> DEFINE row == job[client[c].doc]
               state == IF client[c].view.job.state \in Cancellable THEN "cancelled"
                        ELSE row.state
               new == Row(state, row.attempts, row.lockedBy, row.lock, row.due)
    <3>2. row \in Job
      BY <3>1 DEF TypeOK
    <3>3. new \in Job
      <4>1. state \in JobState
        BY <3>2, JobFields DEF JobState
      <4> QED
        BY <3>2, <4>1, RowType, JobFields
    <3>4. job' = [job EXCEPT ![client[c].doc] = new]
      BY <2>5 DEF ArchiveCommit
    <3> HIDE DEF new
    <3> QED
      BY <2>5, <3>1, <3>3, <3>4, NullTypes
         DEF ArchiveCommit, TypeOK, Active, NoRequest, DocStatus
  <2>6. ASSUME NEW w \in Workers, ReclaimRead(w) PROVE TypeOK'
    <3>1. [d \in Docs |-> IF Stale(d) THEN ViewOf(d) ELSE NoView] \in [Docs -> View]
      BY ViewType, NullTypes
    <3>2. reclaim' \in [Workers -> [Docs -> View]]
      BY <2>6, <3>1 DEF ReclaimRead, TypeOK
    <3>3. poller' \in [Workers -> PollerState]
      BY <2>6 DEF ReclaimRead, TypeOK, PollerState
    <3> QED
      BY <2>6, <3>2, <3>3 DEF ReclaimRead, rows, TypeOK, Active
  <2>7. ASSUME NEW w \in Workers, ReclaimCommit(w) PROVE TypeOK'
    <3>1. ASSUME NEW d \in Docs
          PROVE  /\ Reclaimed(reclaim[w][d].job, job[d]) \in Job
                 /\ ReclaimedStatus(reclaim[w][d], doc[d]) \in DocStatus
      <4>1. reclaim[w][d].job \in Job /\ reclaim[w][d].status \in DocStatus
        BY ViewFields DEF TypeOK
      <4> QED
        BY <4>1, AfterFailureType, FlushType, JobFields
           DEF Reclaimed, ReclaimedStatus, TypeOK, Column, DocStatus
    <3> QED
      BY <2>7, <3>1, NullTypes DEF ReclaimCommit, TypeOK, Active, PollerState
  <2>8. ASSUME NEW w \in Workers, NEW d \in Docs, Claim(w, d) PROVE TypeOK'
    <3>1. Claimed(job[d], w) \in Job
      BY RowType, JobFields DEF Claimed, TypeOK, JobState, LockedBy, Lock
    <3>2. "submitted" \in Phase
      BY DEF Phase
    <3> QED
      BY <2>8, <3>1, <3>2, BusyType, NullTypes
         DEF Claim, TypeOK, Active, PollerState
  <2>9. ASSUME NEW w \in Workers, ClaimNothing(w) PROVE TypeOK'
    BY <2>9 DEF ClaimNothing, rows, TypeOK, Active, PollerState
  <2>10. ASSUME NEW s \in Slots, RunRead(s) PROVE TypeOK'
    <3>1. slot[s].doc \in Docs /\ "starting" \in Phase
      BY <2>10 DEF RunRead, TypeOK, Active, Phase
    <3> QED
      BY <2>10, <3>1, BusyType, IdleIsIdle, ViewType DEF RunRead, rows, TypeOK, Active
  <2>11. ASSUME NEW s \in Slots, RunStart(s) PROVE TypeOK'
    <3> DEFINE d == slot[s].doc
               v == slot[s].view
               new == Row("running", v.job.attempts + 1, Owner[s], "fresh", TRUE)
    <3>1. d \in Docs /\ v.job \in Job /\ v.status \in DocStatus
      BY <2>11, SlotFields, ViewFields DEF RunStart, TypeOK, Active
    <3>2. new \in Job
      <4>1. v.job.attempts + 1 \in Nat
        BY <3>1, JobFields
      <4>2. Owner[s] \in LockedBy
        BY DEF LockedBy
      <4> QED
        BY <4>1, <4>2, RowType DEF JobState, Lock
    <3>3. Flush(v.job, new, job[d]) \in Job
      BY <3>1, <3>2, FlushType DEF TypeOK
    <3>4. Column(v.status, "processing", doc[d]) \in DocStatus /\ "working" \in Phase
      BY <3>1 DEF Column, TypeOK, DocStatus, Phase
    <3>5. slot' = [slot EXCEPT ![s] = Busy("working", d, NoView)]
      BY <2>11 DEF RunStart
    <3>6. /\ slot' \in [Slots -> Slot]
          /\ \A t \in Slots : slot'[t].phase # "idle" => slot'[t].doc \in Docs
      BY <3>1, <3>4, <3>5, BusyType, NullTypes DEF TypeOK, Active
    <3>7. job' \in [Docs -> Job] /\ doc' \in [Docs -> DocStatus]
      BY <2>11, <3>1, <3>3, <3>4 DEF RunStart, TypeOK
    <3> QED
      BY <2>11, <3>6, <3>7 DEF RunStart, TypeOK, Active
  <2>12. ASSUME NEW s \in Slots, ReplaceChunks(s) PROVE TypeOK'
    <3>1. slot[s].doc \in Docs
      BY <2>12 DEF ReplaceChunks, TypeOK, Active
    <3>2. [phase |-> "replaced", doc |-> slot[s].doc, view |-> slot[s].view,
           seen |-> chunks[slot[s].doc]] \in Slot
      BY <3>1, SlotFields DEF TypeOK, Slot, Phase
    <3> QED
      BY <2>12, <3>1, <3>2 DEF ReplaceChunks, rows, TypeOK, Active
  <2>13. ASSUME NEW s \in Slots, RunSucceed(s) PROVE TypeOK'
    <3>1. slot[s].doc \in Docs
      BY <2>13 DEF RunSucceed, TypeOK, Active
    <3>2. Row("succeeded", job[slot[s].doc].attempts, NoWorker, "none", TRUE) \in Job
      BY <3>1, RowType, JobFields DEF TypeOK, JobState, LockedBy, Lock
    <3>3. chunks' \in [Docs -> SUBSET Generations]
      BY <2>13, <3>1 DEF RunSucceed, Rewritten, TypeOK
    <3> QED
      BY <2>13, <3>1, <3>2, <3>3, IdleIsIdle DEF RunSucceed, TypeOK, Active, DocStatus
  <2>14. ASSUME NEW s \in Slots, RunFailRead(s) PROVE TypeOK'
    <3>1. slot[s].doc \in Docs /\ "failing" \in Phase
      BY <2>14 DEF RunFailRead, TypeOK, Active, Phase
    <3> QED
      BY <2>14, <3>1, BusyType, ViewType DEF RunFailRead, rows, TypeOK, Active
  <2>15. ASSUME NEW s \in Slots, RunFailCommit(s) PROVE TypeOK'
    <3> DEFINE d == slot[s].doc
               v == slot[s].view
    <3>1. d \in Docs /\ v.job \in Job /\ v.status \in DocStatus
      BY <2>15, SlotFields, ViewFields DEF RunFailCommit, TypeOK, Active
    <3>3. Flush(v.job, AfterFailure(v.job.attempts, FALSE), job[d]) \in Job
      BY <3>1, AfterFailureType, JobFields, FlushType DEF TypeOK
    <3>4. Column(v.status, "failed", doc[d]) \in DocStatus
      BY <3>1 DEF Column, TypeOK, DocStatus
    <3> QED
      BY <2>15, <3>1, <3>3, <3>4, IdleIsIdle DEF RunFailCommit, TypeOK, Active
  <2>16. ASSUME NEW d \in Docs, LeaseExpires(d) PROVE TypeOK'
    BY <2>16, RowType, JobFields DEF LeaseExpires, TypeOK, Active, Lock
  <2>17. ASSUME NEW d \in Docs, BackoffElapses(d) PROVE TypeOK'
    BY <2>17, RowType, JobFields DEF BackoffElapses, TypeOK, Active
  <2>18. ASSUME NEW w \in Workers \cup {Background}, Crash(w) PROVE TypeOK'
    BY <2>18, IdleIsIdle, NullTypes
       DEF Crash, rows, TypeOK, Active, PollerState, NoRequest
  <2>19. ASSUME NEW w \in Workers, Restart(w) PROVE TypeOK'
    BY <2>19 DEF Restart, rows, TypeOK, Active, PollerState
  <2>20. CASE UNCHANGED vars
    BY <2>20 DEF vars, TypeOK, Active
  <2> QED
    BY <2>1, <2>2, <2>3, <2>4, <2>5, <2>6, <2>7, <2>8, <2>9, <2>10, <2>11, <2>12,
       <2>13, <2>14, <2>15, <2>16, <2>17, <2>18, <2>19, <2>20
       DEF Next, ClientStep, Poll, Run
<1> QED
  BY <1>1, <1>2, PTL DEF Spec

----------------------------------------------------------------------------
(* Whatever overlaps, an indexed document has chunks.                      *)

\* Every step but the final commit of an execution either keeps the chunks and
\* makes no document indexed, or archives the document it empties.
LEMMA IndexedStep ==
    ASSUME TypeOK, IndexedHasChunks, [Next]_vars
    PROVE  IndexedHasChunks'
<1> DEFINE Harmless(d) == chunks'[d] = chunks[d] /\ doc'[d] \in {doc[d], "queued",
                                                  "processing", "failed"}
<1>1. ASSUME \A d \in Docs : Harmless(d) PROVE IndexedHasChunks'
  BY <1>1 DEF IndexedHasChunks
<1>2. ASSUME NEW d \in Docs, Create(d) PROVE IndexedHasChunks'
  BY <1>1, <1>2 DEF Create, TypeOK
<1>3. ASSUME NEW c \in Clients, RetryCommit(c) PROVE IndexedHasChunks'
  BY <1>1, <1>3 DEF RetryCommit, TypeOK, Column
<1>4. ASSUME NEW c \in Clients, ArchiveCommit(c) PROVE IndexedHasChunks'
  BY <1>4 DEF ArchiveCommit, TypeOK, IndexedHasChunks
<1>5. ASSUME NEW w \in Workers, ReclaimCommit(w) PROVE IndexedHasChunks'
  BY <1>1, <1>5 DEF ReclaimCommit, ReclaimedStatus, TypeOK, Column
<1>6. ASSUME NEW s \in Slots, RunStart(s) PROVE IndexedHasChunks'
  BY <1>1, <1>6 DEF RunStart, TypeOK, Column
<1>7. ASSUME NEW s \in Slots, RunFailCommit(s) PROVE IndexedHasChunks'
  BY <1>1, <1>7 DEF RunFailCommit, TypeOK, Column
<1>8. ASSUME NEW s \in Slots, RunSucceed(s) PROVE IndexedHasChunks'
  <2>1. slot[s].doc \in Docs
    BY <1>8 DEF RunSucceed, TypeOK, Active
  <2>2. chunks'[slot[s].doc] # {}
    BY <1>8, <2>1 DEF RunSucceed, Rewritten, TypeOK
  <2>3. \A d \in Docs \ {slot[s].doc} : chunks'[d] = chunks[d] /\ doc'[d] = doc[d]
    BY <1>8 DEF RunSucceed, TypeOK
  <2> QED
    BY <2>2, <2>3 DEF IndexedHasChunks
<1>9. CASE UNCHANGED <<doc, chunks>>
  BY <1>9 DEF IndexedHasChunks
<1> QED
  BY <1>2, <1>3, <1>4, <1>5, <1>6, <1>7, <1>8, <1>9
     DEF Next, ClientStep, Poll, Run, vars, rows, RetryRead, ArchiveRead, ReclaimRead,
         Claim, ClaimNothing, RunRead, ReplaceChunks, RunFailRead, LeaseExpires,
         BackoffElapses, Crash, Restart

\* A document shown as indexed has chunks, for any workers, background tasks,
\* clients, leases and crashes.
THEOREM IndexedDocumentsHaveChunks == Spec => []IndexedHasChunks
<1>1. Init => IndexedHasChunks
  BY DEF Init, IndexedHasChunks
<1> QED
  BY <1>1, IndexedStep, Typing, PTL DEF Spec

----------------------------------------------------------------------------
(* With one timely worker, executions of a job do not overlap.             *)

\* The columns of a row that is built.
LEMMA RowFields ==
    ASSUME NEW s, NEW a, NEW w, NEW l, NEW due
    PROVE  /\ Row(s, a, w, l, due).state = s
           /\ Row(s, a, w, l, due).attempts = a
           /\ Row(s, a, w, l, due).lock = l
BY DEF Row

\* A written column holds the new value, unless the view already had it.
LEMMA FlushFields ==
    ASSUME NEW view, NEW new, NEW row
    PROVE  /\ Flush(view, new, row).state = Column(view.state, new.state, row.state)
           /\ Flush(view, new, row).attempts =
                Column(view.attempts, new.attempts, row.attempts)
           /\ Flush(view, new, row).lock =
                IF new.lock = "fresh" THEN "fresh" ELSE Column(view.lock, new.lock, row.lock)
BY DEF Flush

\* Steps that hand no job over and leave the rows in question alone.
LEMMA HandedOverFrame ==
    ASSUME TypeOK, HandedOver,
           \A s \in Slots : slot'[s].phase # "idle" =>
               slot[s].phase # "idle" /\ slot'[s].doc = slot[s].doc,
           \A s \in Slots, d \in Docs : slot'[s].phase # "idle" /\ slot'[s].doc = d =>
               /\ job'[d].state \notin {"absent", "queued", "failed"}
               /\ job'[d].lock # "expired",
           \A w \in Workers, d \in Docs : reclaim'[w][d] # NoView =>
               reclaim[w][d] # NoView,
           \A w \in Workers, d \in Docs :
               reclaim'[w][d] # NoView => poller'[w] = "reclaiming",
           \A c \in Clients : client'[c].op # "retry"
    PROVE  HandedOver'
BY DEF HandedOver, ActiveOn, Active

\* Every step of the queue keeps a handed over job out of reach: a claim takes a
\* job no slot has, a reclaim reads jobs no slot has, and only this worker claims.
LEMMA HandedOverStep ==
    ASSUME OneTimelyWorker, TypeOK, HandedOver, [Next]_vars
    PROVE  HandedOver'
<1> USE QueueConstants
<1>0. \A s \in Slots : Owner[s] # Background
  BY DEF OneTimelyWorker
<1>1. ASSUME NEW d \in Docs, Create(d) PROVE HandedOver'
  <2>1. UNCHANGED <<slot, reclaim, poller, client>>
    BY <1>0, <1>1 DEF Create, Dispatch
  <2>2. \A e \in Docs \ {d} : job'[e] = job[e]
    BY <1>1 DEF Create, TypeOK
  <2>3. \A s \in Slots : ~ActiveOn(s, d)
    BY <1>1 DEF Create, HandedOver
  <2> QED
    BY <2>1, <2>2, <2>3, HandedOverFrame DEF HandedOver, ActiveOn, Active
<1>2. ASSUME NEW c \in Clients, NEW d \in Docs, RetryRead(c, d) PROVE HandedOver'
  BY <1>2 DEF RetryRead, OneTimelyWorker
<1>3. ASSUME NEW c \in Clients, RetryCommit(c) PROVE HandedOver'
  BY <1>3 DEF RetryCommit, HandedOver
<1>4. ASSUME NEW c \in Clients, NEW d \in Docs, ArchiveRead(c, d) PROVE HandedOver'
  <2>1. client'[c].op # "retry" /\ \A b \in Clients \ {c} : client'[b] = client[b]
    BY <1>4 DEF ArchiveRead, TypeOK
  <2> QED
    BY <1>4, <2>1 DEF ArchiveRead, rows, HandedOver, ActiveOn, Active
<1>5. ASSUME NEW c \in Clients, ArchiveCommit(c) PROVE HandedOver'
  <2>1. \A b \in Clients : client'[b].op # "retry"
    BY <1>5 DEF ArchiveCommit, TypeOK, NoRequest, HandedOver
  <2>2. \A d \in Docs : /\ job'[d].state \in {job[d].state, "cancelled"}
                        /\ job'[d].lock = job[d].lock
    BY <1>5, RowFields DEF ArchiveCommit, TypeOK
  <2> QED
    BY <1>5, <2>1, <2>2 DEF ArchiveCommit, HandedOver, ActiveOn, Active
<1>6. ASSUME NEW w \in Workers, ReclaimRead(w) PROVE HandedOver'
  <2>1. \A s \in Slots, d \in Docs : ActiveOn(s, d) => ~Stale(d)
    BY DEF HandedOver, Stale
  <2>2. \A v \in Workers, d \in Docs : reclaim'[v][d] # NoView =>
           reclaim[v][d] # NoView \/ Stale(d)
    BY <1>6 DEF ReclaimRead, TypeOK
  <2>3. \A v \in Workers, d \in Docs : reclaim'[v][d] # NoView =>
           poller'[v] = "reclaiming"
    <3>1. \A v \in Workers : v = w
      BY DEF OneTimelyWorker
    <3> QED
      BY <1>6, <3>1 DEF ReclaimRead, TypeOK, HandedOver
  <2> QED
    BY <1>6, <2>1, <2>2, <2>3 DEF ReclaimRead, rows, HandedOver, ActiveOn, Active
<1>7. ASSUME NEW w \in Workers, ReclaimCommit(w) PROVE HandedOver'
  <2>1. \A s \in Slots, d \in Docs : ActiveOn(s, d) => job'[d] = job[d]
    BY <1>7 DEF ReclaimCommit, HandedOver
  <2>2. \A v \in Workers, d \in Docs : reclaim'[v][d] = NoView
    <3>1. \A v \in Workers : v = w
      BY DEF OneTimelyWorker
    <3> QED
      BY <1>7, <3>1 DEF ReclaimCommit, TypeOK
  <2> QED
    BY <1>7, <2>1, <2>2 DEF ReclaimCommit, HandedOver, ActiveOn, Active
<1>8. ASSUME NEW w \in Workers, NEW d \in Docs, Claim(w, d) PROVE HandedOver'
  <2>1. PICK s \in Slots : /\ ~Active(s)
                          /\ slot' = [slot EXCEPT ![s] = Busy("submitted", d, NoView)]
    BY <1>8 DEF Claim, IdleSlot
  <2>2. \A t \in Slots : ~ActiveOn(t, d)
    BY <1>8 DEF Claim, Claimable, HandedOver
  <2>3. slot'[s].doc = d /\ \A t \in Slots \ {s} : slot'[t] = slot[t]
    BY <2>1 DEF Busy, TypeOK
  <2>4. /\ job'[d].state = "claimed" /\ job'[d].lock = "fresh"
        /\ \A e \in Docs \ {d} : job'[e] = job[e]
    BY <1>8 DEF Claim, Claimed, Row, TypeOK
  <2>5. \A v \in Workers, e \in Docs : reclaim'[v][e] = NoView
    <3>1. \A v \in Workers : v = w
      BY DEF OneTimelyWorker
    <3> QED
      BY <1>8, <3>1 DEF Claim, HandedOver
  <2> QED
    BY <1>8, <2>2, <2>3, <2>4, <2>5 DEF Claim, HandedOver, ActiveOn, Active
<1>9. ASSUME NEW w \in Workers, ClaimNothing(w) PROVE HandedOver'
  <2>1. \A v \in Workers, d \in Docs : reclaim'[v][d] = NoView
    <3>1. \A v \in Workers : v = w
      BY DEF OneTimelyWorker
    <3> QED
      BY <1>9, <3>1 DEF ClaimNothing, HandedOver
  <2> QED
    BY <1>9, <2>1 DEF ClaimNothing, rows, HandedOver, ActiveOn, Active
<1>10. ASSUME NEW s \in Slots, RunRead(s) PROVE HandedOver'
  <2>1. \A t \in Slots : slot'[t].phase # "idle" =>
           slot[t].phase # "idle" /\ slot'[t].doc = slot[t].doc
    BY <1>10, IdleIsIdle DEF RunRead, Busy, TypeOK
  <2> QED
    BY <1>10, <2>1, HandedOverFrame DEF RunRead, rows, HandedOver, ActiveOn, Active
<1>11. ASSUME NEW s \in Slots, RunStart(s) PROVE HandedOver'
  <2>1. \A t \in Slots : slot'[t].phase # "idle" =>
           slot[t].phase # "idle" /\ slot'[t].doc = slot[t].doc
    BY <1>11 DEF RunStart, Busy, TypeOK
  <2>2. ActiveOn(s, slot[s].doc) /\ slot[s].doc \in Docs
    BY <1>11 DEF RunStart, TypeOK, ActiveOn, Active
  <2>3. /\ job'[slot[s].doc].lock = "fresh"
        /\ job'[slot[s].doc].state \in {"running", job[slot[s].doc].state}
        /\ \A e \in Docs \ {slot[s].doc} : job'[e] = job[e]
    <3> DEFINE old == slot[s].view.job
               new == Row("running", old.attempts + 1, Owner[s], "fresh", TRUE)
    <3>1. job'[slot[s].doc] = Flush(old, new, job[slot[s].doc])
      BY <1>11, <2>2 DEF RunStart, TypeOK
    <3>2. new.lock = "fresh" /\ new.state = "running"
      BY DEF Row
    <3>3. \A e \in Docs \ {slot[s].doc} : job'[e] = job[e]
      BY <1>11 DEF RunStart, TypeOK
    <3> HIDE DEF old, new
    <3> QED
      BY <3>1, <3>2, <3>3, FlushFields DEF Column
  <2>4. \A t \in Slots, d \in Docs : ActiveOn(t, d) =>
           /\ job'[d].state \notin {"absent", "queued", "failed"}
           /\ job'[d].lock # "expired"
    BY <2>2, <2>3 DEF HandedOver
  <2>5. UNCHANGED <<reclaim, poller, client>>
    BY <1>11 DEF RunStart
  <2> QED
    BY <2>1, <2>4, <2>5, HandedOverFrame DEF HandedOver, ActiveOn, Active
<1>12. ASSUME NEW s \in Slots, ReplaceChunks(s) PROVE HandedOver'
  <2>1. \A t \in Slots : slot'[t].phase # "idle" =>
           slot[t].phase # "idle" /\ slot'[t].doc = slot[t].doc
    BY <1>12 DEF ReplaceChunks, TypeOK
  <2> QED
    BY <1>12, <2>1, HandedOverFrame DEF ReplaceChunks, rows, HandedOver, ActiveOn, Active
<1>13. ASSUME NEW s \in Slots, RunSucceed(s) \/ RunFailCommit(s) PROVE HandedOver'
  <2>1. /\ slot'[s].phase = "idle"
        /\ \A t \in Slots \ {s} : slot'[t] = slot[t]
    BY <1>13, IdleIsIdle DEF RunSucceed, RunFailCommit, TypeOK
  <2>2. \A e \in Docs \ {slot[s].doc} : job'[e] = job[e]
    BY <1>13 DEF RunSucceed, RunFailCommit, TypeOK
  <2>3. \A t \in Slots \ {s} : ~ActiveOn(t, slot[s].doc)
    <3>1. ActiveOn(s, slot[s].doc) /\ slot[s].doc \in Docs
      BY <1>13 DEF RunSucceed, RunFailCommit, TypeOK, ActiveOn, Active
    <3> QED
      BY <3>1 DEF HandedOver
  <2>4. UNCHANGED <<reclaim, poller, client>>
    BY <1>13 DEF RunSucceed, RunFailCommit
  <2> QED
    BY <2>1, <2>2, <2>3, <2>4, HandedOverFrame DEF HandedOver, ActiveOn, Active
<1>14. ASSUME NEW s \in Slots, RunFailRead(s) PROVE HandedOver'
  <2>1. \A t \in Slots : slot'[t].phase # "idle" =>
           slot[t].phase # "idle" /\ slot'[t].doc = slot[t].doc
    BY <1>14 DEF RunFailRead, Busy, TypeOK
  <2> QED
    BY <1>14, <2>1, HandedOverFrame DEF RunFailRead, rows, HandedOver, ActiveOn, Active
<1>15. ASSUME NEW d \in Docs, LeaseExpires(d) PROVE HandedOver'
  <2>1. \A s \in Slots : ~ActiveOn(s, d)
    BY <1>15 DEF LeaseExpires, OneTimelyWorker
  <2>2. \A e \in Docs \ {d} : job'[e] = job[e]
    BY <1>15 DEF LeaseExpires, TypeOK
  <2> QED
    BY <1>15, <2>1, <2>2 DEF LeaseExpires, HandedOver, ActiveOn, Active
<1>16. ASSUME NEW d \in Docs, BackoffElapses(d) PROVE HandedOver'
  <2>1. \A e \in Docs : job'[e].state = job[e].state /\ job'[e].lock = job[e].lock
    <3>1. job'[d] = Row(job[d].state, job[d].attempts, job[d].lockedBy, job[d].lock, TRUE)
      BY <1>16 DEF BackoffElapses, TypeOK
    <3>2. \A e \in Docs \ {d} : job'[e] = job[e]
      BY <1>16 DEF BackoffElapses, TypeOK
    <3> QED
      BY <3>1, <3>2 DEF Row
  <2>2. UNCHANGED <<slot, reclaim, poller, client>>
    BY <1>16 DEF BackoffElapses
  <2> QED
    BY <2>1, <2>2 DEF HandedOver, ActiveOn, Active
<1>17. ASSUME NEW w \in Workers \cup {Background}, Crash(w) PROVE HandedOver'
  <2>1. \A t \in Slots : slot'[t].phase # "idle" =>
           slot[t].phase # "idle" /\ slot'[t].doc = slot[t].doc
    BY <1>17, IdleIsIdle DEF Crash
  <2>2. \A v \in Workers, d \in Docs : reclaim'[v][d] # NoView =>
           reclaim[v][d] # NoView /\ poller'[v] = poller[v]
    BY <1>17 DEF Crash
  <2>3. \A c \in Clients : client'[c].op # "retry"
    BY <1>17 DEF Crash, HandedOver, NoRequest
  <2> QED
    BY <1>17, <2>1, <2>2, <2>3, HandedOverFrame DEF Crash, rows, HandedOver, ActiveOn, Active
<1>18. ASSUME NEW w \in Workers, Restart(w) PROVE HandedOver'
  <2>1. \A v \in Workers, d \in Docs : reclaim[v][d] # NoView => poller'[v] = poller[v]
    BY <1>18 DEF Restart, HandedOver, TypeOK
  <2> QED
    BY <1>18, <2>1 DEF Restart, rows, HandedOver, ActiveOn, Active
<1>19. CASE UNCHANGED vars
  BY <1>19 DEF vars, HandedOver, ActiveOn, Active
<1> QED
  BY <1>1, <1>2, <1>3, <1>4, <1>5, <1>6, <1>7, <1>8, <1>9, <1>10, <1>11, <1>12,
     <1>13, <1>14, <1>15, <1>16, <1>17, <1>18, <1>19
     DEF Next, ClientStep, Poll, Run

\* Steps that change no attempts and make no job runnable.
LEMMA AttemptsFrame ==
    ASSUME TypeOK, AttemptsCounted, AttemptsBounded,
           \A d \in Docs :
               /\ job'[d].attempts = job[d].attempts
               /\ job'[d].state = "absent" => job[d].state = "absent"
               /\ job'[d].state \in {"queued", "failed", "claimed"} =>
                    job[d].state \in {"queued", "failed", "claimed"},
           \A s \in Slots : slot'[s] = slot[s] \/ slot'[s].phase = "idle",
           \A w \in Workers, d \in Docs : reclaim'[w][d] # NoView =>
               reclaim'[w][d] = reclaim[w][d]
    PROVE  AttemptsCounted' /\ AttemptsBounded'
<1>1. \A s \in Slots : slot[s].phase # "idle" => slot[s].doc \in Docs
  BY DEF TypeOK, Active
<1> QED
  BY <1>1 DEF AttemptsCounted, AttemptsBounded

\* Steps of a slot that only look at its row, or at no row.
LEMMA AttemptsLook ==
    ASSUME TypeOK, AttemptsCounted, AttemptsBounded, UNCHANGED <<job, reclaim>>,
           NEW s \in Slots, \A t \in Slots \ {s} : slot'[t] = slot[t],
           slot'[s].phase \in {"submitted", "starting"} =>
               job[slot'[s].doc].attempts < MaxAttempts,
           slot'[s].phase \in {"starting", "failing"} =>
               slot'[s].view.job.attempts = job[slot'[s].doc].attempts,
           slot'[s].phase = "starting" => Runnable(slot'[s].view.job, Owner[s])
    PROVE  AttemptsCounted' /\ AttemptsBounded'
BY DEF AttemptsCounted, AttemptsBounded

\* Steps of the only slot on a job that write its row.
LEMMA AttemptsWrite ==
    ASSUME TypeOK, AttemptsCounted, AttemptsBounded, NEW s \in Slots, NEW d \in Docs,
           \A e \in Docs \ {d} : job'[e] = job[e],
           job'[d].state # "absent",
           job'[d].state \in {"queued", "failed", "claimed"} =>
               job'[d].attempts < MaxAttempts,
           job'[d].attempts <= MaxAttempts,
           slot'[s].phase \notin {"submitted", "starting", "failing"},
           \A t \in Slots \ {s} :
               slot'[t] = slot[t] /\ (slot[t].phase # "idle" => slot[t].doc # d),
           reclaim' = reclaim, \A w \in Workers : reclaim[w][d] = NoView
    PROVE  AttemptsCounted' /\ AttemptsBounded'
<1>1. \A t \in Slots : slot[t].phase # "idle" => slot[t].doc \in Docs
  BY DEF TypeOK, Active
<1>2. \A t \in Slots : slot'[t].phase \in {"submitted", "starting", "failing"} =>
         slot'[t] = slot[t] /\ job'[slot[t].doc] = job[slot[t].doc]
  BY <1>1
<1>3. AttemptsBounded'
  BY DEF AttemptsBounded
<1>4. \A e \in Docs : /\ job'[e].state = "absent" => job'[e].attempts = 0
                      /\ job'[e].state \in {"queued", "failed", "claimed"} =>
                           job'[e].attempts < MaxAttempts
  BY DEF AttemptsCounted
<1>5. \A w \in Workers, e \in Docs : reclaim'[w][e] # NoView =>
         reclaim'[w][e].job.attempts = job'[e].attempts
  BY DEF AttemptsCounted
<1> QED
  BY <1>2, <1>3, <1>4, <1>5 DEF AttemptsCounted

\* No step loses count of the attempts: whoever writes the row has seen its attempts,
\* and a job without an attempt left is not claimed again.
LEMMA AttemptsStep ==
    ASSUME OneTimelyWorker, TypeOK, HandedOver, AttemptsCounted, AttemptsBounded,
           [Next]_vars
    PROVE  AttemptsCounted' /\ AttemptsBounded'
<1> USE QueueConstants
<1> DEFINE Goal == AttemptsCounted' /\ AttemptsBounded'
<1>0. /\ \A s \in Slots : Owner[s] # Background
      /\ \A s \in Slots : slot[s].phase # "idle" => slot[s].doc \in Docs
      /\ \A d \in Docs : job[d].attempts \in Nat
  BY JobFields DEF OneTimelyWorker, TypeOK, Active
<1>1. ASSUME NEW d \in Docs, Create(d) PROVE Goal
  <2>1. UNCHANGED <<slot, reclaim>>
    BY <1>0, <1>1 DEF Create, Dispatch
  <2>2. /\ job'[d].attempts = 0
        /\ \A e \in Docs \ {d} : job'[e] = job[e]
    BY <1>1 DEF Create, TypeOK, Row
  <2>3. \A s \in Slots : ~ActiveOn(s, d)
    BY <1>1 DEF Create, HandedOver
  <2>4. job[d].attempts = 0
    BY <1>1 DEF Create, AttemptsCounted
  <2>5. job'[d].state = "queued"
    BY <1>1 DEF Create, TypeOK, Row
  <2> QED
    BY <1>0, <2>1, <2>2, <2>3, <2>4, <2>5
       DEF AttemptsCounted, AttemptsBounded, ActiveOn, Active
<1>2. ASSUME NEW c \in Clients, ArchiveCommit(c) PROVE Goal
  <2>1. \A d \in Docs : /\ job'[d].state \in {job[d].state, "cancelled"}
                        /\ job'[d].attempts = job[d].attempts
    BY <1>2 DEF ArchiveCommit, TypeOK, Row
  <2> QED
    BY <1>2, <2>1, AttemptsFrame DEF ArchiveCommit
<1>3. ASSUME NEW w \in Workers, ReclaimRead(w) PROVE Goal
  <2>1. \A v \in Workers, d \in Docs : reclaim'[v][d] # NoView =>
           reclaim'[v][d] = reclaim[v][d] \/ reclaim'[v][d] = ViewOf(d)
    BY <1>3 DEF ReclaimRead, TypeOK
  <2>2. \A v \in Workers, d \in Docs : reclaim'[v][d] # NoView =>
           reclaim'[v][d].job.attempts = job[d].attempts
    <3> SUFFICES ASSUME NEW v \in Workers, NEW d \in Docs, reclaim'[v][d] # NoView
                 PROVE  reclaim'[v][d].job.attempts = job[d].attempts
      OBVIOUS
    <3>1. CASE reclaim'[v][d] = reclaim[v][d]
      BY <3>1 DEF AttemptsCounted
    <3>2. CASE reclaim'[v][d] = ViewOf(d)
      BY <3>2 DEF ViewOf
    <3> QED
      BY <2>1, <3>1, <3>2
  <2>3. UNCHANGED <<job, slot>>
    BY <1>3 DEF ReclaimRead, rows
  <2> QED
    BY <2>2, <2>3 DEF AttemptsCounted, AttemptsBounded
<1>4. ASSUME NEW w \in Workers, ReclaimCommit(w) PROVE Goal
  <2>1. \A v \in Workers, d \in Docs : reclaim'[v][d] # NoView =>
           reclaim'[v][d] = reclaim[v][d]
    BY <1>4 DEF ReclaimCommit, TypeOK
  <2>2. ASSUME NEW d \in Docs, reclaim[w][d] # NoView
        PROVE  /\ job'[d].attempts = job[d].attempts
               /\ job'[d].state \in {job[d].state, "dead_letter", "failed"}
               /\ job'[d].state = "failed" => job[d].attempts < MaxAttempts
    <3> DEFINE old == reclaim[w][d].job
               new == AfterFailure(old.attempts, TRUE)
    <3>1. job'[d] = Flush(old, new, job[d])
      BY <1>4, <2>2 DEF ReclaimCommit, Reclaimed
    <3>2. /\ new.attempts = old.attempts
          /\ new.state = IF old.attempts >= MaxAttempts THEN "dead_letter" ELSE "failed"
      BY DEF AfterFailure, Row, Exhausted
    <3>3. old.attempts = job[d].attempts
      BY <2>2 DEF AttemptsCounted
    <3>4. job[d].state = "failed" => job[d].attempts < MaxAttempts
      BY DEF AttemptsCounted
    <3> HIDE DEF old, new
    <3> QED
      BY <1>0, <3>1, <3>2, <3>3, <3>4, FlushFields DEF Column
  <2>3. \A d \in Docs : reclaim[w][d] = NoView => job'[d] = job[d]
    BY <1>4 DEF ReclaimCommit
  <2>4. slot' = slot
    BY <1>4 DEF ReclaimCommit
  <2> QED
    BY <1>0, <2>1, <2>2, <2>3, <2>4 DEF AttemptsCounted, AttemptsBounded
<1>5. ASSUME NEW w \in Workers, NEW d \in Docs, Claim(w, d) PROVE Goal
  <2>1. PICK s \in Slots : slot' = [slot EXCEPT ![s] = Busy("submitted", d, NoView)]
    BY <1>5 DEF Claim
  <2>2. /\ slot'[s].doc = d /\ slot'[s].phase = "submitted"
        /\ \A t \in Slots \ {s} : slot'[t] = slot[t]
    BY <2>1 DEF Busy, TypeOK
  <2>3. /\ job'[d].state = "claimed" /\ job'[d].attempts = job[d].attempts
        /\ \A e \in Docs \ {d} : job'[e] = job[e]
    BY <1>5 DEF Claim, Claimed, TypeOK, Row
  <2>4. job[d].attempts < MaxAttempts
    BY <1>5 DEF Claim, Claimable, AttemptsCounted
  <2>5. reclaim' = reclaim
    BY <1>5 DEF Claim
  <2> QED
    BY <1>0, <2>2, <2>3, <2>4, <2>5 DEF AttemptsCounted, AttemptsBounded
<1>6. ASSUME NEW s \in Slots, RunRead(s) PROVE Goal
  <2>1. CASE Runnable(job[slot[s].doc], Owner[s])
    <3>1. slot'[s] = Busy("starting", slot[s].doc, ViewOf(slot[s].doc))
      BY <1>6, <2>1 DEF RunRead, TypeOK
    <3>2. job[slot[s].doc].attempts < MaxAttempts
      BY <1>6 DEF RunRead, AttemptsCounted
    <3> QED
      BY <1>6, <2>1, <3>1, <3>2, AttemptsLook DEF RunRead, rows, Busy, ViewOf, TypeOK
  <2>2. CASE ~Runnable(job[slot[s].doc], Owner[s])
    <3>1. slot'[s].phase = "idle"
      BY <1>6, <2>2, IdleIsIdle DEF RunRead, TypeOK
    <3> QED
      BY <1>6, <3>1, AttemptsLook DEF RunRead, rows, TypeOK
  <2> QED
    BY <2>1, <2>2
<1>7. ASSUME NEW s \in Slots, RunStart(s) PROVE Goal
  <2> DEFINE d == slot[s].doc
             old == slot[s].view.job
             new == Row("running", old.attempts + 1, Owner[s], "fresh", TRUE)
  <2>1. d \in Docs /\ ActiveOn(s, d)
    BY <1>7 DEF RunStart, TypeOK, ActiveOn, Active
  <2>2. job'[d] = Flush(old, new, job[d]) /\ \A e \in Docs \ {d} : job'[e] = job[e]
    BY <1>7, <2>1 DEF RunStart, TypeOK
  <2>3. new.state = "running" /\ new.attempts = old.attempts + 1
    BY DEF Row
  <2>4. old.attempts = job[d].attempts /\ job[d].attempts < MaxAttempts
    BY <1>7 DEF RunStart, AttemptsCounted
  <2>5. /\ job'[d].attempts = job[d].attempts + 1
        /\ job'[d].state = "running"
    <3>1. old.state # "running"
      BY <1>7 DEF RunStart, AttemptsCounted, Runnable
    <3> HIDE DEF old, new
    <3> QED
      BY <1>0, <2>1, <2>2, <2>3, <2>4, <3>1, FlushFields DEF Column
  <2>6. slot'[s].phase = "working" /\ \A t \in Slots \ {s} : slot'[t] = slot[t]
    BY <1>7 DEF RunStart, Busy, TypeOK
  <2>7. \A t \in Slots \ {s} : slot[t].phase # "idle" => slot[t].doc # d
    BY <2>1 DEF HandedOver, ActiveOn, Active
  <2>8. reclaim' = reclaim /\ \A w \in Workers : reclaim[w][d] = NoView
    BY <1>7, <2>1 DEF RunStart, HandedOver
  <2>9. \A e \in Docs \ {d} : job'[e] = job[e]
    BY <2>2
  <2>10. job'[d].attempts <= MaxAttempts
    BY <1>0, <2>1, <2>4, <2>5
  <2> HIDE DEF d
  <2> QED
    BY <2>1, <2>5, <2>6, <2>7, <2>8, <2>9, <2>10, AttemptsWrite
<1>8. ASSUME NEW s \in Slots, ReplaceChunks(s) PROVE Goal
  BY <1>8, AttemptsLook DEF ReplaceChunks, rows, TypeOK
<1>9. ASSUME NEW s \in Slots, RunSucceed(s) PROVE Goal
  <2>1. slot[s].doc \in Docs
    BY <1>9 DEF RunSucceed, TypeOK, Active
  <2>2. \A d \in Docs : /\ job'[d].attempts = job[d].attempts
                        /\ job'[d].state \in {job[d].state, "succeeded"}
    BY <1>9, <2>1 DEF RunSucceed, TypeOK, Row
  <2>3. \A t \in Slots : slot'[t] = slot[t] \/ slot'[t].phase = "idle"
    BY <1>9, IdleIsIdle DEF RunSucceed, TypeOK
  <2> QED
    BY <1>9, <2>2, <2>3, AttemptsFrame DEF RunSucceed
<1>10. ASSUME NEW s \in Slots, RunFailRead(s) PROVE Goal
  BY <1>10, AttemptsLook DEF RunFailRead, rows, Busy, ViewOf, TypeOK
<1>11. ASSUME NEW s \in Slots, RunFailCommit(s) PROVE Goal
  <2> DEFINE d == slot[s].doc
             old == slot[s].view.job
             new == AfterFailure(old.attempts, FALSE)
  <2>1. d \in Docs
    BY <1>11 DEF RunFailCommit, TypeOK, Active
  <2>2. job'[d] = Flush(old, new, job[d]) /\ \A e \in Docs \ {d} : job'[e] = job[e]
    BY <1>11, <2>1 DEF RunFailCommit, TypeOK
  <2>3. /\ new.attempts = old.attempts
        /\ new.state = IF old.attempts >= MaxAttempts THEN "dead_letter" ELSE "failed"
    BY DEF AfterFailure, Row, Exhausted
  <2>4. old.attempts = job[d].attempts
    BY <1>11 DEF RunFailCommit, AttemptsCounted
  <2>5. /\ job'[d].attempts = job[d].attempts
        /\ job'[d].state \in {job[d].state, "dead_letter", "failed"}
        /\ job'[d].state = "failed" => job[d].attempts < MaxAttempts
    <3>1. job[d].state = "failed" => job[d].attempts < MaxAttempts
      BY <2>1 DEF AttemptsCounted
    <3> HIDE DEF d, old, new
    <3> QED
      BY <1>0, <2>1, <2>2, <2>3, <2>4, <3>1, FlushFields DEF Column
  <2>6. slot'[s].phase = "idle" /\ \A t \in Slots \ {s} : slot'[t] = slot[t]
    BY <1>11, IdleIsIdle DEF RunFailCommit, TypeOK
  <2>7. ActiveOn(s, d)
    BY <1>11 DEF RunFailCommit, ActiveOn, Active
  <2>8. \A t \in Slots \ {s} : slot[t].phase # "idle" => slot[t].doc # d
    BY <2>1, <2>7 DEF HandedOver, ActiveOn, Active
  <2>9. reclaim' = reclaim /\ \A w \in Workers : reclaim[w][d] = NoView
    BY <1>11, <2>1, <2>7 DEF RunFailCommit, HandedOver
  <2>10. /\ job[d].state \notin {"absent", "queued", "failed"}
         /\ job[d].attempts <= MaxAttempts
         /\ job[d].state = "claimed" => job[d].attempts < MaxAttempts
    BY <2>1, <2>7 DEF HandedOver, AttemptsBounded, AttemptsCounted
  <2>11. \A e \in Docs \ {d} : job'[e] = job[e]
    BY <2>2
  <2> HIDE DEF d
  <2>12. /\ job'[d].attempts <= MaxAttempts
         /\ job'[d].state # "absent"
         /\ job'[d].state \in {"queued", "failed", "claimed"} =>
              job'[d].attempts < MaxAttempts
    BY <2>5, <2>10
  <2> QED
    BY <2>1, <2>6, <2>8, <2>9, <2>11, <2>12, AttemptsWrite
<1>12. ASSUME NEW d \in Docs, LeaseExpires(d) \/ BackoffElapses(d) PROVE Goal
  <2>1. \A e \in Docs : job'[e].attempts = job[e].attempts /\ job'[e].state = job[e].state
    BY <1>12 DEF LeaseExpires, BackoffElapses, TypeOK, Row
  <2>2. UNCHANGED <<slot, reclaim>>
    BY <1>12 DEF LeaseExpires, BackoffElapses
  <2> QED
    BY <2>1, <2>2, AttemptsFrame
<1>13. ASSUME NEW w \in Workers \cup {Background}, Crash(w) PROVE Goal
  <2>1. \A t \in Slots : slot'[t] = slot[t] \/ slot'[t].phase = "idle"
    BY <1>13, IdleIsIdle DEF Crash
  <2>2. \A v \in Workers, d \in Docs : reclaim'[v][d] # NoView =>
           reclaim'[v][d] = reclaim[v][d]
    BY <1>13 DEF Crash
  <2> QED
    BY <1>13, <2>1, <2>2, AttemptsFrame DEF Crash, rows
<1>14. CASE UNCHANGED <<job, slot, reclaim>>
  BY <1>14, AttemptsFrame
<1>15. ASSUME NEW c \in Clients, RetryCommit(c) PROVE Goal
  BY <1>15 DEF RetryCommit, HandedOver
<1> QED
  BY <1>1, <1>2, <1>3, <1>4, <1>5, <1>6, <1>7, <1>8, <1>9, <1>10, <1>11, <1>12, <1>13,
     <1>14, <1>15
     DEF Next, ClientStep, Poll, Run, vars, rows, RetryRead, ArchiveRead, ClaimNothing,
         Restart

\* The row and view invariant holds throughout, which bounds the attempts and
\* keeps executions of a job apart.
THEOREM QueueInvariant == ASSUME OneTimelyWorker PROVE Spec => []QueueInv
<1>1. Init => QueueInv
  BY QueueConstants, NullTypes
     DEF Init, QueueInv, HandedOver, AttemptsCounted, AttemptsBounded, ActiveOn, Active,
         Idle, Busy, NoRequest, NoJob, Row
<1>2. TypeOK /\ QueueInv /\ [Next]_vars => QueueInv'
  BY OneTimelyWorker, HandedOverStep, AttemptsStep DEF QueueInv
<1> QED
  BY <1>1, <1>2, Typing, PTL DEF Spec

\* With one worker process, executions shorter than the lease and no retries in
\* flight, no two slots ever work on the same job, whatever crashes.
THEOREM ExecutionsDoNotOverlap ==
    ASSUME OneTimelyWorker PROVE Spec => []ExclusiveExecution
<1>1. QueueInv => ExclusiveExecution
  BY DEF QueueInv, HandedOver, ExclusiveExecution, Executing
<1> QED
  BY <1>1, QueueInvariant, PTL

\* Under the same assumption no job is attempted more than MaxAttempts times.
THEOREM AttemptsStayBounded == ASSUME OneTimelyWorker PROVE Spec => []AttemptsBounded
<1>1. QueueInv => AttemptsBounded
  BY DEF QueueInv
<1> QED
  BY <1>1, QueueInvariant, PTL

----------------------------------------------------------------------------
(* With one timely worker and no requests about documents already imported, *)
(* the rows tell one story and the slots tell the same.                     *)

\* The deployment of run queue_quiet.
Quiet == OneTimelyWorker /\ ClientOps = {}

\* What a job row and its document row may say together.
Story(row, status) ==
    \/ row = NoJob /\ status = "absent"
    \/ /\ row.state = "queued" /\ status = "queued"
       /\ row.lockedBy = NoWorker /\ row.lock = "none"
    \/ /\ row.state \in {"failed", "dead_letter"} /\ status = "failed"
       /\ row.lockedBy = NoWorker /\ row.lock = "none"
    \/ /\ row.state = "succeeded" /\ status = "indexed"
       /\ row.lockedBy = NoWorker /\ row.lock = "none"
    \/ /\ row.state = "claimed" /\ status \in {"queued", "failed"}
       /\ row.lockedBy \in Workers /\ row.lock # "none" /\ row.due
    \/ /\ row.state = "running" /\ status = "processing"
       /\ row.lockedBy \in Workers /\ row.lock # "none" /\ row.due

RowsAgree == \A d \in Docs : Story(job[d], doc[d])

\* A slot that has a job is the owner its row names, and what it read of the rows
\* still stands.
Holds(s, d) ==
    /\ job[d].lockedBy = Owner[s]
    /\ job[d].state =
         IF slot[s].phase \in {"submitted", "starting"} THEN "claimed" ELSE "running"
    /\ slot[s].phase \in {"starting", "failing"} => slot[s].view = ViewOf(d)

SlotsHold == \A s \in Slots, d \in Docs : ActiveOn(s, d) => Holds(s, d)

\* What a reclaim read is still there, and still stale.
ReclaimsCurrent ==
    \A w \in Workers, d \in Docs : reclaim[w][d] # NoView =>
        Stale(d) /\ reclaim[w][d] = ViewOf(d)

NoRequests == \A c \in Clients : client[c].op = "none"

\* The inductive invariant of the quiet deployment, above TypeOK and QueueInv.
QuietInv == NoRequests /\ RowsAgree /\ SlotsHold /\ ReclaimsCurrent

\* A write by a session whose view is the current row leaves exactly the new row.
LEMMA FlushOwn ==
    ASSUME NEW row \in Job, NEW new \in Job
    PROVE  Flush(row, new, row) = new
BY DEF Flush, Column, Job

\* The columns of a row that is built, and when two built rows are one.
LEMMA RowColumns ==
    ASSUME NEW s \in JobState, NEW a \in Nat, NEW w \in LockedBy, NEW l \in Lock,
           NEW due \in BOOLEAN
    PROVE  /\ Row(s, a, w, l, due) \in Job
           /\ Row(s, a, w, l, due).state = s /\ Row(s, a, w, l, due).attempts = a
           /\ Row(s, a, w, l, due).lockedBy = w /\ Row(s, a, w, l, due).lock = l
           /\ Row(s, a, w, l, due).due = due
BY DEF Row, Job

\* A read that selected something is not the empty view.
LEMMA ViewsDiffer ==
    ASSUME NEW d \in Docs, Stale(d)
    PROVE  ViewOf(d) # NoView
BY DEF Stale, ViewOf, NoView, NoJob, Row

\* What a slot at work knows when nobody else writes its rows.
LEMMA AtWork ==
    ASSUME Quiet, TypeOK, QuietInv, NEW s \in Slots, slot[s].phase # "idle"
    PROVE  /\ slot[s].doc \in Docs /\ ActiveOn(s, slot[s].doc) /\ Holds(s, slot[s].doc)
           /\ Owner[s] \in Workers /\ Owner[s] # Background /\ Owner[s] # NoWorker
           /\ job[slot[s].doc] \in Job
BY QueueConstants DEF TypeOK, Active, ActiveOn, QuietInv, SlotsHold, Quiet, OneTimelyWorker

\* An execution starts: the claimed row becomes the running row.
LEMMA StartRows ==
    ASSUME Quiet, TypeOK, QuietInv, NEW s \in Slots, RunStart(s)
    PROVE  /\ job[slot[s].doc].state = "claimed"
           /\ job' = [job EXCEPT ![slot[s].doc] =
                Row("running", job[slot[s].doc].attempts + 1, Owner[s], "fresh", TRUE)]
           /\ doc' = [doc EXCEPT ![slot[s].doc] = "processing"]
<1> DEFINE d == slot[s].doc
           new == Row("running", job[d].attempts + 1, Owner[s], "fresh", TRUE)
<1>1. d \in Docs /\ Holds(s, d) /\ Owner[s] \in Workers /\ job[d] \in Job
  BY AtWork DEF RunStart
<1>2. slot[s].view.job = job[d] /\ slot[s].view.status = doc[d]
  BY <1>1 DEF RunStart, Holds, ViewOf
<1>3. new \in Job
  <2>1. job[d].attempts + 1 \in Nat /\ Owner[s] \in LockedBy
    BY <1>1, JobFields DEF LockedBy
  <2> QED
    BY <2>1, RowType DEF JobState, Lock
<1>4. Flush(job[d], new, job[d]) = new
  BY <1>1, <1>3, FlushOwn
<1>5. Column(doc[d], "processing", doc[d]) = "processing"
  BY DEF Column
<1>6. job[d].state = "claimed"
  BY <1>1 DEF RunStart, Holds
<1>7. job' = [job EXCEPT ![d] = Flush(slot[s].view.job,
              Row("running", slot[s].view.job.attempts + 1, Owner[s], "fresh", TRUE), @)]
      /\ doc' = [doc EXCEPT ![d] = Column(slot[s].view.status, "processing", doc[d])]
  BY DEF RunStart
<1> QED
  BY <1>2, <1>4, <1>5, <1>6, <1>7

\* An execution fails: the running row becomes the row a failure leaves.
LEMMA FailRows ==
    ASSUME Quiet, TypeOK, QuietInv, NEW s \in Slots, RunFailCommit(s)
    PROVE  /\ job[slot[s].doc].state = "running"
           /\ job' = [job EXCEPT ![slot[s].doc] =
                AfterFailure(job[slot[s].doc].attempts, FALSE)]
           /\ doc' = [doc EXCEPT ![slot[s].doc] = "failed"]
<1> DEFINE d == slot[s].doc
           new == AfterFailure(job[d].attempts, FALSE)
<1>1. d \in Docs /\ Holds(s, d) /\ job[d] \in Job
  BY AtWork DEF RunFailCommit
<1>2. slot[s].view.job = job[d] /\ slot[s].view.status = doc[d]
  BY <1>1 DEF RunFailCommit, Holds, ViewOf
<1>3. new \in Job
  BY <1>1, AfterFailureType, JobFields
<1>4. Flush(job[d], new, job[d]) = new
  BY <1>1, <1>3, FlushOwn
<1>5. Column(doc[d], "failed", doc[d]) = "failed"
  BY DEF Column
<1>6. job[d].state = "running"
  BY <1>1 DEF RunFailCommit, Holds
<1>7. job' = [job EXCEPT ![d] = Flush(slot[s].view.job,
              AfterFailure(slot[s].view.job.attempts, FALSE), @)]
      /\ doc' = [doc EXCEPT ![d] = Column(slot[s].view.status, "failed", doc[d])]
  BY DEF RunFailCommit
<1> QED
  BY <1>2, <1>4, <1>5, <1>6, <1>7

\* A reclaim writes the rows it read, which are still stale, and no others.
LEMMA ReclaimRows ==
    ASSUME TypeOK, QuietInv, NEW w \in Workers, ReclaimCommit(w), NEW d \in Docs
    PROVE  IF reclaim[w][d] # NoView
           THEN /\ Stale(d)
                /\ job'[d] = AfterFailure(job[d].attempts, TRUE) /\ doc'[d] = "failed"
           ELSE job'[d] = job[d] /\ doc'[d] = doc[d]
<1>1. CASE reclaim[w][d] # NoView
  <2>0. Stale(d) /\ reclaim[w][d] = ViewOf(d)
    BY <1>1 DEF QuietInv, ReclaimsCurrent
  <2>1. Stale(d) /\ reclaim[w][d].job = job[d] /\ reclaim[w][d].status = doc[d]
    BY <2>0 DEF ViewOf
  <2>2. job'[d] = Flush(job[d], AfterFailure(job[d].attempts, TRUE), job[d])
    BY <1>1, <2>1 DEF ReclaimCommit, Reclaimed
  <2>3. job[d] \in Job /\ AfterFailure(job[d].attempts, TRUE) \in Job
    BY AfterFailureType, JobFields DEF TypeOK
  <2>4. doc'[d] = "failed"
    BY <1>1, <2>1 DEF ReclaimCommit, ReclaimedStatus, Column
  <2> QED
    BY <1>1, <2>1, <2>2, <2>3, <2>4, FlushOwn
<1>2. CASE reclaim[w][d] = NoView
  BY <1>2 DEF ReclaimCommit
<1> QED
  BY <1>1, <1>2

\* What a failure leaves goes with a failed document.
LEMMA FailureStory ==
    ASSUME NEW a \in Nat, NEW due \in BOOLEAN
    PROVE  /\ Story(AfterFailure(a, due), "failed")
           /\ AfterFailure(a, due).attempts = a
           /\ AfterFailure(a, due).lockedBy = NoWorker
           /\ AfterFailure(a, due).state =
                IF a >= MaxAttempts THEN "dead_letter" ELSE "failed"
BY DEF AfterFailure, Story, Row, Exhausted

\* The invariant survives a step that changes rows and holders together.
LEMMA QuietFrame ==
    ASSUME QuietInv, NoRequests',
           \A d \in Docs :
               (job'[d] = job[d] /\ doc'[d] = doc[d]) \/ Story(job'[d], doc'[d]),
           \A s \in Slots, d \in Docs : slot'[s].phase # "idle" /\ slot'[s].doc = d =>
               \/ slot'[s] = slot[s] /\ job'[d] = job[d] /\ doc'[d] = doc[d]
               \/ Holds(s, d)',
           \A w \in Workers, d \in Docs : reclaim'[w][d] # NoView =>
               /\ job'[d] = job[d] /\ doc'[d] = doc[d]
               /\ reclaim'[w][d] = reclaim[w][d] \/ (Stale(d) /\ reclaim'[w][d] = ViewOf(d))
    PROVE  QuietInv'
<1>1. RowsAgree'
  BY DEF QuietInv, RowsAgree
<1>2. SlotsHold'
  BY DEF QuietInv, SlotsHold, Holds, ActiveOn, Active, ViewOf
<1>3. ReclaimsCurrent'
  <2> SUFFICES ASSUME NEW w \in Workers, NEW d \in Docs, reclaim'[w][d] # NoView
               PROVE  Stale(d)' /\ reclaim'[w][d] = ViewOf(d)'
    BY DEF ReclaimsCurrent
  <2>1. Stale(d)' = Stale(d) /\ ViewOf(d)' = ViewOf(d)
    BY DEF Stale, ViewOf
  <2>2. reclaim'[w][d] = reclaim[w][d] => Stale(d) /\ reclaim[w][d] = ViewOf(d)
    BY DEF QuietInv, ReclaimsCurrent
  <2> QED
    BY <2>1, <2>2
<1> QED
  BY <1>1, <1>2, <1>3 DEF QuietInv

\* The slot that has a job writes its rows, or looks at them.
LEMMA QuietWrite ==
    ASSUME TypeOK, HandedOver, QuietInv, NEW s \in Slots, NEW d \in Docs,
           ActiveOn(s, d), Story(job'[d], doc'[d]),
           \A e \in Docs \ {d} : job'[e] = job[e] /\ doc'[e] = doc[e],
           \A t \in Slots \ {s} : slot'[t] = slot[t],
           slot'[s].phase # "idle" => slot'[s].doc = d /\ Holds(s, d)',
           UNCHANGED <<reclaim, client>>
    PROVE  QuietInv'
<1>1. \A t \in Slots, e \in Docs : slot'[t].phase # "idle" /\ slot'[t].doc = e =>
         \/ slot'[t] = slot[t] /\ job'[e] = job[e] /\ doc'[e] = doc[e]
         \/ Holds(t, e)'
  <2> SUFFICES ASSUME NEW t \in Slots, NEW e \in Docs,
                      slot'[t].phase # "idle", slot'[t].doc = e
               PROVE  \/ slot'[t] = slot[t] /\ job'[e] = job[e] /\ doc'[e] = doc[e]
                      \/ Holds(t, e)'
    OBVIOUS
  <2>1. CASE t = s
    BY <2>1
  <2>2. CASE t # s
    <3>1. slot'[t] = slot[t] /\ ActiveOn(t, e)
      BY <2>2 DEF ActiveOn, Active
    <3>2. e # d
      BY <2>2, <3>1 DEF HandedOver
    <3> QED
      BY <3>1, <3>2
  <2> QED
    BY <2>1, <2>2
<1>2. \A w \in Workers, e \in Docs : reclaim'[w][e] # NoView => e # d
  BY DEF HandedOver
<1>3. NoRequests'
  BY DEF QuietInv, NoRequests
<1> QED
  BY <1>1, <1>2, <1>3, QuietFrame

\* Every step of the quiet deployment keeps the rows, the slots and the reclaims in
\* agreement.
LEMMA QuietStep ==
    ASSUME Quiet, TypeOK, HandedOver, QuietInv, [Next]_vars
    PROVE  QuietInv'
<1> USE QueueConstants
<1>0. /\ \A s \in Slots : Owner[s] \in Workers /\ Owner[s] # Background
      /\ \A v, w \in Workers : v = w
      /\ \A d \in Docs : job[d] \in Job
  BY DEF Quiet, OneTimelyWorker, TypeOK
<1>1. ASSUME NEW d \in Docs, Create(d) PROVE QuietInv'
  <2>1. UNCHANGED <<slot, reclaim, client>>
    BY <1>0, <1>1 DEF Create, Dispatch
  <2>2. /\ Story(job'[d], doc'[d])
        /\ \A e \in Docs \ {d} : job'[e] = job[e] /\ doc'[e] = doc[e]
    BY <1>1 DEF Create, TypeOK, Row, Story
  <2>3. /\ \A s \in Slots : ~ActiveOn(s, d)
        /\ \A w \in Workers : reclaim[w][d] = NoView
    BY <1>1 DEF Create, HandedOver, QuietInv, ReclaimsCurrent, Stale
  <2> QED
    BY <2>1, <2>2, <2>3, QuietFrame DEF QuietInv, NoRequests, ActiveOn, Active
<1>2. ASSUME NEW c \in Clients, ClientStep(c) PROVE QuietInv'
  BY <1>2 DEF ClientStep, RetryRead, RetryCommit, ArchiveRead, ArchiveCommit, QuietInv,
              NoRequests, Quiet
<1>3. ASSUME NEW w \in Workers, ReclaimRead(w) PROVE QuietInv'
  <2>1. \A v \in Workers, d \in Docs : reclaim'[v][d] # NoView =>
           reclaim'[v][d] = reclaim[v][d] \/ (Stale(d) /\ reclaim'[v][d] = ViewOf(d))
    BY <1>3 DEF ReclaimRead, TypeOK
  <2> QED
    BY <1>3, <2>1, QuietFrame DEF ReclaimRead, rows, QuietInv, NoRequests
<1>4. ASSUME NEW w \in Workers, ReclaimCommit(w) PROVE QuietInv'
  <2>1. \A d \in Docs : (job'[d] = job[d] /\ doc'[d] = doc[d]) \/ Story(job'[d], doc'[d])
    <3> SUFFICES ASSUME NEW d \in Docs
                 PROVE  \/ job'[d] = job[d] /\ doc'[d] = doc[d]
                        \/ Story(job'[d], doc'[d])
      OBVIOUS
    <3>1. job[d].attempts \in Nat
      BY <1>0, JobFields
    <3>2. Story(AfterFailure(job[d].attempts, TRUE), "failed")
      BY <3>1, FailureStory
    <3> QED
      BY <1>4, <3>2, ReclaimRows
  <2>2. \A s \in Slots, d \in Docs : slot[s].phase # "idle" /\ slot[s].doc = d =>
           job'[d] = job[d] /\ doc'[d] = doc[d]
    BY <1>4, ReclaimRows DEF HandedOver, ActiveOn, Active
  <2>3. \A v \in Workers, d \in Docs : reclaim'[v][d] = NoView
    BY <1>0, <1>4 DEF ReclaimCommit, TypeOK
  <2>4. UNCHANGED <<slot, client>>
    BY <1>4 DEF ReclaimCommit
  <2> QED
    BY <2>1, <2>2, <2>3, <2>4, QuietFrame DEF QuietInv, NoRequests
<1>5. ASSUME NEW w \in Workers, NEW d \in Docs, Claim(w, d) PROVE QuietInv'
  <2>1. PICK s \in Slots : /\ Owner[s] = w /\ slot[s].phase = "idle"
                           /\ slot' = [slot EXCEPT ![s] = Busy("submitted", d, NoView)]
    BY <1>5 DEF Claim, IdleSlot, Active
  <2>2. /\ slot'[s].phase = "submitted" /\ slot'[s].doc = d
        /\ \A t \in Slots \ {s} : slot'[t] = slot[t]
    BY <2>1, BusyType, NullTypes DEF TypeOK, Phase
  <2>3. /\ job'[d] = Row("claimed", job[d].attempts, w, "fresh", TRUE)
        /\ job[d].state \in {"queued", "failed"} /\ doc'[d] = doc[d]
        /\ \A e \in Docs \ {d} : job'[e] = job[e] /\ doc'[e] = doc[e]
    <3>1. job[d].due = TRUE
      BY <1>0, <1>5, JobFields DEF Claim, Claimable
    <3> QED
      BY <1>5, <3>1 DEF Claim, Claimed, Claimable, TypeOK
  <2>4. /\ job'[d].state = "claimed" /\ job'[d].lockedBy = w /\ job'[d].lock = "fresh"
        /\ job'[d].due
    BY <2>3 DEF Row
  <2>5. doc[d] \in {"queued", "failed"}
    BY <2>3 DEF QuietInv, RowsAgree, Story, NoJob, Row
  <2>6. Story(job'[d], doc'[d])
    BY <2>3, <2>4, <2>5 DEF Story
  <2>7. \A t \in Slots : ~ActiveOn(t, d)
    BY <2>3 DEF HandedOver
  <2>8. Holds(s, d)'
    BY <2>1, <2>2, <2>4 DEF Holds
  <2>9. \A v \in Workers, e \in Docs : reclaim'[v][e] = NoView
    BY <1>0, <1>5 DEF Claim, HandedOver
  <2>10. client' = client
    BY <1>5 DEF Claim
  <2>11. \A t \in Slots, e \in Docs : slot'[t].phase # "idle" /\ slot'[t].doc = e =>
           \/ slot'[t] = slot[t] /\ job'[e] = job[e] /\ doc'[e] = doc[e]
           \/ Holds(t, e)'
    <3> SUFFICES ASSUME NEW t \in Slots, NEW e \in Docs,
                        slot'[t].phase # "idle", slot'[t].doc = e
                 PROVE  \/ slot'[t] = slot[t] /\ job'[e] = job[e] /\ doc'[e] = doc[e]
                        \/ Holds(t, e)'
      OBVIOUS
    <3>1. CASE t = s
      BY <2>2, <2>8, <3>1
    <3>2. CASE t # s
      BY <2>2, <2>3, <2>7, <3>2 DEF ActiveOn, Active
    <3> QED
      BY <3>1, <3>2
  <2> QED
    BY <2>3, <2>6, <2>9, <2>10, <2>11, QuietFrame DEF QuietInv, NoRequests
<1>6. ASSUME NEW w \in Workers, ClaimNothing(w) \/ Restart(w) PROVE QuietInv'
  BY <1>6, QuietFrame DEF ClaimNothing, Restart, rows, QuietInv, NoRequests
<1>7. ASSUME NEW s \in Slots, NEW d \in Docs, slot[s].doc = d, RunRead(s)
      PROVE  QuietInv'
  <2>1. /\ Owner[s] \in Workers /\ job[d].attempts \in Nat
        /\ ActiveOn(s, d) /\ Holds(s, d)
    BY <1>7, AtWork, JobFields DEF RunRead
  <2>2. UNCHANGED <<rows, reclaim, client>> /\ Story(job'[d], doc'[d])
    BY <1>7 DEF RunRead, rows, QuietInv, RowsAgree
  <2>3. slot'[s].phase # "idle" =>
           slot'[s].phase = "starting" /\ slot'[s].doc = d /\ slot'[s].view = ViewOf(d)
    <3>1. ViewOf(d) \in View /\ "starting" \in Phase
      BY ViewType DEF Phase
    <3> QED
      BY <1>7, <3>1, BusyType, IdleIsIdle DEF RunRead, TypeOK
  <2>4. slot'[s].phase # "idle" => slot'[s].doc = d /\ Holds(s, d)'
    BY <1>7, <2>1, <2>2, <2>3 DEF Holds, ViewOf, rows, RunRead
  <2> QED
    BY <1>7, <2>1, <2>2, <2>4, QuietWrite DEF RunRead, rows, TypeOK
<1>8. ASSUME NEW s \in Slots, NEW d \in Docs, slot[s].doc = d, RunStart(s)
      PROVE  QuietInv'
  <2>1. /\ Owner[s] \in Workers /\ job[d].attempts \in Nat
        /\ ActiveOn(s, d) /\ Holds(s, d)
    BY <1>8, AtWork, JobFields DEF RunStart
  <2>2. /\ job'[d] = Row("running", job[d].attempts + 1, Owner[s], "fresh", TRUE)
        /\ doc'[d] = "processing"
        /\ \A e \in Docs \ {d} : job'[e] = job[e] /\ doc'[e] = doc[e]
    <3>1. /\ job' = [job EXCEPT ![d] =
                Row("running", job[d].attempts + 1, Owner[s], "fresh", TRUE)]
          /\ doc' = [doc EXCEPT ![d] = "processing"]
      BY <1>8, StartRows
    <3> QED
      BY <3>1 DEF TypeOK
  <2>3. Story(job'[d], doc'[d]) /\ job'[d].lockedBy = Owner[s] /\ job'[d].state = "running"
    BY <2>1, <2>2 DEF Story, Row
  <2>4. slot'[s].phase = "working" /\ slot'[s].doc = d
    BY <1>8, BusyType, NullTypes DEF RunStart, TypeOK, Phase
  <2>5. Holds(s, d)'
    BY <2>3, <2>4 DEF Holds
  <2> QED
    BY <1>8, <2>1, <2>2, <2>3, <2>4, <2>5, QuietWrite DEF RunStart, TypeOK
<1>9. ASSUME NEW s \in Slots, NEW d \in Docs, slot[s].doc = d, ReplaceChunks(s)
      PROVE  QuietInv'
  <2>1. /\ Owner[s] \in Workers /\ job[d].attempts \in Nat
        /\ ActiveOn(s, d) /\ Holds(s, d)
    BY <1>9, AtWork, JobFields DEF ReplaceChunks
  <2>2. UNCHANGED <<rows, reclaim, client>> /\ Story(job'[d], doc'[d])
    BY <1>9 DEF ReplaceChunks, rows, QuietInv, RowsAgree
  <2>3. slot'[s].phase = "replaced" /\ slot'[s].doc = d
    BY <1>9 DEF ReplaceChunks, TypeOK
  <2>4. Holds(s, d)'
    BY <1>9, <2>1, <2>2, <2>3 DEF Holds, rows, ReplaceChunks
  <2> QED
    BY <1>9, <2>1, <2>2, <2>3, <2>4, QuietWrite DEF ReplaceChunks, rows, TypeOK
<1>10. ASSUME NEW s \in Slots, NEW d \in Docs, slot[s].doc = d, RunSucceed(s)
      PROVE  QuietInv'
  <2>1. /\ Owner[s] \in Workers /\ job[d].attempts \in Nat
        /\ ActiveOn(s, d) /\ Holds(s, d)
    BY <1>10, AtWork, JobFields DEF RunSucceed
  <2>2. /\ job'[d] = Row("succeeded", job[d].attempts, NoWorker, "none", TRUE)
        /\ doc'[d] = "indexed"
        /\ \A e \in Docs \ {d} : job'[e] = job[e] /\ doc'[e] = doc[e]
    BY <1>10 DEF RunSucceed, TypeOK
  <2>3. Story(job'[d], doc'[d])
    BY <2>2 DEF Story, Row
  <2>4. slot'[s].phase = "idle" /\ \A t \in Slots \ {s} : slot'[t] = slot[t]
    BY <1>10, IdleIsIdle DEF RunSucceed, TypeOK
  <2>5. UNCHANGED <<reclaim, client>>
    BY <1>10 DEF RunSucceed
  <2> QED
    BY <2>1, <2>2, <2>3, <2>4, <2>5, QuietWrite
<1>11. ASSUME NEW s \in Slots, NEW d \in Docs, slot[s].doc = d, RunFailRead(s)
      PROVE  QuietInv'
  <2>1. /\ Owner[s] \in Workers /\ job[d].attempts \in Nat
        /\ ActiveOn(s, d) /\ Holds(s, d)
    BY <1>11, AtWork, JobFields DEF RunFailRead
  <2>2. UNCHANGED <<rows, reclaim, client>> /\ Story(job'[d], doc'[d])
    BY <1>11 DEF RunFailRead, rows, QuietInv, RowsAgree
  <2>3. slot'[s].phase = "failing" /\ slot'[s].doc = d /\ slot'[s].view = ViewOf(d)
    <3>1. ViewOf(d) \in View /\ "failing" \in Phase
      BY ViewType DEF Phase
    <3> QED
      BY <1>11, <3>1, BusyType DEF RunFailRead, TypeOK
  <2>4. Holds(s, d)'
    BY <1>11, <2>1, <2>2, <2>3 DEF Holds, ViewOf, rows, RunFailRead
  <2> QED
    BY <1>11, <2>1, <2>2, <2>3, <2>4, QuietWrite DEF RunFailRead, rows, TypeOK
<1>12. ASSUME NEW s \in Slots, NEW d \in Docs, slot[s].doc = d, RunFailCommit(s)
      PROVE  QuietInv'
  <2>1. /\ Owner[s] \in Workers /\ job[d].attempts \in Nat
        /\ ActiveOn(s, d) /\ Holds(s, d)
    BY <1>12, AtWork, JobFields DEF RunFailCommit
  <2>2. /\ job'[d] = AfterFailure(job[d].attempts, FALSE) /\ doc'[d] = "failed"
        /\ \A e \in Docs \ {d} : job'[e] = job[e] /\ doc'[e] = doc[e]
    <3>1. /\ job' = [job EXCEPT ![d] = AfterFailure(job[d].attempts, FALSE)]
          /\ doc' = [doc EXCEPT ![d] = "failed"]
      BY <1>12, FailRows
    <3> QED
      BY <3>1 DEF TypeOK
  <2>3. Story(job'[d], doc'[d])
    <3>1. Story(AfterFailure(job[d].attempts, FALSE), "failed")
      BY <2>1, FailureStory
    <3> QED
      BY <2>2, <3>1
  <2>4. slot'[s].phase = "idle" /\ \A t \in Slots \ {s} : slot'[t] = slot[t]
    BY <1>12, IdleIsIdle DEF RunFailCommit, TypeOK
  <2>5. UNCHANGED <<reclaim, client>>
    BY <1>12 DEF RunFailCommit
  <2> QED
    BY <2>1, <2>2, <2>3, <2>4, <2>5, QuietWrite
<1>13. ASSUME NEW d \in Docs, LeaseExpires(d) PROVE QuietInv'
  <2>1. \A s \in Slots : ~ActiveOn(s, d)
    BY <1>13 DEF LeaseExpires, Quiet, OneTimelyWorker
  <2>2. \A w \in Workers : reclaim[w][d] = NoView
    BY <1>13 DEF LeaseExpires, QuietInv, ReclaimsCurrent, Stale
  <2>3. /\ job'[d] = Row(job[d].state, job[d].attempts, job[d].lockedBy, "expired",
                        job[d].due)
        /\ job[d].lock = "fresh"
        /\ \A e \in Docs \ {d} : job'[e] = job[e]
    BY <1>13 DEF LeaseExpires, TypeOK
  <2>4. Story(job'[d], doc[d])
    <3>1. Story(job[d], doc[d])
      BY DEF QuietInv, RowsAgree
    <3> QED
      BY <2>3, <3>1 DEF Story, NoJob, Row
  <2>5. UNCHANGED <<doc, slot, reclaim, client>>
    BY <1>13 DEF LeaseExpires
  <2> QED
    BY <2>1, <2>2, <2>3, <2>4, <2>5, QuietFrame
       DEF QuietInv, NoRequests, ActiveOn, Active
<1>14. ASSUME NEW d \in Docs, BackoffElapses(d) PROVE QuietInv'
  <2>1. /\ job'[d] = Row(job[d].state, job[d].attempts, job[d].lockedBy, job[d].lock, TRUE)
        /\ ~job[d].due /\ job[d].state # "absent"
        /\ \A e \in Docs \ {d} : job'[e] = job[e]
    BY <1>14 DEF BackoffElapses, TypeOK
  <2>2. Story(job[d], doc[d])
    BY DEF QuietInv, RowsAgree
  <2>3. job[d].state \notin {"claimed", "running"}
    BY <2>1, <2>2 DEF Story, NoJob, Row
  <2>4. Story(job'[d], doc[d])
    BY <2>1, <2>2 DEF Story, NoJob, Row
  <2>5. \A w \in Workers : reclaim[w][d] = NoView
    BY <2>3 DEF QuietInv, ReclaimsCurrent, Stale
  <2>6. \A s \in Slots : ~ActiveOn(s, d)
    BY <2>3 DEF QuietInv, SlotsHold, Holds
  <2>7. UNCHANGED <<doc, slot, reclaim, client>>
    BY <1>14 DEF BackoffElapses
  <2> QED
    BY <2>1, <2>4, <2>5, <2>6, <2>7, QuietFrame
       DEF QuietInv, NoRequests, ActiveOn, Active
<1>15. ASSUME NEW w \in Workers \cup {Background}, Crash(w) PROVE QuietInv'
  <2>1. \A t \in Slots : slot'[t].phase # "idle" => slot'[t] = slot[t]
    BY <1>15, IdleIsIdle DEF Crash
  <2>2. \A v \in Workers, d \in Docs : reclaim'[v][d] # NoView =>
           reclaim'[v][d] = reclaim[v][d]
    BY <1>15 DEF Crash
  <2>3. NoRequests' /\ UNCHANGED rows
    BY <1>15 DEF Crash, QuietInv, NoRequests, NoRequest
  <2> QED
    BY <2>1, <2>2, <2>3, QuietFrame DEF rows
<1>16. CASE UNCHANGED vars
  BY <1>16, QuietFrame DEF vars, QuietInv, NoRequests
<1>17. ASSUME NEW s \in Slots, Run(s) PROVE QuietInv'
  <2>1. slot[s].doc \in Docs
    BY <1>17, AtWork DEF Run, RunRead, RunStart, ReplaceChunks, RunSucceed, RunFailRead,
                         RunFailCommit
  <2> QED
    BY <1>7, <1>8, <1>9, <1>10, <1>11, <1>12, <1>17, <2>1 DEF Run
<1> QED
  BY <1>1, <1>2, <1>3, <1>4, <1>5, <1>6, <1>13, <1>14, <1>15, <1>16, <1>17
     DEF Next, Poll

\* The quiet deployment keeps its invariant from the first state on.
THEOREM QuietInvariant == ASSUME Quiet PROVE Spec => []QuietInv
<1>1. Init => QuietInv
  <2>1. ASSUME Init PROVE RowsAgree
    BY <2>1 DEF Init, RowsAgree, Story
  <2>2. ASSUME Init PROVE NoRequests /\ SlotsHold /\ ReclaimsCurrent
    BY <2>2, IdleIsIdle DEF Init, NoRequests, NoRequest, SlotsHold, ActiveOn, Active,
                            ReclaimsCurrent
  <2> QED
    BY <2>1, <2>2 DEF QuietInv
<1>2. OneTimelyWorker
  BY DEF Quiet
<1>3. QueueInv => HandedOver
  BY DEF QueueInv
<1>4. TypeOK /\ QueueInv /\ QuietInv /\ [Next]_vars => QuietInv'
  BY <1>3, QuietStep
<1>5. Spec => []QueueInv
  BY <1>2, QueueInvariant
<1> QED
  BY <1>1, <1>4, <1>5, Typing, PTL DEF Spec

\* While a slot works on a job the row says running and names its worker, in the
\* quiet deployment, whatever crashes and reclaims come between.
THEOREM RunningJobsAreOwned == ASSUME Quiet PROVE Spec => []RunningIsOwned
<1>1. QuietInv => RunningIsOwned
  BY DEF QuietInv, SlotsHold, Holds, RunningIsOwned, Executing
<1> QED
  BY <1>1, QuietInvariant, PTL

\* The job row and the document row never tell different stories there.
THEOREM JobsAndDocumentsAgree == ASSUME Quiet PROVE Spec => []JobAndDocumentAgree
<1>1. QuietInv => JobAndDocumentAgree
  BY DEF QuietInv, RowsAgree, Story, NoJob, Row, JobAndDocumentAgree
<1> QED
  BY <1>1, QuietInvariant, PTL

----------------------------------------------------------------------------
(* The quiet deployment implements the life cycle of a job.                *)

\* The stage of a job row in the life cycle.
StageOf(row) ==
    CASE row.state \in {"queued", "failed"} -> "waiting"
      [] row.state = "claimed" -> "taken"
      [] OTHER -> row.state

Stage == [d \in Docs |-> StageOf(job[d])]
Holder == [d \in Docs |-> job[d].lockedBy]
Tries == [d \in Docs |-> job[d].attempts]

\* The life cycle's step, said of the rows.
LEMMA LifecycleActions ==
    ASSUME NEW d \in Docs
    PROVE  /\ /\ StageOf(job[d]) = "absent"
              /\ Stage' = [Stage EXCEPT ![d] = "waiting"]
              /\ Holder' = Holder /\ Tries' = Tries
              => Lifecycle!Submit(d)
           /\ \A w \in Workers :
                /\ StageOf(job[d]) = "waiting" /\ job[d].attempts < MaxAttempts
                /\ Stage' = [Stage EXCEPT ![d] = "taken"]
                /\ Holder' = [Holder EXCEPT ![d] = w] /\ Tries' = Tries
                => Lifecycle!Take(d, w)
           /\ /\ StageOf(job[d]) = "taken"
              /\ Stage' = [Stage EXCEPT ![d] = "running"]
              /\ Tries' = [Tries EXCEPT ![d] = Tries[d] + 1] /\ Holder' = Holder
              => Lifecycle!Begin(d)
           /\ /\ StageOf(job[d]) = "running"
              /\ Stage' = [Stage EXCEPT ![d] = "succeeded"]
              /\ Holder' = [Holder EXCEPT ![d] = NoWorker] /\ Tries' = Tries
              => Lifecycle!Succeed(d)
<1>1. Stage[d] = StageOf(job[d]) /\ Tries[d] = job[d].attempts
  BY DEF Stage, Tries
<1> QED
  BY <1>1 DEF Lifecycle!Submit, Lifecycle!Take, Lifecycle!Begin, Lifecycle!Succeed,
              Stage, Holder, Tries, StageOf

\* A write to one job row moves that job and no other.
LEMMA Moved ==
    ASSUME NEW d \in Docs, \A e \in Docs \ {d} : job'[e] = job[e]
    PROVE  /\ Stage' = [Stage EXCEPT ![d] = StageOf(job'[d])]
           /\ Holder' = [Holder EXCEPT ![d] = job'[d].lockedBy]
           /\ Tries' = [Tries EXCEPT ![d] = job'[d].attempts]
           /\ job'[d].lockedBy = job[d].lockedBy => Holder' = Holder
           /\ job'[d].attempts = job[d].attempts => Tries' = Tries
<1>1. \A e \in Docs \ {d} : StageOf(job'[e]) = StageOf(job[e])
  OBVIOUS
<1>2. Stage' = [Stage EXCEPT ![d] = StageOf(job'[d])]
  BY <1>1 DEF Stage, StageOf
<1> QED
  BY <1>2 DEF Holder, Tries

\* A failure and a reclaim return the jobs whose rows they write.
LEMMA ReturnAction ==
    ASSUME NEW js \in SUBSET Docs,
           \A d \in Docs \ js : job'[d] = job[d],
           \A d \in js : /\ StageOf(job[d]) \in {"taken", "running"}
                         /\ StageOf(job'[d]) =
                              IF job[d].attempts < MaxAttempts THEN "waiting"
                              ELSE "dead_letter"
                         /\ job'[d].lockedBy = NoWorker
                         /\ job'[d].attempts = job[d].attempts
    PROVE  Lifecycle!Return(js)
<1> DEFINE After(d) == IF d \notin js THEN Stage[d]
                       ELSE IF Tries[d] < MaxAttempts THEN "waiting" ELSE "dead_letter"
<1>1. \A d \in js : Stage[d] \in {"taken", "running"}
  BY DEF Stage
<1>2. ASSUME NEW d \in Docs PROVE StageOf(job'[d]) = After(d)
  <2>1. Stage[d] = StageOf(job[d]) /\ Tries[d] = job[d].attempts
    BY DEF Stage, Tries
  <2>2. d \notin js => StageOf(job'[d]) = StageOf(job[d])
    OBVIOUS
  <2> QED
    BY <2>1, <2>2
<1>3. Stage' = [d \in Docs |-> After(d)]
  <2>1. Stage' = [d \in Docs |-> StageOf(job'[d])]
    BY DEF Stage, StageOf
  <2> HIDE DEF After
  <2> QED
    BY <1>2, <2>1
<1>4. Holder' = [d \in Docs |-> IF d \in js THEN NoWorker ELSE Holder[d]]
  BY DEF Holder
<1>5. Tries' = Tries
  BY DEF Tries
<1> QED
  BY <1>1, <1>3, <1>4, <1>5 DEF Lifecycle!Return, Stage, Holder, Tries, StageOf

\* A row that is back in the queue, or given up after this many attempts.
Returned(a, row) ==
    /\ StageOf(row) = IF a < MaxAttempts THEN "waiting" ELSE "dead_letter"
    /\ row.lockedBy = NoWorker
    /\ row.attempts = a

\* Where a failed job goes.
LEMMA ReturnedStage ==
    ASSUME NEW a \in Nat, NEW due \in BOOLEAN
    PROVE  Returned(a, AfterFailure(a, due))
<1>1. (a >= MaxAttempts) = ~(a < MaxAttempts)
  BY QueueConstants
<1> QED
  BY <1>1, FailureStory DEF StageOf, Returned

\* Every step of the queue moves one job along its life cycle, returns the jobs of
\* expired leases, or leaves every job where it was.
LEMMA LifecycleStep ==
    ASSUME Quiet, TypeOK, QueueInv, QuietInv, [Next]_vars
    PROVE  [Lifecycle!Next]_(Lifecycle!vars)
<1> USE QueueConstants
<1>0. /\ \A s \in Slots : Owner[s] \in Workers
      /\ \A d \in Docs : job[d] \in Job /\ job[d].attempts \in Nat
  BY JobFields DEF Quiet, OneTimelyWorker, TypeOK
<1>same. ASSUME \A d \in Docs : /\ job'[d].state = job[d].state
                                /\ job'[d].lockedBy = job[d].lockedBy
                                /\ job'[d].attempts = job[d].attempts
         PROVE  UNCHANGED Lifecycle!vars
  BY <1>same DEF Lifecycle!vars
<1>1. ASSUME NEW d \in Docs, Create(d) PROVE Lifecycle!Next
  <2>1. /\ job'[d] = Row("queued", 0, NoWorker, "none", TRUE)
        /\ job[d].state = "absent" /\ \A e \in Docs \ {d} : job'[e] = job[e]
    BY <1>1 DEF Create, TypeOK
  <2>2. job'[d].state = "queued" /\ job'[d].lockedBy = NoWorker /\ job'[d].attempts = 0
    BY <2>1 DEF Row
  <2>3. job[d].lockedBy = NoWorker /\ job[d].attempts = 0
    BY <2>1 DEF QuietInv, RowsAgree, Story, NoJob, Row
  <2>4. StageOf(job[d]) = "absent" /\ StageOf(job'[d]) = "waiting"
    BY <2>1, <2>2 DEF StageOf
  <2>5. /\ Stage' = [Stage EXCEPT ![d] = "waiting"] /\ Holder' = Holder
        /\ Tries' = Tries
    BY <2>1, <2>2, <2>3, <2>4, Moved
  <2>6. Lifecycle!Submit(d)
    BY <2>4, <2>5, LifecycleActions
  <2> QED
    BY <2>6 DEF Lifecycle!Next
<1>2. ASSUME NEW w \in Workers, NEW d \in Docs, Claim(w, d) PROVE Lifecycle!Next
  <2>1. /\ job'[d] = Row("claimed", job[d].attempts, w, "fresh", job[d].due)
        /\ job[d].state \in {"queued", "failed"}
        /\ \A e \in Docs \ {d} : job'[e] = job[e]
    BY <1>2 DEF Claim, Claimed, Claimable, TypeOK
  <2>2. /\ job'[d].state = "claimed" /\ job'[d].lockedBy = w
        /\ job'[d].attempts = job[d].attempts
    BY <2>1 DEF Row
  <2>3. job[d].attempts < MaxAttempts
    BY <2>1 DEF QueueInv, AttemptsCounted
  <2>4. StageOf(job[d]) = "waiting" /\ StageOf(job'[d]) = "taken"
    BY <2>1, <2>2 DEF StageOf
  <2>5. /\ Stage' = [Stage EXCEPT ![d] = "taken"]
        /\ Holder' = [Holder EXCEPT ![d] = w] /\ Tries' = Tries
    BY <2>1, <2>2, <2>4, Moved
  <2>6. Lifecycle!Take(d, w)
    BY <2>3, <2>4, <2>5, LifecycleActions
  <2> QED
    BY <2>6 DEF Lifecycle!Next
<1>3. ASSUME NEW s \in Slots, NEW d \in Docs, slot[s].doc = d, RunStart(s)
      PROVE  Lifecycle!Next
  <2>1. /\ job'[d] = Row("running", job[d].attempts + 1, Owner[s], "fresh", TRUE)
        /\ job[d].state = "claimed"
        /\ \A e \in Docs \ {d} : job'[e] = job[e]
    <3>1. /\ job' = [job EXCEPT ![d] =
                Row("running", job[d].attempts + 1, Owner[s], "fresh", TRUE)]
          /\ job[d].state = "claimed"
      BY <1>3, StartRows
    <3> QED
      BY <3>1 DEF TypeOK
  <2>2. /\ job'[d].state = "running" /\ job'[d].lockedBy = Owner[s]
        /\ job'[d].attempts = job[d].attempts + 1
    BY <2>1 DEF Row
  <2>3. job[d].lockedBy = Owner[s]
    BY <1>3, AtWork DEF RunStart, Holds
  <2>4. StageOf(job[d]) = "taken" /\ StageOf(job'[d]) = "running"
    BY <2>1, <2>2 DEF StageOf
  <2>5. Tries[d] = job[d].attempts
    BY DEF Tries
  <2>6. /\ Stage' = [Stage EXCEPT ![d] = "running"] /\ Holder' = Holder
        /\ Tries' = [Tries EXCEPT ![d] = Tries[d] + 1]
    BY <2>1, <2>2, <2>3, <2>4, <2>5, Moved
  <2>7. Lifecycle!Begin(d)
    BY <2>4, <2>6, LifecycleActions
  <2> QED
    BY <2>7 DEF Lifecycle!Next
<1>4. ASSUME NEW s \in Slots, NEW d \in Docs, slot[s].doc = d, RunSucceed(s)
      PROVE  Lifecycle!Next
  <2>1. /\ job'[d] = Row("succeeded", job[d].attempts, NoWorker, "none", TRUE)
        /\ \A e \in Docs \ {d} : job'[e] = job[e]
    BY <1>4 DEF RunSucceed, TypeOK
  <2>2. /\ job'[d].state = "succeeded" /\ job'[d].lockedBy = NoWorker
        /\ job'[d].attempts = job[d].attempts
    BY <2>1 DEF Row
  <2>3. job[d].state = "running"
    BY <1>4, AtWork DEF RunSucceed, Holds
  <2>4. StageOf(job[d]) = "running" /\ StageOf(job'[d]) = "succeeded"
    BY <2>2, <2>3 DEF StageOf
  <2>5. /\ Stage' = [Stage EXCEPT ![d] = "succeeded"]
        /\ Holder' = [Holder EXCEPT ![d] = NoWorker] /\ Tries' = Tries
    BY <2>1, <2>2, <2>4, Moved
  <2>6. Lifecycle!Succeed(d)
    BY <2>4, <2>5, LifecycleActions
  <2> QED
    BY <2>6 DEF Lifecycle!Next
<1>5. ASSUME NEW s \in Slots, NEW d \in Docs, slot[s].doc = d, RunFailCommit(s)
      PROVE  Lifecycle!Next
  <2>1. /\ job'[d] = AfterFailure(job[d].attempts, FALSE) /\ job[d].state = "running"
        /\ \A e \in Docs \ {d} : job'[e] = job[e]
    <3>1. /\ job' = [job EXCEPT ![d] = AfterFailure(job[d].attempts, FALSE)]
          /\ job[d].state = "running"
      BY <1>5, FailRows
    <3> QED
      BY <3>1 DEF TypeOK
  <2>2. StageOf(job[d]) = "running"
    BY <2>1 DEF StageOf
  <2>3. /\ StageOf(job'[d]) = IF job[d].attempts < MaxAttempts THEN "waiting"
                              ELSE "dead_letter"
        /\ job'[d].lockedBy = NoWorker /\ job'[d].attempts = job[d].attempts
    <3>1. job[d].attempts \in Nat /\ FALSE \in BOOLEAN
      BY <1>0
    <3>2. Returned(job[d].attempts, AfterFailure(job[d].attempts, FALSE))
      BY <3>1, ReturnedStage
    <3> QED
      BY <2>1, <3>2 DEF Returned
  <2>4. {d} \in SUBSET Docs
    OBVIOUS
  <2>5. Lifecycle!Return({d})
    BY <2>1, <2>2, <2>3, <2>4, ReturnAction
  <2> QED
    BY <2>4, <2>5 DEF Lifecycle!Next
<1>6. ASSUME NEW w \in Workers, ReclaimCommit(w) PROVE Lifecycle!Next
  <2>0. PICK js \in SUBSET Docs : js = {d \in Docs : reclaim[w][d] # NoView}
    OBVIOUS
  <2>1. ASSUME NEW d \in Docs
        PROVE  IF d \in js
               THEN /\ StageOf(job[d]) \in {"taken", "running"}
                    /\ job'[d] = AfterFailure(job[d].attempts, TRUE)
               ELSE job'[d] = job[d]
    BY <1>6, <2>0, ReclaimRows DEF Stale, StageOf
  <2>2. ASSUME NEW d \in js
        PROVE  /\ StageOf(job[d]) \in {"taken", "running"}
               /\ StageOf(job'[d]) = IF job[d].attempts < MaxAttempts THEN "waiting"
                                     ELSE "dead_letter"
               /\ job'[d].lockedBy = NoWorker
               /\ job'[d].attempts = job[d].attempts
    <3>1. /\ StageOf(job[d]) \in {"taken", "running"}
          /\ job'[d] = AfterFailure(job[d].attempts, TRUE)
      BY <2>1
    <3>2. d \in Docs /\ job[d].attempts \in Nat /\ TRUE \in BOOLEAN
      BY <1>0, <2>0
    <3>3. Returned(job[d].attempts, AfterFailure(job[d].attempts, TRUE))
      BY <3>2, ReturnedStage
    <3> QED
      BY <3>1, <3>3 DEF Returned
  <2>3. \A d \in Docs \ js : job'[d] = job[d]
    BY <2>1
  <2>4. Lifecycle!Return(js)
    BY <2>2, <2>3, ReturnAction
  <2> QED
    BY <2>4 DEF Lifecycle!Next
<1>7. ASSUME NEW d \in Docs, LeaseExpires(d) \/ BackoffElapses(d)
      PROVE  UNCHANGED Lifecycle!vars
  <2>1. /\ job'[d].state = job[d].state /\ job'[d].lockedBy = job[d].lockedBy
        /\ job'[d].attempts = job[d].attempts
        /\ \A e \in Docs \ {d} : job'[e] = job[e]
    BY <1>7 DEF LeaseExpires, BackoffElapses, TypeOK, Row
  <2> QED
    BY <2>1, <1>same
<1>8. ASSUME NEW c \in Clients, ClientStep(c) PROVE FALSE
  BY <1>8 DEF ClientStep, RetryRead, RetryCommit, ArchiveRead, ArchiveCommit, QuietInv,
              NoRequests, Quiet
<1>9. CASE UNCHANGED job
  BY <1>9, <1>same
<1>10. ASSUME NEW s \in Slots, RunStart(s) \/ RunSucceed(s) \/ RunFailCommit(s)
       PROVE  Lifecycle!Next
  <2>1. slot[s].doc \in Docs
    BY <1>10, AtWork DEF RunStart, RunSucceed, RunFailCommit
  <2> QED
    BY <1>3, <1>4, <1>5, <1>10, <2>1
<1> QED
  BY <1>1, <1>2, <1>6, <1>7, <1>8, <1>9, <1>10
     DEF Next, Poll, Run, ReclaimRead, ClaimNothing, Restart, RunRead, ReplaceChunks,
         RunFailRead, Crash, vars, rows

\* The queue implements the life cycle each job is promised: with one timely worker
\* and no requests about imported documents, a job is taken by one owner at a time,
\* counts each attempt once, returns to the queue only with attempts left, and ends in
\* success or, with every attempt used, in dead_letter.
THEOREM QueueRefinement == ASSUME Quiet PROVE Spec => ImplementsLifecycle
<1>1. Init => Lifecycle!Init
  <2>1. ASSUME Init PROVE \A d \in Docs : /\ StageOf(job[d]) = "absent"
                                          /\ job[d].lockedBy = NoWorker
                                          /\ job[d].attempts = 0
    BY <2>1 DEF Init, NoJob, Row, StageOf
  <2> QED
    BY <2>1 DEF Lifecycle!Init, StageOf
<1>2. TypeOK /\ QueueInv /\ QuietInv /\ [Next]_vars
        => [Lifecycle!Next]_(Lifecycle!vars)
  BY LifecycleStep
<1>3. OneTimelyWorker
  BY DEF Quiet
<1>4. Spec => []QueueInv
  BY <1>3, QueueInvariant
<1> QED
  BY <1>1, <1>2, <1>4, QuietInvariant, Typing, PTL
     DEF Spec, ImplementsLifecycle, Lifecycle!Spec

=============================================================================
