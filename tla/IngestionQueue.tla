--------------------------- MODULE IngestionQueue ---------------------------
(***************************************************************************)
(* The ingestion job queue: the rows of ingestion_jobs, documents and      *)
(* document_chunks, and the processes that move them.                      *)
(*                                                                         *)
(*   - polling workers (workers/polling.py): each has one poller, which    *)
(*     reclaims expired leases and claims due jobs, and a pool of slots    *)
(*     that execute IngestionService.run_job;                              *)
(*   - background tasks of the API process (dispatch mode "background"),   *)
(*     slots whose owner is Background;                                    *)
(*   - API clients that create, retry and archive documents.               *)
(*                                                                         *)
(* A database transaction that reads rows and writes them in a later       *)
(* statement is two actions: the read keeps a view, the commit writes it   *)
(* back.  SQLAlchemy's UPDATE names only the columns whose new value       *)
(* differs from the view (no version column), which is what Flush does.    *)
(* A job belongs to exactly one document (unique document_id), so rows of  *)
(* both tables are indexed by the document.                                *)
(***************************************************************************)
EXTENDS Naturals, FiniteSets

CONSTANTS
    Docs,             \* documents that may be imported, each with its job
    Workers,          \* polling worker processes
    Background,       \* the owner of the API's background tasks
    NoWorker,         \* locked_by IS NULL
    NoDoc,            \* the document of an idle slot or request
    Slots,            \* execution threads and background tasks
    Owner,            \* Owner[s]: the worker of slot s, or Background
    Clients,          \* API requests that may be in flight together
    ClientOps,        \* which of "retry" and "archive" clients send
    MaxAttempts,      \* settings.ingestion_max_attempts
    RunsOutliveLease, \* may an execution take longer than the lease?
    Generations,      \* names for the chunk rows one execution writes
    MaxCrashes,       \* bound on process crashes
    MaxRetries        \* bound on accepted retry requests

ASSUME QueueConstants ==
    /\ NoWorker \notin Workers \cup {Background}
    /\ Background \notin Workers
    /\ NoDoc \notin Docs
    /\ Owner \in [Slots -> Workers \cup {Background}]
    /\ ClientOps \subseteq {"retry", "archive"}
    /\ MaxAttempts \in Nat \ {0}
    /\ RunsOutliveLease \in BOOLEAN
    /\ Generations \subseteq Nat
    /\ MaxCrashes \in Nat
    /\ MaxRetries \in Nat

VARIABLES
    doc,      \* documents.status of each document, "absent" before the import
    job,      \* the ingestion_jobs row of each document
    chunks,   \* committed generations of document_chunks rows
    poller,   \* what the claim loop of each worker is doing
    reclaim,  \* the stale rows the poller of each worker has read
    slot,     \* what each execution slot is doing
    client,   \* what each API request is doing
    crashes,
    retries

rows == <<doc, job, chunks>>
vars == <<doc, job, chunks, poller, reclaim, slot, client, crashes, retries>>

DocStatus == {"absent", "queued", "processing", "indexed", "failed", "archived"}
JobState == {"absent", "queued", "claimed", "running", "succeeded", "failed",
             "dead_letter", "cancelled"}
LockedBy == Workers \cup {Background, NoWorker}

\* locked_at: NULL, within lease_seconds, or older than the lease.
Lock == {"none", "fresh", "expired"}

\* due: available_at <= now.
Job == [state : JobState, attempts : Nat, lockedBy : LockedBy, lock : Lock,
        due : BOOLEAN]

Row(state, attempts, lockedBy, lock, due) ==
    [state |-> state, attempts |-> attempts, lockedBy |-> lockedBy,
     lock |-> lock, due |-> due]

View == [job : Job, status : DocStatus]
NoJob == Row("absent", 0, NoWorker, "none", FALSE)
NoView == [job |-> NoJob, status |-> "absent"]

\* What a session that loads the job and its document holds in memory.
ViewOf(d) == [job |-> job[d], status |-> doc[d]]

Phase == {"idle", "submitted", "starting", "working", "replaced", "failing"}
Slot == [phase : Phase, doc : Docs \cup {NoDoc}, view : View,
         seen : SUBSET Generations]
Busy(phase, d, view) == [phase |-> phase, doc |-> d, view |-> view, seen |-> {}]
Idle == Busy("idle", NoDoc, NoView)

Request == [op : {"none", "retry", "archive"}, doc : Docs \cup {NoDoc},
            view : View, seen : SUBSET Generations]
NoRequest == [op |-> "none", doc |-> NoDoc, view |-> NoView, seen |-> {}]

PollerState == {"idle", "reclaiming", "claiming", "down"}

----------------------------------------------------------------------------
\* The unit of work writes a column when the new value differs from the view.
Column(old, new, current) == IF new = old THEN current ELSE new

\* locked_at = utc_now() differs from every earlier timestamp: always written.
Flush(view, new, row) ==
    [state    |-> Column(view.state, new.state, row.state),
     attempts |-> Column(view.attempts, new.attempts, row.attempts),
     lockedBy |-> Column(view.lockedBy, new.lockedBy, row.lockedBy),
     lock     |-> IF new.lock = "fresh" THEN "fresh"
                  ELSE Column(view.lock, new.lock, row.lock),
     due      |-> new.due]

Init ==
    /\ doc = [d \in Docs |-> "absent"]
    /\ job = [d \in Docs |-> NoJob]
    /\ chunks = [d \in Docs |-> {}]
    /\ poller = [w \in Workers |-> "idle"]
    /\ reclaim = [w \in Workers |-> [d \in Docs |-> NoView]]
    /\ slot = [s \in Slots |-> Idle]
    /\ client = [c \in Clients |-> NoRequest]
    /\ crashes = 0
    /\ retries = 0

Active(s) == slot[s].phase # "idle"
ActiveOn(s, d) == Active(s) /\ slot[s].doc = d
IdleSlot(s, w) == Owner[s] = w /\ ~Active(s)

----------------------------------------------------------------------------
\* API clients.

\* dispatch_ingestion_job: in background mode the request leaves a task that
\* runs the job; in poll mode it leaves nothing.
Dispatch(d) ==
    IF \E s \in Slots : Owner[s] = Background
    THEN \E s \in Slots :
            /\ IdleSlot(s, Background)
            /\ slot' = [slot EXCEPT ![s] = Busy("submitted", d, NoView)]
    ELSE UNCHANGED slot

\* create_document: the document and its job appear in one commit.
Create(d) ==
    /\ doc[d] = "absent" /\ job[d].state = "absent"
    /\ doc' = [doc EXCEPT ![d] = "queued"]
    /\ job' = [job EXCEPT ![d] = Row("queued", 0, NoWorker, "none", TRUE)]
    /\ Dispatch(d)
    /\ UNCHANGED <<chunks, poller, reclaim, client, crashes, retries>>

Retryable == {"failed", "dead_letter"}

\* retry_document reads the job and refuses the states that are not retryable.
RetryRead(c, d) ==
    /\ "retry" \in ClientOps
    /\ client[c].op = "none"
    /\ retries < MaxRetries
    /\ job[d].state \in Retryable
    /\ client' = [client EXCEPT ![c] =
         [op |-> "retry", doc |-> d, view |-> ViewOf(d), seen |-> {}]]
    /\ retries' = retries + 1
    /\ UNCHANGED <<rows, poller, reclaim, slot, crashes>>

RetryCommit(c) ==
    LET d == client[c].doc
        view == client[c].view
    IN
    /\ client[c].op = "retry"
    /\ job' = [job EXCEPT ![d] =
         Flush(view.job, Row("queued", 0, NoWorker, "none", TRUE), @)]
    /\ doc' = [doc EXCEPT ![d] = Column(view.status, "queued", doc[d])]
    /\ Dispatch(d)
    /\ client' = [client EXCEPT ![c] = NoRequest]
    /\ UNCHANGED <<chunks, poller, reclaim, crashes, retries>>

\* archive_document refuses archived and processing documents and running
\* jobs; its DELETE removes the chunk rows committed by then.
ArchiveRead(c, d) ==
    /\ "archive" \in ClientOps
    /\ client[c].op = "none"
    /\ doc[d] \notin {"absent", "archived", "processing"}
    /\ job[d].state # "running"
    /\ client' = [client EXCEPT ![c] =
         [op |-> "archive", doc |-> d, view |-> ViewOf(d), seen |-> chunks[d]]]
    /\ UNCHANGED <<rows, poller, reclaim, slot, crashes, retries>>

Cancellable == {"queued", "failed", "dead_letter"}

ArchiveCommit(c) ==
    LET d == client[c].doc
        view == client[c].view
    IN
    /\ client[c].op = "archive"
    /\ chunks' = [chunks EXCEPT ![d] = @ \ client[c].seen]
    /\ doc' = [doc EXCEPT ![d] = "archived"]
    /\ job' = [job EXCEPT ![d] =
         Row(IF view.job.state \in Cancellable THEN "cancelled" ELSE @.state,
             @.attempts, @.lockedBy, @.lock, @.due)]
    /\ client' = [client EXCEPT ![c] = NoRequest]
    /\ UNCHANGED <<poller, reclaim, slot, crashes, retries>>

----------------------------------------------------------------------------
\* The claim loop of a polling worker: claim_next_job, called only while a
\* slot of the pool is free.

\* Mutants: the query forgets locked_at < cutoff, or the claimed jobs.
Stale_AnyLease(d) == job[d].state \in {"claimed", "running"}
Stale_RunningOnly(d) == job[d].state = "running" /\ job[d].lock = "expired"

Stale(d) == job[d].state \in {"claimed", "running"} /\ job[d].lock = "expired"

\* reclaim_stale_jobs selects without locking the rows.
ReclaimRead(w) ==
    /\ poller[w] = "idle"
    /\ \E s \in Slots : IdleSlot(s, w)
    /\ IF \E d \in Docs : Stale(d)
       THEN /\ reclaim' = [reclaim EXCEPT ![w] =
                 [d \in Docs |-> IF Stale(d) THEN ViewOf(d) ELSE NoView]]
            /\ poller' = [poller EXCEPT ![w] = "reclaiming"]
       ELSE /\ poller' = [poller EXCEPT ![w] = "claiming"]
            /\ UNCHANGED reclaim
    /\ UNCHANGED <<rows, slot, client, crashes, retries>>

\* Mutant: the limit is off by one.
Exhausted_Late(attempts) == attempts > MaxAttempts

Exhausted(attempts) == attempts >= MaxAttempts

\* Mutant: the final state is misspelt.
AfterFailure_Typo(attempts, due) ==
    Row(IF Exhausted(attempts) THEN "deadletter" ELSE "failed",
        attempts, NoWorker, "none", due)

\* What a failure or a reclaim that read this many attempts assigns to the job.
AfterFailure(attempts, due) ==
    Row(IF Exhausted(attempts) THEN "dead_letter" ELSE "failed",
        attempts, NoWorker, "none", due)

\* Mutant: the reclaim leaves the document as it was.
ReclaimedStatus_Kept(view, status) == status

ReclaimedStatus(view, status) == Column(view.status, "failed", status)

Reclaimed(view, row) == Flush(view, AfterFailure(view.attempts, TRUE), row)

ReclaimCommit(w) ==
    LET read(d) == reclaim[w][d] # NoView
    IN
    /\ poller[w] = "reclaiming"
    /\ job' = [d \in Docs |->
                IF read(d) THEN Reclaimed(reclaim[w][d].job, job[d]) ELSE job[d]]
    /\ doc' = [d \in Docs |->
                IF read(d) THEN ReclaimedStatus(reclaim[w][d], doc[d])
                ELSE doc[d]]
    /\ poller' = [poller EXCEPT ![w] = "claiming"]
    /\ reclaim' = [reclaim EXCEPT ![w] = [d \in Docs |-> NoView]]
    /\ UNCHANGED <<chunks, slot, client, crashes, retries>>

\* Mutant: a job claimed by another slot may be claimed again.
Claimable_Claimed(d) == job[d].state \in {"queued", "failed", "claimed"} /\ job[d].due

Claimable(d) == job[d].state \in {"queued", "failed"} /\ job[d].due

Claimed(row, w) == Row("claimed", row.attempts, w, "fresh", row.due)

\* SELECT ... FOR UPDATE SKIP LOCKED, the update and the commit: one step.
Claim(w, d) ==
    /\ poller[w] = "claiming"
    /\ Claimable(d)
    /\ job' = [job EXCEPT ![d] = Claimed(@, w)]
    /\ \E s \in Slots :
         /\ IdleSlot(s, w)
         /\ slot' = [slot EXCEPT ![s] = Busy("submitted", d, NoView)]
    /\ poller' = [poller EXCEPT ![w] = "idle"]
    /\ UNCHANGED <<doc, chunks, reclaim, client, crashes, retries>>

ClaimNothing(w) ==
    /\ poller[w] = "claiming"
    /\ \A d \in Docs : ~Claimable(d)
    /\ poller' = [poller EXCEPT ![w] = "idle"]
    /\ UNCHANGED <<rows, reclaim, slot, client, crashes, retries>>

----------------------------------------------------------------------------
\* run_job, executed by a slot.

\* A background task passes no worker_id, so it skips the lease check.
Runnable(row, w) ==
    /\ row.state \in {"queued", "failed", "claimed"}
    /\ row.state = "claimed" /\ w # Background => row.lockedBy = w

RunRead(s) ==
    LET d == slot[s].doc
    IN
    /\ slot[s].phase = "submitted"
    /\ slot' = [slot EXCEPT ![s] =
         IF Runnable(job[d], Owner[s])
         THEN Busy("starting", d, ViewOf(d))
         ELSE Idle]
    /\ UNCHANGED <<rows, poller, reclaim, client, crashes, retries>>

RunStart(s) ==
    LET d == slot[s].doc
        view == slot[s].view
    IN
    /\ slot[s].phase = "starting"
    /\ job' = [job EXCEPT ![d] = Flush(view.job,
         Row("running", view.job.attempts + 1, Owner[s], "fresh", TRUE), @)]
    /\ doc' = [doc EXCEPT ![d] = Column(view.status, "processing", doc[d])]
    /\ slot' = [slot EXCEPT ![s] = Busy("working", d, NoView)]
    /\ UNCHANGED <<chunks, poller, reclaim, client, crashes, retries>>

\* replace_chunks: the DELETE removes the rows committed before it started and
\* no others.  Two DELETEs of the same rows wait for each other in the database;
\* they commute, so the wait is left out.
ReplaceChunks(s) ==
    /\ slot[s].phase = "working"
    /\ slot' = [slot EXCEPT ![s] =
         [phase |-> "replaced", doc |-> @.doc, view |-> @.view,
          seen |-> chunks[@.doc]]]
    /\ UNCHANGED <<rows, poller, reclaim, client, crashes, retries>>

\* Row ids are never reused; a name is free again once nothing refers to it.
FreeGeneration(g) ==
    /\ \A d \in Docs : g \notin chunks[d]
    /\ \A s \in Slots : g \notin slot[s].seen
    /\ \A c \in Clients : g \notin client[c].seen

FreshGeneration(g) ==
    FreeGeneration(g) /\ \A h \in Generations : h < g => ~FreeGeneration(h)

\* Mutant: a document without a single chunk is not refused.
Rewritten_NoDrafts(present, seen, g) == present \ seen

\* run_job refuses an empty list of drafts, so the new generation has rows.
Rewritten(present, seen, g) == (present \ seen) \cup {g}

\* The final commit: the DELETE, the new rows, the job and the document.  The
\* session last wrote running and processing, so every column is written.
RunSucceed(s) ==
    LET d == slot[s].doc
    IN
    /\ slot[s].phase = "replaced"
    /\ \E g \in Generations :
         /\ FreshGeneration(g)
         /\ chunks' = [chunks EXCEPT ![d] = Rewritten(@, slot[s].seen, g)]
    /\ job' = [job EXCEPT ![d] =
         Row("succeeded", @.attempts, NoWorker, "none", TRUE)]
    /\ doc' = [doc EXCEPT ![d] = "indexed"]
    /\ slot' = [slot EXCEPT ![s] = Idle]
    /\ UNCHANGED <<poller, reclaim, client, crashes, retries>>

\* Any exception before the final commit: rollback, then the job is read again.
RunFailRead(s) ==
    LET d == slot[s].doc
    IN
    /\ slot[s].phase \in {"working", "replaced"}
    /\ slot' = [slot EXCEPT ![s] = Busy("failing", d, ViewOf(d))]
    /\ UNCHANGED <<rows, poller, reclaim, client, crashes, retries>>

RunFailCommit(s) ==
    LET d == slot[s].doc
        view == slot[s].view
    IN
    /\ slot[s].phase = "failing"
    /\ job' = [job EXCEPT ![d] =
         Flush(view.job, AfterFailure(view.job.attempts, FALSE), @)]
    /\ doc' = [doc EXCEPT ![d] = Column(view.status, "failed", doc[d])]
    /\ slot' = [slot EXCEPT ![s] = Idle]
    /\ UNCHANGED <<chunks, poller, reclaim, client, crashes, retries>>

----------------------------------------------------------------------------
\* Time and crashes.

\* Nothing renews locked_at while run_job works.
LeaseExpires(d) ==
    /\ job[d].lock = "fresh"
    /\ RunsOutliveLease \/ \A s \in Slots : ~ActiveOn(s, d)
    /\ job' = [job EXCEPT ![d] =
         Row(@.state, @.attempts, @.lockedBy, "expired", @.due)]
    /\ UNCHANGED <<doc, chunks, poller, reclaim, slot, client, crashes, retries>>

BackoffElapses(d) ==
    /\ job[d].state # "absent"
    /\ ~job[d].due
    /\ job' = [job EXCEPT ![d] =
         Row(@.state, @.attempts, @.lockedBy, @.lock, TRUE)]
    /\ UNCHANGED <<doc, chunks, poller, reclaim, slot, client, crashes, retries>>

\* A process dies with its threads; what it had not committed is lost.
Crash(w) ==
    /\ crashes < MaxCrashes
    /\ w \in Workers => poller[w] # "down"
    /\ crashes' = crashes + 1
    /\ poller' = [v \in Workers |-> IF v = w THEN "down" ELSE poller[v]]
    /\ reclaim' = [v \in Workers |->
                    IF v = w THEN [d \in Docs |-> NoView] ELSE reclaim[v]]
    /\ slot' = [s \in Slots |-> IF Owner[s] = w THEN Idle ELSE slot[s]]
    /\ client' = IF w = Background THEN [c \in Clients |-> NoRequest] ELSE client
    /\ UNCHANGED <<rows, retries>>

Restart(w) ==
    /\ poller[w] = "down"
    /\ poller' = [poller EXCEPT ![w] = "idle"]
    /\ UNCHANGED <<rows, reclaim, slot, client, crashes, retries>>

----------------------------------------------------------------------------
ClientStep(c) ==
    \/ RetryCommit(c)
    \/ ArchiveCommit(c)
    \/ \E d \in Docs : RetryRead(c, d) \/ ArchiveRead(c, d)

Poll(w) ==
    \/ ReclaimRead(w)
    \/ ReclaimCommit(w)
    \/ ClaimNothing(w)
    \/ \E d \in Docs : Claim(w, d)

Run(s) ==
    \/ RunRead(s)
    \/ RunStart(s)
    \/ ReplaceChunks(s)
    \/ RunSucceed(s)
    \/ RunFailRead(s)
    \/ RunFailCommit(s)

Next ==
    \/ \E d \in Docs : Create(d) \/ LeaseExpires(d) \/ BackoffElapses(d)
    \/ \E c \in Clients : ClientStep(c)
    \/ \E w \in Workers : Poll(w) \/ Restart(w)
    \/ \E w \in Workers \cup {Background} : Crash(w)
    \/ \E s \in Slots : Run(s)

Spec == Init /\ [][Next]_vars

\* The poll loop, the pool threads and the clock keep going; imports, requests
\* and crashes need not happen, and a crashed worker is started again.
Fairness ==
    /\ \A w \in Workers : WF_vars(Poll(w)) /\ WF_vars(Restart(w))
    /\ \A s \in Slots : WF_vars(Run(s))
    /\ \A d \in Docs : WF_vars(LeaseExpires(d)) /\ WF_vars(BackoffElapses(d))

FairSpec == Spec /\ Fairness

----------------------------------------------------------------------------
(* Properties                                                              *)

\* Every row, view and process state has its shape; a slot or request that is
\* busy names a document.
TypeOK ==
    /\ doc \in [Docs -> DocStatus]
    /\ job \in [Docs -> Job]
    /\ chunks \in [Docs -> SUBSET Generations]
    /\ poller \in [Workers -> PollerState]
    /\ reclaim \in [Workers -> [Docs -> View]]
    /\ slot \in [Slots -> Slot]
    /\ client \in [Clients -> Request]
    /\ crashes \in 0..MaxCrashes
    /\ retries \in 0..MaxRetries
    /\ \A s \in Slots : Active(s) => slot[s].doc \in Docs
    /\ \A c \in Clients : client[c].op # "none" => client[c].doc \in Docs

Executing(s, d) == ActiveOn(s, d) /\ slot[s].phase \in {"working", "replaced"}

\* Two slots never work on the same job at once, so the attempts of a job do not
\* overlap (claim_next_job and the lease check of run_job).
ExclusiveExecution ==
    \A s, t \in Slots, d \in Docs : Executing(s, d) /\ Executing(t, d) => s = t

\* No job is attempted more than ingestion_max_attempts times, across failures,
\* crashes and reclaimed leases (run_job and reclaim_stale_jobs).
AttemptsBounded == \A d \in Docs : job[d].attempts <= MaxAttempts

\* A document never holds the chunks of two executions, which would be retrieved
\* twice (replace_chunks).
OneGeneration == \A d \in Docs : Cardinality(chunks[d]) <= 1

\* A document shown as indexed has chunks to retrieve, whatever archives,
\* retries, reclaims and executions overlap (run_job, archive_document).
IndexedHasChunks == \A d \in Docs : doc[d] = "indexed" => chunks[d] # {}

Leased == {"claimed", "running"}

\* While a slot works on a job, the row says running and names its worker.
RunningIsOwned ==
    \A s \in Slots, d \in Docs : Executing(s, d) =>
        job[d].state = "running" /\ job[d].lockedBy = Owner[s]

\* The job row and the document row, written in the same commits by claim,
\* run_job and reclaim, never tell different stories.
JobAndDocumentAgree ==
    \A d \in Docs :
        /\ doc[d] = "indexed" <=> job[d].state = "succeeded"
        /\ doc[d] = "processing" <=> job[d].state = "running"
        /\ job[d].state \in {"failed", "dead_letter"} => doc[d] = "failed"

\* Archiving is final: no execution or reclaim brings the document back
\* (docstring of archive_document).
ArchivedStaysArchived ==
    [][\A d \in Docs : doc[d] = "archived" => doc'[d] = "archived"]_vars

\* The deployment in which executions of a job cannot overlap: one polling worker
\* process, executions shorter than the lease, and no retry requests in flight
\* while the worker polls.
OneTimelyWorker ==
    /\ \A v, w \in Workers : v = w
    /\ \A s \in Slots : Owner[s] \in Workers
    /\ ~RunsOutliveLease
    /\ "retry" \notin ClientOps

\* A job handed to a slot is out of everybody else's reach: no second slot has it,
\* its row cannot be claimed or reclaimed, and no reclaim has read it.
HandedOver ==
    /\ \A s, t \in Slots, d \in Docs : ActiveOn(s, d) /\ ActiveOn(t, d) => s = t
    /\ \A s \in Slots, d \in Docs : ActiveOn(s, d) =>
         /\ job[d].state \notin {"absent", "queued", "failed"}
         /\ job[d].lock # "expired"
         /\ \A w \in Workers : reclaim[w][d] = NoView
    /\ \A w \in Workers, d \in Docs :
         reclaim[w][d] # NoView => poller[w] = "reclaiming"
    /\ \A c \in Clients : client[c].op # "retry"

\* An attempt is left whenever a job can still be run, and whoever will write the
\* row has seen its current attempts.
AttemptsCounted ==
    /\ \A d \in Docs : job[d].state = "absent" => job[d].attempts = 0
    /\ \A d \in Docs : job[d].state \in {"queued", "failed", "claimed"} =>
         job[d].attempts < MaxAttempts
    /\ \A s \in Slots : slot[s].phase \in {"submitted", "starting"} =>
         job[slot[s].doc].attempts < MaxAttempts
    /\ \A s \in Slots : slot[s].phase \in {"starting", "failing"} =>
         slot[s].view.job.attempts = job[slot[s].doc].attempts
    /\ \A s \in Slots : slot[s].phase = "starting" =>
         Runnable(slot[s].view.job, Owner[s])
    /\ \A w \in Workers, d \in Docs : reclaim[w][d] # NoView =>
         reclaim[w][d].job.attempts = job[d].attempts

QueueInv == HandedOver /\ AttemptsCounted /\ AttemptsBounded

Settled(d) == job[d].state \in {"succeeded", "dead_letter", "cancelled"}

\* A retry that read the job before it was claimed writes only the columns that
\* differ: the job can end leased and without locked_at (retry_document).
Unreclaimable(d) == job[d].state \in Leased /\ job[d].lock = "none"

\* Every imported document is indexed or given up: no crash leaves its job
\* claimed or running for ever (reclaim_stale_jobs), except with the lease that
\* a racing retry took the timestamp of.
EveryImportSettles ==
    \A d \in Docs : doc[d] = "queued" ~> (Settled(d) \/ Unreclaimable(d))

\* The queue implements the life cycle each job is promised.
Lifecycle == INSTANCE JobLifecycle WITH
    Jobs <- Docs,
    Owners <- Workers,
    NoOwner <- NoWorker,
    stage <- [d \in Docs |->
              CASE job[d].state \in {"queued", "failed"} -> "waiting"
                [] job[d].state = "claimed" -> "taken"
                [] OTHER -> job[d].state],
    owner <- [d \in Docs |-> job[d].lockedBy],
    tries <- [d \in Docs |-> job[d].attempts]

\* Every step of the queue is a step of JobLifecycle or leaves it unchanged.
ImplementsLifecycle == Lifecycle!Spec

=============================================================================
