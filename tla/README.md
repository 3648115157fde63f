# Specification and verification of RAG-Notes-Agent

TLA+ models of the parts of this repository where several processes, requests
and transactions move the same rows, and of the algorithms that rank and cut what
a search returns; TLC configurations that check them on small instances; and
TLAPS proofs of what matters most for every instance. Paths are relative to the
repository; `app/` is `backend/app/`.

| module | what it is |
|---|---|
| `IngestionQueue` | the ingestion job queue: `ingestion_jobs`, `documents`, `document_chunks`, polling workers, background tasks, API requests |
| `JobLifecycle` | what the queue promises for each job; refined by `IngestionQueue` |
| `AgentRuntime` | agent runs, checkpoints, resumes, proposals and their approval |
| `AgentHistory` | `AgentRuntime` with history variables, for the promises that crashes, early decisions and concurrent executors put to the test |
| `WriteApproval` | what the approval of agent writes promises; refined by `AgentRuntime` |
| `Idempotency` | `Idempotency-Key` handling of the write routes |
| `OncePerKey` | what a key promises; refined by `Idempotency` |
| `KnowledgeIndex` | vectors, embedding revision and index status of a knowledge base under ingestion, notes, rebuilds, rechunks and changes of the model |
| `CommunityIndex` | community summaries and graph revision under overlapping builders |
| `GraphIndex` | entities, mentions, relations, and the communities cut from them |
| `RankFusion`, `Retrieval` | reciprocal rank fusion, and one search from the query variants to the selected evidence |
| `Conversations` | a question: messages, run, stage events, stream, replay, context budget |
| `Feedback` | feedback, triage, knowledge drafts and evaluation cases |
| `TagReview` | controlled tags, their proposals and reviews |
| `Access` | members, roles and tokens of a workspace |
| `SourceChecks` | validation of web sources, on request and in claimed batches |
| `ModelGate` | the Redis slots, the process semaphore and the retries of model calls |
| `RateLimit` | the fixed-window quota with its fallback to memory |
| `IngestionQueueProofs`, `AgentRuntimeProofs`, `IdempotencyProofs`, `IndexProofs`, `GraphProofs`, `RetrievalProofs`, `ReviewProofs`, `ServiceProofs` | theorems (section 5): of the queue, of runs and approvals, of keys, of the vector index and the community summaries, of the entity graph and its communities, of a search and its fusion, of reviews and access, of conversations, source checks, the model gate and the quota |
| `MCIngestionQueue`, `MCAgentRuntime`, `MCIdempotency`, `MCKnowledge`, `MCServices` | model values and instances for TLC |

To check: `tlc -config <run>.cfg <module>`; to prove: `tlapm <module>.tla`.

## 1. Inventory

The backend is a FastAPI application over SQLAlchemy (PostgreSQL, SQLite as a
fallback) with separate worker processes. Requests, workers and background tasks
share the database; the processes of the API also share two optional structures in
Redis, the slots of `app/core/model_resilience.py` and the counters of
`app/core/rate_limit.py`, and each keeps a semaphore and a fallback counter in
memory. Sessions are created with `autoflush=False, expire_on_commit=False`
(`app/core/database.py`), so a session keeps the row versions it has loaded and an
UPDATE names only the columns whose value changed. No table has a version column
that SQLAlchemy checks.

| component | state | operations | interacts through | hard | what makes it correct |
|---|---|---|---|---|---|
| Ingestion queue and workers (`application/ingestion_service.py`, `workers/polling.py`, `workers/ingestion.py`) | job row (state, attempts, lock, due), document status, chunk rows | import, claim, reclaim, run, fail, retry, archive, rechunk, edit of the governance fields | rows; API dispatch | leases without renewal, reads separated from writes, crashes, retries | a job runs once at a time, at most `ingestion_max_attempts` times, and ends; indexed documents have chunks; archived ones stay archived |
| Idempotent requests (`application/idempotency_service.py`, `api/idempotency.py`, 13 routes) | one record per scope and key | reserve, replay, refuse, complete, release, purge | the record, and the transaction of the domain write | concurrent retries, failure at every step, expiry under a running request | a key's write is applied once while the key is remembered; answers belong to applied writes |
| Agent runtime (`application/agent_runtime_service.py`, `agent/runtime.py`, `agent/bounded_research.py`) | run state, checkpoints | start, nodes of the graph, checkpoint, resume | runs, proposals | crash between nodes, concurrent resumes, stale session state | bounded retrieval, one proposal per run, every run ends or waits |
| Proposals and approvals (`application/agent_approval_service.py`) | proposal state | propose, approve, reject, expire | runs, notes, documents | concurrent decisions, expiry, locks SQLite does not have | a write happens once, if and only if approved |
| Source validation (`application/source_validation_service.py`, `workers/source_revalidator.py`) | the source columns of a document: state, response, error, time, content hash | mark pending, claim a batch, validate, compare contents | document rows, background tasks | the network is asked between read and write; batches die | the columns of a page are of one check; a claimed page becomes due again |
| Knowledge bases and notes (`application/knowledge_service.py`) | note, its vector | create, update, archive | proposals, index | vectors computed before the commit | a note that is served has a current vector |
| Configuration and embedding revision (`application/configuration_service.py`, `embedding_service.py`) | the model and its revision, the revision an index was published at | change, rebuild, publish | retrieval, ingestion | change while vectors are being computed | what is served was computed by the configured model |
| Graph and community index (`rag/graph.py`, `rag/communities.py`) | entities, mentions, relations, summaries, graph revision and status | index, remove, rebuild | ingestion, archive, rechunk | overlapping transactions with unique keys | every entity is in one community; every indexed document is summarised under the revision that is read |
| Tag governance (`application/tag_governance_service.py`) | tags and assignments | create, propose, propose from a text, review, archive | notes, documents | concurrent reviews, indexing again | a decision stands |
| Conversation (`application/conversation_service.py`) | messages, runs, citations | ask, stream, complete, fail, archive | retrieval, models | client leaves mid-stream | the rows of one question tell one story; every question is answered or has a recorded failure |
| Telemetry and replay (`application/rag_observability_service.py`, `rag_replay_service.py`) | stage events, bad cases, replays | record, replay | conversation | written in several transactions | a run's events agree with its message; a replay answers nothing |
| Feedback and learning (`application/feedback_service.py`, `feedback_learning_service.py`) | feedback, triage, drafts, evaluation cases | submit, review, create and decide drafts and cases | notes | concurrent reviews and users | one answer teaches at most one note, by way of a decided triage |
| Workspace access (`application/workspace_access_service.py`, `core/workspace.py`) | members, tokens | create, change role, disable, issue and revoke tokens | every request | concurrent demotions | a workspace keeps an owner |
| Model resilience (`core/model_resilience.py`) | leased slots in Redis, a semaphore per process, retries; there is no circuit breaker | acquire, call, retry, release | model providers | deaths with a slot, Redis failures | never more calls than slots; slots come back |
| Rate limiting (`core/rate_limit.py`) | counters per window in Redis or memory | allow, fall back, clean up | every request | a process that counts when the key has expired, Redis failing between two commands | no backend lets through more than its limit while a window lasts |
| Retrieval (`application/retrieval_service.py`, `rag/*.py`) | none of its own | variants, routes, fusion, governance, rerank, selection, neighbours | index | documents change between two reads of a search; numeric edges | what is cited was citable during the search; routes that agree are not overruled; governance orders the result |
| Mind maps (`application/mind_map_service.py`) | one row per knowledge base with a version | generate, edit | knowledge base | a version check that takes no lock | no edit is lost |

Evaluation scripts, metrics and spans, web fetching and parsing, migrations and the
frontend keep no state the others depend on (`PROJECT.json` names each with the
reason).

## 2. Plan

Done, in this order: the queue with its life cycle and proofs; agent runs and
approvals with their refinement and proofs; idempotent requests with theirs; the
vector, community and graph indexes; retrieval and rank fusion; conversations with
their events and replays; feedback and tag review; access, source checks, the model
gate and the rate limiter; proofs about the services; proofs about the search, its
fusion, and the components of the entity graph.

Left:

1. Mind maps and the versions of notes, as a register whose compare-and-set takes no
   lock (section 6 says what the code loses); renaming of conversations.
2. What an approved agent action does to notes, documents and tags beyond one write,
   by composing `AgentRuntime` with `KnowledgeIndex` and `TagReview`.
3. Every safety property of a passing run is proved; liveness stays with TLC
   (section 5). A wider deployment for the theorems that assume `Quiet`: retries in
   flight, for which `JobLifecycle` would need a step.

## 3. How the models read the code

*A transaction that reads rows and writes them in a later statement is two
actions.* The read action stores what the session saw, the commit action writes
it back the way SQLAlchemy does: in the queue, `Column(old, new, current)` keeps the
committed value of a column whose new value equals the one the session had loaded. A
statement that reads and writes under a row lock (`FOR UPDATE SKIP LOCKED` of
`claim_next_job`) is one action. Rows that a transaction has locked stay locked
between its actions. A crash loses what was not committed. A call to a model or to
the network lies between two actions and its result is a free choice.

### IngestionQueue

`job[d]`, `doc[d]`, `chunks[d]` are the rows of document `d`; job and document are
one to one. `poller[w]`/`reclaim[w]` is the claim loop of worker `w` with the stale
rows its reclaim has selected, `slot[s]` a thread of a pool or a background task of
the API process, `client[c]` a request in flight. Actions: `Create`
(`create_document` and its URL and upload variants), `RetryRead/Commit`
(`retry_document`), `ArchiveRead/Commit` (`archive_document`), `ReclaimRead/Commit`
(`reclaim_stale_jobs`), `Claim`/`ClaimNothing` (`claim_next_job`), `RunRead`,
`RunStart`, `ReplaceChunks`, `RunSucceed`, `RunFailRead/Commit` (`run_job` with
`replace_chunks` and its except branch), `LeaseExpires`, `BackoffElapses`, `Crash`,
`Restart`. Parsing, chunking, embedding and the graph rebuild are the span between
`RunStart` and `RunSucceed`, which may fail anywhere. Chunk rows are *generations*:
what one execution inserted, since only their presence and multiplicity matter.

### AgentRuntime

`run[r]`, `latest[r]` (the newest checkpoint), `proposal[p]`, `writes[p]` (how often
the approved action was carried out), `exec[e]` (a request thread with the run, the
next node and the context the nodes share), `decider[a]` (an approval or rejection in
flight). One action per node (`Route`, `Retrieve`, `ProposeRead/Commit`, `Assess`,
`Approval`, `Finish`), per checkpoint step (`CheckpointRead/Commit/Clash`), `Fail`,
`Crash`, `ResumeRead/Commit`, and `DecideRead/Load/Commit/Abort`. A `lookup` runs one
read tool, a `research` run a bounded plan, a `write` run a write tool; a `manual` run
comes from `propose_note_creation`. `RowLocks` says whether `SELECT ... FOR UPDATE`
locks (PostgreSQL) or not (SQLite). `DecideEarly` says whether a proposal may be
decided while the run that made it is still executing, which nothing in the code
prevents, because the proposal is committed before the approval node runs.
`ResumeBusy` says whether a run may be resumed while another thread executes it
(`AtWork`): `resume_run` only looks at the state of the row, which a run that has begun
but not failed shares with one whose process died.

`AgentHistory` adds four history variables that are computed from the steps and disable
none: `early`, the runs on which a decision was begun before they waited for it;
`crowded`, those that two executors worked on at once; `resumed` and `retrieved`, how
often a run has been resumed and how many retrievals have been carried out for it. The
rows do not record them, and the step counter of a plan does not count what a dead or a
second executor retrieved.

### Idempotency

`record[k]` is the row of a key, known by the request that created it; `stage[r]` the
place a request is at; `deleted[r]` the expired rows its open transaction has deleted
and therefore locked; `applied` the requests whose domain write is committed;
`answer[r]` whose response a request was given. `StartRead`, `Reserve`,
`ReserveClash`, `Reread` are `start`; `Execute`, `Complete`, `Respond`, `Raise` the
try block of a route; `Release` its except block; `Crash` and `Expire` the
environment. `OutliveTTL = TRUE` lets a request run past the expiry of its record.

### KnowledgeIndex, CommunityIndex, GraphIndex

`KnowledgeIndex`: `config` is the configured model and the revision that counts its
changes, `draft[u]` a `ConfigurationService.update` in flight (`ReadConfig`,
`ChangeModel`), `kb` the status and published revision of the index, `vectors[d]` the
committed chunk sets of a document, each with the revision its vectors are tagged with
and the model that computed them, `note[n]`/`writer[n]` a note and the request writing
it, `job[d]` the ingestion of a document, `task[t]` a rebuild or a rechunk. Actions:
`StartJob`, `ReplaceChunks`, `ReadRevision`, `CommitJob`, `FailJob` (`run_job`, in the
order of its statements), `ArchiveIndexed`, `StartNote`, `CommitNote`, `FailNote`,
`StartRebuild`, `ReadForRebuild`, `WriteRebuilt`, `PublishRebuilt`, `FailRebuild`,
`StartRechunk`, `ReadForRechunk`, `WriteRechunked`, `FailRechunk`, `CrashTask`.
`ConfigOverlaps` says whether the model may change while vectors are being written.
Leases and attempts of a job are those of `IngestionQueue`.

`CommunityIndex`: the transactions that run `CommunitySummaryService.rebuild` (an
ingestion, an archive, a rechunk, a graph rebuild) as builders that load the graph,
take a snapshot, delete what they see, wait for rows another one is deleting, and
commit (`CommitBuild`), commit without summaries (`CommitWithoutSummaries`, the
savepoint of `run_job`), or are undone by a clash of unique keys (`ClashUndone`), a
failure or a death. `AloneKinds` are the kinds that run only when no other builder is
at work; a model constant, not something the code ensures.

`GraphIndex`: `IndexGraph` and `RemoveGraph` are `GraphIndexService.index_document` and
`delete_document` with the counting of mentions; `Components` is the union-find of
`communities.py`, one relation after the other in any order, compared with `Connected`:
what every set closed under the confident relations must contain. `find` also shortens
the chains it follows; that changes no root and is left out. `FirstOf` is the cut of
`sorted(...)[:80]` for a community and `[:120]` for the community of the whole
(`GroupCap`, `WholeCap`): what does not fit is lost, smallest chunk ids first to stay.

### RankFusion, Retrieval

A search is a sequence of steps, one per block of `_search_with_trace` that reads the
database: a ranking for each query variant, their fusion, the entity, tag, graph and
community routes, governance with its score adjustments, optional reranking, the
dynamic cut, and the expansion by neighbours. Between two steps `library`, the status
and governance of the documents, may change (`MaxEdits`). Scores are integers in
10,000ths; fusion adds `weight / (60 + rank)` as the code does. Two retrievers
exist, and `Postgres` says which one serves the query. A list that the code sorts is
`SortedBy` of a set and an order: the i-th element is the one with i - 1 before it.
`Mentions[e]` counts the words of entity `e` in each chunk; the entity and tag
routes are cut at `RouteCap` (their settings in `config.py`), the graph route at 60.
The limits in `RetrievalAssumption` are those the program enforces: `Limit` by the
request schema (1 to 30), `MaxVariants` (1 to 8), `CandidateCap` (2 to 100) and
`RouteCap` (1 to 100) by the validators of the settings.

### Conversations

`ask[q]` is where the request of question `q` stands, `reply[q]` its assistant message
with run, citations and grounding, `events[q]` its stage events, `told[q]` how its stream
ended for the client, `badcases[q]` and `replays[q]` what observability and replay wrote.
`Ask`, `SearchFails`, `Prepare`, `Open`, `StreamFails`, `CompleteAnswer`,
`TellCompleted`, `FailAnswer` follow `create_message` and `_answer_events`;
`Abandon` is a client that leaves or a process that dies, `Replay` is
`RagReplayService`. `Grounding` is the context budget: the items of evidence that fit,
the last one cut. `Evidence` is the set of items a search may return.

### Feedback, TagReview, Access, SourceChecks

`Feedback`: a desk is a request; it takes its rows `FOR UPDATE`, reads them, and writes
and commits in a later action. A row that does not exist cannot be locked, so creations
race and only their unique constraints hold. `FOR UPDATE` is taken to lock, as it does on
PostgreSQL; SQLite ignores it, so what the two modules `Feedback` and `TagReview` promise
is not promised there.
`TagReview`: the same for tags and assignments; `BeginAutoProposal` is the indexing of
a text that names tags.
`Access`: `UpdateMember`/`CommitUpdate` are the two halves of `update_member`, with the
count of the owners in between; `database` is a variable because the count behaves
differently on PostgreSQL, which rejects it, and on SQLite, where updates may overlap.
`SourceChecks`: `page[p].verdict` holds the columns a check writes; `ClaimDue`,
`TakeNext`, `WriteVerdict`, `WriteContent`, `EndBatch` are a batch of the worker,
`MarkPending`, `StartTask`, `LoseTask` a check a user asked for. A check writes only the
columns that differ from the row it read, and a page may be asked for again while it is
being checked; `torn` records the pages whose last check did not find the row as it had
read it.

### ModelGate, RateLimit

`ModelGate`: `slots` is the Redis sorted set of tokens and `ended` those whose lease is
over; `TakeSlot`/`PollSlot` purge the ended ones first, as the Lua script does.
`StartWork` takes the permit of the process, `Retry` repeats the request inside both,
`LoseRelease` and `DieWorking` leave the slot to its lease, `GoUngated` is a failing
Redis. A lease may end at any time (`EndLease`); `outlived` records the calls whose
lease ended before they did. `RateLimit`: `ReadClock` is where a process reads the clock
and with it its window, `CountShared` and `SetExpiry` are INCR and EXPIRE, `ExpireKey`
is Redis removing a key whose time is up (`MayExpire`: never before its window is over),
`DisablePrimary` the permanent change to memory, `CountInMemory` the counter with its
cleaning of old buckets. `check` runs on the event loop (`app/main.py:81-91`), so a
process is in one check at a time, but it may be stopped between any two steps of it.
The clocks of the processes agree and do not run backwards, a process that starts again
counts as another one, and Redis keeps a key until it expires.

## 4. Runs

| run | instance | what it shows | distinct states |
|---|---|---|---|
| `queue_pool` | 1 worker, 2 threads, 2 documents, archives, 1 crash | executions of a job do not overlap, and `QueueInv`, from which that and the bound on attempts are proved | 155,642 |
| `queue_quiet` | the same worker, no requests, 2 crashes | the row names who works on it, job and document tell one story, the queue implements `JobLifecycle` | 7,719 |
| `queue_rivals` | 2 workers, 1 archive or retry in flight, 1 crash, fairness | an indexed document has chunks; every import ends | 551,023 |
| `agent_approvals` | `AgentHistory`: 1 run, 2 executors, 2 deciders, 2 proposals, 2 crashes, 2 resumes, row locks; decisions before the pause and resumes of runs at work | a write happens once and only if approved (`ApprovalInv`, refinement of `WriteApproval`), proposals follow the tool arguments, retrievals are bounded, and what a disturbed run may lose | 313,594 |
| `agent_pauses` | 2 runs, 2 executors, 2 deciders, decisions and resumes only while nobody executes the run, 1 crash, fairness | every run leaves `running`, or its process dies and it can be resumed | 527,048 |
| `idempotency_races` | 3 requests, 2 keys, 2 bodies, failures and crashes anywhere | `IdempotencyInv`, refinement of `OncePerKey` | 202,552 |
| `knowledge_search` | one of: a document and a note under 2 tasks, 1 change of the model and 1 crash; 2 documents and 2 builders; the graph of 2 documents with 3 entities; a search over 3 chunks and a note | a served index is complete and of one model, nothing is stranded, the graph is consistent and covered by communities, a graph rebuild restores the summaries, citations were citable, fusion and governance order them | 341,938 |
| `app_services` | one of: 2 questions; 2 desks and 1 answer; 3 calls of 2 processes; 5 requests of 2 processes on a quota of 1; 2 tags; 2 members; 2 web pages and 2 checkers | the properties of the seven services (section 5 lists those proved) | 166,710 |
| `queue_exclusive_violation` | 2 workers, 1 crash | a job is executed twice at once | |
| `queue_archive_violation` | 1 worker, archives | an archived document is brought back | |
| `index_overlap_violation` | the index part, 1 document, 1 rebuild, the model changes meanwhile | an indexed document is served with vectors of an old model | |
| `agent_bypass_violation` | 1 write run, 1 crash, 1 resume | a resumed write run completes with its proposal pending | |

*Two runs hold several independent modules.* `MCKnowledge` and `MCServices` pick a `part`
or `service` in the initial state, and only its module takes steps. The modules share
no variable, so this checks each one exactly as a run of its own would; the properties
of the others hold in their initial states.

*What the properties of `agent_approvals` say of disturbed runs.* The code lets a
proposal be decided before its run has paused (it is committed before the approval node)
and a run be resumed while it is being executed. `RetrievalsBounded` counts the retrievals
really carried out, also those of executors that died before their checkpoint or that
repeat each other's steps: `MaxSteps`, and `MaxSteps - 1` more for every resume.
`WaitsForDecision`: a run that waits has a pending proposal unless a decision on it was
begun before the pause; then `approval_node` overwrites the state the decision left
(`agent_runtime_service.py:492`), and the run waits for ever. `CompletedUnlessDisturbed`:
a completed run stays completed except in that case and after two executors worked on it.
`WritesStopUnlessResumed`: a completed run has nothing pending unless it was resumed,
since `resume_run` skips the approval node (line 225, `agent_bypass_violation`). So these
three say exactly which disturbances the code does not survive, and that it survives all
others: crashes at any step, resumes one after the other, expiry, racing decisions,
clashes of checkpoint numbers.

*What the properties of `knowledge_search` and `app_services` say.*
`ServedIndexComplete`: while search is served every indexed document and every note has
vectors of the configured revision and model. `NoStrandedDocument`: no failure or
overlap leaves a document in processing with nobody processing it. `GraphConsistent`:
counts equal mentions and no relation dangles. `CommunitiesCoverGraph`: each entity is
in exactly one community, which is its connected component if union-find made it, and
keeps the chunks about its members, the first ones if they do not all fit; the community
of the whole reaches every chunk unless it or every community of the chunk is full.
`RebuildRestoresCoverage`: a graph rebuild that runs alone opens the graph only with a
summary for every indexed document. `CitedWasCitable`: what is cited was indexed, and in
force, at some moment of the search. `RoutesAgree`: a candidate that precedes another in
every route precedes it in the fusion. `GovernedOrder`: doubtful evidence does not
precede evidence that is no worse. `AnswersAgree`: message, run, event, bad case and
stream tell one story. `CitationsResolve`: a citation number means the same source in
the prompt and in the answer. `LearnedFromReviewed`, `QueueFollowsFeedback`: one answer
teaches at most one note, from a decided triage; happy users do not wait in the queue.
`TagDecisionsStand`: an approval is never turned into a rejection, nor the reverse.
`OwnerGoesOnlyOvertaken`: the last active owner goes only on SQLite, by an update that
another change of the owners overtook. `SlotsBounded`: calls on slots of Redis are no
more than its limit, those that outlived their lease left out, and the calls of one
process are no more in any case. `QuotaKept`: while a window lasts Redis lets through at
most the limit, and each process that counts when the key is gone one more; the memory
of a process at most the limit. `VerdictIsWhole`: state and details of a page are of one
check unless the last one wrote over a row it had not read. `BuildingSettles`,
`GraphSettles`, `EveryAnswerSettles`, `SlotsComeBack`, `ClaimsSettle` are the liveness
of index builds, graph builds, streams, slots and claims.

*Bounds.* Two documents (`queue_pool`) exercise a reclaim of several rows and two
threads with different jobs; the races are between actors on one job, so the other queue
instances have one document and two of the actors that race. Two attempts are the least
for which "an attempt is left" and "the last attempt" differ. One crash strands one
lease; a second in `queue_quiet` also kills the recovery. Three generations name the
chunk rows of two executions and one being deleted (a name is reused once nothing refers
to it, so the set never runs out in these runs). For runs, two executors and two resumes
give an executor and two successors of it in every order; two deciders give every pair
of approve, reject and expire; a second proposal is there so that a run *could* make
two. Three requests for a key are the least in which one is cleaned up, one reserves and
one clashes. In `knowledge_search`, three tasks by two requests give a rebuild or
rechunk, one that overlaps it and one that follows both; four builds give two
overlapping ones and a repair after them; six extractions give an empty chunk, a single
entity, a chain, a join of two components, a relation whose end is not among the
entities (and is dropped) and one too weak to join; the search has two documents that
may replace each other, two chunks that are neighbours, and a note. In `app_services`,
four findings give an empty result, one that fits, one that is cut and one whose second
item is left out; three calls with one slot give one working, one waiting and one in
another process; two windows and five requests of two processes on a quota of 1 give a
key that is made, filled, expires, and is made again by a process that counts late, and
a failover; two members with two requests at a time are the least that can demote each
other, and two checks of one page the least that can mix; six visits and four tag
requests give two complete reviews with an intruder. `GroupCap = 1` and `WholeCap = 2`
stand for 80 and 120: among the graphs of three chunks are communities that fit and that
are cut, and, where Louvain puts three entities apart, a community of the whole that is
cut; the proofs leave both caps open. In `agent_approvals` `MaxSteps = 3` and two
crashes let an executor lose a retrieval, its successor lose another, and a third
finish. `MaxCrashes`, `MaxRetries`, `MaxResumes`, `MaxSteps`, `MaxAttempts`,
`MaxChanges`, `MaxTasks`, `MaxWrites`, `MaxBuilds`, `MaxDeaths`, `MaxEdits`,
`MaxVisits`, `MaxWindow`, `MaxHits`, `MaxTagRequests`, `MaxAccess`, `MaxChecks` and
`MaxCheckDeaths` are constants and appear in the guards; the proofs do not depend on
their values. `idempotency_races` uses symmetry in the requests, which is sound because
no definition names one and no liveness is checked there; no other run uses symmetry.

*Deadlock checking* is off: with every job, run or request finished and the bounds
used up the models stop.

*Fairness.* `IngestionQueue!Fairness` is weak fairness of a worker's poll loop
(`main` in `workers/polling.py` loops for ever), of each pool thread, of the restart
of a worker (process supervision), and of the clock (leases and backoffs run out).
`AgentRuntime!FairSpec` is weak fairness of each thread that executes a graph. In
`knowledge_search` each task, job and builder at work goes on. In `app_services` the
thread of a request goes on (`ServerStep`, `CallStep`, `CheckStep`), a lease ends
(`EndLease`) and a verdict gets old (`GrowOld`): time passes. The only strong
fairness is that of claiming a page that is due again and again: the worker loops for
ever, but a page stops being due when someone asks for it, and a batch may be full of
others. Nothing is assumed of clients, imports, failures or crashes. In `queue_rivals`
executions are shorter than the lease; with longer ones two workers can expire,
reclaim and claim one job for ever before it starts.

## 5. Proofs

Every theorem is proved for all values of the constants, with no assumption other
than the named `ASSUME`s and those listed here.

`IngestionQueueProofs`
- `Typing`: `TypeOK` is inductive by itself.
- `IndexedDocumentsHaveChunks`: `IndexedHasChunks` holds under every interleaving
  and every deployment. With `TypeOK` it is inductive: only `RunSucceed` makes a
  document indexed and it inserts a generation; only `ArchiveCommit` and `RunSucceed`
  delete chunks and both rewrite the status.
- `QueueInvariant`, `ExecutionsDoNotOverlap`, `AttemptsStayBounded` assume
  `OneTimelyWorker`: one polling process, no background tasks, executions shorter than
  the lease, no retries in flight. `ExclusiveExecution` is not inductive: a second
  execution needs a claim, a claim needs the row back in a claimable state. `HandedOver`
  says that a job given to a thread is out of reach of the claim loop, of a stale
  reclaim and of lease expiry; `AttemptsCounted` that whoever will write the row has
  seen its current attempts and that an attempt is left whenever the job can run.
  The counterexample of `queue_exclusive_violation` shows that the assumption is needed.
- `RunningJobsAreOwned`, `JobsAndDocumentsAgree`, `QueueRefinement` assume `Quiet`, the
  deployment of `queue_quiet`: `OneTimelyWorker` and no requests about documents once
  imported (an archive breaks the agreement of job and document, as
  `queue_archive_violation` shows, and a retry has no place in `JobLifecycle`). On top of
  `QueueInv`, `QuietInv` has three parts: the pair of rows of each document is one of the
  few `Story` lists (`RowsAgree`); what each thread has read is what the rows hold, at
  every line of `run_job` and of its failure handler (`SlotsHold`); and a reclaim still
  sees the current rows (`ReclaimsCurrent`), so that its commit, one write of the model,
  is one return of all its jobs in `JobLifecycle`. Crashes are unrestricted.

`AgentRuntimeProofs`
- `ApprovalInvariant` (assuming `RowLocks`): `DecisionsExclude` makes
  `WrittenIffApproved` inductive; while a decision is in progress the proposal is
  pending and no other decision holds it.
- `ApprovalRefinement` (assuming `RowLocks`): every step is a `Propose`, `Approve`,
  `Dismiss` or stutter of `WriteApproval`.
- `ProposalInvariant`, `OneProposal`, no assumption. The invariant follows the
  `tool_arguments` in the context: whoever still has them may propose, at most one
  executor of a run does, and checkpoints never contain them (`_safe_state`), so no
  resume can propose again.
- The next four are about `AgentHistory`; `HistoryIsObserved` says that its behaviours
  are those of `AgentRuntime`. None of them restricts crashes, clashes, expiry, early
  decisions or concurrent executors.
- `WaitingCanBeDecided`, no assumption: `WaitsForDecision`. `PathInv` says which path
  through the graph each kind of run is on, also from a checkpoint. `WaitInv`: only one
  executor of a run, the original one, can pause it; until it does so nothing is decided
  on the run, unless early; and a decision that found the run waiting sees to it that it
  stops waiting.
- `WritesStop`, no assumption: `WritesStopUnlessResumed`. `StopInv`: without a resume the
  executor still has the arguments of the request, and comes to the approval node before
  it can finish.
- `CompletedStays` (assuming `RowLocks`): `CompletedUnlessDisturbed`. `SettledInv`:
  outside the two exceptions a run has one executor, which is past its last write once
  the run waits or is completed, and decisions are in progress only while it waits. The
  property alone is not inductive: a write that an executor has still to make is no part
  of the rows.
- `RetrievalBounded` (assuming finitely many executors): `RetrievalsBounded`. `BudgetInv`
  gives each executor at work on a plan the retrievals it has left as tokens
  (`Tokens`); what has been retrieved and the tokens together stay within the bound: a
  retrieval spends one, a resume adds `MaxSteps - 1` at most, because the first retrieval
  is never repeated, and a death only takes tokens away. `StepsCounted` says an executor
  about to retrieve, and a checkpoint that resumes there, has a step left.

`IdempotencyProofs`
- `KeysInvariant`: `IdempotencyInv`, in ten named conjuncts. `CompletedIffApplied`
  rests on `OwnersHaveReserved` and `RefusedIsNotApplied`; `DeletionsAreExpired`, that
  at most one transaction holds the row locks of a purge, is why the purge cannot
  deadlock with itself.
- `PromiseRefinement`: reserving forgets the expired keys, the commit is `Apply`,
  replay and response are `Answer`, the end of the retention is `Age`.

`IndexProofs`
- `ServedIndexIsComplete` (assuming `~ConfigOverlaps`: the model is changed when no
  ingestion, note, rebuild or rechunk is at work, and nothing starts before the change is
  saved). `IndexInv`: while the published revision is the configured one, every vector
  that a search would read is current, and whoever is at work holds the configured model
  and revision and will replace what is not current (`JobHolds`, `WriterHolds`,
  `TaskHolds`). `ServedIndexComplete` alone is not inductive, because a rebuild publishes
  the index in a later transaction than the one that writes its vectors: `TaskHolds` says
  of that moment that everything is already `Covered`. `index_overlap_violation` shows
  that the assumption is needed.
- `NoDocumentIsStranded`, no assumption. `ProcessedInv`: a document in processing has a
  job at work or a rechunk that *will settle it*, one that has not read its list yet or
  has the document on it. The theorem rests on the list being read from the documents in
  processing too, and on a failure settling all of them.
- `RebuildCovers` (assuming `"graph" \in AloneKinds`: graph rebuilds are run when no other
  builder is at work; it says nothing of the builders before it). `RebuildInv`: while a
  graph rebuild is at work it is the only one, so the revision and the documents it
  loaded, and the keys and summaries it took later, are still those that are committed.

`GraphProofs`, from `GraphAssumption` (chunks belong to one document, a document has
finitely many, and an extractor finds finitely many entities and relations in one;
entities are numbers, in the order of their ids)
- `GraphStaysConsistent`. `GraphInv` adds that each entity has finitely many
  mentions, without which `Cardinality` says nothing; `CountOfUnion` adds the counts of
  the kept and the fresh mentions, `RecountedCounts` says that counting again keeps
  exactly the entities still mentioned.
- `CommunitiesAlwaysCover`. The definitions of `Root` and `Components` are recursive
  functions, so first that they define something: a parent is never larger than its
  child (`Forests`), hence partial solutions of the recursion agree (`RootsAgree`),
  exist (`RootsExist`) and make up a total one (`RootIs`); both by the least
  counterexample, which stands in for the induction the prover lacks. `HungRoots` says
  what hanging one root under a smaller one does to the root of every node, whence one
  step of the union-find (`UnionRoots`). Along the relations, ends that were joined keep
  a common root (`JoinedMeet`), and nodes with a common root are in the same closed sets
  (`JoinedStay`); `OrdersGoThrough` says that a sequence of a finite set visits all of
  it. So a group is what its members are connected to, whatever the order
  (`ComponentsConnect`). Groups, of the baseline or of Louvain, are a partition
  (`GroupsPart`), and with relations that never outlive their mentions, which is
  `GraphConsistent`, the drafts reach every chunk that a cap does not cut off
  (`DraftsCover`); `FirstAre` says what the first of a finite set of numbers are: all of
  it, or as many as the cap with no smaller one left out. `GraphFinite` adds that
  mentions and relations are finite.

`RetrievalProofs`, from `RetrievalAssumption`
- `RetrievalInvariant`: `SearchInv`. `WitnessInv`: what is indexed or in force now has
  been witnessed by the search at work. `VariantsInv` and `RoutesInv`: each ranking is of
  distinct chunks the search could reach, no longer than its cut, and the evidence fused
  so far is sorted, scored at least 401 and agrees with every route that went into it.
  `CitedInv`: what governance let pass is citable, was fused, and without a reranker
  carries its fused score plus the gain of its trust and minus one penalty, in order of
  that score (`Priced`). None of the three properties is inductive by itself: they speak
  of the end of a search whose steps read the documents at different moments.
- `CitationsWereCitable`, from `WitnessInv` and `CitedInv`.
- `FusionKeepsAgreement`. A candidate that precedes another in each list gets at least
  its contribution from each, and a larger one from some; the sums are recursive
  functions over the lists, compared place by place. Integer division could make the two
  contributions or the two normalised scores equal, or a score small enough to be lost at
  the cut: that it does not rests on the limits of the code, at most 8 rankings of 100
  places, or two of 300. Far beyond them the model's whole numbers, which are coarser
  than the program's floating point, could no longer tell two ranks apart.
- `GovernanceOrdersEvidence`. A score is at least 401 and at most `Top`, the adjustments
  between -2400 and +600, so the clamp to `0 .. Top` can hide a difference, but a score
  without a penalty is never zero: what is penalised and still no lower was scored
  higher by the fusion (`PenaltyShows`).
- Lemmas about the operators: `SortedBy` has each member of a finite set at one place, in
  order, since the places are an injection between sets of one size (`SortedByOrders`); a
  recursive sum is monotone in its terms; quotients of numbers that differ enough differ.

`ReviewProofs`
- `TagDecisionsHold`, assuming that `FOR UPDATE` locks (PostgreSQL). `TagInv`: an
  assignment under review is pending and has one reviewer. A decided row is written by
  nobody, because a review starts from a pending row that is locked and a proposal from
  a row that is not there.
- `LearningIsReviewed`, `QueueFollows`, under the same assumption. `FeedbackInv`: the
  locks of two requests are disjoint (`Exclusive`), and what a request has read of the
  rows it locked is what it will find when it writes (`VisitHolds`). The second part
  fails for rows that did not exist when they were looked for, which is why it says of
  those only what the unique constraint gives.
- `OwnerGoesOvertaken`, no assumption. `UpdateInv`: an update that takes an active owner
  away has counted another one when it read (`UpdateHolds`), and on PostgreSQL none is
  under way at all. So if the owners it finds are still those it read, one remains;
  section 6 describes the other case.

`ServiceProofs`
- `AnswersTellOneStory`, no assumption. `AnswerInv`: where a request stands determines
  what its rows say; each of the failures and the abandoned stream keeps that.
- `CitationsAlwaysResolve`, from `ConversationAssumption` (findings are sequences of
  `Evidence`). `GroundingIsPrefix`: what fits the context budget is a beginning of what
  was found, one by one the same documents, however the last item is cut; so a number the
  model cites has the same meaning in the snapshot the client gets.
- `VerdictsAreWhole`, no assumption. `SourceInv`: a page is torn or its verdict is whole.
  A check that finds the row as it had read it writes one whole verdict, since the columns
  it leaves out are those that are already there; a claim or a request replaces all of
  them; nothing else writes a verdict.
- `GateHolds`, no assumption: leases may end at any time. `GateInv`: a call that was
  given a slot holds it until it is over or has outlived its lease, and neither the slots
  nor the calls at work in a process are ever more than the limit.
- `QuotaIsKept`, no assumption beyond those of section 3. `LimitInv`: a key stays until
  its expiry is set (`KeyHolds`); while the window lasts the counter covers what was let
  through (`InTimeHolds`); afterwards what was let through and the processes still about to
  count are together at most the limit and the number of processes (`LateHolds`), because
  nobody reads the clock into a window that is over; and a process keeps the counters
  in memory of every window it can still count in (`MemoryHolds`). `RateLimitAssumption`
  says that the processes are finitely many and none is called as Redis is, and that
  there is a window.

The other invariants that these rest on (`AttemptsBounded`, `OneProposalPerRun`,
`CompletedIffApplied`, `NoOrphanedReservation`, `AnswersAreApplied`, `StepsCounted`) are
conjuncts of the proved ones or of their inductive invariants.

*Only model-checked:*
- all liveness (`EveryImportSettles`, `EveryRunSettles`, `EveryAnswerSettles`,
  `SlotsComeBack`, `ClaimsSettle`, `BuildingSettles`, `GraphSettles`): liveness under
  fairness and `ENABLED` are outside what the prover does.

Every other property of a passing run is the conclusion of a theorem above.

## 6. Disagreements with the documentation

With a run (`PROJECT.json`, findings):
- Two polling processes that have read the same expired lease: the second commit of
  `reclaim_stale_jobs` undoes the claim that followed the first, and the job is
  executed twice at once. The selection takes no lock and the commit does not look
  again.
- `archive_document` neither refuses nor cancels a job that is claimed, so the worker
  that holds it sets the archived document to processing and indexed.
- `run_job` reads the model and, later, the embedding revision, and commits later
  still; a change of the model and a rebuild in between leave a document indexed with
  old vectors while the index is served (`index_overlap_violation`).
- `resume_run` maps a `retrieve` checkpoint to `assess` even when a proposal was made:
  a write run that dies before its approval node completes with the proposal pending.

Seen with the same modules and other constants, and stated as definitions there:
- `OneGeneration`: two overlapping executions leave the chunks of both
  (`replace_chunks` deletes what was committed before it).
- `AttemptsBounded` with two polling processes: a reclaim that read an older
  `attempts` puts a job on its last attempt back to failed.
- `Unreclaimable`: a retry that commits between a claim and the start of the execution
  leaves half of the lease columns reset, and a row that is claimed with `locked_at`
  NULL is never reclaimed. `EveryImportSettles` leaves that case out.
- `OwnerRemains` with the constants of `app_services`: docs/01-product-requirements.md:85
  says “系统必须防止停用或降级最后一名 active owner”. On SQLite, the default database, two
  owners are demoted at once, each counting the other, and the workspace is left without
  one. On PostgreSQL a count with `FOR UPDATE` is rejected, so there an active owner
  cannot be demoted at all.
- The `early` runs of `WaitsForDecision`: the approval node overwrites the `completed` of
  an approval that came first; such a run is `awaiting_approval` with nothing to approve.
- `WrittenIffApproved` with `RowLocks = FALSE`: on SQLite two approvals can both pass
  the state check.
- `EveryRunSettles` with `ResumeBusy = TRUE` and two executors of one run: after a clash
  of checkpoint numbers the session cannot record the failure and the run stays
  `running` (it can be resumed).
- The `torn` pages of `VerdictIsWhole`: two checks of one page each leave out the columns
  that equal what they read, and the row mixes both.
- The `outlived` calls of `SlotsBounded`: the wait for the semaphore of the process is not
  counted in the lease (`model_resilience.py:102-117`), so a slot can be given away under
  a call.
- The requests over the limit that `QuotaKept` allows after a window: a process that was
  stopped between reading the clock and `INCR` finds the key expired and begins again.
- `IndexedHasChunks` and `EveryImportSettles` with `RunsOutliveLease = TRUE`: the first
  still holds, the second fails, since `run_job` never renews its lease.
- `DoubtsComeLater` with a reranker: its score replaces the adjustment for governance.
- `SummariesCoverIndexed` while the graph is ready, with the constants of
  `knowledge_search`: two ingestions overlap, and an archive overlaps the second of them.
  Each writes the revision after the one it read and deletes what it saw, and an indexed
  document is left without summary under the current revision.

Seen while reading, outside what a property says:
- `resume_run` maps a checkpoint of `route` to a start node `plan` that the graph does
  not have; such a resume always fails.
- In background mode nothing reclaims a lease, so a job that is running when the API
  process dies stays running and `retry_document` refuses it.
- The latency budget of a resumed run subtracts a `perf_counter` of another process.
- A proposal that expires leaves its tool call `awaiting_approval`.
- `expected_version` of notes, mind maps and governance is compared with a row that is
  not locked; two edits of one version both succeed and the first is lost.
- A rechunk never sets the published embedding revision. A crash leaves an index
  building or a document processing, and nothing resumes either.
- A stream that is abandoned leaves its message streaming and its run running:
  `GeneratorExit` passes both except clauses. A conversation that is archived during a
  search still gets the messages.
- A page that was marked pending by a user has no time; if its task is lost, the worker
  never claims it.
- The limiter gives every process a fresh quota when Redis fails, and an `INCR` without
  its `EXPIRE` leaves a counter for ever; a streaming call takes no Redis slot.
- A resolved triage is not opened again by unhelpful feedback; evidence left out as a
  whole is not counted as truncated; in PostgreSQL the metadata boost does not change
  the order; the governance filter runs after the list was cut.

## 7. Not modelled

Components: mind maps (one row under a version check that takes no lock, read by nobody
else); evaluation scripts (batch programs over files); metrics and spans; web fetching
and parsing (its outcome is the free failure of `run_job`); migrations; the frontend.

Within the modelled components: the content of documents, answers, summaries and plans;
what an approved action does to notes and documents beyond being one write that may be
refused; audit events and tool calls, which nothing reads back; the order in which one
DELETE locks its rows; titles and renaming of conversations and the listing of anything;
the roles that feedback and access routes require before they read; the versions of
notes; the arithmetic of embeddings and of text matching, whose results are free scores;
the caches of `app/rag/cache.py`, which hold what the stage they front would compute.
Settings that only switch a component off are taken to be on. Tenancy (row-level
security) is not modelled: each module is one workspace.
