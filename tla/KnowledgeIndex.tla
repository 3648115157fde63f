--------------------------- MODULE KnowledgeIndex ---------------------------
(***************************************************************************)
(* The vector index of one knowledge base.                                 *)
(*                                                                         *)
(* A workspace configuration names an embedding model and counts its       *)
(* changes in embedding_revision.  Every vector is tagged with a revision. *)
(* Search is refused unless the index is "ready" and was published at the  *)
(* configured revision; one that is served reads only the vectors tagged   *)
(* with it.  Five kinds of work write concurrently, each reading the       *)
(* configuration at one moment and committing vectors at a later one, with *)
(* calls to the models in between: ingestion of a document, a note write,  *)
(* a rebuild of all vectors, a new split of all documents (rechunk), and   *)
(* the archiving of a document.                                            *)
(*                                                                         *)
(* Transactions are those of PostgreSQL at READ COMMITTED.  The knowledge  *)
(* base is never archived here, and a document's queue, its lease and its  *)
(* attempts are those of module IngestionQueue.                            *)
(***************************************************************************)
EXTENDS Naturals, FiniteSets

CONSTANTS
    Docs, Notes,        \* the assets of the knowledge base
    Tasks,              \* requests that may rebuild or rechunk at one time
    Updaters,           \* requests that may change the configuration at one time
    ConfigOverlaps,     \* may the model change while vectors are being written?
    MaxChanges, MaxTasks, MaxWrites, MaxCrashes     \* bounds of a run

ASSUME IndexAssumption ==
    /\ ConfigOverlaps \in BOOLEAN
    /\ {MaxChanges, MaxTasks, MaxWrites, MaxCrashes} \subseteq Nat

VARIABLES
    config,     \* the configured model and its revision
    draft,      \* updater -> the revision it has read, 0 when it does nothing
    kb,         \* index_status and embedding_revision of the knowledge base
    doc,        \* document -> status
    vectors,    \* document -> its committed sets of chunks with their vectors
    job,        \* document -> its ingestion job
    note,       \* note -> its text and the vector stored for it
    writer,     \* note -> the request that is writing it
    task,       \* task -> the rebuild or rechunk at work
    used        \* how much of each bound is used

indexVars == <<config, draft, kb, doc, vectors, job, note, writer, task, used>>

Revisions == 1 .. (MaxChanges + 1)
\* The chunks of a document all come from one writer and carry one vector each.
ChunkSets == [by : {"ingest", "rechunk"}, tag : Revisions, model : Revisions]
DocStates == {"queued", "processing", "indexed", "failed", "archived"}
IndexStates == {"ready", "building", "stale"}

-----------------------------------------------------------------------------
(* Initial state: documents and notes are still to come.                   *)

NoJob == [state |-> "queued", replaced |-> {}, model |-> 1, tag |-> 1]
NoTask == [step |-> "idle", kind |-> "rebuild", loaded |-> 1, tag |-> 1, model |-> 1,
           docs |-> [d \in Docs |-> {}], texts |-> [n \in Notes |-> 0]]
NoWrite == [text |-> 0, tag |-> 1, model |-> 1]

IndexInit ==
    /\ config = [rev |-> 1, model |-> 1]
    /\ draft = [u \in Updaters |-> 0]
    /\ kb = [status |-> "ready", rev |-> 1]
    /\ doc = [d \in Docs |-> "queued"]
    /\ vectors = [d \in Docs |-> {}]
    /\ job = [d \in Docs |-> NoJob]
    /\ note = [n \in Notes |-> [text |-> 0, of |-> 0, tag |-> 1, model |-> 1]]
    /\ writer = [n \in Notes |-> NoWrite]
    /\ task = [t \in Tasks |-> NoTask]
    /\ used = [changes |-> 0, tasks |-> 0, writes |-> 0, crashes |-> 0]

Running(d) == job[d].state \in {"started", "replaced", "tagged"}
NoUpdate == \A u \in Updaters : draft[u] = 0
NoWriterAtWork ==
    /\ \A d \in Docs : ~Running(d)
    /\ \A n \in Notes : writer[n].text = 0
    /\ \A t \in Tasks : task[t].step = "idle"
\* When ConfigOverlaps is FALSE the operators change the model only in quiet
\* moments, one at a time, and nothing starts until the change is saved.
MayWork == ConfigOverlaps \/ NoUpdate
MayChange == ConfigOverlaps \/ (NoUpdate /\ NoWriterAtWork)

Count(name) == used' = [used EXCEPT ![name] = @ + 1]

-----------------------------------------------------------------------------
(* The configuration.                                                      *)

\* update() reads the configuration, without a lock, ...
ReadConfig(u) ==
    /\ draft[u] = 0
    /\ MayChange
    /\ used.changes < MaxChanges
    /\ draft' = [draft EXCEPT ![u] = config.rev]
    /\ Count("changes")
    /\ UNCHANGED <<config, kb, doc, vectors, job, note, writer, task>>

\* ... and saves another model under the next revision, with every knowledge
\* base stale.  Models are named by the order in which they are saved.
ChangeModel(u) ==
    /\ draft[u] # 0
    /\ config' = [rev |-> draft[u] + 1, model |-> config.model + 1]
    /\ draft' = [draft EXCEPT ![u] = 0]
    /\ kb' = [kb EXCEPT !.status = "stale"]
    /\ UNCHANGED <<doc, vectors, job, note, writer, task, used>>

\* An update that leaves the embedding identity as it is (other models, keys)
\* bumps nothing: it is a step that changes none of these variables.

-----------------------------------------------------------------------------
(* rebuild_embeddings: re-embed the chunks and the notes that exist.       *)

\* The request reads the knowledge base and the revision, whatever the status is.
StartRebuild(t) ==
    /\ task[t].step = "idle"
    /\ MayWork
    /\ used.tasks < MaxTasks
    /\ task' = [task EXCEPT ![t] =
                  [NoTask EXCEPT !.step = "started", !.loaded = kb.rev, !.tag = config.rev]]
    /\ kb' = [kb EXCEPT !.status = "building"]
    /\ Count("tasks")
    /\ UNCHANGED <<config, draft, doc, vectors, job, note, writer>>

\* The model settings, then the indexed documents with their chunks and the notes.
ReadForRebuild(t) ==
    /\ task[t].step = "started" /\ task[t].kind = "rebuild"
    /\ task' = [task EXCEPT ![t].step = "embedding",
                            ![t].model = config.model,
                            ![t].docs = [d \in Docs |-> IF doc[d] = "indexed" THEN vectors[d] ELSE {}],
                            ![t].texts = [n \in Notes |-> note[n].text]]
    /\ UNCHANGED <<config, draft, kb, doc, vectors, job, note, writer, used>>

\* Rows that an open transaction has deleted make the next writer of them wait.
Locked(d, rows) == Running(d) /\ job[d].replaced \cap rows # {}

Retagged(t, rows) == {[c EXCEPT !.tag = task[t].tag, !.model = task[t].model] : c \in rows}

\* Mutant: the rebuild re-embeds the documents and forgets the notes.
RebuiltNotes_DocsOnly(t) == note
RebuiltNotes(t) ==
    [n \in Notes |->
        IF task[t].texts[n] = 0 THEN note[n]
        ELSE [text |-> note[n].text, of |-> task[t].texts[n],
              tag |-> task[t].tag, model |-> task[t].model]]

\* The vectors are committed first.  A chunk that is gone by now fails the
\* foreign key of its vector and with it the whole rebuild.
WriteRebuilt(t) ==
    /\ task[t].step = "embedding" /\ task[t].kind = "rebuild"
    /\ \A d \in Docs : /\ ~Locked(d, task[t].docs[d])
                       /\ task[t].docs[d] \subseteq vectors[d]
    /\ vectors' = [d \in Docs |-> (vectors[d] \ task[t].docs[d]) \cup Retagged(t, task[t].docs[d])]
    /\ note' = RebuiltNotes(t)
    /\ task' = [task EXCEPT ![t].step = "written"]
    /\ UNCHANGED <<config, draft, kb, doc, job, writer, used>>

\* The session writes embedding_revision only if it differs from the value it
\* loaded when the request began, as SQLAlchemy does for every column.
\* Mutant: the index is published at the revision it had before.
Published_Loaded(t) == [status |-> "ready", rev |-> kb.rev]
Published(t) ==
    [status |-> "ready",
     rev |-> IF task[t].tag # task[t].loaded THEN task[t].tag ELSE kb.rev]

PublishRebuilt(t) ==
    /\ task[t].step = "written"
    /\ kb' = Published(t)
    /\ task' = [task EXCEPT ![t] = NoTask]
    /\ UNCHANGED <<config, draft, doc, vectors, job, note, writer, used>>

\* Anything raised on the way leaves the index stale.
FailRebuild(t) ==
    /\ task[t].step \in {"started", "embedding"} /\ task[t].kind = "rebuild"
    /\ kb' = [kb EXCEPT !.status = "stale"]
    /\ task' = [task EXCEPT ![t] = NoTask]
    /\ UNCHANGED <<config, draft, doc, vectors, job, note, writer, used>>

-----------------------------------------------------------------------------
(* rechunk_knowledge_base: split and embed every document again.           *)

StartRechunk(t) ==
    /\ task[t].step = "idle"
    /\ MayWork
    /\ used.tasks < MaxTasks
    /\ kb.status # "building"
    /\ doc' = [d \in Docs |-> IF doc[d] = "indexed" THEN "processing" ELSE doc[d]]
    /\ kb' = [kb EXCEPT !.status = "building"]
    /\ task' = [task EXCEPT ![t] = [NoTask EXCEPT !.step = "started", !.kind = "rechunk"]]
    /\ Count("tasks")
    /\ UNCHANGED <<config, draft, vectors, job, note, writer>>

\* Mutant: the background task lists the indexed documents, as the request did.
Rechunkable_Indexed(d) == doc[d] = "indexed"
Rechunkable(d) == doc[d] \in {"indexed", "processing"}

ReadForRechunk(t) ==
    /\ task[t].step = "started" /\ task[t].kind = "rechunk"
    /\ task' = [task EXCEPT ![t].step = "embedding",
                            ![t].model = config.model,
                            ![t].tag = config.rev,
                            ![t].docs = [d \in Docs |->
                                IF Rechunkable(d)
                                THEN {[by |-> "rechunk", tag |-> config.rev, model |-> config.model]}
                                ELSE {}]]
    /\ UNCHANGED <<config, draft, kb, doc, vectors, job, note, writer, used>>

Listed(t) == {d \in Docs : task[t].docs[d] # {}}

\* Mutant: a rechunk publishes the index at its revision, although it has
\* embedded no note and no document that was not listed.
Rechunked_Published(t) == [status |-> "ready", rev |-> task[t].tag]
Rechunked(t) == [kb EXCEPT !.status = "ready"]

\* One transaction replaces the chunks of all listed documents, whatever has
\* become of them since, and opens the index at the revision it already had.
WriteRechunked(t) ==
    /\ task[t].step = "embedding" /\ task[t].kind = "rechunk"
    /\ \A d \in Listed(t) : ~Locked(d, vectors[d])
    /\ vectors' = [d \in Docs |-> IF d \in Listed(t) THEN task[t].docs[d] ELSE vectors[d]]
    /\ doc' = [d \in Docs |-> IF d \in Listed(t) THEN "indexed" ELSE doc[d]]
    /\ kb' = Rechunked(t)
    /\ task' = [task EXCEPT ![t] = NoTask]
    /\ UNCHANGED <<config, draft, job, note, writer, used>>

\* Mutant: the failure handler forgets the documents.
Unprocessed_Kept == doc
Unprocessed == [d \in Docs |-> IF doc[d] = "processing" THEN "failed" ELSE doc[d]]
\* Mutant: the failure handler leaves the index in "building".
Reopened_Building == kb
Reopened == [kb EXCEPT !.status = "stale"]

\* mark_rechunk_failed: every document in "processing" is failed, those that a
\* worker is ingesting too.
FailRechunk(t) ==
    /\ task[t].step \in {"started", "embedding"} /\ task[t].kind = "rechunk"
    /\ kb' = Reopened
    /\ doc' = Unprocessed
    /\ task' = [task EXCEPT ![t] = NoTask]
    /\ UNCHANGED <<config, draft, vectors, job, note, writer, used>>

\* The process dies: nothing is undone, and nobody takes the work up.
CrashTask(t) ==
    /\ task[t].step # "idle"
    /\ used.crashes < MaxCrashes
    /\ task' = [task EXCEPT ![t] = NoTask]
    /\ Count("crashes")
    /\ UNCHANGED <<config, draft, kb, doc, vectors, job, note, writer>>

-----------------------------------------------------------------------------
(* run_job, as far as the index sees it.                                   *)

StartJob(d) ==
    /\ MayWork
    /\ job[d].state \in {"queued", "failed"}
    /\ doc[d] # "archived"
    /\ job' = [job EXCEPT ![d] = [NoJob EXCEPT !.state = "started"]]
    /\ doc' = [doc EXCEPT ![d] = "processing"]
    /\ UNCHANGED <<config, draft, kb, vectors, note, writer, task, used>>

\* The old chunks are deleted in the open transaction; the settings are read.
ReplaceChunks(d) ==
    /\ job[d].state = "started"
    /\ job' = [job EXCEPT ![d].state = "replaced",
                          ![d].replaced = vectors[d],
                          ![d].model = config.model]
    /\ UNCHANGED <<config, draft, kb, doc, vectors, note, writer, task, used>>

\* After the graph extraction, which may call a model for every chunk, the
\* revision is read for the tag of vectors that the earlier settings compute.
ReadRevision(d) ==
    /\ job[d].state = "replaced"
    /\ job' = [job EXCEPT ![d].state = "tagged", ![d].tag = config.rev]
    /\ UNCHANGED <<config, draft, kb, doc, vectors, note, writer, task, used>>

\* Mutant: vectors are always tagged with the first revision, the default of
\* index_document's parameter.
Embedded_Default(d) == [by |-> "ingest", tag |-> 1, model |-> job[d].model]
Embedded(d) == [by |-> "ingest", tag |-> job[d].tag, model |-> job[d].model]

CommitJob(d) ==
    /\ job[d].state = "tagged"
    /\ vectors' = [vectors EXCEPT ![d] = (@ \ job[d].replaced) \cup {Embedded(d)}]
    /\ doc' = [doc EXCEPT ![d] = "indexed"]
    /\ job' = [job EXCEPT ![d] = [NoJob EXCEPT !.state = "succeeded"]]
    /\ UNCHANGED <<config, draft, kb, note, writer, task, used>>

FailJob(d) ==
    /\ Running(d)
    /\ doc' = [doc EXCEPT ![d] = "failed"]
    /\ job' = [job EXCEPT ![d] = [NoJob EXCEPT !.state = "failed"]]
    /\ UNCHANGED <<config, draft, kb, vectors, note, writer, task, used>>

\* archive_document: refused while the document is being processed.
ArchiveIndexed(d) ==
    /\ doc[d] \notin {"processing", "archived"}
    /\ ~Running(d)
    /\ doc' = [doc EXCEPT ![d] = "archived"]
    /\ vectors' = [vectors EXCEPT ![d] = {}]
    /\ job' = [job EXCEPT ![d].state = IF @ = "succeeded" THEN @ ELSE "cancelled"]
    /\ UNCHANGED <<config, draft, kb, note, writer, task, used>>

-----------------------------------------------------------------------------
(* create_note and update_note.                                            *)

StartNote(n) ==
    /\ MayWork
    /\ writer[n].text = 0
    /\ used.writes < MaxWrites
    /\ writer' = [writer EXCEPT ![n] = [text |-> note[n].text + 1,
                                        tag |-> config.rev, model |-> config.model]]
    /\ Count("writes")
    /\ UNCHANGED <<config, draft, kb, doc, vectors, job, note, task>>

\* The text and its vector are one transaction.
CommitNote(n) ==
    /\ writer[n].text # 0
    /\ note' = [note EXCEPT ![n] = [text |-> writer[n].text, of |-> writer[n].text,
                                    tag |-> writer[n].tag, model |-> writer[n].model]]
    /\ writer' = [writer EXCEPT ![n] = NoWrite]
    /\ UNCHANGED <<config, draft, kb, doc, vectors, job, task, used>>

FailNote(n) ==
    /\ writer[n].text # 0
    /\ writer' = [writer EXCEPT ![n] = NoWrite]
    /\ UNCHANGED <<config, draft, kb, doc, vectors, job, note, task, used>>

-----------------------------------------------------------------------------

TaskStep(t) ==
    \/ ReadForRebuild(t) \/ WriteRebuilt(t) \/ PublishRebuilt(t) \/ FailRebuild(t)
    \/ ReadForRechunk(t) \/ WriteRechunked(t) \/ FailRechunk(t)

JobStep(d) == ReplaceChunks(d) \/ ReadRevision(d) \/ CommitJob(d) \/ FailJob(d)

IndexNext ==
    \/ \E u \in Updaters : ReadConfig(u) \/ ChangeModel(u)
    \/ \E t \in Tasks : StartRebuild(t) \/ StartRechunk(t) \/ CrashTask(t) \/ TaskStep(t)
    \/ \E d \in Docs : StartJob(d) \/ JobStep(d) \/ ArchiveIndexed(d)
    \/ \E n \in Notes : StartNote(n) \/ CommitNote(n) \/ FailNote(n)

\* A thread that has begun a task or a job goes on with it: every call it makes
\* has a time limit.  Nobody is obliged to start one.
IndexFairness ==
    /\ \A t \in Tasks : WF_indexVars(TaskStep(t))
    /\ \A d \in Docs : WF_indexVars(JobStep(d))

IndexSpec == IndexInit /\ [][IndexNext]_indexVars /\ IndexFairness

-----------------------------------------------------------------------------
(* Properties.                                                             *)

TaskRecords ==
    [step : {"idle", "started", "embedding", "written"}, kind : {"rebuild", "rechunk"},
     loaded : Revisions, tag : Revisions, model : Revisions,
     docs : [Docs -> SUBSET ChunkSets], texts : [Notes -> 0 .. MaxWrites]]

\* Every variable has its type.
IndexTypeOK ==
    /\ config \in [rev : Revisions, model : Revisions]
    /\ draft \in [Updaters -> 0 .. MaxChanges]
    /\ kb \in [status : IndexStates, rev : Revisions]
    /\ doc \in [Docs -> DocStates]
    /\ vectors \in [Docs -> SUBSET ChunkSets]
    /\ job \in [Docs -> [state : {"queued", "started", "replaced", "tagged", "succeeded",
                                  "failed", "cancelled"},
                         replaced : SUBSET ChunkSets, model : Revisions, tag : Revisions]]
    /\ note \in [Notes -> [text : 0 .. MaxWrites, of : 0 .. MaxWrites,
                           tag : Revisions, model : Revisions]]
    /\ writer \in [Notes -> [text : 0 .. MaxWrites, tag : Revisions, model : Revisions]]
    /\ task \in [Tasks -> TaskRecords]
    /\ used \in [changes : 0 .. MaxChanges, tasks : 0 .. MaxTasks,
                 writes : 0 .. MaxWrites, crashes : 0 .. MaxCrashes]

\* _search_with_trace serves a query, instead of raising IndexRebuildRequired.
Served == kb.status = "ready" /\ kb.rev = config.rev

Current(v) == v.tag = config.rev /\ v.model = config.model

\* While search is served, every indexed document and every note has vectors
\* that the search reads (they carry the configured revision) and can compare
\* with the query (the configured model computed them), whatever rebuilds,
\* rechunks, ingestions, failures and crashes came before.  This is what
\* index_status and the two revisions are for.
ServedIndexComplete ==
    Served =>
        /\ \A d \in Docs : doc[d] = "indexed" =>
              vectors[d] # {} /\ \A v \in vectors[d] : Current(v)
        /\ \A n \in Notes : note[n].text # 0 => Current(note[n])

Rechunking == \E t \in Tasks : task[t].step # "idle" /\ task[t].kind = "rechunk"

\* A document in "processing" is being processed: by its job, or by a rechunk
\* at work, or else a process has died.  No failure, and no overlap of a rechunk
\* with an ingestion or with a second rechunk, may leave it there: it could be
\* neither searched, nor archived, nor retried.
NoStrandedDocument ==
    \A d \in Docs : doc[d] = "processing" => Running(d) \/ Rechunking \/ used.crashes > 0

\* An index that is being built stops being built, unless a process died:
\* start_rechunk refuses to work for as long as it is.
BuildingSettles ==
    (kb.status = "building" /\ used.crashes = 0)
        ~> (kb.status # "building" \/ used.crashes > 0)
=============================================================================
