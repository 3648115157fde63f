---------------------------- MODULE IndexProofs -----------------------------
(***************************************************************************)
(* What is served by the vector index is complete, no document is left in  *)
(* processing, and a graph rebuild repairs the community summaries, for    *)
(* any number of documents, notes, tasks, builders and changes.            *)
(***************************************************************************)
EXTENDS KnowledgeIndex, CommunityIndex, FiniteSetTheorems, TLAPS

-----------------------------------------------------------------------------
(* The invariant.                                                          *)

Chunks == [by : {"ingest", "rechunk"}, tag : Nat, model : Nat]
JobRows == [state : {"queued", "started", "replaced", "tagged", "succeeded", "failed", "cancelled"},
            replaced : SUBSET Chunks, model : Nat, tag : Nat]
NoteRows == [text : Nat, of : Nat, tag : Nat, model : Nat]
WriterRows == [text : Nat, tag : Nat, model : Nat]
TaskRows == [step : {"idle", "started", "embedding", "written"}, kind : {"rebuild", "rechunk"},
             loaded : Nat, tag : Nat, model : Nat,
             docs : [Docs -> SUBSET Chunks], texts : [Notes -> Nat]]

IndexTypes ==
    /\ config \in [rev : Nat, model : Nat]
    /\ draft \in [Updaters -> Nat]
    /\ kb \in [status : IndexStates, rev : Nat]
    /\ doc \in [Docs -> DocStates]
    /\ vectors \in [Docs -> SUBSET Chunks]
    /\ job \in [Docs -> JobRows]
    /\ note \in [Notes -> NoteRows]
    /\ writer \in [Notes -> WriterRows]
    /\ task \in [Tasks -> TaskRows]

\* The model and its revision move together, and only while nobody else is at work.
UpdatesAlone ==
    /\ config.rev = config.model
    /\ kb.rev <= config.rev
    /\ \A u \in Updaters : draft[u] # 0 =>
          /\ draft[u] = config.rev
          /\ NoWriterAtWork
          /\ \A v \in Updaters : draft[v] # 0 => v = u

\* A vector of these revisions.
Fits(v, rev, model) == v.tag = rev /\ v.model = model

\* Every vector that a search would read is current, but for those a rebuild has read
\* and will replace: docs are the chunks and texts the notes it has read.
Covered(cf, dc, vs, nt, docs, texts) ==
    /\ \A d \in Docs : dc[d] = "indexed" =>
          \A v \in vs[d] : Fits(v, cf.rev, cf.model) \/ v \in docs[d]
    /\ \A n \in Notes : nt[n].text # 0 => Fits(nt[n], cf.rev, cf.model) \/ texts[n] # 0

NoDocs == [d \in Docs |-> {}]
NoTexts == [n \in Notes |-> 0]
AllCurrent == Covered(config, doc, vectors, note, NoDocs, NoTexts)

\* A job at work embeds with the current model, and what it does not delete is current.
JobHolds(d) ==
    /\ job[d].state \in {"replaced", "tagged"} =>
          /\ job[d].model = config.model
          /\ \A v \in vectors[d] \ job[d].replaced : Current(v)
    /\ job[d].state = "tagged" => job[d].tag = config.rev

WriterHolds(n) == writer[n].text # 0 => Fits(writer[n], config.rev, config.model)

\* A rebuild replaces whatever is not current, and a rechunk writes current vectors.
TaskHolds(t) ==
    LET x == task[t]
    IN
    /\ x.step # "idle" /\ x.kind = "rebuild" => x.tag = config.rev
    /\ x.step = "embedding" /\ x.kind = "rebuild" =>
          x.model = config.model /\ Covered(config, doc, vectors, note, x.docs, x.texts)
    /\ x.step = "embedding" /\ x.kind = "rechunk" =>
          \A d \in Docs : \A v \in x.docs[d] : Current(v)
    /\ x.step = "written" => x.kind = "rebuild" /\ AllCurrent

\* An indexed document has chunks.
HasChunks == \A d \in Docs : doc[d] = "indexed" => vectors[d] # {}

IndexInv ==
    /\ IndexTypes
    /\ UpdatesAlone
    /\ HasChunks
    /\ \A d \in Docs : JobHolds(d)
    /\ \A n \in Notes : WriterHolds(n)
    /\ \A t \in Tasks : TaskHolds(t)
    /\ kb.rev = config.rev => AllCurrent

\* A document in processing has a job at work or a rechunk that will settle it.
SettledBy(d, t) ==
    /\ task[t].kind = "rechunk"
    /\ task[t].step = "started" \/ (task[t].step = "embedding" /\ d \in Listed(t))
ProcessedInv ==
    /\ IndexTypes
    /\ \A d \in Docs : doc[d] = "processing" =>
          Running(d) \/ used.crashes # 0 \/ \E t \in Tasks : SettledBy(d, t)
    /\ used.crashes \in Nat /\ DOMAIN used = {"changes", "tasks", "writes", "crashes"}

-----------------------------------------------------------------------------
(* Types.                                                                  *)

LEMMA NullRows ==
    /\ NoDocs \in [Docs -> SUBSET Chunks] /\ NoTexts \in [Notes -> Nat]
    /\ NoTask \in TaskRows /\ NoJob \in JobRows /\ NoWrite \in WriterRows
    /\ NoTask.step = "idle" /\ NoWrite.text = 0 /\ NoJob.state = "queued"
  BY DEF NoDocs, NoTexts, NoTask, NoJob, NoWrite, TaskRows, JobRows, WriterRows

\* What a rebuild makes of chunks.
LEMMA Retags ==
    ASSUME NEW t \in Tasks, task[t].tag \in Nat, task[t].model \in Nat, NEW chunks \in SUBSET Chunks
    PROVE  /\ Retagged(t, chunks) \in SUBSET Chunks
           /\ \A v \in Retagged(t, chunks) : Fits(v, task[t].tag, task[t].model)
           /\ chunks # {} => Retagged(t, chunks) # {}
<1>1. ASSUME NEW c \in Chunks
      PROVE  /\ [c EXCEPT !.tag = task[t].tag, !.model = task[t].model] \in Chunks
             /\ Fits([c EXCEPT !.tag = task[t].tag, !.model = task[t].model], task[t].tag, task[t].model)
  BY DEF Chunks, Fits
<1> QED
  BY <1>1, Zenon DEF Retagged

LEMMA TypesInit == IndexInit => IndexTypes
  BY NullRows DEF IndexInit, IndexTypes, IndexStates, DocStates, NoteRows

\* The steps of a rebuild or a rechunk keep the types.
LEMMA TaskTypes ==
    ASSUME IndexTypes, NEW t \in Tasks, StartRebuild(t) \/ StartRechunk(t) \/ CrashTask(t) \/ TaskStep(t)
    PROVE  IndexTypes'
<1>1. /\ task[t] \in TaskRows /\ config.rev \in Nat /\ config.model \in Nat
      /\ kb.status \in IndexStates /\ kb.rev \in Nat
  BY DEF IndexTypes
<1>2. CASE StartRebuild(t)
  <2>1. [NoTask EXCEPT !.step = "started", !.loaded = kb.rev, !.tag = config.rev] \in TaskRows
    BY <1>1, NullRows DEF TaskRows
  <2>2. [kb EXCEPT !.status = "building"] \in [status : IndexStates, rev : Nat]
    BY DEF IndexTypes, IndexStates
  <2> QED
    BY <1>2, <2>1, <2>2 DEF StartRebuild, IndexTypes
<1>3. CASE StartRechunk(t)
  <2>1. [NoTask EXCEPT !.step = "started", !.kind = "rechunk"] \in TaskRows
    BY NullRows DEF TaskRows
  <2>2. [kb EXCEPT !.status = "building"] \in [status : IndexStates, rev : Nat]
    BY DEF IndexTypes, IndexStates
  <2>3. doc' \in [Docs -> DocStates]
    BY <1>3 DEF StartRechunk, IndexTypes, DocStates
  <2> QED
    BY <1>3, <2>1, <2>2, <2>3 DEF StartRechunk, IndexTypes
<1>4. CASE CrashTask(t)
  BY <1>4, NullRows DEF CrashTask, IndexTypes
<1>5. CASE ReadForRebuild(t)
  <2>1. /\ [d \in Docs |-> IF doc[d] = "indexed" THEN vectors[d] ELSE {}] \in [Docs -> SUBSET Chunks]
        /\ [n \in Notes |-> note[n].text] \in [Notes -> Nat]
    BY DEF IndexTypes, NoteRows
  <2>2. task'[t] \in TaskRows /\ task' = [task EXCEPT ![t] = task'[t]]
    BY <1>1, <1>5, <2>1 DEF ReadForRebuild, IndexTypes, TaskRows
  <2>3. task' \in [Tasks -> TaskRows]
    BY <2>2 DEF IndexTypes
  <2> QED
    BY <1>5, <2>3 DEF ReadForRebuild, IndexTypes
<1>6. CASE WriteRebuilt(t)
  <2>1. task'[t] \in TaskRows /\ task' = [task EXCEPT ![t] = task'[t]]
    BY <1>1, <1>6 DEF WriteRebuilt, IndexTypes, TaskRows
  <2>2. vectors' \in [Docs -> SUBSET Chunks]
    <3>1. ASSUME NEW d \in Docs PROVE Retagged(t, task[t].docs[d]) \in SUBSET Chunks
      BY <1>1, Retags DEF TaskRows
    <3> QED
      BY <1>6, <3>1 DEF WriteRebuilt, IndexTypes
  <2>3. note' \in [Notes -> NoteRows]
    BY <1>1, <1>6 DEF WriteRebuilt, RebuiltNotes, IndexTypes, NoteRows, TaskRows
  <2>4. task' \in [Tasks -> TaskRows]
    BY <2>1 DEF IndexTypes
  <2> QED
    BY <1>6, <2>2, <2>3, <2>4 DEF WriteRebuilt, IndexTypes
<1>7. CASE PublishRebuilt(t)
  <2>1. Published(t) \in [status : IndexStates, rev : Nat]
    BY <1>1 DEF Published, IndexStates, TaskRows
  <2> QED
    BY <1>7, <2>1, NullRows DEF PublishRebuilt, IndexTypes
<1>8. CASE FailRebuild(t)
  <2>1. [kb EXCEPT !.status = "stale"] \in [status : IndexStates, rev : Nat]
    BY DEF IndexTypes, IndexStates
  <2> QED
    BY <1>8, <2>1, NullRows DEF FailRebuild, IndexTypes
<1>9. CASE ReadForRechunk(t)
  <2> DEFINE docs == [d \in Docs |-> IF Rechunkable(d)
                        THEN {[by |-> "rechunk", tag |-> config.rev, model |-> config.model]}
                        ELSE {}]
  <2>1. docs \in [Docs -> SUBSET Chunks]
    BY <1>1 DEF Chunks
  <2> HIDE DEF docs
  <2>2. task' = [task EXCEPT ![t].step = "embedding", ![t].model = config.model,
                             ![t].tag = config.rev, ![t].docs = docs]
    BY <1>9 DEF ReadForRechunk, docs
  <2>3. task'[t] \in TaskRows /\ task' = [task EXCEPT ![t] = task'[t]]
    BY <1>1, <2>1, <2>2 DEF IndexTypes, TaskRows
  <2>4. task' \in [Tasks -> TaskRows]
    BY <2>3 DEF IndexTypes
  <2> QED
    BY <1>9, <2>4 DEF ReadForRechunk, IndexTypes
<1>10. CASE WriteRechunked(t)
  <2>1. Rechunked(t) \in [status : IndexStates, rev : Nat]
    BY DEF Rechunked, IndexTypes, IndexStates
  <2>2. vectors' \in [Docs -> SUBSET Chunks] /\ doc' \in [Docs -> DocStates]
    BY <1>1, <1>10 DEF WriteRechunked, IndexTypes, TaskRows, DocStates
  <2> QED
    BY <1>10, <2>1, <2>2, NullRows DEF WriteRechunked, IndexTypes
<1>11. CASE FailRechunk(t)
  <2>1. Reopened \in [status : IndexStates, rev : Nat] /\ Unprocessed \in [Docs -> DocStates]
    BY DEF Reopened, Unprocessed, IndexTypes, IndexStates, DocStates
  <2> QED
    BY <1>11, <2>1, NullRows DEF FailRechunk, IndexTypes
<1> QED
  BY <1>2, <1>3, <1>4, <1>5, <1>6, <1>7, <1>8, <1>9, <1>10, <1>11 DEF TaskStep

\* The steps of a job keep the types.
LEMMA JobTypes ==
    ASSUME IndexTypes, NEW d \in Docs, StartJob(d) \/ JobStep(d) \/ ArchiveIndexed(d)
    PROVE  IndexTypes'
<1>1. /\ job[d] \in JobRows /\ vectors[d] \in SUBSET Chunks
      /\ config.rev \in Nat /\ config.model \in Nat
  BY DEF IndexTypes
<1>2. CASE StartJob(d)
  <2>1. [NoJob EXCEPT !.state = "started"] \in JobRows
    BY NullRows DEF JobRows
  <2> QED
    BY <1>2, <2>1 DEF StartJob, IndexTypes, DocStates
<1>3. CASE ReplaceChunks(d)
  <2>1. job'[d] \in JobRows /\ job' = [job EXCEPT ![d] = job'[d]]
    BY <1>1, <1>3 DEF ReplaceChunks, IndexTypes, JobRows
  <2> QED
    BY <1>3, <2>1 DEF ReplaceChunks, IndexTypes
<1>4. CASE ReadRevision(d)
  <2>1. job'[d] \in JobRows /\ job' = [job EXCEPT ![d] = job'[d]]
    BY <1>1, <1>4 DEF ReadRevision, IndexTypes, JobRows
  <2> QED
    BY <1>4, <2>1 DEF ReadRevision, IndexTypes
<1>5. CASE CommitJob(d)
  <2>1. [NoJob EXCEPT !.state = "succeeded"] \in JobRows
    BY NullRows DEF JobRows
  <2>2. Embedded(d) \in Chunks
    BY <1>1 DEF Embedded, Chunks, JobRows
  <2> QED
    BY <1>5, <2>1, <2>2 DEF CommitJob, IndexTypes, DocStates
<1>6. CASE FailJob(d)
  <2>1. [NoJob EXCEPT !.state = "failed"] \in JobRows
    BY NullRows DEF JobRows
  <2> QED
    BY <1>6, <2>1 DEF FailJob, IndexTypes, DocStates
<1>7. CASE ArchiveIndexed(d)
  <2>1. job'[d] \in JobRows /\ job' = [job EXCEPT ![d] = job'[d]]
    BY <1>1, <1>7 DEF ArchiveIndexed, IndexTypes, JobRows
  <2> QED
    BY <1>7, <2>1 DEF ArchiveIndexed, IndexTypes, DocStates
<1> QED
  BY <1>2, <1>3, <1>4, <1>5, <1>6, <1>7 DEF JobStep

LEMMA TypesNext == IndexTypes /\ [IndexNext]_indexVars => IndexTypes'
<1> SUFFICES ASSUME IndexTypes, [IndexNext]_indexVars PROVE IndexTypes'
  OBVIOUS
<1>1. ASSUME NEW u \in Updaters, ReadConfig(u) PROVE IndexTypes'
  BY <1>1 DEF ReadConfig, IndexTypes
<1>2. ASSUME NEW u \in Updaters, ChangeModel(u) PROVE IndexTypes'
  BY <1>2 DEF ChangeModel, IndexTypes, IndexStates
<1>3. ASSUME NEW n \in Notes, StartNote(n) PROVE IndexTypes'
  BY <1>3 DEF StartNote, IndexTypes, WriterRows, NoteRows
<1>4. ASSUME NEW n \in Notes, CommitNote(n) PROVE IndexTypes'
  BY <1>4, NullRows DEF CommitNote, IndexTypes, WriterRows, NoteRows
<1>5. ASSUME NEW n \in Notes, FailNote(n) PROVE IndexTypes'
  BY <1>5, NullRows DEF FailNote, IndexTypes
<1>6. CASE UNCHANGED indexVars
  BY <1>6 DEF indexVars, IndexTypes
<1> QED
  BY <1>1, <1>2, <1>3, <1>4, <1>5, <1>6, TaskTypes, JobTypes DEF IndexNext

-----------------------------------------------------------------------------
(* What is served is complete.                                             *)

\* A step that leaves the model alone and stores no vector that is not current: what
\* was covered stays covered.
Careful ==
    /\ config' = config /\ draft' = draft
    /\ \A d \in Docs : \A v \in vectors'[d] : Current(v) \/ v \in vectors[d]
    /\ \A d \in Docs : doc'[d] = "indexed" =>
          doc[d] = "indexed" \/ \A v \in vectors'[d] : Current(v)
    /\ \A n \in Notes : note'[n].text # 0 => Current(note'[n]) \/ note'[n] = note[n]

LEMMA StaysCovered ==
    ASSUME Careful, NEW docs, NEW texts, Covered(config, doc, vectors, note, docs, texts)
    PROVE  Covered(config', doc', vectors', note', docs, texts)
  BY DEF Careful, Covered, Fits, Current

LEMMA StaysCurrent == Careful /\ AllCurrent => AllCurrent'
  BY StaysCovered DEF AllCurrent, NoDocs, NoTexts

\* A task that does not move keeps what it promises.
LEMMA TaskStays ==
    ASSUME Careful, NEW t \in Tasks, TaskHolds(t), task'[t] = task[t]
    PROVE  TaskHolds(t)'
<1>1. config' = config
  BY DEF Careful
<1>2. \A docs, texts : Covered(config, doc, vectors, note, docs, texts)
         => Covered(config', doc', vectors', note', docs, texts)
  BY StaysCovered
<1> QED
  BY <1>1, <1>2, StaysCurrent DEF TaskHolds, Current

\* A job that does not move keeps what it promises.
LEMMA JobStays ==
    ASSUME Careful, NEW d \in Docs, JobHolds(d), job'[d] = job[d]
    PROVE  JobHolds(d)'
  BY DEF Careful, JobHolds, Current

LEMMA WriterStays ==
    ASSUME Careful, NEW n \in Notes, WriterHolds(n), writer'[n] = writer[n]
    PROVE  WriterHolds(n)'
  BY DEF Careful, WriterHolds, Fits

\* Somebody who goes on with his work shows that no change of the model is under way.
LEMMA WorkExcludesUpdates ==
    ASSUME IndexInv,
           \/ \E d \in Docs : Running(d)
           \/ \E n \in Notes : writer[n].text # 0
           \/ \E t \in Tasks : task[t].step # "idle"
    PROVE  NoUpdate
  BY DEF IndexInv, UpdatesAlone, NoUpdate, NoWriterAtWork

\* What keeps the invariant when the model stays: the parts that a step has to show.
LEMMA CarefulStep ==
    ASSUME IndexInv, IndexTypes', Careful, NoUpdate \/ NoWriterAtWork',
           kb'.rev = kb.rev \/ (kb'.rev = config.rev /\ AllCurrent'),
           HasChunks',
           \A d \in Docs : JobHolds(d)',
           \A n \in Notes : WriterHolds(n)',
           \A t \in Tasks : TaskHolds(t)'
    PROVE  IndexInv'
<1>1. UpdatesAlone'
  BY DEF IndexInv, IndexTypes, UpdatesAlone, Careful, NoUpdate
<1>2. (kb.rev = config.rev => AllCurrent)'
  BY StaysCurrent DEF IndexInv, Careful
<1> QED
  BY <1>1, <1>2 DEF IndexInv

LEMMA IndexInvInit == IndexInit => IndexInv
<1> SUFFICES ASSUME IndexInit PROVE IndexInv
  OBVIOUS
<1>1. \A d \in Docs : doc[d] = "queued" /\ job[d] = NoJob
  BY DEF IndexInit
<1>2. \A n \in Notes : note[n].text = 0 /\ writer[n] = NoWrite
  BY DEF IndexInit
<1>3. \A t \in Tasks : task[t] = NoTask
  BY DEF IndexInit
<1>4. AllCurrent
  BY <1>1, <1>2 DEF AllCurrent, Covered
<1>5. UpdatesAlone /\ HasChunks
  BY <1>1 DEF IndexInit, UpdatesAlone, HasChunks
<1>6. \A d \in Docs : JobHolds(d)
  BY <1>1, NullRows DEF JobHolds
<1>7. \A n \in Notes : WriterHolds(n)
  BY <1>2, NullRows DEF WriterHolds
<1>8. \A t \in Tasks : TaskHolds(t)
  BY <1>3, NullRows DEF TaskHolds
<1> QED
  BY <1>4, <1>5, <1>6, <1>7, <1>8, TypesInit DEF IndexInv

\* A change of the model finds nothing at work, and closes the index.
LEMMA UpdateStep ==
    ASSUME ~ConfigOverlaps, IndexInv, IndexTypes', NEW u \in Updaters,
           ReadConfig(u) \/ ChangeModel(u)
    PROVE  IndexInv'
<1>1. /\ config.rev \in Nat /\ config.model \in Nat /\ kb.rev \in Nat
      /\ draft \in [Updaters -> Nat] /\ draft[u] \in Nat /\ DOMAIN kb = {"status", "rev"}
  BY DEF IndexInv, IndexTypes
<1>2. CASE ReadConfig(u)
  <2>1. NoUpdate /\ NoWriterAtWork /\ draft' = [draft EXCEPT ![u] = config.rev]
        /\ UNCHANGED <<config, kb, doc, vectors, job, note, writer, task>>
    BY <1>2 DEF ReadConfig, MayChange
  <2>2. NoWriterAtWork'
    BY <2>1 DEF NoWriterAtWork, Running
  <2>3. UpdatesAlone'
    BY <1>1, <2>1, <2>2 DEF IndexInv, UpdatesAlone, NoUpdate
  <2>4. HasChunks' /\ (AllCurrent' <=> AllCurrent)
    BY <2>1 DEF IndexInv, HasChunks, AllCurrent, Covered
  <2>5. \A d \in Docs : JobHolds(d)'
    BY <2>1 DEF IndexInv, JobHolds, Current
  <2>6. \A n \in Notes : WriterHolds(n)'
    BY <2>1 DEF IndexInv, WriterHolds
  <2>7. \A t \in Tasks : TaskHolds(t)'
    BY <2>1 DEF NoWriterAtWork, TaskHolds
  <2> QED
    BY <2>1, <2>3, <2>4, <2>5, <2>6, <2>7 DEF IndexInv
<1>3. CASE ChangeModel(u)
  <2>1. /\ draft[u] # 0 /\ draft' = [draft EXCEPT ![u] = 0]
        /\ config' = [rev |-> draft[u] + 1, model |-> config.model + 1]
        /\ kb' = [kb EXCEPT !.status = "stale"]
        /\ UNCHANGED <<doc, vectors, job, note, writer, task, used>>
    BY <1>3 DEF ChangeModel
  <2>2. /\ draft[u] = config.rev /\ NoWriterAtWork /\ \A v \in Updaters : draft[v] # 0 => v = u
        /\ config.rev = config.model /\ kb.rev <= config.rev
    BY <2>1 DEF IndexInv, UpdatesAlone
  <2>3. kb'.rev = kb.rev /\ config'.rev = config.rev + 1 /\ config'.model = config'.rev
    BY <1>1, <2>1, <2>2
  <2>4. kb'.rev < config'.rev /\ \A v \in Updaters : draft'[v] = 0
    BY <1>1, <2>1, <2>2, <2>3
  <2>5. UpdatesAlone'
    BY <1>1, <2>3, <2>4 DEF UpdatesAlone
  <2>6. HasChunks'
    BY <2>1 DEF IndexInv, HasChunks
  <2>7. \A d \in Docs : JobHolds(d)'
    BY <2>1, <2>2 DEF NoWriterAtWork, Running, JobHolds
  <2>8. \A n \in Notes : WriterHolds(n)'
    BY <2>1, <2>2 DEF NoWriterAtWork, WriterHolds
  <2>9. \A t \in Tasks : TaskHolds(t)'
    BY <2>1, <2>2 DEF NoWriterAtWork, TaskHolds
  <2>10. (kb.rev = config.rev => AllCurrent)'
    BY <1>1, <2>3, <2>4
  <2> QED
    BY <2>5, <2>6, <2>7, <2>8, <2>9, <2>10 DEF IndexInv
<1> QED
  BY <1>2, <1>3

\* The steps of a task. What it promises is all that moves, and at the end the index is
\* current.
LEMMA TaskKeeps ==
    ASSUME ~ConfigOverlaps, IndexInv, IndexTypes', NEW t \in Tasks,
           StartRebuild(t) \/ StartRechunk(t) \/ CrashTask(t) \/ TaskStep(t)
    PROVE  IndexInv'
<1> DEFINE Rest == /\ \A s \in Tasks : s # t => task'[s] = task[s]
                   /\ UNCHANGED <<config, draft, job, writer>>
           Same == UNCHANGED <<doc, vectors, note>>
<1>1. /\ task[t] \in TaskRows /\ TaskHolds(t) /\ config.rev \in Nat /\ config.model \in Nat
      /\ task \in [Tasks -> TaskRows] /\ vectors \in [Docs -> SUBSET Chunks]
      /\ note \in [Notes -> NoteRows] /\ kb \in [status : IndexStates, rev : Nat]
      /\ config \in [rev : Nat, model : Nat] /\ config.rev = config.model
  BY DEF IndexInv, IndexTypes, UpdatesAlone
<1>2. MayWork \/ task[t].step # "idle" => NoUpdate
  BY WorkExcludesUpdates DEF MayWork
<1>3. ASSUME Rest, Careful, NoUpdate, HasChunks', TaskHolds(t)',
             kb'.rev = kb.rev \/ (kb'.rev = config.rev /\ AllCurrent')
      PROVE  IndexInv'
  <2>1. \A d \in Docs : JobHolds(d)'
    BY <1>3, JobStays DEF IndexInv
  <2>2. \A n \in Notes : WriterHolds(n)'
    BY <1>3, WriterStays DEF IndexInv
  <2>3. \A s \in Tasks : TaskHolds(s)'
    BY <1>3, TaskStays DEF IndexInv
  <2> QED
    BY <1>3, <2>1, <2>2, <2>3, CarefulStep
<1>4. ASSUME Rest, Same PROVE Careful /\ HasChunks'
  BY <1>4 DEF Careful, IndexInv, HasChunks
<1>5. CASE StartRebuild(t)
  <2>1. NoUpdate /\ Rest /\ Same /\ kb'.rev = kb.rev
    BY <1>1, <1>2, <1>5 DEF StartRebuild
  <2>2. task'[t] = [NoTask EXCEPT !.step = "started", !.loaded = kb.rev, !.tag = config.rev]
    BY <1>1, <1>5 DEF StartRebuild
  <2>3. TaskHolds(t)'
    BY <2>1, <2>2 DEF TaskHolds, NoTask
  <2> QED
    BY <1>3, <1>4, <2>1, <2>3
<1>6. CASE StartRechunk(t)
  <2>1. NoUpdate /\ Rest /\ UNCHANGED <<vectors, note>> /\ kb'.rev = kb.rev
    BY <1>1, <1>2, <1>6 DEF StartRechunk
  <2>2. \A d \in Docs : doc'[d] # "indexed"
    BY <1>6 DEF StartRechunk
  <2>3. Careful /\ HasChunks'
    BY <2>1, <2>2 DEF Careful, HasChunks
  <2>4. task'[t] = [NoTask EXCEPT !.step = "started", !.kind = "rechunk"]
    BY <1>1, <1>6 DEF StartRechunk
  <2>5. TaskHolds(t)'
    BY <2>4 DEF TaskHolds, NoTask
  <2> QED
    BY <1>3, <2>1, <2>3, <2>5
<1>7. CASE CrashTask(t)
  <2>1. NoUpdate /\ Rest /\ Same /\ kb'.rev = kb.rev /\ task'[t].step = "idle"
    BY <1>1, <1>2, <1>7, NullRows DEF CrashTask
  <2>2. TaskHolds(t)'
    BY <2>1 DEF TaskHolds
  <2> QED
    BY <1>3, <1>4, <2>1, <2>2
<1>8. CASE ReadForRebuild(t)
  <2> DEFINE docs == [d \in Docs |-> IF doc[d] = "indexed" THEN vectors[d] ELSE {}]
             texts == [n \in Notes |-> note[n].text]
  <2>1. NoUpdate /\ Rest /\ Same /\ kb'.rev = kb.rev
    BY <1>1, <1>2, <1>8 DEF ReadForRebuild
  <2>2. /\ task'[t].step = "embedding" /\ task'[t].kind = "rebuild"
        /\ task'[t].tag = task[t].tag /\ task'[t].model = config.model
        /\ task'[t].docs = docs /\ task'[t].texts = texts
    BY <1>1, <1>8 DEF ReadForRebuild, TaskRows
  <2>3. Covered(config, doc, vectors, note, docs, texts)
    BY DEF Covered
  <2>4. task[t].tag = config.rev
    BY <1>1, <1>8 DEF ReadForRebuild, TaskHolds
  <2>5. TaskHolds(t)'
    BY <2>1, <2>2, <2>3, <2>4 DEF TaskHolds
  <2> QED
    BY <1>3, <1>4, <2>1, <2>5
<1>9. CASE WriteRebuilt(t)
  <2>1. NoUpdate /\ Rest /\ UNCHANGED <<doc, kb>>
    BY <1>1, <1>2, <1>9 DEF WriteRebuilt
  <2>2. /\ task[t].tag = config.rev /\ task[t].model = config.model
        /\ Covered(config, doc, vectors, note, task[t].docs, task[t].texts)
    BY <1>1, <1>9 DEF WriteRebuilt, TaskHolds
  <2>3. /\ \A d \in Docs : task[t].docs[d] \in SUBSET Chunks /\ task[t].docs[d] \subseteq vectors[d]
        /\ vectors' = [d \in Docs |-> (vectors[d] \ task[t].docs[d])
                                        \cup Retagged(t, task[t].docs[d])]
        /\ note' = RebuiltNotes(t)
    BY <1>1, <1>9 DEF WriteRebuilt, TaskRows
  <2>4. \A d \in Docs : /\ \A v \in Retagged(t, task[t].docs[d]) : Fits(v, config.rev, config.model)
                        /\ task[t].docs[d] # {} => Retagged(t, task[t].docs[d]) # {}
    BY <1>1, <2>2, <2>3, Retags DEF TaskRows
  <2>5. \A n \in Notes : \/ task[t].texts[n] = 0 /\ note'[n] = note[n]
                         \/ task[t].texts[n] # 0 /\ Fits(note'[n], config.rev, config.model)
    BY <2>2, <2>3 DEF RebuiltNotes, Fits
  <2>6. Careful
    BY <2>1, <2>3, <2>4, <2>5 DEF Careful, Current, Fits
  <2>7. HasChunks'
    BY <2>1, <2>3, <2>4 DEF IndexInv, HasChunks
  <2>8. AllCurrent'
    <3>1. ASSUME NEW d \in Docs, doc[d] = "indexed", NEW v \in vectors'[d]
          PROVE  Fits(v, config.rev, config.model)
      BY <2>2, <2>3, <2>4, <3>1 DEF Covered
    <3>2. ASSUME NEW n \in Notes, note'[n].text # 0 PROVE Fits(note'[n], config.rev, config.model)
      BY <2>2, <2>5, <3>2 DEF Covered
    <3> QED
      BY <2>1, <3>1, <3>2 DEF AllCurrent, Covered
  <2>9. task'[t].step = "written" /\ task'[t].kind = "rebuild" /\ task'[t].tag = task[t].tag
    BY <1>1, <1>9 DEF WriteRebuilt, TaskRows
  <2>10. TaskHolds(t)'
    BY <2>1, <2>2, <2>8, <2>9 DEF TaskHolds
  <2> QED
    BY <1>3, <2>1, <2>6, <2>7, <2>10
<1>10. CASE PublishRebuilt(t)
  <2>1. NoUpdate /\ Rest /\ Same /\ task'[t].step = "idle" /\ kb' = Published(t)
    BY <1>1, <1>2, <1>10, NullRows DEF PublishRebuilt
  <2>2. AllCurrent /\ task[t].tag = config.rev
    BY <1>1, <1>10 DEF PublishRebuilt, TaskHolds
  <2>3. AllCurrent'
    BY <1>4, <2>1, <2>2, StaysCurrent
  <2>4. kb'.rev \in {kb.rev, config.rev}
    BY <2>1, <2>2 DEF Published
  <2>5. TaskHolds(t)'
    BY <2>1 DEF TaskHolds
  <2> QED
    BY <1>3, <1>4, <2>1, <2>3, <2>4, <2>5
<1>11. CASE FailRebuild(t) 
  <2>1. NoUpdate /\ Rest /\ Same /\ kb'.rev = kb.rev /\ task'[t].step = "idle"
    BY <1>1, <1>2, <1>11, NullRows DEF FailRebuild
  <2>2. TaskHolds(t)'
    BY <2>1 DEF TaskHolds
  <2> QED
    BY <1>3, <1>4, <2>1, <2>2
<1>12. CASE ReadForRechunk(t)
  <2>1. NoUpdate /\ Rest /\ Same /\ kb'.rev = kb.rev
    BY <1>1, <1>2, <1>12 DEF ReadForRechunk
  <2>2. /\ task'[t].step = "embedding" /\ task'[t].kind = "rechunk"
        /\ task'[t].docs = [d \in Docs |->
              IF Rechunkable(d)
              THEN {[by |-> "rechunk", tag |-> config.rev, model |-> config.model]} ELSE {}]
    BY <1>1, <1>12 DEF ReadForRechunk, TaskRows
  <2>3. \A d \in Docs : \A v \in task'[t].docs[d] : Current(v)'
    BY <2>1, <2>2 DEF Current
  <2>4. TaskHolds(t)'
    BY <2>2, <2>3 DEF TaskHolds
  <2> QED
    BY <1>3, <1>4, <2>1, <2>4
<1>13. CASE WriteRechunked(t)
  <2>1. NoUpdate /\ Rest /\ note' = note /\ task'[t].step = "idle" /\ kb'.rev = kb.rev
    BY <1>1, <1>2, <1>13, NullRows DEF WriteRechunked, Rechunked
  <2>2. \A d \in Docs : \A v \in task[t].docs[d] : Current(v)
    BY <1>1, <1>13 DEF WriteRechunked, TaskHolds
  <2>3. \A d \in Docs :
           \/ doc'[d] = doc[d] /\ vectors'[d] = vectors[d]
           \/ task[t].docs[d] # {} /\ vectors'[d] = task[t].docs[d]
    BY <1>13 DEF WriteRechunked, Listed
  <2>4. Careful
    BY <2>1, <2>2, <2>3 DEF Careful
  <2>5. HasChunks'
    BY <2>3 DEF IndexInv, HasChunks
  <2>6. TaskHolds(t)'
    BY <2>1 DEF TaskHolds
  <2> QED
    BY <1>3, <2>1, <2>4, <2>5, <2>6
<1>14. CASE FailRechunk(t)
  <2>1. NoUpdate /\ Rest /\ UNCHANGED <<vectors, note>> /\ kb'.rev = kb.rev /\ task'[t].step = "idle"
    BY <1>1, <1>2, <1>14, NullRows DEF FailRechunk, Reopened
  <2>2. \A d \in Docs : doc'[d] = "indexed" => doc[d] = "indexed"
    BY <1>14 DEF FailRechunk, Unprocessed
  <2>3. Careful /\ HasChunks'
    BY <2>1, <2>2 DEF Careful, IndexInv, HasChunks
  <2>4. TaskHolds(t)'
    BY <2>1 DEF TaskHolds
  <2> QED
    BY <1>3, <2>1, <2>3, <2>4
<1> QED
  BY <1>5, <1>6, <1>7, <1>8, <1>9, <1>10, <1>11, <1>12, <1>13, <1>14 DEF TaskStep

\* The steps of a job, and of an archive.
LEMMA JobKeeps ==
    ASSUME ~ConfigOverlaps, IndexInv, IndexTypes', NEW d \in Docs,
           StartJob(d) \/ JobStep(d) \/ ArchiveIndexed(d)
    PROVE  IndexInv'
<1> DEFINE Rest == /\ \A e \in Docs : e # d => /\ job'[e] = job[e] /\ doc'[e] = doc[e]
                                               /\ vectors'[e] = vectors[e]
                   /\ UNCHANGED <<config, draft, kb, note, writer, task>>
<1>1. /\ job[d] \in JobRows /\ JobHolds(d) /\ job \in [Docs -> JobRows]
      /\ vectors \in [Docs -> SUBSET Chunks] /\ doc \in [Docs -> DocStates]
  BY DEF IndexInv, IndexTypes
<1>2. MayWork \/ Running(d) => NoUpdate
  BY WorkExcludesUpdates DEF MayWork
<1>3. ASSUME Rest, JobHolds(d)',
             \/ NoUpdate
             \/ Running(d)' => Running(d),
             \/ vectors'[d] = vectors[d] /\ (doc'[d] = "indexed" => doc[d] = "indexed")
             \/ doc'[d] # "indexed" /\ vectors'[d] = {}
             \/ /\ vectors'[d] # {} /\ \A v \in vectors'[d] : Current(v)
      PROVE  IndexInv'
  <2>1. Careful
    BY <1>3 DEF Careful
  <2>2. HasChunks'
    BY <1>3 DEF IndexInv, HasChunks
  <2>3. \A e \in Docs : JobHolds(e)'
    BY <1>3, <2>1, JobStays DEF IndexInv
  <2>4. \A n \in Notes : WriterHolds(n)'
    BY <1>3, <2>1, WriterStays DEF IndexInv
  <2>5. \A t \in Tasks : TaskHolds(t)'
    BY <1>3, <2>1, TaskStays DEF IndexInv
  <2>6. NoUpdate \/ NoWriterAtWork'
    BY <1>3 DEF IndexInv, UpdatesAlone, NoUpdate, NoWriterAtWork, Running
  <2> QED
    BY <1>3, <2>1, <2>2, <2>3, <2>4, <2>5, <2>6, CarefulStep
<1>4. CASE StartJob(d)
  <2>1. /\ NoUpdate /\ Rest /\ vectors' = vectors /\ doc'[d] = "processing"
        /\ job'[d].state = "started"
    BY <1>1, <1>2, <1>4 DEF StartJob, NoJob
  <2>2. JobHolds(d)'
    BY <2>1 DEF JobHolds
  <2> QED
    BY <1>3, <2>1, <2>2
<1>5. CASE ReplaceChunks(d)
  <2>1. /\ NoUpdate /\ Rest /\ vectors' = vectors /\ doc' = doc
        /\ job'[d].state = "replaced" /\ job'[d].replaced = vectors[d]
        /\ job'[d].model = config.model
    BY <1>1, <1>2, <1>5 DEF ReplaceChunks, Running, JobRows
  <2>2. JobHolds(d)'
    BY <2>1 DEF JobHolds
  <2> QED
    BY <1>3, <2>1, <2>2
<1>6. CASE ReadRevision(d)
  <2>1. /\ NoUpdate /\ Rest /\ vectors' = vectors /\ doc' = doc
        /\ job'[d].state = "tagged" /\ job'[d].replaced = job[d].replaced
        /\ job'[d].model = job[d].model /\ job'[d].tag = config.rev
        /\ job[d].state = "replaced"
    BY <1>1, <1>2, <1>6 DEF ReadRevision, Running, JobRows
  <2>2. JobHolds(d)'
    BY <1>1, <2>1 DEF JobHolds, Current
  <2> QED
    BY <1>3, <2>1, <2>2
<1>7. CASE CommitJob(d)
  <2>1. /\ NoUpdate /\ Rest /\ job[d].state = "tagged"
        /\ vectors'[d] = (vectors[d] \ job[d].replaced) \cup {Embedded(d)}
        /\ job'[d].state = "succeeded"
    BY <1>1, <1>2, <1>7 DEF CommitJob, Running, NoJob
  <2>2. Current(Embedded(d))
    BY <1>1, <2>1 DEF JobHolds, Embedded, Current
  <2>3. vectors'[d] # {} /\ \A v \in vectors'[d] : Current(v)
    BY <1>1, <2>1, <2>2 DEF JobHolds
  <2>4. JobHolds(d)'
    BY <2>1 DEF JobHolds
  <2> QED
    BY <1>3, <2>1, <2>3, <2>4
<1>8. CASE FailJob(d)
  <2>1. NoUpdate /\ Rest /\ vectors' = vectors /\ doc'[d] = "failed" /\ job'[d].state = "failed"
    BY <1>1, <1>2, <1>8 DEF FailJob, NoJob
  <2>2. JobHolds(d)'
    BY <2>1 DEF JobHolds
  <2> QED
    BY <1>3, <2>1, <2>2
<1>9. CASE ArchiveIndexed(d)
  <2>1. /\ Rest /\ doc'[d] = "archived" /\ vectors'[d] = {}
        /\ job'[d].state \in {"succeeded", "cancelled"}
    BY <1>1, <1>9 DEF ArchiveIndexed, JobRows
  <2>2. JobHolds(d)' /\ ~Running(d)'
    BY <2>1 DEF JobHolds, Running
  <2> QED
    BY <1>3, <2>1, <2>2
<1> QED
  BY <1>4, <1>5, <1>6, <1>7, <1>8, <1>9 DEF JobStep

\* The steps of a note write.
LEMMA NoteKeeps ==
    ASSUME ~ConfigOverlaps, IndexInv, IndexTypes', NEW n \in Notes,
           StartNote(n) \/ CommitNote(n) \/ FailNote(n)
    PROVE  IndexInv'
<1> DEFINE Rest == /\ \A m \in Notes : m # n => writer'[m] = writer[m] /\ note'[m] = note[m]
                   /\ UNCHANGED <<config, draft, kb, doc, vectors, job, task>>
<1>1. /\ writer \in [Notes -> WriterRows] /\ note \in [Notes -> NoteRows] /\ WriterHolds(n)
  BY DEF IndexInv, IndexTypes
<1>2. MayWork \/ writer[n].text # 0 => NoUpdate
  BY WorkExcludesUpdates DEF MayWork
<1>3. ASSUME Rest, NoUpdate, WriterHolds(n)', note'[n] = note[n] \/ Current(note'[n])
      PROVE  IndexInv'
  <2>1. Careful /\ HasChunks'
    BY <1>3 DEF Careful, IndexInv, HasChunks
  <2>2. \A d \in Docs : JobHolds(d)'
    BY <1>3, <2>1, JobStays DEF IndexInv
  <2>3. \A m \in Notes : WriterHolds(m)'
    BY <1>3, <2>1, WriterStays DEF IndexInv
  <2>4. \A t \in Tasks : TaskHolds(t)'
    BY <1>3, <2>1, TaskStays DEF IndexInv
  <2> QED
    BY <1>3, <2>1, <2>2, <2>3, <2>4, CarefulStep
<1>4. CASE StartNote(n)
  <2>1. /\ NoUpdate /\ Rest /\ note' = note
        /\ writer'[n].tag = config.rev /\ writer'[n].model = config.model
    BY <1>1, <1>2, <1>4 DEF StartNote
  <2>2. WriterHolds(n)'
    BY <2>1 DEF WriterHolds, Fits
  <2> QED
    BY <1>3, <2>1, <2>2
<1>5. CASE CommitNote(n)
  <2>1. /\ NoUpdate /\ Rest /\ writer[n].text # 0 /\ writer'[n].text = 0
        /\ note'[n].tag = writer[n].tag /\ note'[n].model = writer[n].model
    BY <1>1, <1>2, <1>5, NullRows DEF CommitNote
  <2>2. Current(note'[n]) /\ WriterHolds(n)'
    BY <1>1, <2>1 DEF WriterHolds, Fits, Current
  <2> QED
    BY <1>3, <2>1, <2>2
<1>6. CASE FailNote(n)
  <2>1. NoUpdate /\ Rest /\ note' = note /\ writer'[n].text = 0
    BY <1>1, <1>2, <1>6, NullRows DEF FailNote
  <2>2. WriterHolds(n)'
    BY <2>1 DEF WriterHolds
  <2> QED
    BY <1>3, <2>1, <2>2
<1> QED
  BY <1>4, <1>5, <1>6

LEMMA IndexInvNext ==
    ASSUME ~ConfigOverlaps, IndexInv, [IndexNext]_indexVars
    PROVE  IndexInv'
<1>1. IndexTypes'
  BY TypesNext DEF IndexInv
<1>2. CASE UNCHANGED indexVars
  <2>1. /\ UNCHANGED <<config, draft, kb, doc, vectors, job, note, writer, task>>
    BY <1>2 DEF indexVars
  <2>2. UpdatesAlone' /\ HasChunks' /\ (AllCurrent' <=> AllCurrent)
    BY <2>1 DEF IndexInv, UpdatesAlone, NoWriterAtWork, Running, HasChunks, AllCurrent, Covered
  <2>3. \A d \in Docs : JobHolds(d)'
    BY <2>1 DEF IndexInv, JobHolds, Current
  <2>4. \A n \in Notes : WriterHolds(n)'
    BY <2>1 DEF IndexInv, WriterHolds
  <2>5. \A t \in Tasks : TaskHolds(t)'
    BY <2>1, <2>2 DEF IndexInv, TaskHolds, Current
  <2> QED
    BY <1>1, <2>1, <2>2, <2>3, <2>4, <2>5 DEF IndexInv
<1> QED
  BY <1>1, <1>2, UpdateStep, TaskKeeps, JobKeeps, NoteKeeps DEF IndexNext

\* While search is served, every indexed document and every note has vectors of the
\* configured revision, computed by the configured model, whatever rebuilds, rechunks,
\* ingestions, note writes, failures and crashes came before, as long as the model is
\* changed only while nobody writes vectors (rebuild_embeddings, run_job,
\* rechunk_knowledge_base, ConfigurationService.update).
THEOREM ServedIndexIsComplete == ASSUME ~ConfigOverlaps PROVE IndexSpec => []ServedIndexComplete
<1>1. IndexInv /\ [IndexNext]_indexVars => IndexInv'
  BY IndexInvNext
<1>2. IndexInv => ServedIndexComplete
  <2> SUFFICES ASSUME IndexInv, Served PROVE ServedIndexComplete
    BY DEF ServedIndexComplete
  <2>1. AllCurrent /\ HasChunks
    BY DEF Served, IndexInv
  <2> QED
    BY <2>1 DEF ServedIndexComplete, AllCurrent, Covered, NoDocs, NoTexts, HasChunks, Fits, Current
<1> QED
  BY <1>1, <1>2, IndexInvInit, PTL DEF IndexSpec

-----------------------------------------------------------------------------
(* No document is stranded.                                                *)

\* Of the bounds only that of the crashes matters.
LEMMA Counted ==
    ASSUME ProcessedInv, NEW name \in {"changes", "tasks", "writes"}, Count(name)
    PROVE  used'.crashes = used.crashes /\ DOMAIN used' = DOMAIN used
  BY DEF ProcessedInv, Count

LEMMA ProcessedNext ==
    ASSUME ProcessedInv, [IndexNext]_indexVars
    PROVE  ProcessedInv'
<1> DEFINE Settles(d) == Running(d) \/ used.crashes # 0 \/ \E t \in Tasks : SettledBy(d, t)
           Counters == used.crashes \in Nat /\ DOMAIN used = {"changes", "tasks", "writes", "crashes"}
           Calm == used'.crashes = used.crashes /\ DOMAIN used' = DOMAIN used
<1>1. IndexTypes /\ IndexTypes' /\ Counters /\ \A d \in Docs : doc[d] = "processing" => Settles(d)
  BY TypesNext DEF ProcessedInv
<1>2. /\ task \in [Tasks -> TaskRows] /\ job \in [Docs -> JobRows] /\ doc \in [Docs -> DocStates]
      /\ doc' \in [Docs -> DocStates] /\ \A t \in Tasks : task[t] \in TaskRows
  BY <1>1 DEF IndexTypes
<1>3. ASSUME Calm, doc' = doc, job' = job, task' = task PROVE ProcessedInv'
  BY <1>1, <1>3 DEF ProcessedInv, Running, SettledBy, Listed
\* One job moves.
<1>4. ASSUME NEW d \in Docs, Calm, task' = task,
             \A e \in Docs : e # d => doc'[e] = doc[e] /\ job'[e] = job[e],
             Running(d)' \/ doc'[d] # "processing"
      PROVE  ProcessedInv'
  BY <1>1, <1>4 DEF ProcessedInv, Running, SettledBy, Listed
\* One task moves, and leaves the documents alone.
<1>5. ASSUME NEW t \in Tasks, Calm, doc' = doc, job' = job,
             \A s \in Tasks : s # t => task'[s] = task[s],
             \A d \in Docs : doc[d] = "processing" /\ SettledBy(d, t) => SettledBy(d, t)'
      PROVE  ProcessedInv'
  <2>1. ASSUME NEW d \in Docs, doc[d] = "processing", NEW s \in Tasks, SettledBy(d, s)
        PROVE  SettledBy(d, s)'
    BY <1>5, <2>1 DEF SettledBy, Listed
  <2> QED
    BY <1>1, <1>5, <2>1 DEF ProcessedInv, Running
<1>6. ASSUME NEW u \in Updaters, ReadConfig(u) \/ ChangeModel(u) PROVE ProcessedInv'
  BY <1>3, <1>6, Counted DEF ReadConfig, ChangeModel
<1>7. ASSUME NEW n \in Notes, StartNote(n) \/ CommitNote(n) \/ FailNote(n) PROVE ProcessedInv'
  BY <1>3, <1>7, Counted DEF StartNote, CommitNote, FailNote
<1>8. ASSUME NEW d \in Docs, StartJob(d) PROVE ProcessedInv'
  <2>1. /\ Calm /\ task' = task /\ Running(d)'
        /\ \A e \in Docs : e # d => doc'[e] = doc[e] /\ job'[e] = job[e]
    BY <1>2, <1>8 DEF StartJob, Running, NoJob
  <2> QED
    BY <1>4, <2>1
<1>9. ASSUME NEW d \in Docs, ReplaceChunks(d) \/ ReadRevision(d) PROVE ProcessedInv'
  <2>1. /\ Calm /\ task' = task /\ Running(d)' /\ doc' = doc
        /\ \A e \in Docs : e # d => job'[e] = job[e]
    BY <1>2, <1>9 DEF ReplaceChunks, ReadRevision, Running, JobRows
  <2> QED
    BY <1>4, <2>1
<1>10. ASSUME NEW d \in Docs, CommitJob(d) \/ FailJob(d) \/ ArchiveIndexed(d) PROVE ProcessedInv'
  <2>1. /\ Calm /\ task' = task /\ doc'[d] # "processing"
        /\ \A e \in Docs : e # d => doc'[e] = doc[e] /\ job'[e] = job[e]
    BY <1>2, <1>10 DEF CommitJob, FailJob, ArchiveIndexed
  <2> QED
    BY <1>4, <2>1
<1>11. ASSUME NEW t \in Tasks, StartRebuild(t) PROVE ProcessedInv'
  <2>1. task[t].step = "idle" /\ doc' = doc /\ job' = job /\ Calm
        /\ \A s \in Tasks : s # t => task'[s] = task[s]
    BY <1>11, Counted DEF StartRebuild
  <2> QED
    BY <1>5, <2>1 DEF SettledBy
<1>12. ASSUME NEW t \in Tasks, StartRechunk(t) PROVE ProcessedInv'
  <2>1. task'[t] = [NoTask EXCEPT !.step = "started", !.kind = "rechunk"]
    BY <1>2, <1>12 DEF StartRechunk
  <2>2. \A d \in Docs : SettledBy(d, t)'
    BY <2>1 DEF SettledBy, NoTask
  <2>3. Calm
    BY <1>12, Counted DEF StartRechunk
  <2> QED
    BY <1>1, <2>2, <2>3 DEF ProcessedInv
<1>13. ASSUME NEW t \in Tasks, CrashTask(t) PROVE ProcessedInv'
  <2>1. used'.crashes = used.crashes + 1 /\ DOMAIN used' = DOMAIN used
    BY <1>1, <1>13 DEF CrashTask, Count
  <2>2. used'.crashes \in Nat /\ used'.crashes # 0
    BY <1>1, <2>1
  <2> QED
    BY <1>1, <2>1, <2>2 DEF ProcessedInv
<1>14. ASSUME NEW t \in Tasks, ReadForRebuild(t) \/ WriteRebuilt(t) \/ PublishRebuilt(t) \/ FailRebuild(t)
       PROVE  ProcessedInv'
  <2>1. doc' = doc /\ job' = job /\ Calm /\ \A s \in Tasks : s # t => task'[s] = task[s]
    BY <1>2, <1>14 DEF Calm, Count, ReadForRebuild, WriteRebuilt, PublishRebuilt, FailRebuild
  <2>2. \A d \in Docs : ~SettledBy(d, t)
    BY <1>14 DEF ReadForRebuild, WriteRebuilt, PublishRebuilt, FailRebuild, SettledBy
  <2> QED
    BY <1>5, <2>1, <2>2
<1>15. ASSUME NEW t \in Tasks, ReadForRechunk(t) PROVE ProcessedInv'
  <2>1. doc' = doc /\ job' = job /\ Calm /\ \A s \in Tasks : s # t => task'[s] = task[s]
    BY <1>2, <1>15 DEF Calm, ReadForRechunk
  <2>2. /\ task'[t].kind = "rechunk" /\ task'[t].step = "embedding"
        /\ task'[t].docs = [d \in Docs |->
              IF Rechunkable(d)
              THEN {[by |-> "rechunk", tag |-> config.rev, model |-> config.model]} ELSE {}]
    BY <1>2, <1>15 DEF ReadForRechunk, TaskRows
  <2>3. \A d \in Docs : doc[d] = "processing" => SettledBy(d, t)'
    BY <2>2 DEF SettledBy, Listed, Rechunkable
  <2> QED
    BY <1>5, <2>1, <2>3
<1>16. ASSUME NEW t \in Tasks, WriteRechunked(t) PROVE ProcessedInv'
  <2>1. /\ job' = job /\ Calm /\ \A s \in Tasks : s # t => task'[s] = task[s]
        /\ \A d \in Docs : doc'[d] = IF d \in Listed(t) THEN "indexed" ELSE doc[d]
        /\ task[t].step = "embedding"
    BY <1>16 DEF WriteRechunked
  <2>2. ASSUME NEW d \in Docs, doc'[d] = "processing" PROVE Settles(d)'
    <3>1. doc[d] = "processing" /\ d \notin Listed(t)
      BY <2>1, <2>2
    <3>2. ASSUME NEW s \in Tasks, SettledBy(d, s) PROVE s # t /\ SettledBy(d, s)'
      BY <2>1, <3>1, <3>2 DEF SettledBy, Listed
    <3> QED
      BY <1>1, <2>1, <3>1, <3>2 DEF Running
  <2> QED
    BY <1>1, <2>1, <2>2 DEF ProcessedInv
<1>17. ASSUME NEW t \in Tasks, FailRechunk(t) PROVE ProcessedInv'
  <2>1. Calm /\ \A d \in Docs : doc'[d] # "processing"
    BY <1>17 DEF FailRechunk, Unprocessed
  <2> QED
    BY <1>1, <2>1 DEF ProcessedInv
<1>18. CASE UNCHANGED indexVars
  BY <1>3, <1>18 DEF indexVars
<1> QED
  BY <1>6, <1>7, <1>8, <1>9, <1>10, <1>11, <1>12, <1>13, <1>14, <1>15, <1>16, <1>17, <1>18
     DEF IndexNext, TaskStep, JobStep

\* However rechunks, rebuilds, ingestions and their failures overlap, and whenever the
\* model changes, a document stays in processing only as long as a job or a rechunk
\* works on it, or a process has died (mark_rechunk_failed, rechunk_knowledge_base,
\* run_job).
THEOREM NoDocumentIsStranded == IndexSpec => []NoStrandedDocument
<1>1. IndexInit => ProcessedInv
  BY TypesInit DEF IndexInit, ProcessedInv
<1>2. ProcessedInv /\ [IndexNext]_indexVars => ProcessedInv'
  BY ProcessedNext
<1>3. ProcessedInv => NoStrandedDocument
  BY DEF ProcessedInv, NoStrandedDocument, SettledBy, Rechunking
<1> QED
  BY <1>1, <1>2, <1>3, PTL DEF IndexSpec

-----------------------------------------------------------------------------
(* A graph rebuild that nobody overlaps repairs the community summaries.   *)

Keys == [doc : IndexedDocs, gen : Nat]
Summaries == [doc : IndexedDocs, gen : Nat, rev : Nat]
BuilderRows == [step : {"idle", "begun", "loaded", "summarising"},
                kind : BuildKinds \cup {"none"}, docs : SUBSET IndexedDocs, id : Nat,
                status : IndexStates, rev : Nat, keys : SUBSET Keys, dead : SUBSET Summaries,
                waits : SUBSET Builders]

\* A builder at work has a number and a kind.
Named(row) == IF row.step = "idle" THEN row.kind = "none" ELSE row.kind # "none" /\ row.id # 0

BuilderTypes ==
    /\ builder \in [Builders -> BuilderRows]
    /\ \A b \in Builders : Named(builder[b])
    /\ graph \in [status : IndexStates, rev : Nat]
    /\ rows \subseteq Summaries
    /\ asset \in [IndexedDocs -> DocStates]
    /\ gen \in [IndexedDocs -> Nat]
    /\ builds \in Nat

\* What a rebuild reads: the indexed documents, and a key for each that has entities.
IndexedAssets == {d \in IndexedDocs : asset[d] = "indexed"}
KeysSeenBy(b) ==
    LET seen == GenSeenBy(b)
    IN  {[doc |-> d, gen |-> seen[d]] : d \in {e \in IndexedDocs : seen[e] # 0}}

\* While a graph rebuild is at work nobody else is, so that what it has read is
\* still what is committed: the revision and the documents since it loaded them,
\* the entities and the summaries since it began to summarise.
RebuildsAlone ==
    \A b \in Builders : (AtWork(b) /\ builder[b].kind = "graph") =>
        /\ \A c \in Builders : AtWork(c) => c = b
        /\ graph.status = "building"
        /\ builder[b].step # "begun" =>
              /\ builder[b].status = "building"
              /\ builder[b].rev = graph.rev
              /\ builder[b].docs = IndexedAssets
        /\ builder[b].step = "summarising" =>
              /\ builder[b].keys = KeysSeenBy(b)
              /\ builder[b].dead = rows

RebuildInv == BuilderTypes /\ RebuildsAlone

LEMMA SeenTypes ==
    ASSUME BuilderTypes, NEW b \in Builders
    PROVE  GenSeenBy(b) \in [IndexedDocs -> Nat] /\ KeysSeenBy(b) \subseteq Keys
<1>1. GenSeenBy(b) \in [IndexedDocs -> Nat]
  BY DEF GenSeenBy, BuilderTypes, BuilderRows
<1> QED
  BY <1>1 DEF KeysSeenBy, Keys

LEMMA FinishTypes ==
    ASSUME BuilderTypes, NEW b \in Builders, Finish(b)
    PROVE  /\ builder' \in [Builders -> BuilderRows]
           /\ \A c \in Builders : Named(builder'[c])
           /\ builder'[b] = Resting
           /\ \A c \in Builders : c # b =>
                 \E waits \in SUBSET Builders : builder'[c] = [builder[c] EXCEPT !.waits = waits]
           /\ \A c \in Builders : c # b =>
                 builder'[c].kind = builder[c].kind /\ AtWork(c)' = AtWork(c)
<1>1. Resting \in BuilderRows /\ Named(Resting)
  BY DEF Resting, BuilderRows, IndexStates, Named
<1>2. ASSUME NEW c \in Builders, c # b
      PROVE  \E waits \in SUBSET Builders : builder'[c] = [builder[c] EXCEPT !.waits = waits]
  <2>1. builder[c].waits \ {b} \in SUBSET Builders
    BY DEF BuilderTypes, BuilderRows
  <2>2. builder'[c] = [builder[c] EXCEPT !.waits = builder[c].waits \ {b}]
    BY <1>2 DEF Finish, BuilderTypes, BuilderRows
  <2> QED
    BY <2>1, <2>2
<1>3. ASSUME NEW c \in Builders, c # b
      PROVE  /\ builder'[c] \in BuilderRows /\ Named(builder'[c])
             /\ builder'[c].kind = builder[c].kind /\ AtWork(c)' = AtWork(c)
  <2>1. builder[c] \in BuilderRows /\ Named(builder[c])
    BY DEF BuilderTypes
  <2>2. PICK waits \in SUBSET Builders : builder'[c] = [builder[c] EXCEPT !.waits = waits]
    BY <1>2, <1>3
  <2>3. builder'[c] \in BuilderRows
    BY <2>1, <2>2 DEF BuilderRows
  <2>4. /\ builder'[c].kind = builder[c].kind /\ builder'[c].id = builder[c].id
        /\ builder'[c].step = builder[c].step
    BY <2>1, <2>2 DEF BuilderRows
  <2> QED
    BY <2>1, <2>3, <2>4 DEF Named, AtWork
<1>4. builder'[b] = Resting /\ builder' = [c \in Builders |-> builder'[c]]
  BY DEF Finish
<1> QED
  BY <1>1, <1>2, <1>3, <1>4

\* A builder that begins to summarise takes the keys and the summaries it sees; a graph
\* rebuild keeps the revision and the status it has loaded.
Summarising(b, status, rev, waits) ==
    [builder[b] EXCEPT !.step = "summarising", !.status = status, !.rev = rev,
                       !.keys = KeysSeenBy(b), !.dead = rows, !.waits = waits]

LEMMA SnapshotTakes ==
    ASSUME BuilderTypes, NEW b \in Builders, Snapshot(b)
    PROVE  \E status \in IndexStates, rev \in Nat, waits \in SUBSET Builders :
              /\ builder' = [builder EXCEPT ![b] = Summarising(b, status, rev, waits)]
              /\ builder[b].kind = "graph" => status = builder[b].status /\ rev = builder[b].rev
<1> DEFINE early == builder[b].kind = "graph"
           status == IF early THEN builder[b].status ELSE graph.status
           rev == IF early THEN builder[b].rev ELSE graph.rev
           waits == {c \in Builders : Deleting(c) /\ builder[c].dead \cap rows # {}}
<1>1. status \in IndexStates /\ rev \in Nat /\ waits \in SUBSET Builders
  BY DEF BuilderTypes, BuilderRows
<1>2. builder' = [builder EXCEPT ![b] = Summarising(b, status, rev, waits)]
  BY DEF Snapshot, KeysSeenBy, BuilderTypes, BuilderRows, Summarising
<1>3. early => status = builder[b].status /\ rev = builder[b].rev
  OBVIOUS
<1> HIDE DEF status, rev, waits
<1> QED
  BY <1>1, <1>2, <1>3

LEMMA BuilderTypesNext == BuilderTypes /\ [CommunityNext]_communityVars => BuilderTypes'
<1> SUFFICES ASSUME BuilderTypes, [CommunityNext]_communityVars
             PROVE  BuilderTypes'
  OBVIOUS
<1>1. ASSUME NEW b \in Builders, NEW kind, NEW docs \in SUBSET IndexedDocs, Begun(b, kind, docs)
      PROVE  /\ builder' \in [Builders -> BuilderRows] /\ builds' \in Nat /\ gen' = gen
             /\ \A c \in Builders : Named(builder'[c])
  <2> DEFINE new == [Resting EXCEPT !.step = "begun", !.kind = kind, !.docs = docs,
                                    !.id = builds + 1]
  <2>1. kind \in BuildKinds /\ builds \in Nat
    BY <1>1 DEF Begun, MayBegin, BuilderTypes
  <2>2. new \in BuilderRows
    <3>1. Resting \in BuilderRows
      BY DEF Resting, BuilderRows, IndexStates
    <3>2. builds + 1 \in Nat /\ kind \in BuildKinds \cup {"none"}
      BY <2>1
    <3> QED
      BY <3>1, <3>2 DEF BuilderRows
  <2>3. Named(new)
    BY <2>1, CommunityAssumption DEF Resting, Named
  <2>4. builder' = [builder EXCEPT ![b] = new] /\ builds' = builds + 1 /\ gen' = gen
    BY <1>1 DEF Begun
  <2> HIDE DEF new
  <2> QED
    BY <2>1, <2>2, <2>3, <2>4 DEF BuilderTypes
<1>2. ASSUME NEW b \in Builders, NEW d \in IndexedDocs, BeginIngest(b, d) \/ BeginArchive(b, d)
      PROVE  BuilderTypes'
  <2>1. PICK kind : Begun(b, kind, {d}) /\ UNCHANGED <<graph, rows, asset>>
    BY <1>2 DEF BeginIngest, BeginArchive
  <2> QED
    BY <1>1, <2>1 DEF BuilderTypes
<1>3. ASSUME NEW b \in Builders, BeginRechunk(b) PROVE BuilderTypes'
  <2>1. /\ graph' \in [status : IndexStates, rev : Nat] /\ rows' \subseteq Summaries
        /\ asset' \in [IndexedDocs -> DocStates]
    BY <1>3 DEF BeginRechunk, BuilderTypes, IndexStates, DocStates
  <2>2. PICK docs \in SUBSET IndexedDocs : Begun(b, "rechunk", docs)
    BY <1>3 DEF BeginRechunk
  <2> QED
    BY <1>1, <2>1, <2>2 DEF BuilderTypes
<1>4. ASSUME NEW b \in Builders, BeginGraph(b) PROVE BuilderTypes'
  <2>1. graph' \in [status : IndexStates, rev : Nat] /\ rows' = rows /\ asset' = asset
    BY <1>4 DEF BeginGraph, BuilderTypes, IndexStates
  <2>2. Begun(b, "graph", {})
    BY <1>4 DEF BeginGraph
  <2> QED
    BY <1>1, <2>1, <2>2 DEF BuilderTypes
<1>5. ASSUME NEW b \in Builders, NEW new \in BuilderRows, builder' = [builder EXCEPT ![b] = new],
             Named(new),
             UNCHANGED <<graph, rows, asset, gen, builds>>
      PROVE  BuilderTypes'
  BY <1>5 DEF BuilderTypes
<1>6. ASSUME NEW b \in Builders, LoadGraph(b) PROVE BuilderTypes'
  <2> DEFINE new == [builder[b] EXCEPT !.step = "loaded", !.status = graph.status,
                                       !.rev = graph.rev, !.docs = IndexedAssets]
  <2>1. builder' = [builder EXCEPT ![b] = new]
    BY <1>6 DEF LoadGraph, BuilderTypes, BuilderRows, IndexedAssets
  <2>2. builder[b] \in BuilderRows /\ Named(builder[b]) /\ graph.status \in IndexStates /\ graph.rev \in Nat
    BY DEF BuilderTypes
  <2>3. new \in BuilderRows /\ Named(new)
    BY <1>6, <2>2 DEF LoadGraph, BuilderRows, IndexedAssets, Named
  <2>4. UNCHANGED <<graph, rows, asset, gen, builds>>
    BY <1>6 DEF LoadGraph
  <2> HIDE DEF new
  <2> QED
    BY <1>5, <2>1, <2>3, <2>4
<1>7. ASSUME NEW b \in Builders, Snapshot(b) PROVE BuilderTypes'
  <2>1. builder[b] \in BuilderRows /\ Named(builder[b]) /\ rows \subseteq Summaries /\ KeysSeenBy(b) \subseteq Keys
    BY SeenTypes DEF BuilderTypes
  <2>2. PICK status \in IndexStates, rev \in Nat, waits \in SUBSET Builders :
           builder' = [builder EXCEPT ![b] = Summarising(b, status, rev, waits)]
    BY <1>7, SnapshotTakes
  <2> DEFINE new == Summarising(b, status, rev, waits)
  <2>3. new \in BuilderRows /\ Named(new)
    BY <1>7, <2>1, <2>2 DEF Snapshot, BuilderRows, Summarising, Named
  <2>4. UNCHANGED <<graph, rows, asset, gen, builds>>
    BY <1>7 DEF Snapshot
  <2>5. builder' = [builder EXCEPT ![b] = new]
    BY <2>2
  <2> HIDE DEF new
  <2> QED
    BY <1>5, <2>3, <2>4, <2>5
<1>Seen. ASSUME NEW b \in Builders, Indexed(b)
      PROVE  asset' \in [IndexedDocs -> DocStates] /\ gen' \in [IndexedDocs -> Nat]
  BY <1>Seen, SeenTypes DEF Indexed, Outcome, BuilderTypes, DocStates
<1>8. ASSUME NEW b \in Builders, CommitBuild(b) PROVE BuilderTypes'
  <2>1. rows' \subseteq Summaries
    BY <1>8 DEF CommitBuild, Remaining, NextRevision, BuilderTypes, BuilderRows, Summaries, Keys
  <2>2. graph' \in [status : IndexStates, rev : Nat]
    BY <1>8 DEF CommitBuild, NextRevision, BuilderTypes, BuilderRows, IndexStates
  <2> QED
    BY <1>Seen, <1>8, FinishTypes, <2>1, <2>2 DEF CommitBuild, BuilderTypes
<1>9. ASSUME NEW b \in Builders, CommitWithoutSummaries(b) PROVE BuilderTypes'
  <2>1. graph' \in [status : IndexStates, rev : Nat]
    BY <1>9 DEF CommitWithoutSummaries, BuilderTypes, IndexStates
  <2> QED
    BY <1>Seen, <1>9, FinishTypes, <2>1 DEF CommitWithoutSummaries, BuilderTypes
<1>10. ASSUME NEW b \in Builders, Undone(b) PROVE BuilderTypes'
  <2>1. graph' \in [status : IndexStates, rev : Nat]
    BY <1>10 DEF Undone, ClosedByFailure, BuilderTypes, IndexStates
  <2>2. asset' \in [IndexedDocs -> DocStates]
    BY <1>10 DEF Undone, BuilderTypes, DocStates
  <2> QED
    BY <1>10, FinishTypes, <2>1, <2>2 DEF Undone, BuilderTypes
<1>11. ASSUME NEW b \in Builders, DieBuilding(b) PROVE BuilderTypes'
  BY <1>11, FinishTypes DEF DieBuilding, BuilderTypes
<1>12. CASE UNCHANGED communityVars
  BY <1>12 DEF communityVars, BuilderTypes, AtWork, Named
<1> QED
  BY <1>2, <1>3, <1>4, <1>6, <1>7, <1>8, <1>9, <1>10, <1>11, <1>12
     DEF CommunityNext, BuildStep, ClashUndone, FailBuild

\* A builder that stops leaves the graph rebuilds alone: if one is still at work, it
\* was there alone before, so the one that stopped was not there.
LEMMA StoppingKeepsAlone ==
    ASSUME BuilderTypes, RebuildsAlone, NEW b \in Builders, AtWork(b), Finish(b)
    PROVE  RebuildsAlone'
<1> SUFFICES ASSUME NEW c \in Builders, AtWork(c)', builder'[c].kind = "graph"
             PROVE  FALSE
  BY DEF RebuildsAlone
<1>1. c # b
  BY FinishTypes DEF AtWork, Resting
<1>2. AtWork(c) /\ builder[c].kind = "graph"
  BY <1>1, FinishTypes
<1> QED
  BY <1>1, <1>2 DEF RebuildsAlone

\* A builder that begins does so when no graph rebuild is at work, and a graph rebuild
\* when nobody is.
LEMMA BeginningKeepsAlone ==
    ASSUME "graph" \in AloneKinds, BuilderTypes, RebuildsAlone,
           NEW b \in Builders, NEW kind, NEW docs, Begun(b, kind, docs),
           kind = "graph" => graph'.status = "building"
    PROVE  RebuildsAlone'
<1>1. /\ builder'[b].step = "begun" /\ builder'[b].kind = kind
      /\ \A c \in Builders : c # b => builder'[c] = builder[c]
  BY DEF Begun, BuilderTypes, Resting
<1>2. /\ \A c \in Builders : AtWork(c) => kind # "graph" /\ builder[c].kind # "graph"
  BY DEF Begun, MayBegin
<1> QED
  BY <1>1, <1>2 DEF RebuildsAlone, AtWork

LEMMA RebuildInvNext ==
    ASSUME "graph" \in AloneKinds, RebuildInv, [CommunityNext]_communityVars
    PROVE  RebuildInv'
<1> USE DEF RebuildInv
<1>1. BuilderTypes'
  BY BuilderTypesNext
<1>2. ASSUME NEW b \in Builders, NEW d \in IndexedDocs, BeginIngest(b, d) \/ BeginArchive(b, d)
      PROVE  RebuildsAlone'
  BY <1>2, BeginningKeepsAlone DEF BeginIngest, BeginArchive
<1>3. ASSUME NEW b \in Builders, BeginRechunk(b) PROVE RebuildsAlone'
  BY <1>3, BeginningKeepsAlone DEF BeginRechunk
<1>4. ASSUME NEW b \in Builders, BeginGraph(b) PROVE RebuildsAlone'
  BY <1>4, BeginningKeepsAlone DEF BeginGraph, BuilderTypes
<1>5. ASSUME NEW b \in Builders, LoadGraph(b) PROVE RebuildsAlone'
  <2>1. /\ builder'[b].status = "building" /\ builder'[b].rev = graph.rev
        /\ builder'[b].docs = IndexedAssets /\ builder'[b].step = "loaded"
    BY <1>5 DEF LoadGraph, BuilderTypes, BuilderRows, RebuildsAlone, AtWork, IndexedAssets
  <2>2. \A c \in Builders : c # b => builder'[c] = builder[c]
    BY <1>5 DEF LoadGraph, BuilderTypes
  <2>3. \A c \in Builders : AtWork(c) => c = b
    BY <1>5 DEF LoadGraph, RebuildsAlone, AtWork
  <2>4. graph' = graph /\ IndexedAssets' = IndexedAssets /\ graph.status = "building"
    BY <1>5 DEF LoadGraph, IndexedAssets, RebuildsAlone, AtWork
  <2> QED
    BY <2>1, <2>2, <2>3, <2>4 DEF RebuildsAlone, AtWork
<1>6. ASSUME NEW b \in Builders, Snapshot(b) PROVE RebuildsAlone'
  <2>0. PICK status \in IndexStates, rev \in Nat, waits \in SUBSET Builders :
              /\ builder' = [builder EXCEPT ![b] = Summarising(b, status, rev, waits)]
              /\ builder[b].kind = "graph" => status = builder[b].status /\ rev = builder[b].rev
    BY <1>6, SnapshotTakes
  <2>1. AtWork(b) /\ builder'[b].step = "summarising" /\ builder'[b].kind = builder[b].kind
        /\ builder'[b].keys = KeysSeenBy(b) /\ builder'[b].dead = rows
        /\ builder'[b].docs = builder[b].docs /\ builder'[b].id = builder[b].id
    <3>1. builder[b] \in BuilderRows /\ AtWork(b)
      BY <1>6 DEF Snapshot, AtWork, BuilderTypes
    <3>2. builder'[b] = Summarising(b, status, rev, waits)
      BY <2>0 DEF BuilderTypes
    <3> QED
      BY <3>1, <3>2 DEF BuilderRows, Summarising
  <2>2. KeysSeenBy(b)' = KeysSeenBy(b)
    BY <1>6, <2>1 DEF Snapshot, KeysSeenBy, GenSeenBy
  <2>3. \A c \in Builders : c # b => builder'[c] = builder[c]
    BY <1>6 DEF Snapshot, BuilderTypes
  <2>4. UNCHANGED <<graph, rows, asset, gen>>
    BY <1>6 DEF Snapshot
  <2>5. builder[b].kind = "graph" =>
           builder[b].step = "loaded" /\ builder'[b].status = builder[b].status
           /\ builder'[b].rev = builder[b].rev
    <3>1. builder[b] \in BuilderRows
      BY DEF BuilderTypes
    <3>2. builder'[b] = Summarising(b, status, rev, waits)
      BY <2>0 DEF BuilderTypes
    <3> QED
      BY <1>6, <2>0, <3>1, <3>2 DEF Snapshot, BuilderRows, Summarising
  <2>6. ASSUME NEW c \in Builders, AtWork(c)', builder'[c].kind = "graph"
        PROVE  c = b
    <3>1. c # b => AtWork(c) /\ builder[c].kind = "graph"
      BY <2>3, <2>6 DEF AtWork
    <3> QED
      BY <2>1, <3>1 DEF RebuildsAlone
  <2>7. CASE builder[b].kind = "graph"
    <3>1. \A c \in Builders : AtWork(c)' => c = b
      BY <2>1, <2>3, <2>7 DEF RebuildsAlone, AtWork
    <3>2. /\ builder'[b].status = "building" /\ builder'[b].rev = graph'.rev
          /\ builder'[b].docs = IndexedAssets' /\ graph'.status = "building"
      BY <2>1, <2>4, <2>5, <2>7 DEF RebuildsAlone, IndexedAssets
    <3> QED
      BY <2>1, <2>2, <2>4, <2>6, <3>1, <3>2 DEF RebuildsAlone
  <2>8. CASE builder[b].kind # "graph"
    BY <2>1, <2>6, <2>8 DEF RebuildsAlone
  <2> QED
    BY <2>7, <2>8
<1>7. ASSUME NEW b \in Builders,
             \/ CommitBuild(b) \/ CommitWithoutSummaries(b) \/ ClashUndone(b)
             \/ FailBuild(b) \/ DieBuilding(b)
      PROVE  RebuildsAlone'
  <2>1. AtWork(b) /\ Finish(b)
    BY <1>7 DEF CommitBuild, CommitWithoutSummaries, ClashUndone, FailBuild, DieBuilding,
                Undone, Deleting, AtWork
  <2> QED
    BY <2>1, StoppingKeepsAlone
<1>8. ASSUME UNCHANGED communityVars PROVE RebuildsAlone'
  <2>1. UNCHANGED <<graph, rows, asset, gen, builder>>
    BY <1>8 DEF communityVars
  <2>2. \A b \in Builders : KeysSeenBy(b)' = KeysSeenBy(b) /\ AtWork(b)' = AtWork(b)
    BY <2>1 DEF KeysSeenBy, GenSeenBy, AtWork
  <2>3. IndexedAssets' = IndexedAssets
    BY <2>1 DEF IndexedAssets
  <2> QED
    BY <2>1, <2>2, <2>3 DEF RebuildsAlone
<1> QED
  BY <1>1, <1>2, <1>3, <1>4, <1>5, <1>6, <1>7, <1>8 DEF CommunityNext, BuildStep

\* A graph rebuild that no other builder overlaps leaves every indexed document with a
\* summary under the revision that is read, and no other summary (rebuild_graph,
\* CommunitySummaryService.rebuild).
THEOREM RebuildCovers ==
    ASSUME "graph" \in AloneKinds PROVE CommunitySpec => RebuildRestoresCoverage
<1> DEFINE Restored ==
      \A b \in Builders :
         (builder[b].kind = "graph" /\ builder'[b].kind = "none" /\ graph'.status = "ready")
           => /\ SummariesCoverIndexed'
              /\ \A r \in rows' : r.rev = graph'.rev /\ r.gen = gen'[r.doc]
<1>1. CommunityInit => RebuildInv
  BY DEF CommunityInit, RebuildInv, BuilderTypes, BuilderRows, RebuildsAlone, Resting, AtWork,
         IndexStates, DocStates, Named
<1>2. RebuildInv /\ [CommunityNext]_communityVars => RebuildInv'
  BY RebuildInvNext
<1>3. ASSUME RebuildInv, [CommunityNext]_communityVars PROVE [Restored]_communityVars
  <2> SUFFICES ASSUME CommunityNext, NEW b \in Builders, builder[b].kind = "graph",
                      builder'[b].kind = "none", graph'.status = "ready"
               PROVE  /\ SummariesCoverIndexed'
                      /\ \A r \in rows' : r.rev = graph'.rev /\ r.gen = gen'[r.doc]
    BY <1>3
  <2> USE DEF RebuildInv
  <2>1. AtWork(b) /\ graph.status = "building" /\ builder[b].id # 0
    BY <1>3 DEF BuilderTypes, RebuildsAlone, Named, AtWork
  <2>2. PICK c \in Builders :
           \/ \E d \in IndexedDocs : BeginIngest(c, d) \/ BeginArchive(c, d)
           \/ BeginRechunk(c) \/ BeginGraph(c)
           \/ BuildStep(c) \/ DieBuilding(c)
    BY DEF CommunityNext
  <2>3. ASSUME NEW kind, NEW docs, Begun(c, kind, docs) PROVE FALSE
    BY <1>3, <2>1, <2>3 DEF Begun, BuilderTypes, AtWork
  <2>4. ~LoadGraph(c) /\ ~Snapshot(c)
    <3>1. ASSUME LoadGraph(c) PROVE builder'[b].kind = builder[b].kind
      BY <1>3, <3>1 DEF LoadGraph, BuilderTypes, BuilderRows
    <3>2. ASSUME Snapshot(c) PROVE builder'[b].kind = builder[b].kind
      <4>1. PICK status, rev, waits :
               builder' = [builder EXCEPT ![c] = Summarising(c, status, rev, waits)]
        BY <1>3, <3>2, SnapshotTakes
      <4> QED
        BY <1>3, <4>1 DEF BuilderTypes, BuilderRows, Summarising
    <3> QED
      BY <3>1, <3>2
  <2>5. c = b
    <3>1. Finish(c)
      BY <2>2, <2>3, <2>4 DEF BeginIngest, BeginArchive, BeginRechunk, BeginGraph, BuildStep,
             CommitBuild, CommitWithoutSummaries, ClashUndone, FailBuild, Undone, DieBuilding
    <3> QED
      BY <1>3, <3>1, FinishTypes
  <2>6. CommitBuild(b)
    <3>1. CommitBuild(b) \/ CommitWithoutSummaries(b) \/ Undone(b) \/ DieBuilding(b)
      BY <2>2, <2>3, <2>4, <2>5 DEF BeginIngest, BeginArchive, BeginRechunk, BeginGraph,
             BuildStep, ClashUndone, FailBuild
    <3>2. ~CommitWithoutSummaries(b) /\ ~DieBuilding(b)
      BY <2>1 DEF CommitWithoutSummaries, DieBuilding
    <3>3. ~Undone(b)
      BY <1>3 DEF Undone, ClosedByFailure, BuilderTypes
    <3> QED
      BY <3>1, <3>2, <3>3
  <2>7. /\ builder[b].docs = IndexedAssets /\ builder[b].rev = graph.rev
        /\ builder[b].keys = KeysSeenBy(b) /\ builder[b].dead = rows
    BY <1>3, <2>1, <2>6 DEF CommitBuild, Deleting, RebuildsAlone
  <2>8. /\ rows' = {[doc |-> k.doc, gen |-> k.gen, rev |-> NextRevision(b)] : k \in KeysSeenBy(b)}
        /\ graph'.rev = NextRevision(b)
        /\ gen' = GenSeenBy(b)
    BY <2>6, <2>7 DEF CommitBuild, Remaining, Indexed
  <2>9. \A k \in KeysSeenBy(b) : k.doc \in IndexedDocs /\ k.gen = GenSeenBy(b)[k.doc]
    BY DEF KeysSeenBy
  <2>10. \A r \in rows' : r.rev = graph'.rev /\ r.gen = gen'[r.doc]
    BY <2>8, <2>9
  <2>11. ASSUME NEW d \in IndexedDocs, asset'[d] = "indexed"
         PROVE  [doc |-> d, gen |-> gen'[d], rev |-> graph'.rev] \in rows'
    <3>1. d \in builder[b].docs
      BY <2>6, <2>7, <2>11 DEF CommitBuild, Indexed, IndexedAssets
    <3>2. GenSeenBy(b)[d] = builder[b].id
      BY <3>1 DEF GenSeenBy
    <3>3. [doc |-> d, gen |-> gen'[d]] \in KeysSeenBy(b)
      BY <2>1, <2>8, <3>2 DEF KeysSeenBy
    <3> QED
      BY <2>8, <3>3
  <2> QED
    BY <2>10, <2>11 DEF SummariesCoverIndexed
<1> QED
  BY <1>1, <1>2, <1>3, PTL DEF CommunitySpec, RebuildRestoresCoverage
=============================================================================
