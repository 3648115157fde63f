---------------------------- MODULE ServiceProofs ----------------------------
(***************************************************************************)
(* A message, the run that writes it, its answer event, its bad cases and  *)
(* what the client was told tell one story, for any number of questions    *)
(* and conversations, whoever leaves or dies; and a citation number means  *)
(* the same document for the model and for the client.  The state of a web *)
(* page and the columns that explain it are of one check, for any number   *)
(* of pages, tasks and workers, unless a check wrote over a row that had   *)
(* changed since it read it.  The gate of the model calls is never wider   *)
(* than model_max_concurrency, for any number of calls and processes,      *)
(* calls that outlive the lease of their slot not counted; and the quota   *)
(* of the requests is kept in every window.                                *)
(***************************************************************************)
EXTENDS Conversations, SourceChecks, ModelGate, RateLimit, FiniteSetTheorems, TLAPS

-----------------------------------------------------------------------------
(* Conversations.                                                          *)

\* The state of the answer event and of the run, as the message has it.
EventOf(state) == CASE state = "none" -> "absent" [] state = "streaming" -> "running"
                    [] OTHER -> state
RunOf(state) == CASE state = "none" -> "none" [] state = "streaming" -> "running"
                  [] OTHER -> state

AnswerTypes ==
    /\ ask \in [Questions -> {"new", "searching", "opening", "streaming", "failing",
                              "completed", "over", "lost"}]
    /\ told \in [Questions -> {"nothing", "refused", "error", "completed"}]
    /\ reply = [q \in Questions |-> reply[q]]
    /\ \A q \in Questions : {"message", "run"} \subseteq DOMAIN reply[q]
    /\ events = [q \in Questions |-> events[q]]
    /\ \A q \in Questions : DOMAIN events[q] = Stages
    /\ badcases = [q \in Questions |-> badcases[q]]
    /\ replays = [q \in Questions |-> replays[q]]

\* Where a request is decides what its rows say.
AnswerHolds(q) ==
    LET state == reply[q].message
    IN
    /\ ask[q] \in {"new", "searching"} => state = "none" /\ told[q] = "nothing"
    /\ ask[q] \in {"opening", "streaming", "failing"} =>
          state = "streaming" /\ told[q] = "nothing"
    /\ ask[q] = "completed" => state = "completed" /\ told[q] = "nothing"
    /\ state \in {"none", "streaming", "completed", "failed"}
    /\ reply[q].run = RunOf(state)
    /\ events[q]["answer"] = EventOf(state)
    /\ "answer_failed" \in badcases[q] <=> state = "failed"
    /\ told[q] = "completed" => state = "completed"
    /\ told[q] = "error" => state = "failed"
    /\ told[q] = "refused" => state = "none"
    /\ replays[q]["answer"] \in {"absent", "skipped"}

AnswerInv == AnswerTypes /\ \A q \in Questions : AnswerHolds(q)

LEMMA PreparedStages ==
    ASSUME NEW rag \in BOOLEAN
    PROVE  DOMAIN Prepared(rag) = Stages /\ Prepared(rag)["answer"] = "running"
  BY DEF Prepared, Stages

LEMMA NotYetFailed ==
    ASSUME NEW rag, NEW found, NEW fallback
    PROVE  "answer_failed" \notin BadcasesOf(rag, found, fallback)
  BY DEF BadcasesOf

\* A step of one question leaves the others as they were.
LEMMA OneAnswered ==
    ASSUME AnswerInv, AnswerTypes', NEW q \in Questions, AnswerHolds(q)',
           \A p \in Questions : p # q =>
              /\ ask'[p] = ask[p] /\ told'[p] = told[p] /\ reply'[p] = reply[p]
              /\ events'[p] = events[p] /\ badcases'[p] = badcases[p] /\ replays'[p] = replays[p]
    PROVE  AnswerInv'
<1>1. ASSUME NEW p \in Questions, p # q PROVE AnswerHolds(p)'
  BY <1>1 DEF AnswerInv, AnswerHolds
<1> QED
  BY <1>1 DEF AnswerInv

\* A step that only moves the request or tells the client.
LEMMA Moved ==
    ASSUME AnswerInv, NEW q \in Questions,
           NEW step \in {"searching", "opening", "streaming", "failing", "over", "lost"},
           NEW word \in {"nothing", "refused", "completed"},
           Enters(q, step), told' = told \/ told' = [told EXCEPT ![q] = word],
           UNCHANGED <<reply, events, badcases, replays>>,
           step = "searching" => ask[q] = "new",
           step = "opening" => FALSE,
           step = "streaming" => ask[q] = "opening",
           step = "failing" => ask[q] = "streaming",
           step = "over" => \/ ask[q] = "searching" /\ word = "refused"
                            \/ ask[q] = "completed" /\ word = "completed",
           step # "over" => told' = told
    PROVE  AnswerInv'
<1>1. /\ ask' = [ask EXCEPT ![q] = step] /\ AnswerTypes /\ AnswerHolds(q)
  BY DEF Enters, AnswerInv
<1>2. AnswerTypes'
  BY <1>1 DEF AnswerTypes
<1>3. ask'[q] = step /\ \A p \in Questions : p # q => ask'[p] = ask[p]
  BY <1>1 DEF AnswerTypes
<1>4. /\ \A p \in Questions : p # q => told'[p] = told[p]
      /\ told'[q] = told[q] \/ told'[q] = word
      /\ step # "over" => told'[q] = told[q]
  BY <1>1 DEF AnswerTypes
<1>5. AnswerHolds(q)'
  BY <1>1, <1>3, <1>4 DEF AnswerHolds
<1> QED
  BY <1>2, <1>3, <1>4, <1>5, OneAnswered

LEMMA AnswerInvNext ==
    ASSUME AnswerInv, [ConversationNext]_conversationVars PROVE AnswerInv'
<1>1. CASE UNCHANGED conversationVars
  BY <1>1 DEF conversationVars, AnswerInv, AnswerTypes, AnswerHolds
<1>2. ASSUME NEW q \in Questions, NEW c \in Talks, Ask(q, c) PROVE AnswerInv'
  <2>1. Enters(q, "searching") /\ ask[q] = "new" /\ told' = told
        /\ UNCHANGED <<reply, events, badcases, replays>>
    BY <1>2 DEF Ask
  <2> QED
    BY <2>1, Moved
<1>3. ASSUME NEW q \in Questions, SearchFails(q) PROVE AnswerInv'
  <2>1. Enters(q, "over") /\ ask[q] = "searching" /\ told' = [told EXCEPT ![q] = "refused"]
        /\ UNCHANGED <<reply, events, badcases, replays>>
    BY <1>3 DEF SearchFails
  <2> QED
    BY <2>1, Moved
<1>4. ASSUME NEW q \in Questions, Prepare(q) PROVE AnswerInv'
  <2>1. PICK rag \in BOOLEAN, fallback \in BOOLEAN : \E found :
          /\ reply' = [reply EXCEPT ![q] =
                [message |-> "streaming", run |-> "running",
                 citations |-> Named(found), grounding |-> Named(Grounding(found))]]
          /\ events' = [events EXCEPT ![q] = Prepared(rag)]
          /\ badcases' = [badcases EXCEPT ![q] = BadcasesOf(rag, found, fallback)]
    BY <1>4 DEF Prepare
  <2>2. PICK found :
          /\ reply' = [reply EXCEPT ![q] =
                [message |-> "streaming", run |-> "running",
                 citations |-> Named(found), grounding |-> Named(Grounding(found))]]
          /\ events' = [events EXCEPT ![q] = Prepared(rag)]
          /\ badcases' = [badcases EXCEPT ![q] = BadcasesOf(rag, found, fallback)]
    BY <2>1
  <2>3. /\ ask' = [ask EXCEPT ![q] = "opening"] /\ ask[q] = "searching"
        /\ UNCHANGED <<told, replays>> /\ AnswerTypes /\ AnswerHolds(q)
    BY <1>4 DEF Prepare, Enters, AnswerInv
  <2>4. DOMAIN Prepared(rag) = Stages /\ Prepared(rag)["answer"] = "running"
    BY PreparedStages
  <2>5. "answer_failed" \notin BadcasesOf(rag, found, fallback)
    BY NotYetFailed
  <2>6. /\ reply'[q].message = "streaming" /\ reply'[q].run = "running"
        /\ events'[q] = Prepared(rag) /\ badcases'[q] = BadcasesOf(rag, found, fallback)
        /\ ask'[q] = "opening"
    BY <2>2, <2>3 DEF AnswerTypes
  <2>7. AnswerTypes'
    <3>1. /\ events' = [p \in Questions |-> events'[p]]
          /\ \A p \in Questions : DOMAIN events'[p] = Stages
      BY <2>2, <2>3, <2>4 DEF AnswerTypes
    <3>2. reply' = [p \in Questions |-> reply'[p]] /\ badcases' = [p \in Questions |-> badcases'[p]]
      BY <2>2, <2>3 DEF AnswerTypes
    <3>3. \A p \in Questions : {"message", "run"} \subseteq DOMAIN reply'[p]
      BY <2>2, <2>3 DEF AnswerTypes
    <3> QED
      BY <2>3, <3>1, <3>2, <3>3 DEF AnswerTypes
  <2>8. AnswerHolds(q)'
    BY <2>3, <2>4, <2>5, <2>6 DEF AnswerHolds, RunOf, EventOf
  <2>9. \A p \in Questions : p # q =>
              /\ ask'[p] = ask[p] /\ told'[p] = told[p] /\ reply'[p] = reply[p]
              /\ events'[p] = events[p] /\ badcases'[p] = badcases[p] /\ replays'[p] = replays[p]
    BY <2>2, <2>3 DEF AnswerTypes
  <2> QED
    BY <2>7, <2>8, <2>9, OneAnswered
<1>5. ASSUME NEW q \in Questions, Open(q) PROVE AnswerInv'
  <2>1. Enters(q, "streaming") /\ ask[q] = "opening" /\ told' = told
        /\ UNCHANGED <<reply, events, badcases, replays>>
    BY <1>5 DEF Open
  <2> QED
    BY <2>1, Moved
<1>6. ASSUME NEW q \in Questions, StreamFails(q) PROVE AnswerInv'
  <2>1. Enters(q, "failing") /\ ask[q] = "streaming" /\ told' = told
        /\ UNCHANGED <<reply, events, badcases, replays>>
    BY <1>6 DEF StreamFails
  <2> QED
    BY <2>1, Moved
<1>7. ASSUME NEW q \in Questions, NEW state \in {"completed", "failed"},
             NEW step \in {"completed", "over"}, NEW word \in {"nothing", "error"},
             ask[q] \in {"streaming", "failing"},
             Enters(q, step), replays' = replays,
             reply' = [reply EXCEPT ![q] = Ended(@, state)],
             events' = [events EXCEPT ![q].answer = state],
             told' = [told EXCEPT ![q] = word],
             badcases' = [badcases EXCEPT ![q] =
                             IF state = "failed" THEN @ \cup {"answer_failed"} ELSE @],
             step = "completed" => state = "completed" /\ word = "nothing",
             step = "over" => state = "failed" /\ word = "error"
      PROVE  AnswerInv'
  <2>1. AnswerTypes /\ AnswerHolds(q) /\ ask' = [ask EXCEPT ![q] = step]
    BY <1>7 DEF AnswerInv, Enters
  <2>2. /\ reply' = [p \in Questions |-> reply'[p]]
        /\ reply'[q].message = state /\ reply'[q].run = state
        /\ \A p \in Questions : {"message", "run"} \subseteq DOMAIN reply'[p]
        /\ \A p \in Questions : p # q => reply'[p] = reply[p]
    <3>1. {"message", "run"} \subseteq DOMAIN reply[q]
      BY <2>1 DEF AnswerTypes
    <3>2. /\ Ended(reply[q], state).message = state /\ Ended(reply[q], state).run = state
          /\ {"message", "run"} \subseteq DOMAIN Ended(reply[q], state)
      BY <3>1 DEF Ended
    <3> QED
      BY <1>7, <2>1, <3>2 DEF AnswerTypes
  <2>3. /\ events' = [p \in Questions |-> events'[p]] /\ events'[q]["answer"] = state
        /\ \A p \in Questions : DOMAIN events'[p] = Stages
        /\ \A p \in Questions : p # q => events'[p] = events[p]
    <3>1. "answer" \in Stages /\ DOMAIN events[q] = Stages
      BY <2>1 DEF Stages, AnswerTypes
    <3>2. events' = [events EXCEPT ![q] = [events[q] EXCEPT !["answer"] = state]]
      BY <1>7
    <3>3. /\ DOMAIN [events[q] EXCEPT !["answer"] = state] = Stages
          /\ [events[q] EXCEPT !["answer"] = state]["answer"] = state
      BY <3>1
    <3> QED
      BY <2>1, <3>2, <3>3 DEF AnswerTypes
  <2>4. /\ badcases' = [p \in Questions |-> badcases'[p]]
        /\ badcases'[q] = IF state = "failed" THEN badcases[q] \cup {"answer_failed"} ELSE badcases[q]
        /\ \A p \in Questions : p # q => badcases'[p] = badcases[p]
    BY <1>7, <2>1 DEF AnswerTypes
  <2>5. AnswerTypes'
    <3>1. /\ ask' \in [Questions -> {"new", "searching", "opening", "streaming", "failing",
                              "completed", "over", "lost"}]
          /\ told' \in [Questions -> {"nothing", "refused", "error", "completed"}]
      BY <1>7, <2>1 DEF AnswerTypes
    <3> QED
      BY <1>7, <2>1, <2>2, <2>3, <2>4, <3>1 DEF AnswerTypes
  <2>6. /\ reply'[q].message = state /\ reply'[q].run = state
        /\ ask'[q] = step /\ told'[q] = word
        /\ \A p \in Questions : p # q => reply'[p] = reply[p] /\ ask'[p] = ask[p] /\ told'[p] = told[p]
    BY <1>7, <2>1, <2>2 DEF AnswerTypes
  <2>7. AnswerHolds(q)'
    BY <1>7, <2>1, <2>3, <2>4, <2>6 DEF AnswerHolds, RunOf, EventOf
  <2> QED
    BY <1>7, <2>3, <2>4, <2>5, <2>6, <2>7, OneAnswered
<1>8. ASSUME NEW q \in Questions, CompleteAnswer(q) PROVE AnswerInv'
  <2>1. told[q] = "nothing" /\ told \in [Questions -> {"nothing", "refused", "error", "completed"}]
    BY <1>8 DEF CompleteAnswer, AnswerInv, AnswerHolds, AnswerTypes
  <2>2. told' = [told EXCEPT ![q] = "nothing"]
    BY <1>8, <2>1 DEF CompleteAnswer
  <2>3. badcases' = [badcases EXCEPT ![q] = badcases[q]]
    BY <1>8 DEF CompleteAnswer, AnswerInv, AnswerTypes
  <2> QED
    BY <1>7, <1>8, <2>2, <2>3 DEF CompleteAnswer
<1>9. ASSUME NEW q \in Questions, FailAnswer(q) PROVE AnswerInv'
  BY <1>7, <1>9 DEF FailAnswer, Caught
<1>10. ASSUME NEW q \in Questions, TellCompleted(q) PROVE AnswerInv'
  <2>1. Enters(q, "over") /\ ask[q] = "completed" /\ told' = [told EXCEPT ![q] = "completed"]
        /\ UNCHANGED <<reply, events, badcases, replays>>
    BY <1>10 DEF TellCompleted
  <2> QED
    BY <2>1, Moved
<1>11. ASSUME NEW q \in Questions, Abandon(q) PROVE AnswerInv'
  <2>1. Enters(q, "lost") /\ told' = told /\ UNCHANGED <<reply, events, badcases, replays>>
    BY <1>11 DEF Abandon
  <2> QED
    BY <2>1, Moved
<1>12. ASSUME NEW q \in Questions, Replay(q) PROVE AnswerInv'
  <2>1. /\ replays' = [replays EXCEPT ![q] = Replayed(q)] /\ AnswerTypes /\ AnswerHolds(q)
        /\ UNCHANGED <<ask, told, reply, events, badcases>>
    BY <1>12 DEF Replay, AnswerInv
  <2>2. Replayed(q)["answer"] = "skipped"
    <3>1. DOMAIN Prepared(TRUE) = Stages /\ "answer" \in Stages
      BY PreparedStages DEF Stages
    <3> QED
      BY <3>1 DEF Replayed
  <2>3. AnswerTypes' /\ replays'[q] = Replayed(q)
        /\ \A p \in Questions : p # q => replays'[p] = replays[p]
    BY <2>1 DEF AnswerTypes
  <2>4. AnswerHolds(q)'
    BY <2>1, <2>2, <2>3 DEF AnswerHolds
  <2> QED
    BY <2>1, <2>3, <2>4, OneAnswered
<1>13. ASSUME NEW c \in Talks, ArchiveTalk(c) PROVE AnswerInv'
  BY <1>13 DEF ArchiveTalk, AnswerInv, AnswerTypes, AnswerHolds
<1> QED
  BY <1>1, <1>2, <1>3, <1>4, <1>5, <1>6, <1>8, <1>9, <1>10, <1>11, <1>12, <1>13
     DEF ConversationNext, ServerStep

\* The message, its run, the answer event and the bad case tell one story, and the
\* client was told nothing that is not committed (complete_answer, fail_answer,
\* record_replay).
THEOREM AnswersTellOneStory == ConversationSpec => []AnswersAgree
<1>1. ConversationInit => AnswerInv
  <2>1. DOMAIN NoEvents = Stages /\ NoEvents["answer"] = "absent"
    BY DEF NoEvents, Stages
  <2> QED
    BY <2>1 DEF ConversationInit, AnswerInv, AnswerTypes, AnswerHolds, NoReply, RunOf, EventOf
<1>2. AnswerInv /\ [ConversationNext]_conversationVars => AnswerInv'
  BY AnswerInvNext
<1>3. AnswerInv => AnswersAgree
  BY DEF AnswerInv, AnswerHolds, AnswersAgree, RunOf, EventOf
<1> QED
  BY <1>1, <1>2, <1>3, PTL DEF ConversationSpec

----------------------------------------------------------------------------
(* Citations.                                                              *)

\* What fits the context is a beginning of what was found, however much that is.
LEMMA GroundingIsPrefix ==
    ASSUME NEW found \in Seq(Evidence)
    PROVE  /\ DOMAIN Grounding(found) \subseteq DOMAIN found
           /\ \A i \in DOMAIN Grounding(found) : Grounding(found)[i] = found[i]
<1> DEFINE fitting == {i \in DOMAIN found : Fits(found, i)}
           k == Cardinality(fitting)
<1>1. DOMAIN found = 1 .. Len(found) /\ Len(found) \in Nat
  OBVIOUS
<1>2. IsFiniteSet(1 .. Len(found)) /\ Cardinality(1 .. Len(found)) = Len(found)
  BY <1>1, FS_Interval
<1>3. fitting \subseteq 1 .. Len(found)
  BY <1>1
<1> HIDE DEF fitting
<1>4. k \in Nat /\ k <= Len(found)
  BY <1>2, <1>3, FS_Subset, FS_CardinalityType
<1>5. Grounding(found) = SubSeq(found, 1, k)
  BY DEF Grounding, fitting
<1> HIDE DEF k
<1>6. /\ DOMAIN SubSeq(found, 1, k) = 1 .. k
      /\ \A i \in 1 .. k : SubSeq(found, 1, k)[i] = found[i]
  BY <1>1, <1>4
<1> QED
  BY <1>1, <1>4, <1>5, <1>6

Columns == {"message", "run", "citations", "grounding"}

\* The columns of every row, and that its snapshot resolves what the model saw.
CitationInv ==
    /\ DOMAIN reply = Questions
    /\ \A q \in Questions : DOMAIN reply[q] = Columns
    /\ CitationsResolve

\* The ids of what the model saw are a beginning of the ids of what was found.
LEMMA NamedPrefix ==
    ASSUME NEW found \in Seq(Evidence)
    PROVE  \A i \in DOMAIN Named(Grounding(found)) :
             i \in DOMAIN Named(found) /\ Named(found)[i] = Named(Grounding(found))[i]
BY GroundingIsPrefix DEF Named

\* Only the preparation writes citations, and it writes both from one search.
LEMMA CitationStep ==
    ASSUME CitationInv, [ConversationNext]_conversationVars
    PROVE  CitationInv'
<1>1. ASSUME NEW q \in Questions, Prepare(q) PROVE CitationInv'
  <2>1. PICK found \in Seq(Evidence) :
           reply' = [reply EXCEPT ![q] =
                [message |-> "streaming", run |-> "running",
                 citations |-> Named(found), grounding |-> Named(Grounding(found))]]
    <3>1. PICK found \in Findings \cup {<<>>} :
           reply' = [reply EXCEPT ![q] =
                [message |-> "streaming", run |-> "running",
                 citations |-> Named(found), grounding |-> Named(Grounding(found))]]
      BY <1>1 DEF Prepare
    <3>2. found \in Seq(Evidence)
      <4>1. <<>> \in Seq(Evidence)
        OBVIOUS
      <4> QED
        BY <3>1, <4>1, ConversationAssumption
    <3> QED
      BY <3>1, <3>2
  <2>2. /\ DOMAIN reply'[q] = Columns
        /\ reply'[q].citations = Named(found)
        /\ reply'[q].grounding = Named(Grounding(found))
        /\ DOMAIN reply' = Questions /\ \A p \in Questions \ {q} : reply'[p] = reply[p]
    BY <2>1 DEF CitationInv, Columns
  <2>3. \A i \in DOMAIN reply'[q].grounding :
           /\ i \in DOMAIN reply'[q].citations
           /\ reply'[q].citations[i] = reply'[q].grounding[i]
    BY <2>2, NamedPrefix
  <2> QED
    BY <2>2, <2>3 DEF CitationInv, CitationsResolve
<1>2. ASSUME NEW q \in Questions, NEW state, reply' = [reply EXCEPT ![q] = Ended(@, state)]
      PROVE  CitationInv'
  <2>1. /\ DOMAIN reply' = Questions
        /\ \A p \in Questions : /\ DOMAIN reply'[p] = Columns
                               /\ reply'[p].citations = reply[p].citations
                               /\ reply'[p].grounding = reply[p].grounding
    BY <1>2 DEF Ended, CitationInv, Columns
  <2> QED
    BY <2>1 DEF CitationInv, CitationsResolve
<1>3. CASE UNCHANGED reply
  BY <1>3 DEF CitationInv, CitationsResolve
<1>4. ASSUME NEW q \in Questions, CompleteAnswer(q) \/ FailAnswer(q) PROVE CitationInv'
  BY <1>2, <1>4 DEF CompleteAnswer, FailAnswer, Caught
<1> QED
  BY <1>1, <1>3, <1>4
     DEF ConversationNext, ServerStep, Ask, SearchFails, Open, StreamFails, TellCompleted,
         Abandon, ArchiveTalk, Replay, conversationVars

\* Every citation number of an answer means the same document for the model that wrote
\* it and for the client, for any evidence, budget and number of questions.
THEOREM CitationsAlwaysResolve == ConversationSpec => []CitationsResolve
<1>1. ConversationInit => CitationInv
  BY DEF ConversationInit, NoReply, CitationInv, CitationsResolve, Columns
<1>2. CitationInv => CitationsResolve
  BY DEF CitationInv
<1> QED
  BY <1>1, <1>2, CitationStep, PTL DEF ConversationSpec

-----------------------------------------------------------------------------
(* Source checks.                                                          *)

Whole == Verdicts \cup {Cleared("unchecked"), Cleared("pending")}
Rows == [verdict : [state : {"unchecked", "pending", "valid", "unavailable"},
                    response : {"none", "page"}, error : {"none", "failed"}],
         time : {"none", "recent", "old"}, content : {"unchecked", "unchanged", "changed"}]

\* The verdict of a page is torn or whole.
SourceInv == page \in [Pages -> Rows] /\ \A p \in Pages \ torn : page[p].verdict \in Whole

\* A step that writes one row, and tears no other.
LEMMA OneRow ==
    ASSUME SourceInv, NEW p \in Pages, NEW row \in Rows, page' = [page EXCEPT ![p] = row],
           torn \ {p} \subseteq torn', p \in torn' \/ row.verdict \in Whole
    PROVE  SourceInv'
<1>1. page' \in [Pages -> Rows] /\ page'[p] = row /\ \A q \in Pages \ {p} : page'[q] = page[q]
  BY DEF SourceInv
<1> QED
  BY <1>1 DEF SourceInv, Whole

LEMMA SourceInvNext == ASSUME SourceInv, [SourceNext]_sourceVars PROVE SourceInv'
<1>1. CASE UNCHANGED <<page, torn>>
  BY <1>1 DEF SourceInv, Whole
<1>2. /\ \A p \in Pages : page[p] \in Rows
      /\ \A p \in Pages \ torn : page[p].verdict \in Whole
  BY DEF SourceInv
<1>3. ASSUME NEW p \in Pages, MarkPending(p) PROVE SourceInv'
  <2> DEFINE row == [page[p] EXCEPT !.verdict = Cleared("pending"), !.time = "none"]
  <2>1. row \in Rows /\ row.verdict = Cleared("pending")
    BY <1>2 DEF Rows, Cleared
  <2>2. page' = [page EXCEPT ![p] = row] /\ torn' = torn \ {p}
    BY <1>3 DEF MarkPending
  <2> HIDE DEF row
  <2> QED
    BY <2>1, <2>2, OneRow DEF Whole
<1>4. ASSUME NEW p \in Pages, GrowOld(p) PROVE SourceInv'
  <2> DEFINE row == [page[p] EXCEPT !.time = "old"]
  <2>1. row \in Rows /\ row.verdict = page[p].verdict
    BY <1>2 DEF Rows
  <2>2. page' = [page EXCEPT ![p] = row] /\ torn' = torn
    BY <1>4 DEF GrowOld
  <2> HIDE DEF row
  <2> QED
    BY <1>2, <2>1, <2>2, OneRow
<1>5. ASSUME NEW c \in Checkers, NEW batch \in SUBSET Pages, ClaimDue(c, batch) PROVE SourceInv'
  <2>1. /\ page' = [p \in Pages |-> IF p \in batch THEN Claimed(page[p]) ELSE page[p]]
        /\ torn' = torn \ batch
    BY <1>5 DEF ClaimDue
  <2>2. ASSUME NEW p \in Pages
        PROVE  Claimed(page[p]) \in Rows /\ Claimed(page[p]).verdict = Cleared("pending")
    BY <1>2 DEF Claimed, Rows, Cleared
  <2> QED
    BY <1>2, <2>1, <2>2 DEF SourceInv, Whole
<1>6. ASSUME NEW c \in Checkers, WriteVerdict(c) PROVE SourceInv'
  <2> DEFINE p == checker[c].page
             Column(k, x) == IF x = checker[c].read[k] THEN page[p].verdict[k] ELSE x
  <2>1. PICK new \in Verdicts :
          page' = [page EXCEPT ![p] = [page[p] EXCEPT
                !.verdict = [k \in DOMAIN new |-> Column(k, new[k])], !.time = "recent"]]
    BY <1>6 DEF WriteVerdict
  <2>2. torn' = IF page[p].verdict = checker[c].read THEN torn \ {p} ELSE torn \cup {p}
    BY <1>6 DEF WriteVerdict
  <2> DEFINE written == [k \in DOMAIN new |-> Column(k, new[k])]
             row == [page[p] EXCEPT !.verdict = written, !.time = "recent"]
  <2>3. page[p].verdict = checker[c].read => written = new
    <3>1. ASSUME page[p].verdict = checker[c].read PROVE \A k : Column(k, new[k]) = new[k]
      BY <3>1
    <3>2. new = [k \in DOMAIN new |-> new[k]]
      BY DEF Verdicts
    <3> QED
      BY <3>1, <3>2
  <2>4. CASE p \in Pages
    <3>1. row \in Rows /\ row.verdict = written
      <4>1. written = [state |-> Column("state", new.state),
                       response |-> Column("response", new.response),
                       error |-> Column("error", new.error)]
        BY DEF Verdicts
      <4>2. written \in [state : {"unchecked", "pending", "valid", "unavailable"},
                         response : {"none", "page"}, error : {"none", "failed"}]
        BY <1>2, <2>4, <4>1 DEF Rows, Verdicts
      <4> HIDE DEF written
      <4> QED
        BY <1>2, <2>4, <4>2 DEF Rows
    <3>2. p \in torn' \/ written \in Whole
      BY <2>2, <2>3 DEF Whole
    <3>3. page' = [page EXCEPT ![p] = row] /\ torn \ {p} \subseteq torn'
      BY <2>1, <2>2
    <3> HIDE DEF row, written, p
    <3> QED
      BY <2>4, <3>1, <3>2, <3>3, OneRow
  <2>5. CASE p \notin Pages
    <3>1. page' = page
      BY <2>1, <2>5 DEF SourceInv
    <3> QED
      BY <2>2, <2>5, <3>1 DEF SourceInv, Whole
  <2> QED
    BY <2>4, <2>5
<1>7. ASSUME NEW c \in Checkers, WriteContent(c) PROVE SourceInv'
  <2> DEFINE p == checker[c].page
  <2>1. PICK found \in {"unchanged", "changed", page[p].content} :
          page' = [page EXCEPT ![p] = [page[p] EXCEPT !.content = found]]
    BY <1>7 DEF WriteContent
  <2>2. torn' = torn
    BY <1>7 DEF WriteContent
  <2> DEFINE row == [page[p] EXCEPT !.content = found]
  <2>3. CASE p \in Pages
    <3>1. row \in Rows /\ row.verdict = page[p].verdict
      BY <1>2, <2>3 DEF Rows
    <3>2. page' = [page EXCEPT ![p] = row]
      BY <2>1
    <3> HIDE DEF row, p
    <3> QED
      BY <1>2, <2>2, <2>3, <3>1, <3>2, OneRow
  <2>4. CASE p \notin Pages
    BY <2>1, <2>2, <2>4, <1>1 DEF SourceInv
  <2> QED
    BY <2>3, <2>4
<1>8. ASSUME NEW p \in Pages, LoseTask(p) PROVE SourceInv'
  BY <1>1, <1>8 DEF LoseTask
<1>9. ASSUME NEW c \in Checkers, \/ DieChecking(c) \/ EndBatch(c)
                                 \/ \E p \in Pages : TakeNext(c, p) \/ StartTask(c, p)
      PROVE  SourceInv'
  BY <1>1, <1>9 DEF DieChecking, EndBatch, TakeNext, StartTask
<1> QED
  BY <1>1, <1>3, <1>4, <1>5, <1>6, <1>7, <1>8, <1>9
     DEF SourceNext, CheckStep, Claims, sourceVars

\* The state of a page and the columns that explain it are of one check, for any number
\* of pages, tasks and workers, however their checks overlap and whoever dies, unless
\* the check that wrote last found a row that had changed since it read it
\* (mark_pending, claim_due_web_source_validations, validate_document).
THEOREM VerdictsAreWhole == SourceSpec => []VerdictIsWhole
<1>1. SourceInit => SourceInv
  BY DEF SourceInit, SourceInv, Rows, Cleared, Whole
<1>2. SourceInv /\ [SourceNext]_sourceVars => SourceInv'
  BY SourceInvNext
<1>3. SourceInv => VerdictIsWhole
  BY DEF SourceInv, VerdictIsWhole, Whole
<1> QED
  BY <1>1, <1>2, <1>3, PTL DEF SourceSpec

-----------------------------------------------------------------------------
(* The gate of the model calls.                                            *)

Bounded(S) == IsFiniteSet(S) /\ Cardinality(S) <= MaxConcurrency

\* A call that has a slot keeps it until it is over, unless its lease ends before.
GateInv ==
    /\ call \in [Calls -> {"new", "granted", "ungated", "working", "working ungated", "over"}]
    /\ slots \subseteq Calls /\ ended \subseteq Calls /\ outlived \subseteq Calls
    /\ \A c \in ended : call[c] = "over" \/ c \in outlived
    /\ \A c \in Calls : call[c] = "new" => c \notin ended
    /\ \A c \in Calls : call[c] \in {"granted", "working"} => c \in slots \cup outlived
    /\ \A c \in Calls : call[c] = "new" => c \notin slots
    /\ Bounded(slots)
    /\ \A home \in Homes : Bounded(WorkingIn(home))

LEMMA Smaller == ASSUME NEW S, NEW T, T \subseteq S, Bounded(S) PROVE Bounded(T)
  <1>1. IsFiniteSet(T) /\ Cardinality(T) <= Cardinality(S)
    BY FS_Subset DEF Bounded
  <1>2. Cardinality(T) \in Nat /\ Cardinality(S) \in Nat
    BY <1>1, FS_CardinalityType DEF Bounded
  <1> QED
    BY <1>1, <1>2, ModelGateAssumption DEF Bounded

LEMMA OneMore ==
    ASSUME NEW S, NEW x, IsFiniteSet(S), Cardinality(S) < MaxConcurrency
    PROVE  Bounded(S \cup {x})
  <1>1. /\ IsFiniteSet(S \cup {x}) /\ Cardinality(S) \in Nat
        /\ Cardinality(S \cup {x}) = Cardinality(S) \/ Cardinality(S \cup {x}) = Cardinality(S) + 1
    BY FS_AddElement, FS_CardinalityType
  <1> QED
    BY <1>1, ModelGateAssumption DEF Bounded

\* No call starts to work.
LEMMA NoneStarts ==
    ASSUME GateInv, \A c \in Calls : call'[c] \in {"working", "working ungated"} => call'[c] = call[c]
    PROVE  \A home \in Homes : Bounded(WorkingIn(home)')
<1>1. ASSUME NEW home \in Homes PROVE Bounded(WorkingIn(home)')
  <2>1. WorkingIn(home)' \subseteq WorkingIn(home)
    BY DEF WorkingIn, Working
  <2> QED
    BY <2>1, Smaller DEF GateInv
<1> QED
  BY <1>1

LEMMA GateInvNext ==
    ASSUME GateInv, [ModelGateNext]_gateVars PROVE GateInv'
<1> USE DEF Moves
<1>1. CASE UNCHANGED gateVars
  BY <1>1 DEF gateVars, GateInv, WorkingIn, Working
<1>2. ASSUME NEW c \in Calls, TakeSlot(c) PROVE GateInv'
  <2>1. /\ call' = [call EXCEPT ![c] = "granted"] /\ call[c] = "new"
        /\ slots' = (slots \ ended) \cup {c} /\ ended' = ended \cap slots'
        /\ outlived' = outlived
        /\ Cardinality(slots \ ended) < MaxConcurrency
    BY <1>2 DEF TakeSlot, SlotFree
  <2>2. Bounded(slots \ ended)
    BY Smaller DEF GateInv
  <2>3. Bounded(slots')
    BY <2>1, <2>2, OneMore DEF Bounded
  <2>4. \A home \in Homes : Bounded(WorkingIn(home)')
    BY <2>1, NoneStarts DEF GateInv
  <2>5. c \notin ended
    BY <2>1 DEF GateInv
  <2> QED
    BY <2>1, <2>3, <2>4, <2>5 DEF GateInv
<1>3. ASSUME NEW c \in Calls, PollSlot(c) PROVE GateInv'
  <2>1. call' = call /\ slots' = slots \ ended /\ ended' = {} /\ outlived' = outlived
    BY <1>3 DEF PollSlot
  <2>2. Bounded(slots')
    BY <2>1, Smaller DEF GateInv
  <2>3. \A home \in Homes : Bounded(WorkingIn(home)')
    BY <2>1, NoneStarts
  <2> QED
    BY <2>1, <2>2, <2>3 DEF GateInv
<1>4. ASSUME NEW c \in Calls, GiveUp(c) \/ FinishCall(c) PROVE GateInv'
  <2>1. /\ call' = [call EXCEPT ![c] = "over"]
        /\ slots' = slots \ {c} /\ ended' = ended \ {c} /\ outlived' = outlived
    BY <1>4 DEF GiveUp, FinishCall
  <2>2. Bounded(slots')
    BY <2>1, Smaller DEF GateInv
  <2>3. \A home \in Homes : Bounded(WorkingIn(home)')
    BY <2>1, NoneStarts DEF GateInv
  <2> QED
    BY <2>1, <2>2, <2>3 DEF GateInv
<1>5. ASSUME NEW c \in Calls, StartWork(c) PROVE GateInv'
  <2>1. /\ call[c] \in {"granted", "ungated"} /\ UNCHANGED <<slots, ended, outlived>>
        /\ Cardinality(WorkingIn(HomeOf[c])) < MaxConcurrency
        /\ call' = [call EXCEPT ![c] = IF call[c] = "granted" THEN "working" ELSE "working ungated"]
    BY <1>5 DEF StartWork
  <2>2. /\ call' \in [Calls -> {"new", "granted", "ungated", "working", "working ungated", "over"}]
        /\ \A d \in Calls : d # c => call'[d] = call[d]
        /\ call'[c] = IF call[c] = "granted" THEN "working" ELSE "working ungated"
    BY <2>1 DEF GateInv
  <2>3. ASSUME NEW home \in Homes PROVE Bounded(WorkingIn(home)')
    <3>1. CASE home = HomeOf[c]
      <4>1. WorkingIn(home)' \subseteq WorkingIn(home) \cup {c}
        BY <2>2 DEF WorkingIn, Working
      <4>2. Bounded(WorkingIn(home) \cup {c})
        BY <2>1, <3>1, OneMore DEF GateInv, Bounded
      <4> QED
        BY <4>1, <4>2, Smaller
    <3>2. CASE home # HomeOf[c]
      <4>1. WorkingIn(home)' \subseteq WorkingIn(home)
        BY <2>2, <3>2 DEF WorkingIn, Working
      <4> QED
        BY <4>1, Smaller DEF GateInv
    <3> QED
      BY <3>1, <3>2
  <2> QED
    BY <2>1, <2>2, <2>3 DEF GateInv
<1>6. ASSUME NEW c \in Calls, GoUngated(c) \/ LoseRelease(c) PROVE GateInv'
  <2>1. /\ UNCHANGED <<slots, ended, outlived>>
        /\ \/ call[c] = "new" /\ call' = [call EXCEPT ![c] = "ungated"]
           \/ call' = [call EXCEPT ![c] = "over"]
    BY <1>6 DEF GoUngated, LoseRelease
  <2>2. \A home \in Homes : Bounded(WorkingIn(home)')
    BY <2>1, NoneStarts DEF GateInv
  <2> QED
    BY <2>1, <2>2 DEF GateInv
<1>7. ASSUME NEW c \in Calls, Retry(c) PROVE GateInv'
  BY <1>7 DEF Retry, GateInv, WorkingIn, Working
<1>8. ASSUME NEW c \in Calls, EndLease(c) PROVE GateInv'
  BY <1>8 DEF EndLease, GateInv, WorkingIn, Working
<1>9. ASSUME NEW home \in Homes, DieWorking(home) PROVE GateInv'
  <2>1. /\ call' = [c \in Calls |-> IF HomeOf[c] = home /\ call[c] # "new" THEN "over" ELSE call[c]]
        /\ UNCHANGED <<slots, ended, outlived>>
    BY <1>9 DEF DieWorking
  <2>2. \A h \in Homes : Bounded(WorkingIn(h)')
    BY <2>1, NoneStarts DEF GateInv
  <2> QED
    BY <2>1, <2>2 DEF GateInv
<1> QED
  BY <1>1, <1>2, <1>3, <1>4, <1>5, <1>6, <1>7, <1>8, <1>9 DEF ModelGateNext, CallStep

\* Over all processes no more calls than model_max_concurrency work on slots of Redis
\* whose lease has not ended too early, and in one process no more calls of any kind,
\* whoever dies, retries or outlives its lease (distributed_model_call_slot,
\* model_call_slot).
THEOREM GateHolds == ModelGateSpec => []SlotsBounded
<1>1. ModelGateInit => GateInv
  <2>1. ASSUME ModelGateInit, NEW home \in Homes PROVE WorkingIn(home) = {}
    BY <2>1 DEF ModelGateInit, WorkingIn, Working
  <2>2. Bounded({})
    BY FS_EmptySet, ModelGateAssumption DEF Bounded
  <2> QED
    BY <2>1, <2>2 DEF ModelGateInit, GateInv
<1>2. GateInv /\ [ModelGateNext]_gateVars => GateInv'
  BY GateInvNext
<1>3. GateInv => SlotsBounded
  <2> DEFINE leased == {c \in Calls : call[c] = "working"} \ outlived
  <2>1. ASSUME GateInv PROVE leased \subseteq slots
    BY <2>1 DEF GateInv
  <2>2. ASSUME GateInv PROVE Bounded(leased)
    BY <2>1, <2>2, Smaller DEF GateInv
  <2> QED
    BY <2>2 DEF GateInv, SlotsBounded, Bounded
<1> QED
  BY <1>1, <1>2, <1>3, PTL DEF ModelGateSpec

----------------------------------------------------------------------------
(* The quota of the requests.                                              *)

Checks == [step : {"idle", "asking", "counted", "fallback"}, at : Windows]

LimitTypes ==
    /\ window \in Windows
    /\ check \in [Servers -> Checks]
    /\ shared \in [Windows -> Nat]
    /\ buckets \in [Servers -> [Windows -> Nat]]
    /\ admitted \in [Windows -> [Backends -> Nat]]

\* A process that made the key of a window and has still to set its expiry, and those
\* that may still count in Redis for it.
CountedIn(s, w) == check[s].step = "counted" /\ check[s].at = w
Pending(w) == {s \in Servers : check[s].step \in {"asking", "counted"} /\ check[s].at = w}

\* The key stays until its expiry is set, so no other process makes it meanwhile.
KeyHolds ==
    \A w \in Windows :
        /\ \A s \in Servers : CountedIn(s, w) => w \in lasting /\ shared[w] >= 1
        /\ \A s, t \in Servers : CountedIn(s, w) /\ CountedIn(t, w) => s = t

\* While the window lasts the counter covers what was let through, and the request
\* that made the key as well.
InTimeHolds ==
    \A w \in Windows : window <= w =>
        /\ admitted[w]["redis"] <= shared[w] /\ admitted[w]["redis"] <= Limit
        /\ \A s \in Servers : CountedIn(s, w) =>
              admitted[w]["redis"] + 1 <= shared[w] /\ admitted[w]["redis"] + 1 <= Limit

\* Afterwards those that read the clock in time may add one request each.
LateHolds ==
    \A w \in Windows :
        admitted[w]["redis"] + Cardinality(Pending(w)) <= Limit + Cardinality(Servers)

\* A process counts in the window of the last clock it read, or in a later one, and
\* keeps the counters of these.
MemoryHolds ==
    \A s \in Servers :
        /\ check[s].at <= window
        /\ \A w \in Windows :
              /\ admitted[w][s] <= Limit
              /\ check[s].at <= w => admitted[w][s] <= buckets[s][w]

LimitInv == LimitTypes /\ KeyHolds /\ InTimeHolds /\ LateHolds /\ MemoryHolds

LEMMA LimitNumbers ==
    /\ Limit \in Nat /\ Limit >= 1 /\ MaxWindow \in Nat /\ MaxWindow >= 1
    /\ IsFiniteSet(Servers) /\ Cardinality(Servers) \in Nat
    /\ "redis" \notin Servers /\ "redis" \in Backends /\ Servers \subseteq Backends
    /\ \A w \in Windows : w \in Nat
BY RateLimitAssumption, FS_CardinalityType DEF Windows, Backends

\* What the variables hold, component by component.
LEMMA LimitFacts ==
    ASSUME LimitTypes
    PROVE  /\ window \in Windows /\ window \in Nat
           /\ \A s \in Servers : /\ check[s] \in Checks /\ check[s].at \in Windows
                                 /\ check[s].at \in Nat
           /\ \A w \in Windows : shared[w] \in Nat /\ admitted[w]["redis"] \in Nat
           /\ \A w \in Windows, s \in Servers :
                buckets[s][w] \in Nat /\ admitted[w][s] \in Nat
<1>1. \A w \in Windows : admitted[w] \in [Backends -> Nat]
  BY DEF LimitTypes
<1>2. \A s \in Servers : buckets[s] \in [Windows -> Nat]
  BY DEF LimitTypes
<1>3. \A s \in Servers : check[s] \in Checks /\ check[s].at \in Windows
  BY DEF LimitTypes, Checks
<1> QED
  BY <1>1, <1>2, <1>3, LimitNumbers DEF LimitTypes

\* A process that goes on in its check keeps its clock.
LEMMA StepRows ==
    ASSUME LimitTypes, NEW s \in Servers,
           NEW where \in {"idle", "asking", "counted", "fallback"},
           check' = [check EXCEPT ![s].step = where]
    PROVE  /\ check' \in [Servers -> Checks]
           /\ check'[s].step = where /\ \A t \in Servers : check'[t].at = check[t].at
           /\ \A t \in Servers \ {s} : check'[t] = check[t]
BY DEF LimitTypes, Checks

\* A decision lets at most one request through, in the window of its clock.
LEMMA DecidedRows ==
    ASSUME LimitTypes, NEW s \in Servers, NEW b \in Backends, NEW count \in Nat,
           NEW w \in Windows, w = check[s].at, Decided(s, b, count)
    PROVE  /\ check' = [check EXCEPT ![s].step = "idle"]
           /\ admitted' \in [Windows -> [Backends -> Nat]]
           /\ \A v \in Windows, c \in Backends :
                v # w \/ c # b => admitted'[v][c] = admitted[v][c]
           /\ admitted'[w][b] = IF count <= Limit THEN admitted[w][b] + 1 ELSE admitted[w][b]
<1>1. /\ check' = [check EXCEPT ![s].step = "idle"]
      /\ admitted' = IF count <= Limit THEN [admitted EXCEPT ![w][b] = @ + 1] ELSE admitted
  BY DEF Decided, Allowed
<1>2. admitted[w] \in [Backends -> Nat] /\ admitted[w][b] + 1 \in Nat
  BY DEF LimitTypes
<1>3. CASE count <= Limit
  <2>1. admitted' = [admitted EXCEPT ![w] = [admitted[w] EXCEPT ![b] = admitted[w][b] + 1]]
    BY <1>1, <1>3
  <2> QED
    BY <1>1, <1>2, <1>3, <2>1 DEF LimitTypes
<1>4. CASE ~(count <= Limit)
  BY <1>1, <1>4 DEF LimitTypes
<1> QED
  BY <1>3, <1>4

LEMMA IncrementedRows ==
    ASSUME LimitTypes, NEW w \in Windows, Incremented(w)
    PROVE  /\ shared' \in [Windows -> Nat] /\ shared'[w] = shared[w] + 1
           /\ \A v \in Windows \ {w} : shared'[v] = shared[v]
           /\ lasting \subseteq lasting' /\ (shared[w] = 0 => w \in lasting')
BY DEF Incremented, LimitTypes

\* Every process may be pending.
LEMMA SomePending ==
    ASSUME NEW S \in SUBSET Servers, NEW n \in Nat, n <= Limit
    PROVE  n + Cardinality(S) <= Limit + Cardinality(Servers)
<1>1. Cardinality(S) <= Cardinality(Servers) /\ Cardinality(S) \in Nat
  BY LimitNumbers, FS_Subset, FS_CardinalityType
<1> QED
  BY <1>1, LimitNumbers

\* A process that is no longer pending makes room for one request.
LEMMA FewerPending ==
    ASSUME NEW w \in Windows, Pending(w)' \subseteq Pending(w), NEW m \in Nat, NEW n \in Nat,
           m + Cardinality(Pending(w)) <= Limit + Cardinality(Servers),
           \/ n = m
           \/ n = m + 1 /\ \E s \in Pending(w) : s \notin Pending(w)'
    PROVE  n + Cardinality(Pending(w)') <= Limit + Cardinality(Servers)
<1> DEFINE old == Pending(w)  new == Pending(w)'
<1>0. old \subseteq Servers /\ new \subseteq old
  BY DEF Pending
<1> HIDE DEF old, new
<1>1. IsFiniteSet(old) /\ IsFiniteSet(new)
  BY <1>0, LimitNumbers, FS_Subset
<1>2. Cardinality(new) <= Cardinality(old) /\ Cardinality(new) \in Nat /\ Cardinality(old) \in Nat
  BY <1>0, <1>1, FS_Subset, FS_CardinalityType
<1>3. ASSUME NEW s \in old, s \notin new PROVE Cardinality(new) + 1 <= Cardinality(old)
  <2>1. new \subseteq old \ {s} /\ IsFiniteSet(old \ {s})
    BY <1>0, <1>1, <1>3, FS_RemoveElement
  <2>2. Cardinality(new) <= Cardinality(old \ {s}) /\ Cardinality(old \ {s}) = Cardinality(old) - 1
    BY <1>1, <1>3, <2>1, FS_Subset, FS_RemoveElement
  <2>3. Cardinality(old \ {s}) \in Nat
    BY <2>1, FS_CardinalityType
  <2> QED
    BY <1>2, <2>2, <2>3
<1>4. m + Cardinality(old) <= Limit + Cardinality(Servers)
  BY DEF old
<1>5. n = m \/ (n = m + 1 /\ \E s \in old : s \notin new)
  BY DEF old, new
<1>6. n + Cardinality(new) <= Limit + Cardinality(Servers)
  BY <1>2, <1>3, <1>4, <1>5, LimitNumbers
<1> QED
  BY <1>6 DEF new

\* Steps that leave what is counted in memory alone.
LEMMA MemoryKept ==
    ASSUME LimitInv, UNCHANGED buckets, window <= window', window' \in Nat,
           \A s \in Servers : /\ check'[s].at \in Nat
                              /\ check[s].at <= check'[s].at /\ check'[s].at <= window',
           \A w \in Windows, s \in Servers : admitted'[w][s] = admitted[w][s]
    PROVE  MemoryHolds'
<1>1. \A s \in Servers : check[s].at \in Nat
  BY LimitFacts DEF LimitInv
<1>2. ASSUME NEW s \in Servers, NEW w \in Windows, check'[s].at <= w PROVE check[s].at <= w
  BY <1>1, <1>2, LimitNumbers
<1> QED
  BY <1>2 DEF LimitInv, MemoryHolds

\* Steps after which no other process is counted or pending, and Redis lets nobody
\* through.
LEMMA RedisKept ==
    ASSUME LimitInv, window' \in Nat, window <= window',
           \A w \in Windows : Pending(w)' \subseteq Pending(w),
           \A w \in Windows, s \in Servers : CountedIn(s, w)' => CountedIn(s, w),
           \A w \in Windows : admitted'[w]["redis"] = admitted[w]["redis"],
           \A w \in Windows : /\ shared'[w] \in Nat
                              /\ window <= w => shared[w] <= shared'[w]
                              /\ \A s \in Servers : CountedIn(s, w)' =>
                                    /\ shared[w] <= shared'[w]
                                    /\ w \in lasting => w \in lasting'
    PROVE  KeyHolds' /\ InTimeHolds' /\ LateHolds'
<1>1. \A w \in Windows : w \in Nat /\ shared[w] \in Nat /\ admitted[w]["redis"] \in Nat
  BY LimitFacts, LimitNumbers DEF LimitInv
<1>2. KeyHolds'
  BY <1>1 DEF LimitInv, KeyHolds
<1>3. InTimeHolds'
  <2> SUFFICES ASSUME NEW w \in Windows, window' <= w
               PROVE  /\ admitted[w]["redis"] <= shared'[w] /\ admitted[w]["redis"] <= Limit
                      /\ \A s \in Servers : CountedIn(s, w)' =>
                            /\ admitted[w]["redis"] + 1 <= shared'[w]
                            /\ admitted[w]["redis"] + 1 <= Limit
    BY DEF InTimeHolds
  <2>1. window <= w
    BY <1>1, LimitFacts DEF LimitInv
  <2>2. /\ admitted[w]["redis"] <= shared[w] /\ admitted[w]["redis"] <= Limit
        /\ \A s \in Servers : CountedIn(s, w) =>
              admitted[w]["redis"] + 1 <= shared[w] /\ admitted[w]["redis"] + 1 <= Limit
    BY <2>1 DEF LimitInv, InTimeHolds
  <2>3. shared[w] <= shared'[w] /\ shared'[w] \in Nat
    BY <2>1
  <2> QED
    BY <1>1, <2>2, <2>3
<1>4. LateHolds'
  <2> SUFFICES ASSUME NEW w \in Windows
               PROVE  admitted[w]["redis"] + Cardinality(Pending(w)')
                         <= Limit + Cardinality(Servers)
    BY DEF LateHolds
  <2>1. admitted[w]["redis"] + Cardinality(Pending(w)) <= Limit + Cardinality(Servers)
    BY DEF LimitInv, LateHolds
  <2> QED
    BY <1>1, <2>1, FewerPending
<1> QED
  BY <1>2, <1>3, <1>4

LEMMA LimitInvNext == ASSUME LimitInv, [RateLimitNext]_limitVars PROVE LimitInv'
<1>0. /\ LimitTypes /\ KeyHolds /\ InTimeHolds /\ LateHolds /\ MemoryHolds
      /\ window \in Windows /\ window \in Nat
      /\ \A s \in Servers : check[s].at \in Windows /\ check[s].at \in Nat
      /\ \A w \in Windows : w \in Nat /\ shared[w] \in Nat /\ admitted[w]["redis"] \in Nat
      /\ \A w \in Windows, s \in Servers : buckets[s][w] \in Nat /\ admitted[w][s] \in Nat
      /\ window <= window
  BY LimitFacts, LimitNumbers DEF LimitInv
<1>1. CASE UNCHANGED limitVars
  BY <1>1 DEF limitVars, LimitInv, LimitTypes, KeyHolds, InTimeHolds, LateHolds, MemoryHolds,
              CountedIn, Pending
<1>2. CASE NextWindow
  <2>1. /\ window' = window + 1 /\ window < MaxWindow
        /\ UNCHANGED <<check, shared, lasting, buckets, admitted>>
    BY <1>2 DEF NextWindow
  <2>2. window' \in Windows /\ window' \in Nat /\ window <= window'
    BY <1>0, <2>1, LimitNumbers DEF Windows
  <2>3. LimitTypes'
    BY <1>0, <2>1, <2>2 DEF LimitTypes
  <2>4. KeyHolds' /\ InTimeHolds' /\ LateHolds'
    <3>1. /\ \A w \in Windows : Pending(w)' \subseteq Pending(w)
          /\ \A w \in Windows, s \in Servers : CountedIn(s, w)' => CountedIn(s, w)
      BY <2>1 DEF Pending, CountedIn
    <3>2. \A w \in Windows : /\ admitted'[w]["redis"] = admitted[w]["redis"]
                             /\ shared'[w] \in Nat /\ shared[w] <= shared'[w]
                             /\ w \in lasting => w \in lasting'
      BY <1>0, <2>1
    <3> QED
      BY <2>2, <3>1, <3>2, RedisKept
  <2>5. \A s \in Servers : /\ check'[s].at \in Nat
                           /\ check[s].at <= check'[s].at /\ check'[s].at <= window'
    <3>1. \A s \in Servers : check[s].at <= window
      BY <1>0 DEF MemoryHolds
    <3> QED
      BY <1>0, <2>1, <2>2, <3>1
  <2>6. MemoryHolds'
    BY <2>1, <2>2, <2>5, MemoryKept
  <2> QED
    BY <2>3, <2>4, <2>6 DEF LimitInv
<1>3. ASSUME NEW s \in Servers, ReadClock(s) PROVE LimitInv'
  <2>1. /\ check[s].step = "idle" /\ UNCHANGED <<window, shared, lasting, buckets, admitted>>
        /\ \E where \in {"asking", "fallback"} :
              check' = [check EXCEPT ![s] = [at |-> window, step |-> where]]
    BY <1>3 DEF ReadClock
  <2>2. PICK where \in {"asking", "fallback"} :
              check' = [check EXCEPT ![s] = [at |-> window, step |-> where]]
    BY <2>1
  <2>3. [at |-> window, step |-> where] \in Checks
    BY <1>0 DEF Checks
  <2>4. /\ check' \in [Servers -> Checks] /\ check'[s] = [at |-> window, step |-> where]
        /\ \A t \in Servers \ {s} : check'[t] = check[t]
    BY <1>0, <2>2, <2>3 DEF LimitTypes
  <2>5. LimitTypes'
    BY <1>0, <2>1, <2>4 DEF LimitTypes
  <2>6. \A w \in Windows, t \in Servers : CountedIn(t, w)' => CountedIn(t, w)
    BY <2>4 DEF CountedIn
  <2>7. KeyHolds' /\ InTimeHolds'
    BY <1>0, <2>1, <2>6 DEF KeyHolds, InTimeHolds
  <2>8. LateHolds'
    <3> SUFFICES ASSUME NEW w \in Windows
                 PROVE  admitted[w]["redis"] + Cardinality(Pending(w)')
                           <= Limit + Cardinality(Servers)
      BY <2>1 DEF LateHolds
    <3>1. CASE w = window
      <4>1. admitted[w]["redis"] <= Limit /\ admitted[w]["redis"] \in Nat
        BY <1>0, <3>1 DEF InTimeHolds
      <4>2. Pending(w)' \in SUBSET Servers
        BY DEF Pending
      <4> QED
        BY <4>1, <4>2, SomePending
    <3>2. CASE w # window
      <4>1. Pending(w)' \subseteq Pending(w)
        BY <2>4, <3>2 DEF Pending
      <4>2. admitted[w]["redis"] + Cardinality(Pending(w)) <= Limit + Cardinality(Servers)
        BY <1>0 DEF LateHolds
      <4> QED
        BY <1>0, <4>1, <4>2, FewerPending
    <3> QED
      BY <3>1, <3>2
  <2>9. MemoryHolds'
    <3>1. \A t \in Servers : check[t].at <= window
      BY <1>0 DEF MemoryHolds
    <3>2. \A t \in Servers : /\ check'[t].at \in Nat
                             /\ check[t].at <= check'[t].at /\ check'[t].at <= window'
      BY <1>0, <2>1, <2>4, <3>1
    <3> QED
      BY <1>0, <2>1, <3>2, MemoryKept
  <2> QED
    BY <2>5, <2>7, <2>8, <2>9 DEF LimitInv
<1>4. ASSUME NEW s \in Servers, CountShared(s) PROVE LimitInv'
  <2>0. PICK w \in Windows : w = check[s].at
    BY <1>0
  <2>1. /\ check[s].step = "asking" /\ Incremented(w) /\ UNCHANGED <<window, buckets>>
        /\ s \in Pending(w)
    BY <1>4, <2>0 DEF CountShared, Pending
  <2>2. /\ shared' \in [Windows -> Nat] /\ shared'[w] = shared[w] + 1
        /\ \A v \in Windows \ {w} : shared'[v] = shared[v]
        /\ lasting \subseteq lasting' /\ (shared[w] = 0 => w \in lasting')
    BY <1>0, <2>1, IncrementedRows
  <2>3. CASE shared[w] = 0
    <3>1. /\ check' = [check EXCEPT ![s].step = "counted"] /\ admitted' = admitted
          /\ "counted" \in {"idle", "asking", "counted", "fallback"}
      BY <1>4, <2>0, <2>3 DEF CountShared
    <3>2. /\ check' \in [Servers -> Checks] /\ check'[s].step = "counted"
          /\ \A t \in Servers : check'[t].at = check[t].at
          /\ \A t \in Servers \ {s} : check'[t] = check[t]
      BY <1>0, <3>1, StepRows
    <3>3. LimitTypes'
      BY <1>0, <2>1, <2>2, <3>1, <3>2 DEF LimitTypes
    <3>4. /\ \A t \in Servers : ~CountedIn(t, w)
          /\ \A t \in Servers, v \in Windows :
                CountedIn(t, v)' => CountedIn(t, v) \/ (t = s /\ v = w)
      <4>1. \A t \in Servers : ~CountedIn(t, w)
        BY <1>0, <2>3 DEF KeyHolds
      <4> QED
        BY <2>0, <3>2, <4>1 DEF CountedIn
    <3>5. KeyHolds'
      BY <1>0, <2>2, <2>3, <3>4 DEF KeyHolds
    <3>6. InTimeHolds'
      <4> SUFFICES ASSUME NEW v \in Windows, window <= v
                   PROVE  /\ admitted[v]["redis"] <= shared'[v] /\ admitted[v]["redis"] <= Limit
                          /\ \A t \in Servers : CountedIn(t, v)' =>
                                /\ admitted[v]["redis"] + 1 <= shared'[v]
                                /\ admitted[v]["redis"] + 1 <= Limit
        BY <2>1, <3>1 DEF InTimeHolds
      <4>1. /\ admitted[v]["redis"] <= shared[v] /\ admitted[v]["redis"] <= Limit
            /\ \A t \in Servers : CountedIn(t, v) =>
                  admitted[v]["redis"] + 1 <= shared[v] /\ admitted[v]["redis"] + 1 <= Limit
        BY <1>0 DEF InTimeHolds
      <4>2. CASE v = w
        BY <1>0, <2>2, <2>3, <4>1, <4>2, LimitNumbers
      <4>3. CASE v # w
        BY <2>2, <3>4, <4>1, <4>3
      <4> QED
        BY <4>2, <4>3
    <3>7. LateHolds'
      <4>1. \A v \in Windows : Pending(v)' \subseteq Pending(v)
        BY <2>0, <2>1, <3>2 DEF Pending
      <4>2. ASSUME NEW v \in Windows
            PROVE  admitted[v]["redis"] + Cardinality(Pending(v)')
                      <= Limit + Cardinality(Servers)
        <5>1. admitted[v]["redis"] + Cardinality(Pending(v)) <= Limit + Cardinality(Servers)
          BY <1>0 DEF LateHolds
        <5> QED
          BY <1>0, <4>1, <5>1, FewerPending
      <4> QED
        BY <3>1, <4>2 DEF LateHolds
    <3>8. MemoryHolds'
      <4>1. \A t \in Servers : /\ check'[t].at \in Nat /\ check[t].at <= check'[t].at
                               /\ check'[t].at <= window'
        BY <1>0, <2>1, <3>2 DEF MemoryHolds
      <4> QED
        BY <1>0, <2>1, <3>1, <4>1, MemoryKept
    <3> QED
      BY <3>3, <3>5, <3>6, <3>7, <3>8 DEF LimitInv
  <2>4. CASE shared[w] # 0
    <3>1. Decided(s, "redis", shared[w] + 1) /\ "redis" \in Backends
      BY <1>4, <2>0, <2>4, LimitNumbers DEF CountShared
    <3>2. /\ check' = [check EXCEPT ![s].step = "idle"]
          /\ admitted' \in [Windows -> [Backends -> Nat]]
          /\ \A v \in Windows, c \in Backends :
               v # w \/ c # "redis" => admitted'[v][c] = admitted[v][c]
          /\ admitted'[w]["redis"] = IF shared[w] + 1 <= Limit THEN admitted[w]["redis"] + 1
                                     ELSE admitted[w]["redis"]
      <4> DEFINE count == shared[w] + 1
      <4>1. count \in Nat /\ Decided(s, "redis", count)
        BY <1>0, <3>1
      <4> HIDE DEF count
      <4>2. /\ check' = [check EXCEPT ![s].step = "idle"]
            /\ admitted' \in [Windows -> [Backends -> Nat]]
            /\ \A v \in Windows, c \in Backends :
                 v # w \/ c # "redis" => admitted'[v][c] = admitted[v][c]
            /\ admitted'[w]["redis"] = IF count <= Limit THEN admitted[w]["redis"] + 1
                                       ELSE admitted[w]["redis"]
        BY <1>0, <2>0, <3>1, <4>1, DecidedRows
      <4> QED
        BY <4>2 DEF count
    <3>3. /\ check' \in [Servers -> Checks] /\ check'[s].step = "idle"
          /\ \A t \in Servers : check'[t].at = check[t].at
          /\ \A t \in Servers \ {s} : check'[t] = check[t]
      BY <1>0, <3>2, StepRows
    <3>4. LimitTypes'
      BY <1>0, <2>1, <2>2, <3>2, <3>3 DEF LimitTypes
    <3>5. \A t \in Servers, v \in Windows : CountedIn(t, v)' => CountedIn(t, v)
      BY <3>3 DEF CountedIn
    <3>6. KeyHolds'
      BY <1>0, <2>2, <3>5 DEF KeyHolds
    <3>7. InTimeHolds'
      <4> SUFFICES ASSUME NEW v \in Windows, window <= v
                   PROVE  /\ admitted'[v]["redis"] <= shared'[v]
                          /\ admitted'[v]["redis"] <= Limit
                          /\ \A t \in Servers : CountedIn(t, v)' =>
                                /\ admitted'[v]["redis"] + 1 <= shared'[v]
                                /\ admitted'[v]["redis"] + 1 <= Limit
        BY <2>1 DEF InTimeHolds
      <4>1. /\ admitted[v]["redis"] <= shared[v] /\ admitted[v]["redis"] <= Limit
            /\ \A t \in Servers : CountedIn(t, v) =>
                  admitted[v]["redis"] + 1 <= shared[v] /\ admitted[v]["redis"] + 1 <= Limit
        BY <1>0 DEF InTimeHolds
      <4>2. CASE v = w
        BY <1>0, <2>2, <3>2, <3>5, <4>1, <4>2, LimitNumbers
      <4>3. CASE v # w
        BY <2>2, <3>1, <3>2, <3>5, <4>1, <4>3
      <4> QED
        BY <4>2, <4>3
    <3>8. LateHolds'
      <4>1. \A v \in Windows : Pending(v)' \subseteq Pending(v)
        BY <3>3 DEF Pending
      <4>2. s \notin Pending(w)'
        BY <3>3 DEF Pending
      <4>3. ASSUME NEW v \in Windows
            PROVE  admitted'[v]["redis"] + Cardinality(Pending(v)')
                      <= Limit + Cardinality(Servers)
        <5>1. admitted[v]["redis"] + Cardinality(Pending(v)) <= Limit + Cardinality(Servers)
          BY <1>0 DEF LateHolds
        <5>2. /\ admitted'[v]["redis"] \in Nat /\ admitted[v]["redis"] \in Nat
              /\ \/ admitted'[v]["redis"] = admitted[v]["redis"]
                 \/ v = w /\ admitted'[v]["redis"] = admitted[v]["redis"] + 1
          BY <1>0, <3>1, <3>2
        <5> QED
          BY <2>1, <4>1, <4>2, <5>1, <5>2, FewerPending
      <4> QED
        BY <4>3 DEF LateHolds
    <3>9. MemoryHolds'
      <4>1. \A t \in Servers : /\ check'[t].at \in Nat /\ check[t].at <= check'[t].at
                               /\ check'[t].at <= window'
        BY <1>0, <2>1, <3>3 DEF MemoryHolds
      <4>2. \A v \in Windows, t \in Servers : admitted'[v][t] = admitted[v][t]
        BY <3>2, LimitNumbers
      <4> QED
        BY <1>0, <2>1, <4>1, <4>2, MemoryKept
    <3> QED
      BY <3>4, <3>6, <3>7, <3>8, <3>9 DEF LimitInv
  <2> QED
    BY <2>3, <2>4
<1>5. ASSUME NEW s \in Servers, SetExpiry(s) PROVE LimitInv'
  <2>0. PICK w \in Windows : w = check[s].at
    BY <1>0
  <2>1. /\ CountedIn(s, w) /\ s \in Pending(w) /\ lasting' = lasting \ {w}
        /\ UNCHANGED <<window, shared, buckets>>
        /\ Decided(s, "redis", 1) /\ "redis" \in Backends
    BY <1>5, <2>0, LimitNumbers DEF SetExpiry, CountedIn, Pending
  <2>2. /\ check' = [check EXCEPT ![s].step = "idle"]
        /\ admitted' \in [Windows -> [Backends -> Nat]]
        /\ \A v \in Windows, c \in Backends :
             v # w \/ c # "redis" => admitted'[v][c] = admitted[v][c]
        /\ admitted'[w]["redis"] = admitted[w]["redis"] + 1
    BY <1>0, <2>0, <2>1, DecidedRows, LimitNumbers
  <2>3. /\ check' \in [Servers -> Checks] /\ check'[s].step = "idle"
        /\ \A t \in Servers : check'[t].at = check[t].at
        /\ \A t \in Servers \ {s} : check'[t] = check[t]
    BY <1>0, <2>2, StepRows
  <2>4. LimitTypes'
    BY <1>0, <2>1, <2>2, <2>3 DEF LimitTypes
  <2>5. /\ \A t \in Servers, v \in Windows : CountedIn(t, v)' => CountedIn(t, v) /\ t # s
        /\ \A t \in Servers : ~CountedIn(t, w)'
    <3>1. \A t \in Servers, v \in Windows : CountedIn(t, v)' => CountedIn(t, v) /\ t # s
      BY <2>3 DEF CountedIn
    <3> QED
      BY <1>0, <2>1, <3>1 DEF KeyHolds
  <2>6. KeyHolds'
    BY <1>0, <2>1, <2>5 DEF KeyHolds
  <2>7. InTimeHolds'
    <3> SUFFICES ASSUME NEW v \in Windows, window <= v
                 PROVE  /\ admitted'[v]["redis"] <= shared[v]
                        /\ admitted'[v]["redis"] <= Limit
                        /\ \A t \in Servers : CountedIn(t, v)' =>
                              /\ admitted'[v]["redis"] + 1 <= shared[v]
                              /\ admitted'[v]["redis"] + 1 <= Limit
      BY <2>1 DEF InTimeHolds
    <3>1. /\ admitted[v]["redis"] <= shared[v] /\ admitted[v]["redis"] <= Limit
          /\ \A t \in Servers : CountedIn(t, v) =>
                admitted[v]["redis"] + 1 <= shared[v] /\ admitted[v]["redis"] + 1 <= Limit
      BY <1>0 DEF InTimeHolds
    <3>2. CASE v = w
      BY <2>1, <2>2, <2>5, <3>1, <3>2
    <3>3. CASE v # w
      BY <2>1, <2>2, <2>5, <3>1, <3>3
    <3> QED
      BY <3>2, <3>3
  <2>8. LateHolds'
    <3>1. \A v \in Windows : Pending(v)' \subseteq Pending(v)
      BY <2>3 DEF Pending
    <3>2. s \notin Pending(w)'
      BY <2>3 DEF Pending
    <3>3. ASSUME NEW v \in Windows
          PROVE  admitted'[v]["redis"] + Cardinality(Pending(v)')
                    <= Limit + Cardinality(Servers)
      <4>1. admitted[v]["redis"] + Cardinality(Pending(v)) <= Limit + Cardinality(Servers)
        BY <1>0 DEF LateHolds
      <4>2. /\ admitted'[v]["redis"] \in Nat /\ admitted[v]["redis"] \in Nat
            /\ \/ admitted'[v]["redis"] = admitted[v]["redis"]
               \/ v = w /\ admitted'[v]["redis"] = admitted[v]["redis"] + 1
        BY <1>0, <2>1, <2>2
      <4> QED
        BY <2>1, <3>1, <3>2, <4>1, <4>2, FewerPending
    <3> QED
      BY <3>3 DEF LateHolds
  <2>9. MemoryHolds'
    <3>1. \A t \in Servers : /\ check'[t].at \in Nat /\ check[t].at <= check'[t].at
                             /\ check'[t].at <= window'
      BY <1>0, <2>1, <2>3 DEF MemoryHolds
    <3>2. \A v \in Windows, t \in Servers : admitted'[v][t] = admitted[v][t]
      BY <2>2, LimitNumbers
    <3> QED
      BY <1>0, <2>1, <3>1, <3>2, MemoryKept
  <2> QED
    BY <2>4, <2>6, <2>7, <2>8, <2>9 DEF LimitInv
<1>6. ASSUME NEW s \in Servers, DisablePrimary(s) PROVE LimitInv'
  <2>0. PICK w \in Windows : w = check[s].at
    BY <1>0
  <2>1. /\ check' = [check EXCEPT ![s].step = "fallback"]
        /\ UNCHANGED <<window, buckets, admitted>>
        /\ "fallback" \in {"idle", "asking", "counted", "fallback"}
        /\ \/ UNCHANGED <<shared, lasting>>
           \/ Incremented(w)
           \/ CountedIn(s, w) /\ lasting' = lasting \ {w} /\ shared' = shared
    BY <1>6, <2>0 DEF DisablePrimary, CountedIn
  <2>2. /\ check' \in [Servers -> Checks] /\ check'[s].step = "fallback"
        /\ \A t \in Servers : check'[t].at = check[t].at
        /\ \A t \in Servers \ {s} : check'[t] = check[t]
    BY <1>0, <2>1, StepRows
  <2>3. /\ \A t \in Servers, v \in Windows : CountedIn(t, v)' => CountedIn(t, v) /\ t # s
        /\ \A v \in Windows : Pending(v)' \subseteq Pending(v)
    BY <2>2 DEF CountedIn, Pending
  <2>4. /\ shared' \in [Windows -> Nat] /\ \A v \in Windows : shared[v] <= shared'[v]
        /\ \A v \in Windows, t \in Servers : CountedIn(t, v)' =>
              (v \in lasting => v \in lasting')
    <3>1. CASE UNCHANGED <<shared, lasting>>
      BY <1>0, <3>1 DEF LimitTypes
    <3>2. CASE Incremented(w)
      <4>1. /\ shared' \in [Windows -> Nat] /\ shared'[w] = shared[w] + 1
            /\ \A v \in Windows \ {w} : shared'[v] = shared[v]
            /\ lasting \subseteq lasting'
        BY <1>0, <3>2, IncrementedRows
      <4> QED
        BY <1>0, <4>1
    <3>3. CASE CountedIn(s, w) /\ lasting' = lasting \ {w} /\ shared' = shared
      <4>1. \A t \in Servers : ~CountedIn(t, w)'
        BY <1>0, <2>3, <3>3 DEF KeyHolds
      <4> QED
        BY <1>0, <3>3, <4>1 DEF LimitTypes
    <3> QED
      BY <2>1, <3>1, <3>2, <3>3
  <2>5. LimitTypes'
    BY <1>0, <2>1, <2>2, <2>4 DEF LimitTypes
  <2>6. KeyHolds' /\ InTimeHolds' /\ LateHolds'
    BY <1>0, <2>1, <2>3, <2>4, RedisKept
  <2>7. MemoryHolds'
    <3>1. \A t \in Servers : /\ check'[t].at \in Nat /\ check[t].at <= check'[t].at
                             /\ check'[t].at <= window'
      BY <1>0, <2>1, <2>2 DEF MemoryHolds
    <3> QED
      BY <1>0, <2>1, <3>1, MemoryKept
  <2> QED
    BY <2>5, <2>6, <2>7 DEF LimitInv
<1>7. ASSUME NEW s \in Servers, CountInMemory(s) PROVE LimitInv'
  <2>0. PICK w \in Windows : w = check[s].at
    BY <1>0
  <2>1. /\ UNCHANGED <<window, shared, lasting>> /\ Decided(s, s, buckets[s][w] + 1)
        /\ buckets' = [buckets EXCEPT ![s] = [v \in Windows |->
              IF v = w THEN @[w] + 1 ELSE IF v \in Kept(w) THEN @[v] ELSE 0]]
    BY <1>7, <2>0 DEF CountInMemory
  <2>2. /\ check' = [check EXCEPT ![s].step = "idle"]
        /\ admitted' \in [Windows -> [Backends -> Nat]]
        /\ \A v \in Windows, c \in Backends : v # w \/ c # s => admitted'[v][c] = admitted[v][c]
        /\ admitted'[w][s] = IF buckets[s][w] + 1 <= Limit THEN admitted[w][s] + 1
                             ELSE admitted[w][s]
    <3> DEFINE count == buckets[s][w] + 1
    <3>1. count \in Nat /\ Decided(s, s, count) /\ s \in Backends
      BY <1>0, <2>1, LimitNumbers
    <3> HIDE DEF count
    <3>2. /\ check' = [check EXCEPT ![s].step = "idle"]
          /\ admitted' \in [Windows -> [Backends -> Nat]]
          /\ \A v \in Windows, c \in Backends : v # w \/ c # s => admitted'[v][c] = admitted[v][c]
          /\ admitted'[w][s] = IF count <= Limit THEN admitted[w][s] + 1 ELSE admitted[w][s]
      BY <1>0, <2>0, <3>1, DecidedRows
    <3> QED
      BY <3>2 DEF count
  <2>3. /\ check' \in [Servers -> Checks] /\ check'[s].step = "idle"
        /\ \A t \in Servers : check'[t].at = check[t].at
        /\ \A t \in Servers \ {s} : check'[t] = check[t]
    BY <1>0, <2>2, StepRows
  <2>4. /\ buckets'[s][w] = buckets[s][w] + 1
        /\ \A v \in Windows : v > w => buckets'[s][v] = buckets[s][v]
        /\ \A t \in Servers \ {s} : buckets'[t] = buckets[t]
        /\ buckets' \in [Servers -> [Windows -> Nat]]
    <3> DEFINE after == [v \in Windows |-> IF v = w THEN buckets[s][w] + 1
                          ELSE IF v \in Kept(w) THEN buckets[s][v] ELSE 0]
    <3>1. buckets' = [buckets EXCEPT ![s] = after] /\ buckets \in [Servers -> [Windows -> Nat]]
      BY <1>0, <2>1 DEF LimitTypes
    <3>2. after \in [Windows -> Nat] /\ after[w] = buckets[s][w] + 1
      <4>1. \A v \in Windows : buckets[s][v] \in Nat
        BY <1>0
      <4> QED
        BY <4>1
    <3>3. \A v \in Windows : v > w => after[v] = buckets[s][v]
      <4>1. \A v \in Windows : v > w => v # w /\ v \in Kept(w)
        <5>1. \A v \in Windows : v \in Nat
          BY <1>0
        <5> QED
          BY <5>1 DEF Kept
      <4> QED
        BY <4>1
    <3> HIDE DEF after
    <3> QED
      BY <3>1, <3>2, <3>3
  <2>5. LimitTypes'
    BY <1>0, <2>1, <2>2, <2>3, <2>4 DEF LimitTypes
  <2>6. KeyHolds' /\ InTimeHolds' /\ LateHolds'
    <3>1. /\ \A v \in Windows, t \in Servers : CountedIn(t, v)' => CountedIn(t, v)
          /\ \A v \in Windows : Pending(v)' \subseteq Pending(v)
      BY <2>3 DEF CountedIn, Pending
    <3>2. \A v \in Windows : admitted'[v]["redis"] = admitted[v]["redis"]
      BY <2>2, LimitNumbers
    <3>3. \A v \in Windows : shared'[v] \in Nat /\ shared[v] <= shared'[v]
      BY <1>0, <2>1
    <3> QED
      BY <1>0, <2>1, <3>1, <3>2, <3>3, RedisKept
  <2>7. MemoryHolds'
    <3> SUFFICES ASSUME NEW t \in Servers
                 PROVE  /\ check'[t].at <= window
                        /\ \A v \in Windows :
                              /\ admitted'[v][t] <= Limit
                              /\ check'[t].at <= v => admitted'[v][t] <= buckets'[t][v]
      BY <2>1 DEF MemoryHolds
    <3>1. /\ check'[t].at <= window /\ check'[t].at = check[t].at
          /\ \A v \in Windows : /\ admitted[v][t] <= Limit
                                /\ check[t].at <= v => admitted[v][t] <= buckets[t][v]
      BY <1>0, <2>3 DEF MemoryHolds
    <3>2. CASE t # s
      BY <2>2, <2>4, <3>1, <3>2, LimitNumbers
    <3>3. CASE t = s
      <4>1. \A v \in Windows : v # w => admitted'[v][s] = admitted[v][s]
        BY <2>2, LimitNumbers
      <4>2. /\ admitted[w][s] <= Limit /\ admitted[w][s] <= buckets[s][w]
            /\ admitted[w][s] \in Nat /\ buckets[s][w] \in Nat
        BY <1>0, <2>0, <3>1, <3>3
      <4>3. admitted'[w][s] <= Limit /\ admitted'[w][s] <= buckets'[s][w]
        BY <2>2, <2>4, <4>2, LimitNumbers
      <4>4. \A v \in Windows : w <= v /\ v # w => v > w
        BY <1>0
      <4> QED
        BY <2>0, <2>4, <3>1, <3>3, <4>1, <4>3, <4>4
    <3> QED
      BY <3>2, <3>3
  <2> QED
    BY <2>5, <2>6, <2>7 DEF LimitInv
<1>8. ASSUME NEW w \in Windows, ExpireKey(w) PROVE LimitInv'
  <2>1. /\ w \notin lasting /\ window > w /\ shared' = [shared EXCEPT ![w] = 0]
        /\ UNCHANGED <<window, check, lasting, buckets, admitted>>
    BY <1>8 DEF ExpireKey, MayExpire
  <2>2. /\ shared' \in [Windows -> Nat]
        /\ \A v \in Windows \ {w} : shared'[v] = shared[v]
    BY <1>0, <2>1 DEF LimitTypes
  <2>3. LimitTypes'
    BY <1>0, <2>1, <2>2 DEF LimitTypes
  <2>4. KeyHolds' /\ InTimeHolds' /\ LateHolds'
    <3>1. /\ \A v \in Windows, t \in Servers : CountedIn(t, v)' => CountedIn(t, v)
          /\ \A v \in Windows : Pending(v)' \subseteq Pending(v)
      BY <2>1 DEF CountedIn, Pending
    <3>2. \A t \in Servers : ~CountedIn(t, w)
      BY <1>0, <2>1 DEF KeyHolds
    <3>3. \A v \in Windows :
             /\ shared'[v] \in Nat
             /\ window <= v => shared[v] <= shared'[v]
             /\ \A t \in Servers : CountedIn(t, v)' =>
                   shared[v] <= shared'[v] /\ (v \in lasting => v \in lasting')
      BY <1>0, <2>1, <2>2, <3>1, <3>2
    <3> QED
      BY <1>0, <2>1, <3>1, <3>3, RedisKept
  <2>5. MemoryHolds'
    BY <1>0, <2>1 DEF MemoryHolds
  <2> QED
    BY <2>3, <2>4, <2>5 DEF LimitInv
<1> QED
  BY <1>1, <1>2, <1>3, <1>4, <1>5, <1>6, <1>7, <1>8 DEF RateLimitNext

\* While a window lasts Redis lets through no more than the limit for all processes
\* together, and afterwards at most one request more of each process; and what a
\* process counts in memory never goes over the limit: for any number of processes,
\* windows and requests, wherever Redis fails and whatever replies are lost
\* (FallbackRateLimiter.check).
THEOREM QuotaIsKept == RateLimitSpec => []QuotaKept
<1>1. RateLimitInit => LimitInv
  <2> SUFFICES ASSUME RateLimitInit PROVE LimitInv
    OBVIOUS
  <2>1. /\ window = 1 /\ 1 \in Windows /\ lasting = {}
        /\ check = [s \in Servers |-> [step |-> "idle", at |-> 1]]
        /\ shared = [w \in Windows |-> 0]
        /\ buckets = [s \in Servers |-> [w \in Windows |-> 0]]
        /\ admitted = [w \in Windows |-> [b \in Backends |-> 0]]
    BY LimitNumbers DEF RateLimitInit, Windows
  <2>2. LimitTypes
    BY <2>1 DEF LimitTypes, Checks
  <2>3. KeyHolds /\ InTimeHolds
    BY <2>1, LimitNumbers DEF KeyHolds, InTimeHolds, CountedIn
  <2>4. LateHolds
    <3>1. ASSUME NEW w \in Windows
          PROVE  0 + Cardinality(Pending(w)) <= Limit + Cardinality(Servers)
      <4>1. Pending(w) \in SUBSET Servers /\ 0 \in Nat /\ 0 <= Limit
        BY LimitNumbers DEF Pending
      <4> QED
        BY <4>1, SomePending
    <3> QED
      BY <2>1, <3>1, LimitNumbers DEF LateHolds
  <2>5. MemoryHolds
    BY <2>1, LimitNumbers DEF MemoryHolds
  <2> QED
    BY <2>2, <2>3, <2>4, <2>5 DEF LimitInv
<1>2. LimitInv /\ [RateLimitNext]_limitVars => LimitInv'
  BY LimitInvNext
<1>3. LimitInv => QuotaKept
  <2> SUFFICES ASSUME LimitInv, NEW w \in Windows
               PROVE  admitted[w]["redis"] <= Limit + Cardinality(Servers)
    BY DEF LimitInv, InTimeHolds, MemoryHolds, QuotaKept
  <2>1. admitted[w]["redis"] + Cardinality(Pending(w)) <= Limit + Cardinality(Servers)
    BY DEF LimitInv, LateHolds
  <2>2. Cardinality(Pending(w)) \in Nat
    <3>1. Pending(w) \subseteq Servers
      BY DEF Pending
    <3> QED
      BY <3>1, LimitNumbers, FS_Subset, FS_CardinalityType
  <2>3. admitted[w]["redis"] \in Nat
    BY LimitFacts DEF LimitInv
  <2> QED
    BY <2>1, <2>2, <2>3, LimitNumbers
<1> QED
  BY <1>1, <1>2, <1>3, PTL DEF RateLimitSpec
=============================================================================
