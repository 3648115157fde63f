---------------------------- MODULE Conversations ----------------------------
(***************************************************************************)
(* Questions asked in a conversation: the two messages, the run and its    *)
(* stage events that each one leaves (ConversationService,                 *)
(* RagObservabilityService), what the client reads on its stream           *)
(* (create_message) and the replay of a run (RagReplayService).            *)
(*                                                                         *)
(* A question is one request.  The search comes before its transaction,    *)
(* and the stream after it: a client may go away, a process die or the     *)
(* database fail at every step of either.                                  *)
(***************************************************************************)
EXTENDS Naturals, Sequences, FiniteSets

CONSTANTS
    Talks,          \* conversations
    Questions,      \* requests to create_message
    Findings,       \* what a search may return: sequences of evidence
    ContextTokens,  \* rag_context_max_tokens
    ClientsLeave    \* may a client disconnect, or a process die?

Evidence == UNION {{found[i] : i \in DOMAIN found} : found \in Findings}

\* An item of evidence: what its text costs in tokens, and what it costs cut.
ASSUME ConversationAssumption ==
    /\ Findings \subseteq Seq(Evidence)
    /\ \A found \in Findings : \A i \in DOMAIN found :
          found[i].short \in Nat /\ found[i].cost \in Nat /\ found[i].short <= found[i].cost
    /\ ContextTokens \in Nat
    /\ ClientsLeave \in BOOLEAN

VARIABLES
    talk,      \* conversation -> its state
    ask,       \* question -> where its request is
    told,      \* question -> how its stream ended for the client
    reply,     \* question -> its assistant message and the run that writes it
    events,    \* question -> the stage events of that run
    badcases,  \* question -> the bad cases raised for that run
    replays    \* question -> the stage events of its replay, if there is one

conversationVars == <<talk, ask, told, reply, events, badcases, replays>>

Stages == {"route", "rewrite", "retrieve", "fuse", "rerank", "truncate", "answer", "judge"}
NoEvents == [s \in Stages |-> "absent"]
NoReply == [message |-> "none", run |-> "none", citations |-> <<>>, grounding |-> <<>>]

ConversationInit ==
    /\ talk = [c \in Talks |-> "active"]
    /\ ask = [q \in Questions |-> "new"]
    /\ told = [q \in Questions |-> "nothing"]
    /\ reply = [q \in Questions |-> NoReply]
    /\ events = [q \in Questions |-> NoEvents]
    /\ badcases = [q \in Questions |-> {}]
    /\ replays = [q \in Questions |-> NoEvents]

Enters(q, step) == ask' = [ask EXCEPT ![q] = step]

----------------------------------------------------------------------------
(* The evidence that fits the context.                                     *)

SmallestRemainder == 32

\* The item is taken whole, or cut when it is larger than what remains.
CostIn(item, remaining) == IF item.cost <= remaining THEN item.cost ELSE item.short
Spent(found) ==
    LET spent[i \in 0 .. Len(found)] ==
          IF i = 0 THEN 0
          ELSE spent[i - 1] + CostIn(found[i], ContextTokens - spent[i - 1])
    IN  spent
Reached(found, i) == \A j \in 1 .. i :
    /\ Spent(found)[j - 1] + SmallestRemainder <= ContextTokens
    /\ j < i => Spent(found)[j] <= ContextTokens
Fits(found, i) == Reached(found, i) /\ Spent(found)[i] <= ContextTokens

\* Mutant: an item that does not fit is passed over and the next one tried.
Grounding_Skipping(found) ==
    SelectSeq(found, LAMBDA item : item.short + SmallestRemainder <= ContextTokens)

\* EvidenceBudgetBuilder.build stops at the first item that does not fit.
Grounding(found) ==
    SubSeq(found, 1, Cardinality({i \in DOMAIN found : Fits(found, i)}))

\* truncated_count: the items that were cut, not those that were left out.
Truncated(found) ==
    {i \in DOMAIN found : Reached(found, i)
                          /\ Spent(found)[i - 1] + found[i].cost > ContextTokens}

Named(found) == [i \in DOMAIN found |-> found[i].id]

----------------------------------------------------------------------------
(* prepare_answer.                                                         *)

\* The conversation is looked at once, before the router and the search.
Ask(q, c) ==
    /\ ask[q] = "new"
    /\ talk[c] = "active"
    /\ Enters(q, "searching")
    /\ UNCHANGED <<talk, told, reply, events, badcases, replays>>

\* The search raises: nothing has been written.
SearchFails(q) ==
    /\ ask[q] = "searching"
    /\ Enters(q, "over")
    /\ told' = [told EXCEPT ![q] = "refused"]
    /\ UNCHANGED <<talk, reply, events, badcases, replays>>

\* record_preparation.
Prepared(rag) ==
    [s \in Stages |-> CASE s \in {"route", "truncate"} -> "completed"
                        [] s \in {"rewrite", "retrieve", "fuse", "rerank"} ->
                              IF rag THEN "completed" ELSE "skipped"
                        [] s = "answer" -> "running"
                        [] s = "judge" -> "skipped"]
BadcasesOf(rag, found, fallback) ==
    (IF rag /\ found = <<>> THEN {"retrieval_miss"} ELSE {})
    \cup (IF Truncated(found) # {} THEN {"context_truncated"} ELSE {})
    \cup (IF rag /\ fallback THEN {"reranker_fallback"} ELSE {})

\* One transaction creates the messages, the run, its events and its bad cases.
Prepare(q) ==
    /\ ask[q] = "searching"
    /\ \E rag, fallback \in BOOLEAN : \E found \in IF rag THEN Findings ELSE {<<>>} :
          /\ reply' = [reply EXCEPT ![q] =
                [message |-> "streaming", run |-> "running",
                 citations |-> Named(found), grounding |-> Named(Grounding(found))]]
          /\ events' = [events EXCEPT ![q] = Prepared(rag)]
          /\ badcases' = [badcases EXCEPT ![q] = BadcasesOf(rag, found, fallback)]
    /\ Enters(q, "opening")
    /\ UNCHANGED <<talk, told, replays>>

----------------------------------------------------------------------------
(* _answer_events.                                                         *)

\* started, trace and citation go out before the try block.
Open(q) ==
    /\ ask[q] = "opening"
    /\ Enters(q, "streaming")
    /\ UNCHANGED <<talk, told, reply, events, badcases, replays>>

\* The model or a fragment of its answer fails.
StreamFails(q) ==
    /\ ask[q] = "streaming"
    /\ Enters(q, "failing")
    /\ UNCHANGED <<talk, told, reply, events, badcases, replays>>

Ended(r, state) == [r EXCEPT !.message = state, !.run = state]

\* complete_answer: message, run and answer event in one commit.
CompleteAnswer(q) ==
    /\ ask[q] = "streaming"
    /\ reply' = [reply EXCEPT ![q] = Ended(@, "completed")]
    /\ events' = [events EXCEPT ![q].answer = "completed"]
    /\ Enters(q, "completed")
    /\ UNCHANGED <<talk, told, badcases, replays>>

TellCompleted(q) ==
    /\ ask[q] = "completed"
    /\ Enters(q, "over")
    /\ told' = [told EXCEPT ![q] = "completed"]
    /\ UNCHANGED <<talk, reply, events, badcases, replays>>

\* Mutant: the exception handler does not write the failure.
Caught_Silent(q) == reply' = reply /\ events' = events /\ badcases' = badcases

Caught(q) ==
    /\ reply' = [reply EXCEPT ![q] = Ended(@, "failed")]
    /\ events' = [events EXCEPT ![q].answer = "failed"]
    /\ badcases' = [badcases EXCEPT ![q] = @ \cup {"answer_failed"}]

\* fail_answer, and the error event.
FailAnswer(q) ==
    /\ ask[q] = "failing"
    /\ Caught(q)
    /\ Enters(q, "over")
    /\ told' = [told EXCEPT ![q] = "error"]
    /\ UNCHANGED <<talk, replays>>

\* GeneratorExit is not an Exception, and once a flush or a connection has failed
\* the session refuses what fail_answer does: the stream just ends.
Abandon(q) ==
    /\ ClientsLeave
    /\ ask[q] \in {"searching", "opening", "streaming", "failing", "completed"}
    /\ Enters(q, "lost")
    /\ UNCHANGED <<talk, told, reply, events, badcases, replays>>

----------------------------------------------------------------------------
(* Archiving, and replays.                                                 *)

ArchiveTalk(c) ==
    /\ talk[c] = "active"
    /\ talk' = [talk EXCEPT ![c] = "archived"]
    /\ UNCHANGED <<ask, told, reply, events, badcases, replays>>

\* Mutant: a replay records the answer of the run it replays.
Replayed_Answered(q) == [Prepared(TRUE) EXCEPT !.answer = events[q].answer]

\* record_replay: a replay answers nothing.
Replayed(q) == [Prepared(TRUE) EXCEPT !.answer = "skipped"]

\* The source run may be in any state, still running included.  From rewrite its
\* recorded route must have been to the documents, from route it is taken anew.
Replay(q) ==
    /\ reply[q].run # "none"
    /\ replays[q] = NoEvents
    /\ replays' = [replays EXCEPT ![q] = Replayed(q)]
    /\ UNCHANGED <<talk, ask, told, reply, events, badcases>>

ServerStep(q) ==
    \/ SearchFails(q) \/ Prepare(q) \/ Open(q)
    \/ StreamFails(q) \/ CompleteAnswer(q) \/ TellCompleted(q) \/ FailAnswer(q)

ConversationNext ==
    \/ \E q \in Questions : ServerStep(q) \/ Abandon(q) \/ Replay(q)
    \/ \E q \in Questions, c \in Talks : Ask(q, c)
    \/ \E c \in Talks : ArchiveTalk(c)

\* The request's thread runs, and every call to a model has a timeout.
ConversationFairness == \A q \in Questions : WF_conversationVars(ServerStep(q))

ConversationSpec == ConversationInit /\ [][ConversationNext]_conversationVars /\ ConversationFairness

----------------------------------------------------------------------------
(* Properties                                                              *)

\* Whatever fails or leaves: the message, its run, the answer event and the bad
\* case tell one story, the client was told nothing that is not committed, and of
\* all the runs that name the message, replays included, at most one answered it
\* (complete_answer, fail_answer, record_replay).
AnswersAgree ==
    \A q \in Questions :
        LET state == reply[q].message
        IN
        /\ reply[q].run = (CASE state = "none" -> "none" [] state = "streaming" -> "running"
                             [] OTHER -> state)
        /\ events[q].answer = (CASE state = "none" -> "absent" [] state = "streaming" -> "running"
                                 [] OTHER -> state)
        /\ "answer_failed" \in badcases[q] <=> state = "failed"
        /\ told[q] = "completed" => state = "completed"
        /\ told[q] = "error" => state = "failed"
        /\ told[q] = "refused" => state = "none"
        /\ replays[q].answer \in {"absent", "skipped"}

\* A citation number in an answer means the same document for the model that wrote
\* it, which saw what fits the context, and for the client, who holds the snapshot
\* of everything found (_grounding_evidence, _citation_snapshot).
CitationsResolve ==
    \A q \in Questions : \A i \in DOMAIN reply[q].grounding :
        i \in DOMAIN reply[q].citations /\ reply[q].citations[i] = reply[q].grounding[i]

\* A message that is streaming becomes completed or failed, unless the stream was
\* abandoned (fail_answer: no blank message without an explanation).
EveryAnswerSettles ==
    \A q \in Questions :
        reply[q].message = "streaming" ~>
            reply[q].message \in {"completed", "failed"} \/ ask[q] = "lost"
=============================================================================
