------------------------------ MODULE Feedback -------------------------------
(***************************************************************************)
(* What users say of completed answers and what is learned from it: the    *)
(* triage queue (FeedbackService) and the knowledge drafts and evaluation  *)
(* cases made of triaged items (FeedbackLearningService).                  *)
(*                                                                         *)
(* A desk is one request.  Its transaction takes its rows FOR UPDATE,      *)
(* reads them, and writes and commits in a later step; rows that do not    *)
(* exist yet cannot be locked, only their unique constraints hold.  FOR    *)
(* UPDATE locks, as on PostgreSQL; SQLite ignores it.                      *)
(***************************************************************************)
EXTENDS Naturals

CONSTANTS
    Replies,   \* completed assistant messages
    Desks,     \* requests of users and reviewers
    MaxVisits  \* bound: requests made

ASSUME FeedbackAssumption == MaxVisits \in Nat

VARIABLES
    opinion,  \* message -> its answer_feedback row: the sentiment
    triage,   \* message -> the feedback_triage row of that feedback
    draft,    \* message -> the feedback_knowledge_drafts row of that triage
    trial,    \* message -> its feedback_evaluation_cases row
    learned,  \* message -> how many notes were created from its draft
    desk,     \* desk -> the request at work and what it has read
    visits    \* requests made

feedbackVars == <<opinion, triage, draft, trial, learned, desk, visits>>

Targets == {"knowledge_draft", "evaluation_case", "product_bug"}
NoTriage == [state |-> "none", target |-> "none"]
NoVisit == [op |-> "none"]

FeedbackInit ==
    /\ opinion = [m \in Replies |-> "none"]
    /\ triage = [m \in Replies |-> NoTriage]
    /\ draft = [m \in Replies |-> "none"]
    /\ trial = [m \in Replies |-> "none"]
    /\ learned = [m \in Replies |-> 0]
    /\ desk = [c \in Desks |-> NoVisit]
    /\ visits = 0

----------------------------------------------------------------------------
(* Row locks.                                                              *)

\* The rows each operation reads FOR UPDATE, in this order.
RowsOf(op) ==
    CASE op = "submit" -> {"opinion", "triage"}
      [] op = "review" -> {"triage"}
      [] op = "draft" -> {"triage", "draft"}
      [] op = "decide draft" -> {"draft"}
      [] op = "case" -> {"triage", "trial"}
      [] op = "decide case" -> {"trial"}

Exists(row, m) == CASE row = "opinion" -> opinion[m] # "none"
                    [] row = "triage" -> triage[m] # NoTriage
                    [] row = "draft" -> draft[m] # "none"
                    [] row = "trial" -> trial[m] # "none"

\* Mutants: a review reads its draft, or a triage, without FOR UPDATE.
Waits_ButDrafts(op, m) ==
    \E c \in Desks : desk[c].op # "none" /\ desk[c].m = m
                     /\ desk[c].locks \cap (RowsOf(op) \ {"draft"}) # {}
Waits_ButTriage(op, m) ==
    \E c \in Desks : desk[c].op # "none" /\ desk[c].m = m
                     /\ desk[c].locks \cap (RowsOf(op) \ {"triage"}) # {}

Waits(op, m) ==
    \E c \in Desks : desk[c].op # "none" /\ desk[c].m = m
                     /\ desk[c].locks \cap RowsOf(op) # {}

\* The request has read its rows; it goes on only if its checks pass.
Visit(c, op, m, wish) ==
    /\ desk[c].op = "none"
    /\ visits < MaxVisits
    /\ ~Waits(op, m)
    /\ visits' = visits + 1
    /\ desk' = [desk EXCEPT ![c] =
          [op |-> op, m |-> m, wish |-> wish, known |-> opinion[m] # "none",
           triage |-> triage[m], locks |-> {row \in RowsOf(op) : Exists(row, m)}]]
    /\ UNCHANGED <<opinion, triage, draft, trial, learned>>

Leave(c) == desk' = [desk EXCEPT ![c] = NoVisit]

\* The index fails, or the process dies: everything is rolled back.
RollBack(c) ==
    /\ desk[c].op # "none"
    /\ Leave(c)
    /\ UNCHANGED <<opinion, triage, draft, trial, learned, visits>>

----------------------------------------------------------------------------
(* FeedbackService.                                                        *)

Submit(c, m, sentiment) == Visit(c, "submit", m, sentiment)

\* Unhelpful feedback opens a triage item or reopens one that was dismissed, and
\* leaves what is in review or resolved; helpful feedback dismisses what waits.
Triaged(row, sentiment) ==
    IF sentiment = "unhelpful"
    THEN IF row.state \in {"none", "dismissed"}
         THEN [state |-> "open", target |-> "none"] ELSE row
    ELSE IF row.state \in {"open", "in_review"}
         THEN [row EXCEPT !.state = "dismissed"] ELSE row

\* The first feedback of a message is an INSERT under a unique constraint.
CommitSubmit(c) ==
    LET v == desk[c]
    IN
    /\ v.op = "submit"
    /\ Leave(c)
    /\ IF ~v.known /\ opinion[v.m] # "none"
       THEN UNCHANGED <<opinion, triage>>
       ELSE /\ opinion' = [opinion EXCEPT ![v.m] = v.wish]
            /\ triage' = [triage EXCEPT ![v.m] = Triaged(v.triage, v.wish)]
    /\ UNCHANGED <<draft, trial, learned, visits>>

\* A finished item is not reviewed again, and a resolved one has a target.
Review(c, m, decision) ==
    /\ triage[m].state \in {"open", "in_review"}
    /\ decision.state = "resolved" => decision.target \in Targets
    /\ Visit(c, "review", m, decision)

CommitReview(c) ==
    /\ desk[c].op = "review"
    /\ Leave(c)
    /\ triage' = [triage EXCEPT ![desk[c].m] = desk[c].wish]
    /\ UNCHANGED <<opinion, draft, trial, learned, visits>>

Decisions == [state : {"open", "in_review", "resolved", "dismissed"},
              target : Targets \cup {"none"}]

----------------------------------------------------------------------------
(* FeedbackLearningService: roles are checked before anything is read.     *)

\* _get_eligible_triage.
Eligible(m, target) == triage[m] = [state |-> "resolved", target |-> target]

CreateDraft(c, m) ==
    /\ Eligible(m, "knowledge_draft")
    /\ draft[m] = "none"
    /\ Visit(c, "draft", m, "pending")

CommitDraft(c) ==
    /\ desk[c].op = "draft"
    /\ Leave(c)
    /\ draft' = IF draft[desk[c].m] = "none"
                THEN [draft EXCEPT ![desk[c].m] = "pending"] ELSE draft
    /\ UNCHANGED <<opinion, triage, trial, learned, visits>>

DecideDraft(c, m, decision) ==
    /\ draft[m] = "pending"
    /\ Visit(c, "decide draft", m, decision)

\* create_note shares the session and the commit: the note and the decision are
\* kept or lost together.
CommitDecidedDraft(c) ==
    LET v == desk[c]
    IN
    /\ v.op = "decide draft"
    /\ Leave(c)
    /\ draft' = [draft EXCEPT ![v.m] = v.wish]
    /\ learned' = IF v.wish = "approved" THEN [learned EXCEPT ![v.m] = @ + 1] ELSE learned
    /\ UNCHANGED <<opinion, triage, trial, visits>>

CreateCase(c, m) ==
    /\ Eligible(m, "evaluation_case")
    /\ trial[m] = "none"
    /\ Visit(c, "case", m, "pending")

CommitCase(c) ==
    /\ desk[c].op = "case"
    /\ Leave(c)
    /\ trial' = IF trial[desk[c].m] = "none"
                THEN [trial EXCEPT ![desk[c].m] = "pending"] ELSE trial
    /\ UNCHANGED <<opinion, triage, draft, learned, visits>>

DecideCase(c, m, decision) ==
    /\ trial[m] = "pending"
    /\ Visit(c, "decide case", m, decision)

CommitDecidedCase(c) ==
    /\ desk[c].op = "decide case"
    /\ Leave(c)
    /\ trial' = [trial EXCEPT ![desk[c].m] = desk[c].wish]
    /\ UNCHANGED <<opinion, triage, draft, learned, visits>>

FeedbackNext ==
    \/ \E c \in Desks, m \in Replies :
          \/ \E sentiment \in {"helpful", "unhelpful"} : Submit(c, m, sentiment)
          \/ \E decision \in Decisions : Review(c, m, decision)
          \/ CreateDraft(c, m) \/ CreateCase(c, m)
          \/ \E decision \in {"approved", "rejected"} :
                DecideDraft(c, m, decision) \/ DecideCase(c, m, decision)
    \/ \E c \in Desks :
          \/ CommitSubmit(c) \/ CommitReview(c) \/ CommitDraft(c) \/ CommitDecidedDraft(c)
          \/ CommitCase(c) \/ CommitDecidedCase(c) \/ RollBack(c)

FeedbackSpec == FeedbackInit /\ [][FeedbackNext]_feedbackVars

----------------------------------------------------------------------------
(* Properties                                                              *)

\* However requests overlap, one answer teaches at most one note, only through an
\* approved draft, and drafts and cases come only from a triage a reviewer resolved
\* to them, which nothing reopens (review_knowledge_draft, _get_eligible_triage).
LearnedFromReviewed ==
    \A m \in Replies :
        /\ learned[m] = (IF draft[m] = "approved" THEN 1 ELSE 0)
        /\ draft[m] # "none" => Eligible(m, "knowledge_draft")
        /\ trial[m] # "none" => Eligible(m, "evaluation_case")

\* The queue follows the users: an answer whose latest feedback is helpful does not
\* wait for a reviewer, and unhelpful feedback has a triage item (submit).
QueueFollowsFeedback ==
    \A m \in Replies :
        /\ opinion[m] = "helpful" => triage[m].state \notin {"open", "in_review"}
        /\ opinion[m] = "unhelpful" => triage[m].state # "none"
=============================================================================
