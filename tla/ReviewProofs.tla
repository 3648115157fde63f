---------------------------- MODULE ReviewProofs -----------------------------
(***************************************************************************)
(* Decisions of reviewers and owners, for any number of assets, answers,   *)
(* users and requests: tag assignments stay decided; notes, drafts and     *)
(* evaluation cases come only from reviewed feedback; and a workspace      *)
(* loses its last active owner only on SQLite, by overlapping updates.     *)
(***************************************************************************)
EXTENDS TagReview, Feedback, Access, FiniteSetTheorems, TLAPS

-----------------------------------------------------------------------------
(* Tags.                                                                   *)

Proposed == {"none", "pending", "approved", "rejected"}
\* The transactions at work.
TagWork ==
    {NoTagWork}
    \cup [op : {"archive"}, tag : Tags, version : Nat]
    \cup [op : {"propose"}, asset : Tagged, tags : SUBSET Tags]
    \cup [op : {"review"}, tag : Tags, asset : Tagged, decision : {"approved", "rejected"}]
Reviewing(c, t, a) == tagDesk[c].op = "review" /\ tagDesk[c].tag = t /\ tagDesk[c].asset = a

\* An assignment under review is pending, and one reviewer has it.
TagInv ==
    /\ tag \in [Tags -> [state : {"absent", "active", "archived"}, version : Nat]]
    /\ assignment \in [Tags -> [Tagged -> Proposed]]
    /\ tagDesk \in [TagDesks -> TagWork]
    /\ \A c \in TagDesks, t \in Tags, a \in Tagged :
          Reviewing(c, t, a) => /\ assignment[t][a] = "pending"
                                /\ \A d \in TagDesks : Reviewing(d, t, a) => d = c

\* A transaction that begins a review adds a reviewer to an assignment that has none;
\* any other adds no reviewer.
LEMMA TagBegun ==
    ASSUME TagInv, NEW c \in TagDesks, NEW work \in TagWork, Begins(c, work),
           work.op = "review" => /\ assignment[work.tag][work.asset] = "pending"
                                 /\ ~ReviewLocked(work.tag, work.asset)
    PROVE  TagInv'
<1>1. tagDesk' = [tagDesk EXCEPT ![c] = work] /\ UNCHANGED <<tag, assignment>>
  BY DEF Begins
<1>2. tagDesk' \in [TagDesks -> TagWork]
  BY <1>1 DEF TagInv
<1>3. tagDesk'[c] = work /\ \A d \in TagDesks \ {c} : tagDesk'[d] = tagDesk[d]
  BY <1>1 DEF TagInv
<1>4. ASSUME NEW d \in TagDesks, NEW t \in Tags, NEW a \in Tagged, Reviewing(d, t, a)'
      PROVE  /\ assignment'[t][a] = "pending"
             /\ \A e \in TagDesks : Reviewing(e, t, a)' => e = d
  BY <1>1, <1>3, <1>4 DEF TagInv, Reviewing, ReviewLocked
<1> QED
  BY <1>1, <1>2, <1>4 DEF TagInv

\* A transaction that ends takes its review with it.
LEMMA TagEnded ==
    ASSUME TagInv, NEW c \in TagDesks, Ends(c), tag' = tag,
           assignment' \in [Tags -> [Tagged -> Proposed]],
           \A t \in Tags, a \in Tagged :
              assignment[t][a] = "pending" /\ ~Reviewing(c, t, a) => assignment'[t][a] = "pending"
    PROVE  TagInv'
<1>1. tagDesk' = [tagDesk EXCEPT ![c] = NoTagWork]
  BY DEF Ends
<1>2. tagDesk' \in [TagDesks -> TagWork]
  BY <1>1 DEF TagInv, TagWork
<1>3. tagDesk'[c] = NoTagWork /\ \A d \in TagDesks \ {c} : tagDesk'[d] = tagDesk[d]
  BY <1>1 DEF TagInv
<1>4. ASSUME NEW d \in TagDesks, NEW t \in Tags, NEW a \in Tagged, Reviewing(d, t, a)'
      PROVE  /\ assignment'[t][a] = "pending"
             /\ \A e \in TagDesks : Reviewing(e, t, a)' => e = d
  <2>1. d # c /\ Reviewing(d, t, a)
    BY <1>3, <1>4 DEF Reviewing, NoTagWork
  <2>2. assignment[t][a] = "pending" /\ ~Reviewing(c, t, a)
    BY <2>1 DEF TagInv
  <2>3. \A e \in TagDesks : Reviewing(e, t, a)' => Reviewing(e, t, a)
    BY <1>3 DEF Reviewing, NoTagWork
  <2> QED
    BY <2>1, <2>2, <2>3 DEF TagInv
<1> QED
  BY <1>2, <1>4 DEF TagInv

\* What the end of each transaction does to the assignments.
LEMMA ProposalCommitted ==
    ASSUME TagInv, NEW c \in TagDesks, CommitProposal(c)
    PROVE  /\ assignment' \in [Tags -> [Tagged -> Proposed]]
           /\ \A t \in Tags, a \in Tagged :
                 assignment'[t][a] = assignment[t][a]
                 \/ (assignment[t][a] = "none" /\ assignment'[t][a] = "pending")
<1>1. tagDesk[c] \in TagWork /\ tagDesk[c].op = "propose"
  BY DEF TagInv, CommitProposal
<1>2. tagDesk[c].asset \in Tagged /\ tagDesk[c].tags \in SUBSET Tags
  BY <1>1 DEF TagWork, NoTagWork
<1>3. assignment \in [Tags -> [Tagged -> Proposed]]
  BY DEF TagInv
<1>4. CASE Proposable(tagDesk[c].asset, tagDesk[c].tags)
  <2>1. assignment' = [t \in Tags |-> IF t \in tagDesk[c].tags
                         THEN [assignment[t] EXCEPT ![tagDesk[c].asset] = "pending"]
                         ELSE assignment[t]]
    BY <1>4 DEF CommitProposal
  <2>2. ASSUME NEW t \in Tags
        PROVE  /\ assignment'[t] \in [Tagged -> Proposed]
               /\ \A a \in Tagged :
                     assignment'[t][a] = assignment[t][a]
                     \/ (assignment[t][a] = "none" /\ assignment'[t][a] = "pending")
    <3>1. assignment[t] \in [Tagged -> Proposed] /\ "pending" \in Proposed
      BY <1>3 DEF Proposed
    <3>2. CASE t \in tagDesk[c].tags
      <4>1. assignment'[t] = [assignment[t] EXCEPT ![tagDesk[c].asset] = "pending"]
        BY <2>1, <3>2
      <4>2. assignment[t][tagDesk[c].asset] = "none"
        BY <1>4, <3>2 DEF Proposable
      <4> QED
        BY <1>2, <3>1, <4>1, <4>2
    <3>3. CASE t \notin tagDesk[c].tags
      BY <2>1, <3>1, <3>3
    <3> QED
      BY <3>2, <3>3
  <2>3. assignment' = [t \in Tags |-> assignment'[t]]
    BY <2>1
  <2> QED
    BY <2>2, <2>3
<1>5. CASE ~Proposable(tagDesk[c].asset, tagDesk[c].tags)
  BY <1>3, <1>5 DEF CommitProposal
<1> QED
  BY <1>4, <1>5

LEMMA Reviews ==
    ASSUME NEW old \in [Tags -> [Tagged -> Proposed]], NEW tg \in Tags, NEW asset \in Tagged,
           NEW decision \in Proposed, NEW new,
           new = [old EXCEPT ![tg][asset] = decision]
    PROVE  /\ new \in [Tags -> [Tagged -> Proposed]]
           /\ \A t \in Tags, a \in Tagged :
                 new[t][a] = old[t][a] \/ (t = tg /\ a = asset)
<1>1. new = [old EXCEPT ![tg] = [old[tg] EXCEPT ![asset] = decision]]
  OBVIOUS
<1>2. old[tg] \in [Tagged -> Proposed]
  OBVIOUS
<1>3. [old[tg] EXCEPT ![asset] = decision] \in [Tagged -> Proposed]
  BY <1>2
<1>4. \A t \in Tags : t # tg => new[t] = old[t]
  BY <1>1
<1>5. \A a \in Tagged : a # asset => new[tg][a] = old[tg][a]
  BY <1>1, <1>2
<1> QED
  BY <1>1, <1>3, <1>4, <1>5

LEMMA ReviewCommitted ==
    ASSUME TagInv, NEW c \in TagDesks, CommitReviewed(c)
    PROVE  /\ assignment' \in [Tags -> [Tagged -> Proposed]]
           /\ \A t \in Tags, a \in Tagged :
                 assignment'[t][a] = assignment[t][a]
                 \/ (assignment[t][a] = "pending" /\ Reviewing(c, t, a))
<1>1. tagDesk[c] \in TagWork /\ tagDesk[c].op = "review"
  BY DEF TagInv, CommitReviewed
<1>2. /\ tagDesk[c].asset \in Tagged /\ tagDesk[c].tag \in Tags
      /\ tagDesk[c].decision \in Proposed
  BY <1>1 DEF TagWork, NoTagWork, Proposed
<1>3. assignment' = [assignment EXCEPT ![tagDesk[c].tag][tagDesk[c].asset] = tagDesk[c].decision]
  BY DEF CommitReviewed
<1>4. Reviewing(c, tagDesk[c].tag, tagDesk[c].asset)
  BY <1>1 DEF Reviewing
<1>5. assignment[tagDesk[c].tag][tagDesk[c].asset] = "pending"
  BY <1>2, <1>4 DEF TagInv
<1>6. assignment \in [Tags -> [Tagged -> Proposed]]
  BY DEF TagInv
<1>7. /\ assignment' \in [Tags -> [Tagged -> Proposed]]
      /\ \A t \in Tags, a \in Tagged :
            assignment'[t][a] = assignment[t][a] \/ (t = tagDesk[c].tag /\ a = tagDesk[c].asset)
  BY <1>2, <1>3, <1>6, Reviews
<1> QED
  BY <1>4, <1>5, <1>7

LEMMA TagInvNext == ASSUME TagInv, [TagNext]_tagVars PROVE TagInv'
<1>1. CASE UNCHANGED tagVars
  BY <1>1 DEF tagVars, TagInv, Reviewing
<1>2. ASSUME NEW t \in Tags, CreateTag(t) PROVE TagInv'
  BY <1>2 DEF CreateTag, TagInv, Reviewing
<1>3. ASSUME NEW c \in TagDesks, CommitArchiveTag(c) PROVE TagInv'
  <2>1. tagDesk[c].tag \in Tags /\ tagDesk[c].version \in Nat /\ tagDesk[c].op = "archive"
    BY <1>3 DEF CommitArchiveTag, TagInv, TagWork, NoTagWork
  <2>2. tag' \in [Tags -> [state : {"absent", "active", "archived"}, version : Nat]]
    BY <1>3, <2>1 DEF CommitArchiveTag, TagInv
  <2>3. tagDesk' = [tagDesk EXCEPT ![c] = NoTagWork] /\ assignment' = assignment
    BY <1>3 DEF CommitArchiveTag, Ends
  <2>4. tagDesk' \in [TagDesks -> TagWork]
    BY <2>3 DEF TagInv, TagWork
  <2>5. \A d \in TagDesks, t \in Tags, a \in Tagged : Reviewing(d, t, a)' => Reviewing(d, t, a)
    BY <2>3 DEF Reviewing, NoTagWork, TagInv
  <2> QED
    BY <2>2, <2>3, <2>4, <2>5 DEF TagInv
<1>4. ASSUME NEW c \in TagDesks, CommitProposal(c) PROVE TagInv'
  <2>1. Ends(c) /\ tag' = tag
    BY <1>4 DEF CommitProposal
  <2> QED
    BY <1>4, <2>1, ProposalCommitted, TagEnded
<1>5. ASSUME NEW c \in TagDesks, CommitReviewed(c) PROVE TagInv'
  <2>1. Ends(c) /\ tag' = tag
    BY <1>5 DEF CommitReviewed
  <2>2. \A t \in Tags, a \in Tagged :
           assignment[t][a] = "pending" /\ ~Reviewing(c, t, a) => assignment'[t][a] = "pending"
    BY <1>5, ReviewCommitted
  <2> QED
    BY <1>5, <2>1, <2>2, ReviewCommitted, TagEnded
<1>6. ASSUME NEW c \in TagDesks, DropTagWork(c) PROVE TagInv'
  <2>1. Ends(c) /\ tag' = tag /\ assignment' = assignment
    BY <1>6 DEF DropTagWork
  <2> QED
    BY <2>1, TagEnded DEF TagInv
<1>7. ASSUME NEW c \in TagDesks, NEW t \in Tags, BeginArchiveTag(c, t) PROVE TagInv'
  <2>1. [op |-> "archive", tag |-> t, version |-> tag[t].version] \in TagWork
    BY DEF TagWork, TagInv
  <2> QED
    BY <1>7, <2>1, TagBegun DEF BeginArchiveTag
<1>8. ASSUME NEW c \in TagDesks, NEW a \in Tagged, BeginAutoProposal(c, a) PROVE TagInv'
  <2> DEFINE new == {t \in NamedIn[a] : tag[t].state = "active" /\ assignment[t][a] = "none"}
  <2>1. [op |-> "propose", asset |-> a, tags |-> new] \in TagWork
    BY TagReviewAssumption DEF TagWork
  <2> QED
    BY <1>8, <2>1, TagBegun DEF BeginAutoProposal
<1>9. ASSUME NEW c \in TagDesks, NEW t \in Tags, NEW a \in Tagged, BeginProposal(c, t, a)
      PROVE  TagInv'
  <2>1. [op |-> "propose", asset |-> a, tags |-> {t}] \in TagWork
    BY DEF TagWork
  <2> QED
    BY <1>9, <2>1, TagBegun DEF BeginProposal
<1>10. ASSUME NEW c \in TagDesks, NEW t \in Tags, NEW a \in Tagged,
              NEW decision \in {"approved", "rejected"}, BeginReview(c, t, a, decision)
       PROVE  TagInv'
  <2>1. [op |-> "review", tag |-> t, asset |-> a, decision |-> decision] \in TagWork
    BY DEF TagWork
  <2> QED
    BY <1>10, <2>1, TagBegun DEF BeginReview
<1> QED
  BY <1>1, <1>2, <1>3, <1>4, <1>5, <1>6, <1>7, <1>8, <1>9, <1>10 DEF TagNext

\* What a reviewer has decided about a tag stays decided, whoever else reviews,
\* proposes or indexes at the same time (review_assignment, _auto_propose).
THEOREM TagDecisionsHold == TagSpec => TagDecisionsStand
<1>1. TagInit => TagInv
  BY DEF TagInit, TagInv, TagWork, Reviewing, NoTagWork, Proposed
<1>2. TagInv /\ [TagNext]_tagVars => TagInv'
  BY TagInvNext
<1>3. ASSUME TagInv, [TagNext]_tagVars, NEW t \in Tags, NEW a \in Tagged,
             assignment[t][a] \in {"approved", "rejected"}
      PROVE  assignment'[t][a] = assignment[t][a]
  <2>1. ASSUME NEW c \in TagDesks, CommitProposal(c) PROVE assignment'[t][a] = assignment[t][a]
    BY <1>3, <2>1, ProposalCommitted
  <2>2. ASSUME NEW c \in TagDesks, CommitReviewed(c) PROVE assignment'[t][a] = assignment[t][a]
    BY <1>3, <2>2, ReviewCommitted
  <2> QED
    BY <1>3, <2>1, <2>2
       DEF TagNext, tagVars, CreateTag, CommitArchiveTag, DropTagWork, BeginArchiveTag,
           BeginAutoProposal, BeginProposal, BeginReview, Begins
<1>4. TagInv /\ [TagNext]_tagVars =>
         [\A t \in Tags, a \in Tagged : assignment[t][a] \in {"approved", "rejected"} =>
             assignment'[t][a] = assignment[t][a]]_tagVars
  BY <1>3
<1> QED
  BY <1>1, <1>2, <1>4, PTL DEF TagSpec, TagDecisionsStand

-----------------------------------------------------------------------------
(* Feedback.                                                               *)

Rows == [state : {"none", "open", "in_review", "resolved", "dismissed"},
         target : Targets \cup {"none"}]
Outcomes == {"none", "pending", "approved", "rejected"}
FeedbackTypes ==
    /\ opinion \in [Replies -> {"none", "helpful", "unhelpful"}]
    /\ triage \in [Replies -> Rows]
    /\ draft \in [Replies -> Outcomes] /\ trial \in [Replies -> Outcomes]
    /\ learned \in [Replies -> Nat]
    /\ desk = [c \in Desks |-> desk[c]]
    /\ \A c \in Desks : desk[c].op # "none" => desk[c].m \in Replies

\* What a request has read is what it will find: the rows it locked have not changed,
\* and what it did not find nobody created, or its INSERT fails.
VisitHolds(c) ==
    LET v == desk[c]
    IN
    /\ v.op = "submit" =>
          /\ v.wish \in {"helpful", "unhelpful"}
          /\ v.known = (v.known = TRUE)
          /\ v.known => /\ "opinion" \in v.locks /\ opinion[v.m] # "none"
                        /\ v.triage = triage[v.m]
                        /\ v.triage # NoTriage => "triage" \in v.locks
          /\ ~v.known => v.triage = NoTriage
    /\ v.op = "review" =>
          /\ v.wish \in Decisions
          /\ "triage" \in v.locks /\ triage[v.m].state \in {"open", "in_review"}
    /\ v.op = "draft" => Eligible(v.m, "knowledge_draft")
    /\ v.op = "case" => Eligible(v.m, "evaluation_case")
    /\ v.op = "decide draft" =>
          /\ v.wish \in {"approved", "rejected"}
          /\ "draft" \in v.locks /\ draft[v.m] = "pending"
    /\ v.op = "decide case" =>
          /\ v.wish \in {"approved", "rejected"}
          /\ "trial" \in v.locks /\ trial[v.m] = "pending"

Exclusive ==
    \A c, d \in Desks :
        desk[c].op # "none" /\ desk[d].op # "none" /\ desk[c].m = desk[d].m
        /\ (\E row : row \in desk[c].locks /\ row \in desk[d].locks) => c = d

FeedbackInv ==
    /\ FeedbackTypes
    /\ Exclusive
    /\ \A c \in Desks : VisitHolds(c)
    /\ \A m \in Replies : opinion[m] = "none" => triage[m] = NoTriage
    /\ LearnedFromReviewed
    /\ QueueFollowsFeedback

\* A request that ends leaves the others as they were.
LEMMA Left ==
    ASSUME FeedbackTypes, Exclusive, NEW c \in Desks, Leave(c)
    PROVE  /\ desk' = [d \in Desks |-> desk'[d]]
           /\ \A d \in Desks : desk'[d].op # "none" => d # c /\ desk'[d] = desk[d]
           /\ \A d \in Desks : desk'[d].op # "none" => desk'[d].m \in Replies
           /\ Exclusive'
<1>1. desk' = [desk EXCEPT ![c] = NoVisit] /\ NoVisit.op = "none"
  BY DEF Leave, NoVisit
<1>2. desk' = [d \in Desks |-> IF d = c THEN NoVisit ELSE desk[d]]
  BY <1>1 DEF FeedbackTypes
<1>3. \A d \in Desks : desk'[d].op # "none" => d # c /\ desk'[d] = desk[d]
  BY <1>1, <1>2
<1> QED
  BY <1>2, <1>3 DEF FeedbackTypes, Exclusive

\* A request that begins reads what is there and waits for what others hold.
LEMMA Visited ==
    ASSUME FeedbackInv, NEW c \in Desks, NEW m \in Replies, NEW wish,
           NEW op \in {"submit", "review", "draft", "decide draft", "case", "decide case"},
           Visit(c, op, m, wish),
           op = "submit" => wish \in {"helpful", "unhelpful"},
           op = "review" => wish \in Decisions /\ triage[m].state \in {"open", "in_review"},
           op = "draft" => Eligible(m, "knowledge_draft"),
           op = "case" => Eligible(m, "evaluation_case"),
           op = "decide draft" => wish \in {"approved", "rejected"} /\ draft[m] = "pending",
           op = "decide case" => wish \in {"approved", "rejected"} /\ trial[m] = "pending"
    PROVE  FeedbackInv'
<1> DEFINE new == [op |-> op, m |-> m, wish |-> wish, known |-> opinion[m] # "none",
                   triage |-> triage[m], locks |-> {row \in RowsOf(op) : Exists(row, m)}]
<1>1. desk' = [desk EXCEPT ![c] = new] /\ UNCHANGED <<opinion, triage, draft, trial, learned>>
  BY DEF Visit
<1>2. desk' = [d \in Desks |-> IF d = c THEN new ELSE desk[d]]
  BY <1>1 DEF FeedbackInv, FeedbackTypes
<1>3. desk'[c] = new /\ \A d \in Desks : d # c => desk'[d] = desk[d]
  BY <1>2
<1>4. FeedbackTypes'
  <2>1. new.m = m
    OBVIOUS
  <2>2. desk' = [d \in Desks |-> desk'[d]]
    BY <1>2, <1>3
  <2> HIDE DEF new
  <2>3. \A d \in Desks : desk'[d].op # "none" => desk'[d].m \in Replies
    BY <1>3, <2>1 DEF FeedbackInv, FeedbackTypes
  <2> QED
    BY <1>1, <2>2, <2>3 DEF FeedbackInv, FeedbackTypes
<1>5. ASSUME NEW d \in Desks, desk[d].op # "none", desk[d].m = m, NEW row \in new.locks,
             row \in desk[d].locks
      PROVE  FALSE
  BY <1>5 DEF Visit, Waits
<1>6. Exclusive'
  <2>1. SUFFICES ASSUME NEW d \in Desks, NEW e \in Desks, desk'[d].op # "none",
                        desk'[e].op # "none", desk'[d].m = desk'[e].m, NEW row,
                        row \in desk'[d].locks, row \in desk'[e].locks, d # e
                 PROVE  FALSE
    BY DEF Exclusive
  <2>2. new.m = m
    OBVIOUS
  <2>3. CASE d = c
    BY <1>3, <1>5, <2>1, <2>2, <2>3
  <2>4. CASE e = c
    BY <1>3, <1>5, <2>1, <2>2, <2>4
  <2>5. CASE d # c /\ e # c
    BY <1>3, <2>1, <2>5 DEF FeedbackInv, Exclusive
  <2> QED
    BY <2>3, <2>4, <2>5
<1>7. ASSUME NEW d \in Desks PROVE VisitHolds(d)'
  <2>1. CASE d = c
    <3>1. triage[m].state \in {"open", "in_review"} => triage[m] # NoTriage
      <4>1. NoTriage.state = "none"
        BY DEF NoTriage
      <4> QED
        BY <4>1
    <3>2. ~(opinion[m] # "none") => triage[m] = NoTriage
      BY DEF FeedbackInv
    <3>3. /\ new.op = op /\ new.m = m /\ new.wish = wish /\ new.triage = triage[m]
          /\ new.known = (opinion[m] # "none")
          /\ new.locks = {row \in RowsOf(op) : Exists(row, m)}
      OBVIOUS
    <3>4. /\ op = "submit" => RowsOf(op) = {"opinion", "triage"}
          /\ op = "review" => RowsOf(op) = {"triage"}
          /\ op = "decide draft" => RowsOf(op) = {"draft"}
          /\ op = "decide case" => RowsOf(op) = {"trial"}
      BY DEF RowsOf
    <3>5. /\ Exists("opinion", m) = (opinion[m] # "none")
          /\ Exists("triage", m) = (triage[m] # NoTriage)
          /\ Exists("draft", m) = (draft[m] # "none")
          /\ Exists("trial", m) = (trial[m] # "none")
      BY DEF Exists
    <3> HIDE DEF new
    <3>6. /\ op = "submit" =>
                /\ opinion[m] # "none" => "opinion" \in new.locks
                /\ triage[m] # NoTriage => "triage" \in new.locks
          /\ op = "review" => "triage" \in new.locks
          /\ op = "decide draft" => "draft" \in new.locks
          /\ op = "decide case" => "trial" \in new.locks
      BY <3>1, <3>3, <3>4, <3>5
    <3> QED
      BY <1>1, <1>3, <2>1, <3>2, <3>3, <3>6 DEF VisitHolds, Eligible
  <2>2. CASE d # c
    <3>1. VisitHolds(d) /\ desk'[d] = desk[d]
      BY <1>3, <2>2 DEF FeedbackInv
    <3> QED
      BY <1>1, <3>1 DEF VisitHolds, Eligible
  <2> QED
    BY <2>1, <2>2
<1> QED
  BY <1>1, <1>4, <1>6, <1>7 DEF FeedbackInv, LearnedFromReviewed, QueueFollowsFeedback, Eligible

LEMMA SubmitCommitted == ASSUME FeedbackInv, NEW c \in Desks, CommitSubmit(c) PROVE FeedbackInv'
<1> DEFINE m == desk[c].m
           saved == ~(~desk[c].known /\ opinion[m] # "none")
<1>1. /\ desk[c].op = "submit" /\ Leave(c) /\ m \in Replies /\ VisitHolds(c)
      /\ UNCHANGED <<draft, trial, learned>>
  BY DEF CommitSubmit, FeedbackInv, FeedbackTypes
<1>2. /\ desk' = [d \in Desks |-> desk'[d]] /\ Exclusive'
      /\ \A d \in Desks : desk'[d].op # "none" =>
            d # c /\ desk'[d] = desk[d] /\ desk'[d].m \in Replies
  BY <1>1, Left DEF FeedbackInv
<1>3. desk[c].wish \in {"helpful", "unhelpful"}
  BY <1>1 DEF VisitHolds
<1>4. CASE ~saved
  <2>1. UNCHANGED <<opinion, triage>>
    BY <1>4 DEF CommitSubmit
  <2>2. ASSUME NEW d \in Desks PROVE VisitHolds(d)'
    <3>1. CASE desk'[d].op = "none"
      BY <3>1 DEF VisitHolds
    <3>2. CASE desk'[d].op # "none"
      <4>1. desk'[d] = desk[d] /\ VisitHolds(d)
        BY <1>2, <3>2 DEF FeedbackInv
      <4> QED
        BY <1>1, <2>1, <4>1 DEF VisitHolds, Eligible
    <3> QED
      BY <3>1, <3>2
  <2> QED
    BY <1>1, <1>2, <2>1, <2>2
       DEF FeedbackInv, FeedbackTypes, LearnedFromReviewed, QueueFollowsFeedback, Eligible
<1>5. CASE saved
  <2>1. /\ opinion' = [opinion EXCEPT ![m] = desk[c].wish]
        /\ triage' = [triage EXCEPT ![m] = Triaged(desk[c].triage, desk[c].wish)]
    BY <1>5 DEF CommitSubmit
  <2>2. desk[c].triage = triage[m]
    BY <1>1, <1>5 DEF VisitHolds, FeedbackInv
  <2>3. triage[m] \in Rows
    BY <1>1 DEF FeedbackInv, FeedbackTypes
  <2>4. /\ Triaged(triage[m], desk[c].wish) \in Rows
        /\ triage[m].state = "resolved" => Triaged(triage[m], desk[c].wish) = triage[m]
        /\ desk[c].wish = "helpful" =>
              Triaged(triage[m], desk[c].wish).state \notin {"open", "in_review"}
        /\ desk[c].wish = "unhelpful" => Triaged(triage[m], desk[c].wish).state # "none"
    BY <1>3, <2>3 DEF Triaged, Rows
  <2>5. /\ opinion \in [Replies -> {"none", "helpful", "unhelpful"}]
        /\ triage \in [Replies -> Rows]
    BY DEF FeedbackInv, FeedbackTypes
  <2>6. /\ opinion' \in [Replies -> {"none", "helpful", "unhelpful"}]
        /\ triage' \in [Replies -> Rows]
        /\ opinion'[m] = desk[c].wish /\ triage'[m] = Triaged(triage[m], desk[c].wish)
        /\ \A n \in Replies : n # m => opinion'[n] = opinion[n] /\ triage'[n] = triage[n]
    BY <1>1, <1>3, <2>1, <2>2, <2>4, <2>5
  <2>7. \A n \in Replies, target \in Targets : Eligible(n, target) => Eligible(n, target)'
    BY <2>4, <2>6 DEF Eligible
  <2>8. ASSUME NEW d \in Desks PROVE VisitHolds(d)'
    <3>1. CASE desk'[d].op = "none"
      BY <3>1 DEF VisitHolds
    <3>2. CASE desk'[d].op # "none"
      <4>1. d # c /\ desk'[d] = desk[d] /\ VisitHolds(d) /\ desk[d].m \in Replies
        BY <1>2, <3>2 DEF FeedbackInv
      <4>2. ~(desk[d].op = "submit" /\ desk[d].m = m /\ desk[d].known)
        <5>1. SUFFICES ASSUME desk[d].op = "submit", desk[d].m = m, desk[d].known PROVE FALSE
          OBVIOUS
        <5>2. "opinion" \in desk[d].locks /\ opinion[m] # "none"
          BY <4>1, <5>1 DEF VisitHolds
        <5>3. "opinion" \in desk[c].locks
          BY <1>1, <1>5, <5>2 DEF VisitHolds
        <5> QED
          BY <1>1, <4>1, <5>1, <5>2, <5>3 DEF FeedbackInv, Exclusive
      <4>3. ~(desk[d].op = "review" /\ desk[d].m = m)
        <5>1. SUFFICES ASSUME desk[d].op = "review", desk[d].m = m PROVE FALSE
          OBVIOUS
        <5>2. "triage" \in desk[d].locks /\ triage[m].state \in {"open", "in_review"}
          BY <4>1, <5>1 DEF VisitHolds
        <5>3. triage[m] # NoTriage
          <6>1. NoTriage.state = "none"
            BY DEF NoTriage
          <6> QED
            BY <5>2, <6>1
        <5>4. "triage" \in desk[c].locks
          BY <1>1, <2>2, <5>3 DEF VisitHolds
        <5> QED
          BY <1>1, <4>1, <5>1, <5>2, <5>4 DEF FeedbackInv, Exclusive
      <4>4. "knowledge_draft" \in Targets /\ "evaluation_case" \in Targets
        BY DEF Targets
      <4>5. CASE desk[d].op = "submit"
        <5>1. desk[d].known => /\ desk[d].m # m
                               /\ opinion'[desk[d].m] = opinion[desk[d].m]
                               /\ triage'[desk[d].m] = triage[desk[d].m]
          BY <2>6, <4>1, <4>2, <4>5
        <5> QED
          BY <4>1, <4>5, <5>1 DEF VisitHolds
      <4>6. CASE desk[d].op = "review"
        <5>1. triage'[desk[d].m] = triage[desk[d].m]
          BY <2>6, <4>1, <4>3, <4>6
        <5> QED
          BY <4>1, <4>6, <5>1 DEF VisitHolds
      <4>7. CASE desk[d].op \notin {"submit", "review"}
        BY <1>1, <2>7, <4>1, <4>4, <4>7 DEF VisitHolds
      <4> QED
        BY <4>5, <4>6, <4>7
    <3> QED
      BY <3>1, <3>2
  <2>9. LearnedFromReviewed'
    BY <1>1, <2>7 DEF FeedbackInv, LearnedFromReviewed, Targets
  <2>10. QueueFollowsFeedback'
    BY <1>1, <2>4, <2>6 DEF FeedbackInv, QueueFollowsFeedback
  <2>11. \A n \in Replies : opinion'[n] = "none" => triage'[n] = NoTriage
    BY <1>3, <2>6 DEF FeedbackInv
  <2> QED
    BY <1>1, <1>2, <2>6, <2>8, <2>9, <2>10, <2>11 DEF FeedbackInv, FeedbackTypes
<1> QED
  BY <1>4, <1>5

LEMMA ReviewCommittedHolds ==
    ASSUME FeedbackInv, NEW c \in Desks, CommitReview(c) PROVE FeedbackInv'
<1> DEFINE m == desk[c].m
<1>1. /\ desk[c].op = "review" /\ Leave(c) /\ m \in Replies /\ VisitHolds(c)
      /\ UNCHANGED <<opinion, draft, trial, learned>>
      /\ triage' = [triage EXCEPT ![m] = desk[c].wish]
  BY DEF CommitReview, FeedbackInv, FeedbackTypes
<1>2. /\ desk' = [d \in Desks |-> desk'[d]] /\ Exclusive'
      /\ \A d \in Desks : desk'[d].op # "none" =>
            d # c /\ desk'[d] = desk[d] /\ desk'[d].m \in Replies
  BY <1>1, Left DEF FeedbackInv
<1>3. /\ desk[c].wish \in Decisions
      /\ "triage" \in desk[c].locks /\ triage[m].state \in {"open", "in_review"}
  BY <1>1 DEF VisitHolds
<1>4. triage \in [Replies -> Rows]
  BY DEF FeedbackInv, FeedbackTypes
<1>5. desk[c].wish \in Rows /\ desk[c].wish.state # "none"
  BY <1>3 DEF Decisions, Rows
<1>6. /\ triage' \in [Replies -> Rows] /\ triage'[m] = desk[c].wish
      /\ \A n \in Replies : n # m => triage'[n] = triage[n]
  BY <1>1, <1>4, <1>5
<1>7. \A n \in Replies, target \in Targets : Eligible(n, target) => Eligible(n, target)'
  BY <1>3, <1>6 DEF Eligible
<1>8. triage[m] # NoTriage
  <2>1. NoTriage.state = "none"
    BY DEF NoTriage
  <2> QED
    BY <1>3, <2>1
<1>9. ASSUME NEW d \in Desks PROVE VisitHolds(d)'
  <2>1. CASE desk'[d].op = "none"
    BY <2>1 DEF VisitHolds
  <2>2. CASE desk'[d].op # "none"
    <3>1. d # c /\ desk'[d] = desk[d] /\ VisitHolds(d) /\ desk[d].m \in Replies
      BY <1>2, <2>2 DEF FeedbackInv
    <3>2. desk[d].op \in {"submit", "review"} /\ "triage" \in desk[d].locks => desk[d].m # m
      BY <1>1, <1>3, <3>1 DEF FeedbackInv, Exclusive
    <3>3. "knowledge_draft" \in Targets /\ "evaluation_case" \in Targets
      BY DEF Targets
    <3> QED
      BY <1>1, <1>6, <1>7, <1>8, <3>1, <3>2, <3>3 DEF VisitHolds
  <2> QED
    BY <2>1, <2>2
<1>10. LearnedFromReviewed'
  BY <1>1, <1>7 DEF FeedbackInv, LearnedFromReviewed, Targets
<1>11. QueueFollowsFeedback'
  BY <1>1, <1>3, <1>5, <1>6 DEF FeedbackInv, QueueFollowsFeedback
<1>12. \A n \in Replies : opinion'[n] = "none" => triage'[n] = NoTriage
  BY <1>1, <1>6, <1>8 DEF FeedbackInv
<1> QED
  BY <1>1, <1>2, <1>6, <1>9, <1>10, <1>11, <1>12 DEF FeedbackInv, FeedbackTypes

\* The commits that leave the feedback and the triage alone change the draft or the
\* case of one answer, which its triage allows and nobody else has taken.
LEMMA LearningCommitted ==
    ASSUME FeedbackInv, NEW c \in Desks, Leave(c), UNCHANGED <<opinion, triage>>,
           draft' \in [Replies -> Outcomes], trial' \in [Replies -> Outcomes],
           learned' \in [Replies -> Nat], LearnedFromReviewed',
           \A d \in Desks : d # c /\ desk[d].op = "decide draft" => draft'[desk[d].m] = draft[desk[d].m],
           \A d \in Desks : d # c /\ desk[d].op = "decide case" => trial'[desk[d].m] = trial[desk[d].m]
    PROVE  FeedbackInv'
<1>1. /\ desk' = [d \in Desks |-> desk'[d]] /\ Exclusive'
      /\ \A d \in Desks : desk'[d].op # "none" =>
            d # c /\ desk'[d] = desk[d] /\ desk'[d].m \in Replies
  BY Left DEF FeedbackInv
<1>2. ASSUME NEW d \in Desks PROVE VisitHolds(d)'
  <2>1. CASE desk'[d].op = "none"
    BY <2>1 DEF VisitHolds
  <2>2. CASE desk'[d].op # "none"
    <3>1. d # c /\ desk'[d] = desk[d] /\ VisitHolds(d)
      BY <1>1, <2>2 DEF FeedbackInv
    <3> QED
      BY <3>1 DEF VisitHolds, Eligible
  <2> QED
    BY <2>1, <2>2
<1> QED
  BY <1>1, <1>2 DEF FeedbackInv, FeedbackTypes, QueueFollowsFeedback

LEMMA FeedbackInvNext == ASSUME FeedbackInv, [FeedbackNext]_feedbackVars PROVE FeedbackInv'
<1> USE DEF FeedbackInv
<1>1. CASE UNCHANGED feedbackVars
  BY <1>1 DEF feedbackVars, FeedbackTypes, Exclusive, VisitHolds, LearnedFromReviewed,
              QueueFollowsFeedback, Eligible
<1>2. ASSUME NEW c \in Desks, NEW m \in Replies, NEW sentiment \in {"helpful", "unhelpful"},
             Submit(c, m, sentiment)
      PROVE  FeedbackInv'
  <2>1. Visit(c, "submit", m, sentiment)
    BY <1>2 DEF Submit
  <2> QED
    BY <2>1, Visited
<1>3. ASSUME NEW c \in Desks, NEW m \in Replies, NEW decision \in Decisions,
             Review(c, m, decision)
      PROVE  FeedbackInv'
  <2>1. Visit(c, "review", m, decision) /\ triage[m].state \in {"open", "in_review"}
    BY <1>3 DEF Review
  <2> QED
    BY <2>1, Visited
<1>4. ASSUME NEW c \in Desks, NEW m \in Replies, CreateDraft(c, m) PROVE FeedbackInv'
  <2>1. Visit(c, "draft", m, "pending") /\ Eligible(m, "knowledge_draft")
    BY <1>4 DEF CreateDraft
  <2> QED
    BY <2>1, Visited
<1>5. ASSUME NEW c \in Desks, NEW m \in Replies, CreateCase(c, m) PROVE FeedbackInv'
  <2>1. Visit(c, "case", m, "pending") /\ Eligible(m, "evaluation_case")
    BY <1>5 DEF CreateCase
  <2> QED
    BY <2>1, Visited
<1>6. ASSUME NEW c \in Desks, NEW m \in Replies, NEW decision \in {"approved", "rejected"},
             DecideDraft(c, m, decision)
      PROVE  FeedbackInv'
  <2>1. Visit(c, "decide draft", m, decision) /\ draft[m] = "pending"
    BY <1>6 DEF DecideDraft
  <2> QED
    BY <2>1, Visited
<1>7. ASSUME NEW c \in Desks, NEW m \in Replies, NEW decision \in {"approved", "rejected"},
             DecideCase(c, m, decision)
      PROVE  FeedbackInv'
  <2>1. Visit(c, "decide case", m, decision) /\ trial[m] = "pending"
    BY <1>7 DEF DecideCase
  <2> QED
    BY <2>1, Visited
<1>8. ASSUME NEW c \in Desks, CommitDraft(c) PROVE FeedbackInv'
  <2>1. /\ desk[c].op = "draft" /\ desk[c].m \in Replies /\ Eligible(desk[c].m, "knowledge_draft")
        /\ UNCHANGED <<opinion, triage, trial, learned>> /\ Leave(c)
    BY <1>8 DEF CommitDraft, FeedbackTypes, VisitHolds
  <2>2. draft \in [Replies -> Outcomes] /\ "pending" \in Outcomes
    BY DEF FeedbackTypes, Outcomes
  <2>3. /\ draft' \in [Replies -> Outcomes]
        /\ \A n \in Replies : draft'[n] = draft[n] \/ (/\ n = desk[c].m
                                                       /\ draft[n] = "none"
                                                       /\ draft'[n] = "pending")
    BY <1>8, <2>1, <2>2 DEF CommitDraft
  <2>4. LearnedFromReviewed'
    BY <2>1, <2>3 DEF LearnedFromReviewed, Eligible
  <2>5. \A d \in Desks : desk[d].op = "decide draft" => draft'[desk[d].m] = draft[desk[d].m]
    BY <2>3 DEF VisitHolds, FeedbackTypes
  <2> QED
    BY <2>1, <2>3, <2>4, <2>5, LearningCommitted DEF FeedbackTypes
<1>9. ASSUME NEW c \in Desks, CommitDecidedDraft(c) PROVE FeedbackInv'
  <2>1. /\ desk[c].op = "decide draft" /\ desk[c].m \in Replies
        /\ desk[c].wish \in {"approved", "rejected"} /\ "draft" \in desk[c].locks
        /\ draft[desk[c].m] = "pending"
        /\ UNCHANGED <<opinion, triage, trial>> /\ Leave(c)
    BY <1>9 DEF CommitDecidedDraft, FeedbackTypes, VisitHolds
  <2>2. draft \in [Replies -> Outcomes] /\ desk[c].wish \in Outcomes /\ learned \in [Replies -> Nat]
    BY <2>1 DEF FeedbackTypes, Outcomes
  <2>3. /\ draft' \in [Replies -> Outcomes] /\ draft'[desk[c].m] = desk[c].wish
        /\ \A n \in Replies : n # desk[c].m => draft'[n] = draft[n]
    BY <1>9, <2>1, <2>2 DEF CommitDecidedDraft
  <2>4. learned[desk[c].m] = 0 /\ Eligible(desk[c].m, "knowledge_draft")
    BY <2>1 DEF LearnedFromReviewed
  <2>5. /\ learned' \in [Replies -> Nat]
        /\ \A n \in Replies : n # desk[c].m => learned'[n] = learned[n]
        /\ learned'[desk[c].m] = IF desk[c].wish = "approved" THEN 1 ELSE 0
    <3>1. CASE desk[c].wish = "approved"
      <4>1. learned' = [learned EXCEPT ![desk[c].m] = learned[desk[c].m] + 1]
        BY <1>9, <3>1 DEF CommitDecidedDraft
      <4>2. learned' = [learned EXCEPT ![desk[c].m] = 1]
        BY <2>4, <4>1
      <4>3. /\ learned' \in [Replies -> Nat] /\ learned'[desk[c].m] = 1
            /\ \A n \in Replies : n # desk[c].m => learned'[n] = learned[n]
        BY <2>1, <2>2, <4>2
      <4> QED
        BY <3>1, <4>3
    <3>2. CASE desk[c].wish # "approved"
      <4>1. learned' = learned
        BY <1>9, <3>2 DEF CommitDecidedDraft
      <4> QED
        BY <2>1, <2>2, <2>4, <3>2, <4>1
    <3> QED
      BY <3>1, <3>2
  <2>6. LearnedFromReviewed'
    <3>1. ASSUME NEW n \in Replies
          PROVE  /\ learned'[n] = (IF draft'[n] = "approved" THEN 1 ELSE 0)
                 /\ draft'[n] # "none" => Eligible(n, "knowledge_draft")'
                 /\ trial'[n] # "none" => Eligible(n, "evaluation_case")'
      <4>1. CASE n = desk[c].m
        <5>1. learned'[n] = (IF draft'[n] = "approved" THEN 1 ELSE 0)
          BY <2>3, <2>5, <4>1
        <5>2. Eligible(n, "knowledge_draft")'
          BY <2>1, <2>4, <4>1 DEF Eligible
        <5>3. trial'[n] # "none" => Eligible(n, "evaluation_case")'
          BY <2>1 DEF LearnedFromReviewed, Eligible
        <5> QED
          BY <5>1, <5>2, <5>3
      <4>2. CASE n # desk[c].m
        BY <2>1, <2>3, <2>5, <4>2 DEF LearnedFromReviewed, Eligible
      <4> QED
        BY <4>1, <4>2
    <3> QED
      BY <3>1 DEF LearnedFromReviewed
  <2>7. \A d \in Desks : d # c /\ desk[d].op = "decide draft" => draft'[desk[d].m] = draft[desk[d].m]
    BY <2>1, <2>3 DEF VisitHolds, FeedbackTypes, Exclusive
  <2> QED
    BY <2>1, <2>3, <2>5, <2>6, <2>7, LearningCommitted DEF FeedbackTypes
<1>10. ASSUME NEW c \in Desks, CommitCase(c) PROVE FeedbackInv'
  <2>1. /\ desk[c].op = "case" /\ desk[c].m \in Replies /\ Eligible(desk[c].m, "evaluation_case")
        /\ UNCHANGED <<opinion, triage, draft, learned>> /\ Leave(c)
    BY <1>10 DEF CommitCase, FeedbackTypes, VisitHolds
  <2>2. trial \in [Replies -> Outcomes] /\ "pending" \in Outcomes
    BY DEF FeedbackTypes, Outcomes
  <2>3. /\ trial' \in [Replies -> Outcomes]
        /\ \A n \in Replies : trial'[n] = trial[n] \/ (/\ n = desk[c].m
                                                       /\ trial[n] = "none"
                                                       /\ trial'[n] = "pending")
    BY <1>10, <2>1, <2>2 DEF CommitCase
  <2>4. LearnedFromReviewed'
    BY <2>1, <2>3 DEF LearnedFromReviewed, Eligible
  <2>5. \A d \in Desks : desk[d].op = "decide case" => trial'[desk[d].m] = trial[desk[d].m]
    BY <2>3 DEF VisitHolds, FeedbackTypes
  <2> QED
    BY <2>1, <2>3, <2>4, <2>5, LearningCommitted DEF FeedbackTypes
<1>11. ASSUME NEW c \in Desks, CommitDecidedCase(c) PROVE FeedbackInv'
  <2>1. /\ desk[c].op = "decide case" /\ desk[c].m \in Replies
        /\ desk[c].wish \in {"approved", "rejected"} /\ "trial" \in desk[c].locks
        /\ trial[desk[c].m] = "pending"
        /\ UNCHANGED <<opinion, triage, draft, learned>> /\ Leave(c)
    BY <1>11 DEF CommitDecidedCase, FeedbackTypes, VisitHolds
  <2>2. trial \in [Replies -> Outcomes] /\ desk[c].wish \in Outcomes
    BY <2>1 DEF FeedbackTypes, Outcomes
  <2>3. /\ trial' \in [Replies -> Outcomes]
        /\ \A n \in Replies : n # desk[c].m => trial'[n] = trial[n]
    BY <1>11, <2>1, <2>2 DEF CommitDecidedCase
  <2>4. LearnedFromReviewed'
    BY <2>1, <2>3 DEF LearnedFromReviewed, Eligible
  <2>5. \A d \in Desks : d # c /\ desk[d].op = "decide case" => trial'[desk[d].m] = trial[desk[d].m]
    BY <2>1, <2>3 DEF VisitHolds, FeedbackTypes, Exclusive
  <2> QED
    BY <2>1, <2>3, <2>4, <2>5, LearningCommitted DEF FeedbackTypes
<1>12. ASSUME NEW c \in Desks, RollBack(c) PROVE FeedbackInv'
  <2>1. Leave(c) /\ UNCHANGED <<opinion, triage, draft, trial, learned>>
    BY <1>12 DEF RollBack
  <2>2. LearnedFromReviewed'
    BY <2>1 DEF LearnedFromReviewed, Eligible
  <2> QED
    BY <2>1, <2>2, LearningCommitted DEF FeedbackTypes
<1> HIDE DEF FeedbackInv
<1> QED
  BY <1>1, <1>2, <1>3, <1>4, <1>5, <1>6, <1>7, <1>8, <1>9, <1>10, <1>11, <1>12,
     SubmitCommitted, ReviewCommittedHolds DEF FeedbackNext

LEMMA FeedbackInvAlways == FeedbackSpec => []FeedbackInv
<1>1. FeedbackInit => FeedbackInv
  <2>1. NoTriage \in Rows /\ NoTriage.state = "none" /\ NoVisit.op = "none"
    BY DEF NoTriage, Rows, NoVisit
  <2>2. ASSUME FeedbackInit PROVE FeedbackTypes
    BY <2>1, <2>2 DEF FeedbackInit, FeedbackTypes, Outcomes
  <2>3. ASSUME FeedbackInit, NEW c \in Desks PROVE desk[c].op = "none"
    BY <2>1, <2>3 DEF FeedbackInit
  <2>4. ASSUME FeedbackInit PROVE Exclusive /\ \A c \in Desks : VisitHolds(c)
    BY <2>3, <2>4 DEF Exclusive, VisitHolds
  <2>5. ASSUME FeedbackInit PROVE LearnedFromReviewed /\ QueueFollowsFeedback
    BY <2>1, <2>5 DEF FeedbackInit, LearnedFromReviewed, QueueFollowsFeedback
  <2> QED
    BY <2>2, <2>4, <2>5 DEF FeedbackInit, FeedbackInv
<1>2. FeedbackInv /\ [FeedbackNext]_feedbackVars => FeedbackInv'
  BY FeedbackInvNext
<1> QED
  BY <1>1, <1>2, PTL DEF FeedbackSpec

\* One answer teaches at most one note, and drafts and cases come only from a triage
\* a reviewer resolved to them, which nothing reopens (FeedbackLearningService).
THEOREM LearningIsReviewed == FeedbackSpec => []LearnedFromReviewed
<1>1. FeedbackInv => LearnedFromReviewed
  BY DEF FeedbackInv
<1> QED
  BY <1>1, FeedbackInvAlways, PTL

\* An answer whose latest feedback is helpful does not wait for a reviewer, and
\* unhelpful feedback has a triage item (FeedbackService.submit).
THEOREM QueueFollows == FeedbackSpec => []QueueFollowsFeedback
<1>1. FeedbackInv => QueueFollowsFeedback
  BY DEF FeedbackInv
<1> QED
  BY <1>1, FeedbackInvAlways, PTL

-----------------------------------------------------------------------------
(* Access to a workspace.                                                  *)

Row == [role : Roles, state : {"active", "disabled"}]
OwnerRow == [role |-> "owner", state |-> "active"]
Updating(c) == access[c].op = "update"

AccessTypes ==
    /\ access \in [Requesters ->
          {NoAccess} \cup [op : {"create"}, user : Users, row : Row]
          \cup [op : {"update"}, user : Users, read : Row, row : Row, owners : SUBSET Users]
          \cup [op : {"token"}, user : Users]]
    /\ member \in [Users -> {NoMember} \cup Row]
    /\ database \in {"postgresql", "sqlite"}

\* An update of an owner it has read has counted another one beside him.  On PostgreSQL
\* it has its row to itself and takes no active owner away.
UpdateHolds(c) ==
    LET work == access[c]
    IN  /\ member[work.user] # NoMember
        /\ work.user \in work.owners <=> work.read = OwnerRow
        /\ work.user \in work.owners /\ work.row # OwnerRow => \E v \in work.owners : v # work.user
        /\ database = "postgresql" =>
              /\ work.read = member[work.user]
              /\ work.user \in work.owners => work.row = OwnerRow
              /\ \A d \in Requesters : Updating(d) /\ access[d].user = work.user => d = c

UpdateInv == AccessTypes /\ \A c \in Requesters : Updating(c) => UpdateHolds(c)

\* An owner who is not the only one has another owner beside him.
LEMMA AnotherOwner ==
    ASSUME Dispensable, NEW u \in ActiveOwners
    PROVE  \E v \in ActiveOwners : v # u
<1>1. SUFFICES ASSUME \A v \in ActiveOwners : v = u PROVE FALSE
  OBVIOUS
<1>2. ActiveOwners = {u}
  BY <1>1
<1>3. Cardinality(ActiveOwners) = 1
  BY <1>2, FS_Singleton
<1> QED
  BY <1>3 DEF Dispensable

LEMMA OwnersAre ==
    ASSUME AccessTypes PROVE ActiveOwners = {u \in Users : member[u] = OwnerRow}
<1>1. \A u \in Users : u \in ActiveOwners <=> member[u] = OwnerRow
  BY DEF AccessTypes, ActiveOwners, Active, NoMember, Row, OwnerRow
<1> QED
  BY <1>1 DEF ActiveOwners

LEMMA UpdateInvInit == AccessInit => UpdateInv
BY DEF AccessInit, UpdateInv, AccessTypes, Updating, NoAccess, NoMember

\* An update at work before a step goes on after it, when the step ends or begins the
\* work of another request and leaves the row of the update alone.
LEMMA OthersHold ==
    ASSUME UpdateInv, AccessTypes', database' = database, NEW c \in Requesters,
           \A d \in Requesters \ {c} : access'[d] = access[d],
           ~Updating(c)',
           NEW d \in Requesters, Updating(d)', member'[access[d].user] # NoMember,
           database = "postgresql" => member'[access[d].user] = member[access[d].user]
    PROVE  UpdateHolds(d)'
<1>1. d # c /\ access'[d] = access[d] /\ Updating(d) /\ UpdateHolds(d)
  BY DEF Updating, UpdateInv
<1>2. \A e \in Requesters : Updating(e)' => e # c /\ Updating(e) /\ access'[e] = access[e]
  BY DEF Updating
<1> QED
  BY <1>1, <1>2 DEF UpdateHolds

\* What a request that begins, other than an update, leaves in place.
LEMMA BegunKeeps ==
    ASSUME UpdateInv, NEW c \in Requesters, NEW work, Asks(c, work),
           work \in [op : {"create"}, user : Users, row : Row] \cup [op : {"token"}, user : Users]
    PROVE  UpdateInv'
<1>1. access' = [access EXCEPT ![c] = work] /\ UNCHANGED <<database, member, token>>
  BY DEF Asks
<1>2. ~Updating(c)' /\ \A d \in Requesters \ {c} : access'[d] = access[d]
  BY <1>1 DEF UpdateInv, AccessTypes, Updating
<1>3. AccessTypes'
  BY <1>1 DEF UpdateInv, AccessTypes
<1>4. ASSUME NEW d \in Requesters, Updating(d)' PROVE UpdateHolds(d)'
  <2>1. Updating(d) /\ member'[access[d].user] # NoMember
    BY <1>1, <1>2, <1>4 DEF Updating, UpdateInv, UpdateHolds
  <2> QED
    BY <1>1, <1>2, <1>3, <1>4, <2>1, OthersHold
<1> QED
  BY <1>3, <1>4 DEF UpdateInv

\* What a request that ends without an update leaves in place.
LEMMA EndedKeeps ==
    ASSUME UpdateInv, NEW c \in Requesters, Answers(c), member' = member
    PROVE  UpdateInv'
<1>1. access' = [access EXCEPT ![c] = NoAccess] /\ database' = database
  BY DEF Answers
<1>2. ~Updating(c)' /\ \A d \in Requesters \ {c} : access'[d] = access[d]
  BY <1>1 DEF UpdateInv, AccessTypes, Updating, NoAccess
<1>3. AccessTypes'
  BY <1>1 DEF UpdateInv, AccessTypes
<1>4. ASSUME NEW d \in Requesters, Updating(d)' PROVE UpdateHolds(d)'
  <2>1. Updating(d) /\ member'[access[d].user] # NoMember
    BY <1>1, <1>2, <1>4 DEF Updating, UpdateInv, UpdateHolds
  <2> QED
    BY <1>1, <1>2, <1>3, <1>4, <2>1, OthersHold
<1> QED
  BY <1>3, <1>4 DEF UpdateInv

\* What an update that commits does to the members.
LEMMA Updated ==
    ASSUME UpdateInv, NEW c \in Requesters, CommitUpdate(c)
    PROVE  /\ Updating(c) /\ access[c].user \in Users
           /\ access[c].read \in Row /\ access[c].row \in Row /\ access[c].owners \subseteq Users
           /\ database' = database
           /\ access' = [access EXCEPT ![c] = NoAccess]
           /\ member' \in [Users -> {NoMember} \cup Row]
           /\ \A v \in Users : v # access[c].user => member'[v] = member[v]
           /\ member'[access[c].user] \in Row
           /\ access[c].read = member[access[c].user] => member'[access[c].user] = access[c].row
           /\ access[c].row = OwnerRow /\ access[c].read = OwnerRow =>
                 member'[access[c].user] = member[access[c].user]
<1> DEFINE work == access[c]
           new == [k \in DOMAIN work.row |->
                     IF work.row[k] = work.read[k] THEN member[work.user][k] ELSE work.row[k]]
<1>1. work.op = "update"
  BY DEF CommitUpdate
<1>2. work \in [op : {"update"}, user : Users, read : Row, row : Row, owners : SUBSET Users]
  BY <1>1 DEF UpdateInv, AccessTypes, NoAccess
<1>3. work.read \in Row /\ work.row \in Row /\ work.user \in Users /\ work.owners \subseteq Users
  BY <1>2
<1>4. member[work.user] \in Row
  BY <1>1, <1>3 DEF UpdateInv, AccessTypes, Updating, UpdateHolds
<1>5. DOMAIN work.row = {"role", "state"}
  BY <1>3 DEF Row
<1>6. new \in Row
  BY <1>3, <1>4, <1>5 DEF Row
<1>7. work.read = member[work.user] => new = work.row
  BY <1>3, <1>4, <1>5, <1>6 DEF Row
<1>8. work.row = OwnerRow /\ work.read = OwnerRow => new = member[work.user]
  BY <1>3, <1>4, <1>5, <1>6 DEF Row
<1>9. member' = [member EXCEPT ![work.user] = new]
  BY DEF CommitUpdate
<1>10. database' = database /\ access' = [access EXCEPT ![c] = NoAccess]
  BY DEF CommitUpdate, Answers
<1> HIDE DEF new, work
<1>11. member'[work.user] = new /\ \A v \in Users : v # work.user => member'[v] = member[v]
  BY <1>3, <1>9 DEF UpdateInv, AccessTypes
<1>12. member' \in [Users -> {NoMember} \cup Row]
  BY <1>6, <1>9 DEF UpdateInv, AccessTypes
<1> QED
  BY <1>1, <1>3, <1>6, <1>7, <1>8, <1>10, <1>11, <1>12 DEF work, Updating

LEMMA UpdateInvNext == ASSUME UpdateInv, [AccessNext]_accessVars PROVE UpdateInv'
<1>1. CASE UNCHANGED accessVars
  BY <1>1 DEF UpdateInv, AccessTypes, accessVars, Updating, UpdateHolds
<1>2. ASSUME NEW c \in Requesters, CommitMember(c) PROVE UpdateInv'
  <2>1. access' = [access EXCEPT ![c] = NoAccess] /\ database' = database
    BY <1>2 DEF CommitMember, Answers
  <2>2. ~Updating(c)' /\ \A d \in Requesters \ {c} : access'[d] = access[d]
    BY <2>1 DEF UpdateInv, AccessTypes, Updating, NoAccess
  <2>3. access[c].user \in Users /\ access[c].row \in Row
    BY <1>2 DEF CommitMember, UpdateInv, AccessTypes, NoAccess
  <2>4. /\ member' \in [Users -> {NoMember} \cup Row]
        /\ \A u \in Users : member[u] # NoMember => member'[u] = member[u]
    BY <1>2, <2>3 DEF CommitMember, UpdateInv, AccessTypes
  <2>5. AccessTypes'
    BY <2>1, <2>4 DEF UpdateInv, AccessTypes
  <2>6. ASSUME NEW d \in Requesters, Updating(d)' PROVE UpdateHolds(d)'
    <3>1. Updating(d) /\ access[d].user \in Users /\ member[access[d].user] # NoMember
      BY <2>2, <2>6 DEF Updating, UpdateInv, UpdateHolds, AccessTypes, NoAccess
    <3> QED
      BY <2>1, <2>2, <2>4, <2>5, <2>6, <3>1, OthersHold
  <2> QED
    BY <2>5, <2>6 DEF UpdateInv
<1>3. ASSUME NEW c \in Requesters, CommitUpdate(c) PROVE UpdateInv'
  <2>1. /\ Updating(c) /\ database' = database /\ access' = [access EXCEPT ![c] = NoAccess]
        /\ member' \in [Users -> {NoMember} \cup Row]
        /\ \A v \in Users : v # access[c].user => member'[v] = member[v]
        /\ member'[access[c].user] \in Row
    BY <1>3, Updated
  <2>2. ~Updating(c)' /\ \A d \in Requesters \ {c} : access'[d] = access[d]
    BY <2>1 DEF UpdateInv, AccessTypes, Updating, NoAccess
  <2>3. AccessTypes'
    BY <2>1 DEF UpdateInv, AccessTypes
  <2>4. ASSUME NEW d \in Requesters, Updating(d)' PROVE UpdateHolds(d)'
    <3>1. d # c /\ Updating(d) /\ access[d].user \in Users /\ member[access[d].user] # NoMember
      BY <2>2, <2>4 DEF Updating, UpdateInv, UpdateHolds, AccessTypes, NoAccess
    <3>2. database = "postgresql" => access[d].user # access[c].user
      BY <2>1, <3>1 DEF UpdateInv, UpdateHolds
    <3>3. member'[access[d].user] # NoMember
      <4>1. NoMember \notin Row
        BY DEF NoMember, Row, Roles
      <4> QED
        BY <2>1, <3>1, <4>1
    <3> QED
      BY <2>1, <2>2, <2>3, <2>4, <3>1, <3>2, <3>3, OthersHold
  <2> QED
    BY <2>3, <2>4 DEF UpdateInv
<1>4. ASSUME NEW c \in Requesters, CommitToken(c) PROVE UpdateInv'
  BY <1>4, EndedKeeps DEF CommitToken
<1>5. ASSUME NEW c \in Requesters, DropAccess(c) PROVE UpdateInv'
  BY <1>5, EndedKeeps DEF DropAccess
<1>6. ASSUME NEW c \in Requesters, NEW u \in Users, CreateToken(c, u) PROVE UpdateInv'
  BY <1>6, BegunKeeps DEF CreateToken
<1>7. ASSUME NEW c \in Requesters, NEW u \in Users, NEW role \in Roles, CreateMember(c, u, role)
      PROVE  UpdateInv'
  BY <1>7, BegunKeeps DEF CreateMember, Row
<1>8. ASSUME NEW c \in Requesters, NEW u \in Users, NEW row \in Row, UpdateMember(c, u, row)
      PROVE  UpdateInv'
  <2> DEFINE work == [op |-> "update", user |-> u, read |-> member[u], row |-> row,
                      owners |-> ActiveOwners]
  <2>1. access' = [access EXCEPT ![c] = work] /\ UNCHANGED <<database, member>>
    BY <1>8 DEF UpdateMember, Asks
  <2>2. access'[c] = work /\ \A d \in Requesters \ {c} : access'[d] = access[d]
    BY <2>1 DEF UpdateInv, AccessTypes
  <2>3. member[u] # NoMember /\ member[u] \in Row
    BY <1>8 DEF UpdateMember, UpdateInv, AccessTypes
  <2>4. Demotes(u, row) => database = "sqlite" /\ \E v \in ActiveOwners : v # u
    BY <1>8, AnotherOwner DEF UpdateMember, Demotes
  <2>5. database = "postgresql" =>
          \A d \in Requesters \ {c} : Updating(d) => access[d].user # u
    BY <1>8 DEF UpdateMember, Blocked, Updating
  <2>6. ActiveOwners \subseteq Users /\ (u \in ActiveOwners <=> member[u] = OwnerRow)
    BY OwnersAre DEF UpdateInv
  <2>7. AccessTypes'
    BY <2>1, <2>3, <2>6 DEF UpdateInv, AccessTypes
  <2>8. UpdateHolds(c)'
    <3>1. \A d \in Requesters :
             database = "postgresql" /\ Updating(d)' /\ access'[d].user = u => d = c
      BY <2>2, <2>5 DEF Updating
    <3> QED
      BY <2>1, <2>2, <2>3, <2>4, <2>6, <3>1 DEF UpdateHolds, Demotes, OwnerRow
  <2>9. ASSUME NEW d \in Requesters \ {c}, Updating(d)' PROVE UpdateHolds(d)'
    <3>1. access'[d] = access[d] /\ Updating(d) /\ UpdateHolds(d)
      BY <2>2, <2>9 DEF Updating, UpdateInv
    <3>2. database = "postgresql" => access[d].user # u
      BY <2>5, <3>1
    <3>3. ASSUME database = "postgresql", NEW e \in Requesters, Updating(e)',
                 access'[e].user = access'[d].user
          PROVE  e = d
      <4>1. e # c
        BY <2>2, <3>1, <3>2, <3>3
      <4>2. Updating(e) /\ access[e].user = access[d].user
        BY <2>2, <3>1, <3>3, <4>1 DEF Updating
      <4> QED
        BY <3>1, <3>3, <4>2 DEF UpdateHolds
    <3> QED
      BY <2>1, <3>1, <3>3 DEF UpdateHolds
  <2> QED
    BY <2>7, <2>8, <2>9 DEF UpdateInv
<1>9. ASSUME NEW u \in Users, RevokeToken(u) PROVE UpdateInv'
  BY <1>9 DEF RevokeToken, UpdateInv, AccessTypes, Updating, UpdateHolds
<1> QED
  BY <1>1, <1>2, <1>3, <1>4, <1>5, <1>6, <1>7, <1>8, <1>9 DEF AccessNext, Row

\* A step that takes the last active owner away is the commit of an overtaken update.
LEMMA OwnerStep ==
    ASSUME UpdateInv, [AccessNext]_accessVars, ActiveOwners # {}, ActiveOwners' = {}
    PROVE  /\ database = "sqlite"
           /\ \E c \in Requesters :
                 access[c].op = "update" /\ access'[c] = NoAccess /\ access[c].owners # ActiveOwners
<1>1. UpdateInv' /\ AccessTypes /\ AccessTypes'
  BY UpdateInvNext DEF UpdateInv
<1>2. \A u \in Users : (u \in ActiveOwners <=> member[u] = OwnerRow) /\ member'[u] # OwnerRow
  <2>1. (AccessTypes => ActiveOwners = {u \in Users : member[u] = OwnerRow})'
    BY OwnersAre, PTL
  <2> QED
    BY <1>1, <2>1, OwnersAre
<1>3. ASSUME NEW c \in Requesters, CommitUpdate(c)
      PROVE  database = "sqlite" /\ access'[c] = NoAccess /\ access[c].owners # ActiveOwners
  <2> DEFINE u == access[c].user
             row == access[c].row
  <2>1. /\ u \in Users /\ Updating(c) /\ access[c].owners \subseteq Users
        /\ \A v \in Users : v # u => member'[v] = member[v]
        /\ access[c].read = member[u] => member'[u] = row
        /\ row = OwnerRow /\ access[c].read = OwnerRow => member'[u] = member[u]
        /\ access' = [access EXCEPT ![c] = NoAccess]
    BY <1>3, Updated
  <2>2. UpdateHolds(c)
    BY <2>1 DEF UpdateInv
  <2>3. access'[c] = NoAccess
    BY <1>1, <2>1 DEF AccessTypes
  <2>4. u \in ActiveOwners /\ \A v \in ActiveOwners : v = u
    <3>1. \A v \in ActiveOwners : v \in Users
      BY DEF ActiveOwners
    <3> QED
      BY <1>2, <2>1, <3>1
  <2>5. ASSUME database = "postgresql" PROVE FALSE
    <3>1. member[u] = OwnerRow /\ access[c].read = OwnerRow
      BY <1>2, <2>1, <2>2, <2>4, <2>5 DEF UpdateHolds
    <3>2. row = OwnerRow
      BY <2>2, <2>5, <3>1 DEF UpdateHolds
    <3> QED
      BY <1>2, <2>1, <3>1, <3>2
  <2>6. ASSUME access[c].owners = ActiveOwners PROVE FALSE
    <3>1. access[c].read = OwnerRow
      BY <2>2, <2>4, <2>6 DEF UpdateHolds
    <3>2. row = OwnerRow
      BY <2>2, <2>4, <2>6 DEF UpdateHolds
    <3> QED
      BY <1>2, <2>1, <2>4, <3>1, <3>2
  <2> QED
    BY <1>1, <2>3, <2>5, <2>6 DEF AccessTypes
<1>4. ASSUME NEW c \in Requesters, CommitMember(c) PROVE FALSE
  <2>1. ActiveOwners \subseteq ActiveOwners'
    BY <1>1, <1>4 DEF CommitMember, ActiveOwners, Active, AccessTypes, NoMember
  <2> QED
    BY <2>1
<1>5. member' # member
  BY DEF ActiveOwners, Active
<1> QED
  BY <1>3, <1>4, <1>5, Updated
     DEF AccessNext, accessVars, CommitToken, DropAccess, CreateToken, CreateMember, UpdateMember,
         RevokeToken, Asks, Updating

\* Whatever is updated at the same time, on either database: the last active owner goes
\* only on SQLite, by an update that was overtaken between its reading of the members
\* and its commit (update_member).
THEOREM OwnerGoesOvertaken == AccessSpec => OwnerGoesOnlyOvertaken
<1>1. AccessInit => UpdateInv
  BY UpdateInvInit
<1>2. UpdateInv /\ [AccessNext]_accessVars => UpdateInv'
  BY UpdateInvNext
<1>3. UpdateInv /\ [AccessNext]_accessVars =>
        [ActiveOwners # {} /\ ActiveOwners' = {} =>
          /\ database = "sqlite"
          /\ \E c \in Requesters :
                access[c].op = "update" /\ access'[c] = NoAccess /\ access[c].owners # ActiveOwners
        ]_accessVars
  BY OwnerStep
<1> QED
  BY <1>1, <1>2, <1>3, PTL DEF AccessSpec, OwnerGoesOnlyOvertaken
=============================================================================
