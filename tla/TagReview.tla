------------------------------ MODULE TagReview ------------------------------
(***************************************************************************)
(* The controlled tags of a knowledge base and their assignments to        *)
(* documents and notes (TagGovernanceService): proposals of users, those   *)
(* found in the text of an asset when it is indexed, and their review.     *)
(* FOR UPDATE locks, as on PostgreSQL; SQLite ignores it.                  *)
(***************************************************************************)
EXTENDS Naturals, FiniteSets

CONSTANTS
    Tags,           \* knowledge_tags, as they are created
    Tagged,         \* documents and notes
    NamedIn,        \* asset -> the tags whose name its text holds
    TagDesks,       \* requests and indexing jobs
    MaxTagRequests  \* bound: how many there are

ASSUME TagReviewAssumption ==
    /\ NamedIn \in [Tagged -> SUBSET Tags]
    /\ MaxTagRequests \in Nat

VARIABLES
    tag,         \* tag -> its state and version
    assignment,  \* tag -> asset -> its knowledge_tag_assignments row
    tagDesk,     \* desk -> the transaction at work and what it has read
    requests     \* how many there have been

tagVars == <<tag, assignment, tagDesk, requests>>

NoTagWork == [op |-> "none"]

TagInit ==
    /\ tag = [t \in Tags |-> [state |-> "absent", version |-> 1]]
    /\ assignment = [t \in Tags |-> [a \in Tagged |-> "none"]]
    /\ tagDesk = [c \in TagDesks |-> NoTagWork]
    /\ requests = 0

Begins(c, work) ==
    /\ tagDesk[c] = NoTagWork
    /\ requests < MaxTagRequests
    /\ requests' = requests + 1
    /\ tagDesk' = [tagDesk EXCEPT ![c] = work]
    /\ UNCHANGED <<tag, assignment>>

Ends(c) == tagDesk' = [tagDesk EXCEPT ![c] = NoTagWork] /\ UNCHANGED requests

\* The constraint on the normalized name: a tag is created once.
CreateTag(t) ==
    /\ tag[t].state = "absent"
    /\ tag' = [tag EXCEPT ![t].state = "active"]
    /\ UNCHANGED <<assignment, tagDesk, requests>>

\* archive_tag compares the version and writes later, without a lock: of two
\* archivers that expect one version both may succeed, with one result.
BeginArchiveTag(c, t) ==
    /\ tag[t].state # "absent"
    /\ Begins(c, [op |-> "archive", tag |-> t, version |-> tag[t].version])

CommitArchiveTag(c) ==
    /\ tagDesk[c].op = "archive"
    /\ tag' = [tag EXCEPT ![tagDesk[c].tag] =
                  [state |-> "archived", version |-> tagDesk[c].version + 1]]
    /\ Ends(c)
    /\ UNCHANGED assignment

\* propose_assignment: the tag must be active when it is read.
BeginProposal(c, t, a) ==
    /\ tag[t].state = "active"
    /\ Begins(c, [op |-> "propose", asset |-> a, tags |-> {t}])

\* _auto_propose: the active tags named in the text, without those that the asset
\* has an assignment of, whatever became of it.
BeginAutoProposal(c, a) ==
    LET new == {t \in NamedIn[a] : tag[t].state = "active" /\ assignment[t][a] = "none"}
    IN  new # {} /\ Begins(c, [op |-> "propose", asset |-> a, tags |-> new])

\* The constraint on tag and asset: one row that exists fails the whole INSERT.
Proposable(a, ts) == \A t \in ts : assignment[t][a] = "none"

CommitProposal(c) ==
    LET work == tagDesk[c]
    IN
    /\ work.op = "propose"
    /\ IF Proposable(work.asset, work.tags)
       THEN assignment' = [t \in Tags |-> IF t \in work.tags
                             THEN [assignment[t] EXCEPT ![work.asset] = "pending"]
                             ELSE assignment[t]]
       ELSE UNCHANGED assignment
    /\ Ends(c)
    /\ UNCHANGED tag

\* Mutant: the assignment is read without FOR UPDATE.
ReviewLocked_Never(t, a) == FALSE

ReviewLocked(t, a) ==
    \E c \in TagDesks : tagDesk[c].op = "review" /\ tagDesk[c].tag = t /\ tagDesk[c].asset = a

\* review_assignment; the tag may have been archived meanwhile.
BeginReview(c, t, a, decision) ==
    /\ assignment[t][a] = "pending"
    /\ ~ReviewLocked(t, a)
    /\ Begins(c, [op |-> "review", tag |-> t, asset |-> a, decision |-> decision])

CommitReviewed(c) ==
    LET work == tagDesk[c]
    IN
    /\ work.op = "review"
    /\ assignment' = [assignment EXCEPT ![work.tag][work.asset] = work.decision]
    /\ Ends(c)
    /\ UNCHANGED tag

\* An error or a death rolls the transaction back, that of the index included.
DropTagWork(c) ==
    /\ tagDesk[c] # NoTagWork
    /\ Ends(c)
    /\ UNCHANGED <<tag, assignment>>

TagNext ==
    \/ \E t \in Tags : CreateTag(t)
    \/ \E c \in TagDesks :
          \/ CommitArchiveTag(c) \/ CommitProposal(c) \/ CommitReviewed(c) \/ DropTagWork(c)
          \/ \E t \in Tags : BeginArchiveTag(c, t)
          \/ \E a \in Tagged : BeginAutoProposal(c, a)
          \/ \E t \in Tags, a \in Tagged :
                \/ BeginProposal(c, t, a)
                \/ \E decision \in {"approved", "rejected"} : BeginReview(c, t, a, decision)

TagSpec == TagInit /\ [][TagNext]_tagVars

----------------------------------------------------------------------------
(* Properties                                                              *)

\* What a reviewer has decided stays decided: neither another reviewer who saw the
\* same pending row, nor a new proposal or a later indexing of the text takes it back
\* (review_assignment, _auto_propose).
TagDecisionsStand ==
    [][\A t \in Tags, a \in Tagged :
          assignment[t][a] \in {"approved", "rejected"} => assignment'[t][a] = assignment[t][a]]_tagVars
=============================================================================
