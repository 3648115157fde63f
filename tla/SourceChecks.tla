---------------------------- MODULE SourceChecks -----------------------------
(***************************************************************************)
(* Checks of the web pages that documents came from                        *)
(* (SourceValidationService, workers/source_revalidator.py): asked for by  *)
(* a user and run as a background task, or claimed in batches by a worker  *)
(* when the last one is old.                                               *)
(*                                                                         *)
(* A check reads the row, asks the network, and writes the columns that    *)
(* differ from what it read.  Validation is taken to be enabled.           *)
(***************************************************************************)
EXTENDS Naturals, FiniteSets

CONSTANTS
    Pages,          \* web documents
    Checkers,       \* background tasks and revalidation workers
    BatchSize,      \* source_validation_recheck_batch_size
    MaxChecks,      \* bound: checks begun, without those of pages found pending
    MaxCheckDeaths  \* bound: tasks and workers that die

ASSUME SourceCheckAssumption == {BatchSize, MaxChecks, MaxCheckDeaths} \subseteq Nat

VARIABLES
    page,     \* page -> the source columns of its row
    asked,    \* page -> background tasks that are still to start
    checker,  \* checker -> the check at work, the row it has read, the rest of its batch
    torn,     \* history: pages written last by a check whose row had changed meanwhile
    begun,    \* checks begun
    died      \* checkers that died

sourceVars == <<page, asked, checker, torn, begun, died>>

\* Verdicts of the network: the state, what the response was (its status code, type
\* and final URL), and what was wrong.
Verdicts == {[state |-> "valid", response |-> "page", error |-> "none"],
             [state |-> "unavailable", response |-> "none", error |-> "failed"]}
Cleared(state) == [state |-> state, response |-> "none", error |-> "none"]
NoCheck == [step |-> "idle"]

SourceInit ==
    /\ page = [p \in Pages |-> [verdict |-> Cleared("unchecked"), time |-> "none",
                                content |-> "unchecked"]]
    /\ asked = [p \in Pages |-> 0]
    /\ checker = [c \in Checkers |-> NoCheck]
    /\ torn = {} /\ begun = 0 /\ died = 0

\* mark_pending: the old verdict is taken away and a task is started.
MarkPending(p) ==
    /\ begun < MaxChecks
    /\ page' = [page EXCEPT ![p] = [@ EXCEPT !.verdict = Cleared("pending"), !.time = "none"]]
    /\ asked' = [asked EXCEPT ![p] = @ + 1]
    /\ begun' = begun + 1
    /\ torn' = torn \ {p}
    /\ UNCHANGED <<checker, died>>

\* The recheck interval goes by.
GrowOld(p) ==
    /\ page[p].time = "recent"
    /\ page' = [page EXCEPT ![p].time = "old"]
    /\ UNCHANGED <<asked, checker, torn, begun, died>>

\* Mutant: a pending page is never due.
Due_NotPending(p) == page[p].time # "recent" /\ page[p].verdict.state # "pending"

\* A pending page is due when its claim is old; one marked by a user has no time and
\* is left to its task.
Due(p) ==
    /\ page[p].time # "recent"
    /\ page[p].verdict.state = "pending" => page[p].time = "old"

\* Mutant: a claim leaves what explained the old state in the row.
Claimed_KeepsResult(row) == [row EXCEPT !.verdict.state = "pending", !.time = "recent"]

Claimed(row) == [row EXCEPT !.verdict = Cleared("pending"), !.time = "recent"]

\* claim_due_web_source_validations: a batch of due pages is claimed in one commit;
\* rows that another claim has locked are skipped.
ClaimDue(c, batch) ==
    LET fresh == {p \in batch : page[p].verdict.state # "pending"}
    IN
    /\ checker[c] = NoCheck
    /\ batch # {} /\ Cardinality(batch) <= BatchSize
    /\ \A p \in batch : Due(p)
    /\ begun + Cardinality(fresh) <= MaxChecks
    /\ begun' = begun + Cardinality(fresh)
    /\ page' = [p \in Pages |-> IF p \in batch THEN Claimed(page[p]) ELSE page[p]]
    /\ checker' = [checker EXCEPT ![c] = [step |-> "next", todo |-> batch]]
    /\ torn' = torn \ batch
    /\ UNCHANGED <<asked, died>>

\* The worker goes to the next page of its batch; its session keeps the row as it was
\* claimed ...
TakeNext(c, p) ==
    /\ checker[c].step = "next"
    /\ p \in checker[c].todo
    /\ checker' = [checker EXCEPT ![c] =
          [step |-> "asking", page |-> p, read |-> Cleared("pending"),
           todo |-> @.todo \ {p}, batch |-> TRUE]]
    /\ UNCHANGED <<page, asked, torn, begun, died>>

\* ... until there is none.
EndBatch(c) ==
    /\ checker[c].step = "next"
    /\ checker[c].todo = {}
    /\ checker' = [checker EXCEPT ![c] = NoCheck]
    /\ UNCHANGED <<page, asked, torn, begun, died>>

\* execute_source_validation.
StartTask(c, p) ==
    /\ checker[c] = NoCheck
    /\ asked[p] > 0
    /\ asked' = [asked EXCEPT ![p] = @ - 1]
    /\ checker' = [checker EXCEPT ![c] =
          [step |-> "asking", page |-> p, read |-> page[p].verdict, todo |-> {}, batch |-> FALSE]]
    /\ UNCHANGED <<page, torn, begun, died>>

\* The verdict; a validator that raises is one that found the page unavailable.  Only
\* columns that differ from the row read are written.
WriteVerdict(c) ==
    LET p == checker[c].page
        Column(k, new) == IF new = checker[c].read[k] THEN page[p].verdict[k] ELSE new
    IN
    /\ checker[c].step = "asking"
    /\ \E new \in Verdicts :
          /\ page' = [page EXCEPT ![p] = [@ EXCEPT
                !.verdict = [k \in DOMAIN new |-> Column(k, new[k])], !.time = "recent"]]
          /\ checker' = [checker EXCEPT ![c] =
                IF ~@.batch THEN NoCheck
                ELSE [@ EXCEPT !.step = IF new.state = "valid" THEN "comparing" ELSE "next"]]
    /\ torn' = IF page[p].verdict = checker[c].read THEN torn \ {p} ELSE torn \cup {p}
    /\ UNCHANGED <<asked, begun, died>>

\* detect_content_change: the text is fetched and compared, never replaced; a fetch
\* that fails changes nothing.
WriteContent(c) ==
    LET p == checker[c].page
    IN
    /\ checker[c].step = "comparing"
    /\ \E found \in {"unchanged", "changed", page[p].content} :
          page' = [page EXCEPT ![p].content = found]
    /\ checker' = [checker EXCEPT ![c].step = "next"]
    /\ UNCHANGED <<asked, torn, begun, died>>

\* A task that has not started is lost with its process as well.
DieChecking(c) ==
    /\ died < MaxCheckDeaths
    /\ checker[c] # NoCheck
    /\ died' = died + 1
    /\ checker' = [checker EXCEPT ![c] = NoCheck]
    /\ UNCHANGED <<page, asked, torn, begun>>

LoseTask(p) ==
    /\ died < MaxCheckDeaths
    /\ asked[p] > 0
    /\ died' = died + 1
    /\ asked' = [asked EXCEPT ![p] = @ - 1]
    /\ UNCHANGED <<page, checker, torn, begun>>

CheckStep(c) ==
    \/ WriteVerdict(c) \/ WriteContent(c) \/ EndBatch(c)
    \/ \E p \in Pages : TakeNext(c, p) \/ StartTask(c, p)

Claims == \E c \in Checkers, batch \in SUBSET Pages : ClaimDue(c, batch)

SourceNext ==
    \/ \E p \in Pages : MarkPending(p) \/ GrowOld(p) \/ LoseTask(p)
    \/ \E c \in Checkers : CheckStep(c) \/ DieChecking(c)
    \/ Claims

\* Time passes, the worker comes round, and every request of a check has a timeout.
SourceFairness ==
    /\ \A p \in Pages : WF_sourceVars(GrowOld(p))
    /\ \A c \in Checkers : WF_sourceVars(CheckStep(c))
    /\ \A p \in Pages : SF_sourceVars(\E c \in Checkers, batch \in SUBSET Pages :
                        p \in batch /\ ClaimDue(c, batch))

SourceSpec == SourceInit /\ [][SourceNext]_sourceVars /\ SourceFairness

----------------------------------------------------------------------------
(* Properties                                                              *)

\* The state of a page and the columns that explain it are of one check, whatever
\* died before and however many checks of the page are at work, as long as the check
\* that wrote last found the row as it had read it; and the next such check, claim or
\* user's request makes a torn row whole (mark_pending,
\* claim_due_web_source_validations, validate_document).
VerdictIsWhole ==
    \A p \in Pages \ torn :
        page[p].verdict \in Verdicts \cup {Cleared("unchecked"), Cleared("pending")}

\* A claimed page does not stay pending although its worker dies: it becomes due
\* again (docstring of claim_due_web_source_validations).
ClaimsSettle ==
    \A p \in Pages :
        page[p].verdict.state = "pending" /\ page[p].time # "none" ~>
            page[p].verdict.state # "pending" \/ page[p].time = "none"
=============================================================================
