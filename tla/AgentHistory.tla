----------------------------- MODULE AgentHistory -----------------------------
(***************************************************************************)
(* AgentRuntime with history variables: what has happened to a run so far, *)
(* which the rows do not record.  They are computed from the steps and     *)
(* disable none of them.  With them the promises the code keeps can be     *)
(* told from those it keeps only as long as nobody decides a proposal      *)
(* before its run has paused, or resumes a run that is being executed.     *)
(***************************************************************************)
EXTENDS AgentRuntime

VARIABLES
    early,      \* runs that were not waiting when a decision on them was begun
    crowded,    \* runs that two executors were working on at the same time
    resumed,    \* how often each run has been resumed
    retrieved   \* how many retrievals have been carried out for each bounded plan

history == <<early, crowded, resumed, retrieved>>
historyVars == <<vars, history>>

\* Executor e is at work on run r.
WorksOn(e, r) == exec[e].stage # "idle" /\ exec[e].run = r

\* This step begins a decision on a proposal of r.
BeginsDecision(r) ==
    \E a \in Deciders : ~Busy(a) /\ Busy(a)' /\ proposal[decider'[a].proposal].run = r

\* This step resumes r.
Resumes(r) ==
    \E e \in Executors : /\ exec[e].stage = "idle"
                         /\ exec'[e].stage = "resuming"
                         /\ exec'[e].run = r

\* This step carries out a retrieval of r, a run with a bounded plan.
Retrieves(r) ==
    /\ run[r].kind = "research"
    /\ \E e \in Executors : /\ Invoke(e, "retrieve")
                            /\ exec[e].run = r
                            /\ exec'[e].stage = "done"

HistoryInit ==
    /\ Init
    /\ early = {}
    /\ crowded = {}
    /\ resumed = [r \in Runs |-> 0]
    /\ retrieved = [r \in Runs |-> 0]

Recorded ==
    /\ early' = early \cup
         {r \in Runs : BeginsDecision(r) /\ run[r].state # "awaiting_approval"}
    /\ crowded' = crowded \cup
         {r \in Runs : \E e, f \in Executors :
              e # f /\ WorksOn(e, r)' /\ WorksOn(f, r)'}
    /\ resumed' = [r \in Runs |-> resumed[r] + IF Resumes(r) THEN 1 ELSE 0]
    /\ retrieved' = [r \in Runs |-> retrieved[r] + IF Retrieves(r) THEN 1 ELSE 0]

HistoryNext == Next /\ Recorded

HistorySpec == HistoryInit /\ [][HistoryNext]_historyVars

----------------------------------------------------------------------------
(* Properties                                                              *)

\* Retrievals really carried out, also those whose checkpoint was lost with the
\* executor or that two executors repeat: a run retrieves at most max_steps times,
\* and every resume, which never repeats the first retrieval, adds at most
\* max_steps - 1 (EvidenceSufficiencyPolicy, the step kept in the checkpoints).
RetrievalsBounded ==
    \A r \in Runs : retrieved[r] <= MaxSteps + resumed[r] * (MaxSteps - 1)

\* A run that waits for approval has a proposal that can still be decided, whatever
\* crashes, clashes and resumes came before; without one it would wait for ever,
\* since resume_run refuses it.  Only a decision begun before the run had paused can
\* take the proposal away: the approval node then overwrites the state it left.
WaitsForDecision ==
    \A r \in Runs : run[r].state = "awaiting_approval" => Pending(r) \/ r \in early

\* A write tool stops at the approval node: no run is completed with its proposal
\* still to be decided, unless it was resumed past the write tool (ResumeNode).
WritesStopUnlessResumed ==
    \A r \in Runs : run[r].state = "completed" => ~Pending(r) \/ resumed[r] > 0

\* A completed run stays completed, with its executor dying at any point, resumed
\* any number of times one after the other, and whatever is decided on it; only a
\* decision begun before the pause, or an executor that was working on the run next
\* to another, still holds a state that it writes over completed.
CompletedUnlessDisturbed ==
    [][\A r \in Runs : run[r].state = "completed" =>
          run'[r].state = "completed" \/ r \in early \cup crowded]_historyVars

=============================================================================
