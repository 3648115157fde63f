----------------------------- MODULE AgentRuntime -----------------------------
(***************************************************************************)
(* Agent runs and the approval of their writes: the rows of agent_runs,    *)
(* agent_checkpoints and change_proposals, and the requests that move them.*)
(*                                                                         *)
(*   - executors run the research graph of one run, node by node, and save *)
(*     a checkpoint after each node (AgentRuntimeService); a resume starts *)
(*     another executor from the latest checkpoint;                        *)
(*   - deciders approve or reject proposals (AgentApprovalService).        *)
(*                                                                         *)
(* Sessions keep the rows they have loaded (expire_on_commit=False), so an *)
(* executor writes run.state only when it differs from what it last knew.  *)
(* current_node and the audit events are written and never read: left out. *)
(***************************************************************************)
EXTENDS Naturals

CONSTANTS
    Runs,          \* agent runs
    Proposals,     \* change proposals that can be created
    NoRun,         \* the run of an idle executor
    NoProposal,    \* proposal_id not set; the proposal of an idle decider
    Executors,     \* request threads that execute graphs
    Deciders,      \* approve and reject requests in flight together
    Kinds,         \* kinds of run that are started
    MaxSteps,      \* settings.agentic_rag_max_steps
    RowLocks,      \* does the database lock rows for SELECT ... FOR UPDATE?
    DecideEarly,   \* may a proposal be decided while its run is executing?
    ResumeBusy,    \* may a run be resumed while an executor works on it?
    MaxCrashes,    \* bound on executors that die
    MaxResumes     \* bound on resume requests

ASSUME RuntimeConstants ==
    /\ NoRun \notin Runs
    /\ NoProposal \notin Proposals
    /\ Kinds \subseteq {"lookup", "research", "write", "manual"}
    /\ MaxSteps \in Nat \ {0}
    /\ RowLocks \in BOOLEAN
    /\ DecideEarly \in BOOLEAN
    /\ ResumeBusy \in BOOLEAN
    /\ MaxCrashes \in Nat
    /\ MaxResumes \in Nat

VARIABLES
    run,        \* state and kind of each agent_runs row
    latest,     \* the latest checkpoint of each run, number 0 before the first
    proposal,   \* state and run of each change_proposals row
    writes,     \* how often the write of each proposal was carried out
    exec,       \* what each executor is doing
    decider,    \* what each decider is doing
    crashes,
    resumes

rows == <<run, latest, proposal, writes>>
vars == <<run, latest, proposal, writes, exec, decider, crashes, resumes>>

RunState == {"absent", "running", "awaiting_approval", "completed", "failed",
             "cancelled"}
Kind == {"none", "lookup", "research", "write", "manual"}
Node == {"route", "retrieve", "assess", "approval", "finish"}
ProposalState == {"none", "pending", "approved", "rejected", "expired"}

Run == [state : RunState, kind : Kind]
RunRow(state, kind) == [state |-> state, kind |-> kind]

Proposal == [state : ProposalState, run : Runs \cup {NoRun}, expired : BOOLEAN]
ProposalRow(state, r, expired) == [state |-> state, run |-> r, expired |-> expired]

\* What the nodes hand to each other: the retrieval step, the decision of the
\* last assessment, the proposal made, and whether tool_arguments is there.
Context == [step : Nat, continue : BOOLEAN, proposal : Proposals \cup {NoProposal},
            arguments : BOOLEAN]
Ctx(step, continue, p, arguments) ==
    [step |-> step, continue |-> continue, proposal |-> p, arguments |-> arguments]
NewContext == Ctx(0, FALSE, NoProposal, TRUE)

\* Where an executor can be sent: a node, nowhere, or the name "plan" (ResumeNode).
NodeName == Node \cup {"none", "plan"}

Checkpoint == [number : Nat, node : NodeName, ctx : Context]
Saved(number, node, ctx) == [number |-> number, node |-> node, ctx |-> ctx]

Stage == {"idle", "resuming", "ready", "proposing", "done", "saving"}
Executor == [stage : Stage, run : Runs \cup {NoRun}, node : NodeName,
             ctx : Context, seen : RunState, number : Nat]
At(stage, r, node, ctx, seen, number) ==
    [stage |-> stage, run |-> r, node |-> node, ctx |-> ctx, seen |-> seen,
     number |-> number]
IdleExecutor == At("idle", NoRun, "none", NewContext, "absent", 0)

Verdict == {"none", "approve", "reject", "expire"}
Decider == [proposal : Proposals \cup {NoProposal}, verdict : Verdict,
            seen : RunState]
Deciding(p, verdict, seen) == [proposal |-> p, verdict |-> verdict, seen |-> seen]
IdleDecider == Deciding(NoProposal, "none", "absent")

----------------------------------------------------------------------------
Init ==
    /\ run = [r \in Runs |-> RunRow("absent", "none")]
    /\ latest = [r \in Runs |-> Saved(0, "none", NewContext)]
    /\ proposal = [p \in Proposals |-> ProposalRow("none", NoRun, FALSE)]
    /\ writes = [p \in Proposals |-> 0]
    /\ exec = [e \in Executors |-> IdleExecutor]
    /\ decider = [a \in Deciders |-> IdleDecider]
    /\ crashes = 0
    /\ resumes = 0

\* A column is written when it differs from what the session last knew.
Column(old, new, current) == IF new = old THEN current ELSE new

SetState(r, old, new) ==
    run' = [run EXCEPT ![r] = RunRow(Column(old, new, @.state), @.kind)]

\* A row of change_proposals for a new proposal of r.
Insert(p, r) ==
    /\ proposal[p].state = "none"
    /\ proposal' = [proposal EXCEPT ![p] = ProposalRow("pending", r, FALSE)]

----------------------------------------------------------------------------
\* Starting and resuming runs.

\* run_research commits the run before it executes the graph.
RunResearch(e, r, kind) ==
    /\ exec[e].stage = "idle"
    /\ run[r].state = "absent"
    /\ kind \in Kinds \ {"manual"}
    /\ run' = [run EXCEPT ![r] = RunRow("running", kind)]
    /\ exec' = [exec EXCEPT ![e] = At("ready", r, "route", NewContext, "running", 0)]
    /\ UNCHANGED <<latest, proposal, writes, decider, crashes, resumes>>

\* propose_note_creation: run, proposal and checkpoint in one commit.
ProposeNoteCreation(r, p) ==
    /\ "manual" \in Kinds
    /\ run[r].state = "absent"
    /\ run' = [run EXCEPT ![r] = RunRow("awaiting_approval", "manual")]
    /\ Insert(p, r)
    /\ latest' = [latest EXCEPT ![r] = Saved(1, "approval", NewContext)]
    /\ UNCHANGED <<writes, exec, decider, crashes, resumes>>

AtWork(r) == \E e \in Executors : exec[e].stage # "idle" /\ exec[e].run = r

\* The node a resume starts from; the graph has no node "plan".
ResumeNode(checkpoint) ==
    CASE checkpoint.node = "route" -> "plan"
      [] checkpoint.node = "retrieve" -> "assess"
      [] checkpoint.node = "assess" ->
             IF checkpoint.ctx.continue THEN "retrieve" ELSE "finish"
      [] OTHER -> "none"

\* Mutant: a resume starts over from route with the arguments of the request.
Resumed_FromStart(r) == At("resuming", r, "route", NewContext, run[r].state, 0)

Resumed(r) ==
    At("resuming", r, ResumeNode(latest[r]), latest[r].ctx, run[r].state, 0)

\* Mutant: a completed run can be resumed as well.
ResumeRead_Completed(e, r) ==
    /\ exec[e].stage = "idle"
    /\ resumes < MaxResumes
    /\ ResumeBusy \/ ~AtWork(r)
    /\ run[r].state \in {"running", "failed", "completed"}
    /\ latest[r].number > 0
    /\ ResumeNode(latest[r]) # "none"
    /\ exec' = [exec EXCEPT ![e] = Resumed(r)]
    /\ resumes' = resumes + 1
    /\ UNCHANGED <<rows, decider, crashes>>

\* resume_run accepts failed runs and runs that still say running; nothing but the
\* caller's patience keeps it from a run that is being executed.
ResumeRead(e, r) ==
    /\ exec[e].stage = "idle"
    /\ resumes < MaxResumes
    /\ ResumeBusy \/ ~AtWork(r)
    /\ run[r].state \in {"running", "failed"}
    /\ latest[r].number > 0
    /\ ResumeNode(latest[r]) # "none"
    /\ exec' = [exec EXCEPT ![e] = Resumed(r)]
    /\ resumes' = resumes + 1
    /\ UNCHANGED <<rows, decider, crashes>>

ResumeCommit(e) ==
    LET x == exec[e]
    IN
    /\ x.stage = "resuming"
    /\ SetState(x.run, x.seen, "running")
    /\ exec' = [exec EXCEPT ![e] = At("ready", x.run, x.node, x.ctx, "running", 0)]
    /\ UNCHANGED <<latest, proposal, writes, decider, crashes, resumes>>

----------------------------------------------------------------------------
\* The nodes of the graph.

Invoke(e, node) == exec[e].stage = "ready" /\ exec[e].node = node

\* The node has committed; its checkpoint is next.
Return(e, ctx, seen) ==
    exec' = [exec EXCEPT ![e] = At("done", @.run, @.node, ctx, seen, 0)]

\* Mutant: the except branch does not record the failure.
Failed_Silent(r, seen) == UNCHANGED run

\* The except branch of _execute.
Failed(r, seen) == SetState(r, seen, "failed")

Route(e) ==
    /\ Invoke(e, "route")
    /\ Return(e, exec[e].ctx, exec[e].seen)
    /\ UNCHANGED <<rows, decider, crashes, resumes>>

\* A read tool: one more retrieval step, counted only by a bounded plan.
Retrieve(e) ==
    LET x == exec[e]
        c == x.ctx
    IN
    /\ Invoke(e, "retrieve")
    /\ run[x.run].kind # "write"
    /\ Return(e, Ctx(IF run[x.run].kind = "research" THEN c.step + 1 ELSE c.step,
                     c.continue, c.proposal, c.arguments), x.seen)
    /\ UNCHANGED <<rows, decider, crashes, resumes>>

\* A write tool: create_for_run looks for a pending proposal of the run ...
ProposeRead(e) ==
    LET x == exec[e]
        c == x.ctx
        pending == {p \in Proposals : proposal[p].run = x.run
                                      /\ proposal[p].state = "pending"}
    IN
    /\ Invoke(e, "retrieve")
    /\ run[x.run].kind = "write"
    /\ c.arguments
    /\ \E p \in IF pending = {} THEN {NoProposal} ELSE pending :
         exec' = [exec EXCEPT ![e] =
            At("proposing", x.run, x.node, Ctx(c.step, c.continue, p, c.arguments),
               x.seen, 0)]
    /\ UNCHANGED <<rows, decider, crashes, resumes>>

\* ... and the tool call is committed with the proposal, new or found.
ProposeCommit(e) ==
    LET x == exec[e]
        c == x.ctx
    IN
    /\ x.stage = "proposing"
    /\ IF c.proposal # NoProposal
       THEN Return(e, c, x.seen) /\ UNCHANGED proposal
       ELSE \E p \in Proposals :
              /\ Insert(p, x.run)
              /\ Return(e, Ctx(c.step, c.continue, p, c.arguments), x.seen)
    /\ UNCHANGED <<run, latest, writes, decider, crashes, resumes>>

\* Mutant: the step limit is off by one.
Continue_Late(step, sufficient, spent, added) ==
    ~sufficient /\ step <= MaxSteps /\ ~spent /\ (step > 1 => added)

\* EvidenceSufficiencyPolicy: evidence, steps, latency and tokens, new locators.
Continue(step, sufficient, spent, added) ==
    ~sufficient /\ step < MaxSteps /\ ~spent /\ (step > 1 => added)

Assess(e) ==
    LET x == exec[e]
        c == x.ctx
    IN
    /\ Invoke(e, "assess")
    /\ IF run[x.run].kind = "research"
       THEN \E sufficient, spent, added \in BOOLEAN :
              Return(e, Ctx(c.step, Continue(c.step, sufficient, spent, added),
                            c.proposal, c.arguments), x.seen)
       ELSE Return(e, c, x.seen)
    /\ UNCHANGED <<rows, decider, crashes, resumes>>

Approval(e) ==
    /\ Invoke(e, "approval")
    /\ SetState(exec[e].run, exec[e].seen, "awaiting_approval")
    /\ Return(e, exec[e].ctx, "awaiting_approval")
    /\ UNCHANGED <<latest, proposal, writes, decider, crashes, resumes>>

Finish(e) ==
    /\ Invoke(e, "finish")
    /\ SetState(exec[e].run, exec[e].seen, "completed")
    /\ Return(e, exec[e].ctx, "completed")
    /\ UNCHANGED <<latest, proposal, writes, decider, crashes, resumes>>

\* An unregistered tool, refused arguments, a tool that fails, or a start node
\* that the graph does not have.
Fail(e) ==
    LET x == exec[e]
    IN
    /\ \/ x.stage = "ready" /\ x.node \in {"route", "retrieve", "plan"}
       \/ x.stage = "proposing"
    /\ Failed(x.run, x.seen)
    /\ exec' = [exec EXCEPT ![e] = IdleExecutor]
    /\ UNCHANGED <<latest, proposal, writes, decider, crashes, resumes>>

----------------------------------------------------------------------------
\* The edges of the graph and its checkpoints.

\* Mutant: the edge to the approval node is missing.
Following_NoApproval(node, kind, ctx) ==
    CASE node = "route" -> "retrieve"
      [] node = "retrieve" -> IF kind = "research" THEN "assess" ELSE "finish"
      [] node = "assess" -> IF ctx.continue THEN "retrieve" ELSE "finish"
      [] OTHER -> "end"

Following(node, kind, ctx) ==
    CASE node = "route" -> "retrieve"
      [] node = "retrieve" -> IF ctx.proposal # NoProposal THEN "approval"
                              ELSE IF kind = "research" THEN "assess" ELSE "finish"
      [] node = "assess" -> IF ctx.continue THEN "retrieve" ELSE "finish"
      [] OTHER -> "end"

CheckpointRead(e) ==
    LET x == exec[e]
    IN
    /\ x.stage = "done"
    /\ exec' = [exec EXCEPT ![e] =
         At("saving", x.run, x.node, x.ctx, x.seen, latest[x.run].number + 1)]
    /\ UNCHANGED <<rows, decider, crashes, resumes>>

\* _safe_state drops tool_arguments.
Snapshot(c) == Ctx(c.step, c.continue, c.proposal, FALSE)

CheckpointCommit(e) ==
    LET x == exec[e]
        following == Following(x.node, run[x.run].kind, x.ctx)
    IN
    /\ x.stage = "saving"
    /\ latest[x.run].number < x.number
    /\ latest' = [latest EXCEPT ![x.run] = Saved(x.number, x.node, Snapshot(x.ctx))]
    /\ exec' = [exec EXCEPT ![e] =
         IF following = "end" THEN IdleExecutor
         ELSE At("ready", x.run, following, x.ctx, x.seen, 0)]
    /\ UNCHANGED <<run, proposal, writes, decider, crashes, resumes>>

\* The number is taken (uq_agent_checkpoint_sequence).  The session cannot be used
\* after the failed flush, so the except branch of _execute fails as well and the
\* run keeps its state.
CheckpointClash(e) ==
    LET x == exec[e]
    IN
    /\ x.stage = "saving"
    /\ latest[x.run].number >= x.number
    /\ exec' = [exec EXCEPT ![e] = IdleExecutor]
    /\ UNCHANGED <<rows, decider, crashes, resumes>>

\* The process or its database connection is lost.
Crash(e) ==
    /\ exec[e].stage # "idle"
    /\ crashes < MaxCrashes
    /\ crashes' = crashes + 1
    /\ exec' = [exec EXCEPT ![e] = IdleExecutor]
    /\ UNCHANGED <<rows, decider, resumes>>

----------------------------------------------------------------------------
\* Approval.

Busy(a) == decider[a].proposal # NoProposal

\* Mutant: the decision goes ahead whatever the proposal's state is.
Decidable_Any(p) == proposal[p].state # "none"

Decidable(p) == proposal[p].state = "pending"

\* _get_pending_proposal: SELECT ... FOR UPDATE, the state and the expiry.
DecideRead(a, p, verdict) ==
    /\ ~Busy(a)
    /\ Decidable(p)
    /\ RowLocks => \A b \in Deciders : decider[b].proposal # p
    /\ DecideEarly \/ run[proposal[p].run].state # "running"
    /\ verdict = "expire" <=> proposal[p].expired
    /\ decider' = [decider EXCEPT ![a] =
         Deciding(p, verdict,
                  IF verdict = "expire" THEN run[proposal[p].run].state
                  ELSE "absent")]
    /\ UNCHANGED <<rows, exec, crashes, resumes>>

\* The action has been carried out in the session; then the run is loaded.
DecideLoad(a) ==
    LET d == decider[a]
    IN
    /\ Busy(a)
    /\ d.seen = "absent"
    /\ decider' = [decider EXCEPT ![a] =
         Deciding(d.proposal, d.verdict, run[proposal[d.proposal].run].state)]
    /\ UNCHANGED <<rows, exec, crashes, resumes>>

Outcome(verdict) ==
    CASE verdict = "approve" -> "approved"
      [] verdict = "reject" -> "rejected"
      [] OTHER -> "expired"

\* Mutant: an expiry closes the proposal and leaves the run waiting.
Decided_Waiting(verdict, seen) ==
    CASE verdict = "approve" -> "completed"
      [] verdict = "reject" -> "cancelled"
      [] OTHER -> seen

\* The state approve, reject and expiry leave the run in.
Decided(verdict, seen) ==
    CASE verdict = "approve" -> "completed"
      [] verdict = "reject" -> "cancelled"
      [] OTHER -> IF seen = "awaiting_approval" THEN "cancelled" ELSE seen

\* The write, the proposal, the run and the checkpoint in one commit.
DecideCommit(a) ==
    LET p == decider[a].proposal
        verdict == decider[a].verdict
        r == proposal[p].run
    IN
    /\ Busy(a)
    /\ decider[a].seen # "absent"
    /\ writes' = [writes EXCEPT ![p] = IF verdict = "approve" THEN @ + 1 ELSE @]
    /\ proposal' = [proposal EXCEPT ![p] =
         ProposalRow(Outcome(verdict), @.run, @.expired)]
    /\ SetState(r, decider[a].seen, Decided(verdict, decider[a].seen))
    /\ latest' = [latest EXCEPT ![r] =
         IF verdict = "expire" THEN @
         ELSE Saved(@.number + 1, "finish", NewContext)]
    /\ decider' = [decider EXCEPT ![a] = IdleDecider]
    /\ UNCHANGED <<exec, crashes, resumes>>

\* A role, version or target that does not fit, a checkpoint number that is taken,
\* or a request that dies: the transaction is rolled back.
DecideAbort(a) ==
    /\ Busy(a)
    /\ decider' = [decider EXCEPT ![a] = IdleDecider]
    /\ UNCHANGED <<rows, exec, crashes, resumes>>

\* agent_proposal_ttl_seconds have passed.
ProposalExpires(p) ==
    /\ proposal[p].state = "pending"
    /\ ~proposal[p].expired
    /\ proposal' = [proposal EXCEPT ![p] = ProposalRow("pending", @.run, TRUE)]
    /\ UNCHANGED <<run, latest, writes, exec, decider, crashes, resumes>>

----------------------------------------------------------------------------
Execute(e) ==
    \/ ResumeCommit(e)
    \/ Route(e) \/ Retrieve(e) \/ ProposeRead(e) \/ ProposeCommit(e)
    \/ Assess(e) \/ Approval(e) \/ Finish(e)
    \/ CheckpointRead(e) \/ CheckpointCommit(e) \/ CheckpointClash(e)
    \/ Fail(e)

Request(e) == \E r \in Runs : ResumeRead(e, r) \/ \E k \in Kinds : RunResearch(e, r, k)

Decide(a) ==
    \/ DecideLoad(a)
    \/ DecideCommit(a)
    \/ DecideAbort(a)
    \/ \E p \in Proposals, v \in Verdict \ {"none"} : DecideRead(a, p, v)

Next ==
    \/ \E e \in Executors : Request(e) \/ Execute(e) \/ Crash(e)
    \/ \E a \in Deciders : Decide(a)
    \/ \E p \in Proposals : ProposalExpires(p)
    \/ \E r \in Runs, p \in Proposals : ProposeNoteCreation(r, p)

Spec == Init /\ [][Next]_vars

\* A thread that executes a graph keeps going; requests need not arrive.
FairSpec == Spec /\ \A e \in Executors : WF_vars(Execute(e))

----------------------------------------------------------------------------
(* Properties                                                              *)

\* Rows, executors and deciders have their shapes; whoever is busy has a target.
TypeOK ==
    /\ run \in [Runs -> Run]
    /\ latest \in [Runs -> Checkpoint]
    /\ proposal \in [Proposals -> Proposal]
    /\ writes \in [Proposals -> Nat]
    /\ exec \in [Executors -> Executor]
    /\ decider \in [Deciders -> Decider]
    /\ crashes \in 0..MaxCrashes
    /\ resumes \in 0..MaxResumes
    /\ \A e \in Executors : exec[e].stage # "idle" => exec[e].run \in Runs
    /\ \A p \in Proposals : proposal[p].state # "none" => proposal[p].run \in Runs
    /\ \A a \in Deciders : decider[a].proposal # NoProposal =>
                              proposal[decider[a].proposal].run \in Runs

\* A proposal's write is carried out once if it is approved and never otherwise,
\* however approvals, rejections and expiry race (approve_proposal).
WrittenIffApproved ==
    \A p \in Proposals : writes[p] = IF proposal[p].state = "approved" THEN 1 ELSE 0

\* While a decision is in progress the proposal stays pending and no other decision
\* is in progress: the row lock of _get_pending_proposal.
DecisionsExclude ==
    /\ \A a \in Deciders : Busy(a) => proposal[decider[a].proposal].state = "pending"
    /\ \A a, b \in Deciders :
         Busy(a) /\ decider[a].proposal = decider[b].proposal => a = b

ApprovalInv == TypeOK /\ DecisionsExclude /\ WrittenIffApproved

\* The proposals behave as WriteApproval promises.
Contract == INSTANCE WriteApproval WITH
    state <- [p \in Proposals |-> proposal[p].state]

ImplementsApproval == Contract!Spec

Pending(r) == \E p \in Proposals : proposal[p].run = r /\ proposal[p].state = "pending"

\* A run makes one proposal, even when it is interrupted and resumed: a second one
\* would be a second write (create_for_run, get_pending_by_run).
OneProposalPerRun ==
    \A p, q \in Proposals :
        /\ proposal[p].state # "none" /\ proposal[q].state # "none"
        /\ proposal[p].run = proposal[q].run
        => p = q

\* A write tool stops at the approval node: its run is not completed while its
\* proposal is still to be decided.
WritesStopAtApproval ==
    \A r \in Runs : run[r].state = "completed" => ~Pending(r)

\* A run that does not exist yet has no executor, no proposal and no checkpoint,
\* and what is being decided has been proposed.
Unstarted ==
    /\ \A r \in Runs : run[r].state = "absent" =>
         /\ \A e \in Executors : exec[e].stage # "idle" => exec[e].run # r
         /\ \A p \in Proposals : proposal[p].state # "none" => proposal[p].run # r
         /\ latest[r].number = 0 /\ latest[r].ctx.step = 0
    /\ \A a \in Deciders : decider[a].proposal # NoProposal =>
         proposal[decider[a].proposal].state # "none"

\* An executor that still has the arguments of its write, and has not proposed it.
Fresh(e) ==
    /\ exec[e].stage # "idle"
    /\ exec[e].ctx.arguments
    /\ exec[e].ctx.proposal = NoProposal

\* An executor with the arguments of its write that has not come to the write tool.
Early(e) ==
    /\ exec[e].stage # "idle"
    /\ exec[e].ctx.arguments
    /\ \/ exec[e].node \in {"route", "assess"}
       \/ exec[e].node = "retrieve" /\ exec[e].stage \in {"resuming", "ready"}

\* A run has at most one executor that can still propose, and only as long as the
\* run has no proposal; whoever comes to the write tool has not proposed yet; no
\* checkpoint can be resumed into another executor that can propose.
ProposesOnce ==
    /\ \A e \in Executors : Fresh(e) =>
         \A p \in Proposals : proposal[p].state # "none" => proposal[p].run # exec[e].run
    /\ \A e, f \in Executors : Fresh(e) /\ Fresh(f) /\ exec[e].run = exec[f].run => e = f
    /\ \A e \in Executors : exec[e].stage = "proposing" =>
         exec[e].ctx.arguments /\ exec[e].node = "retrieve"
    /\ \A e \in Executors : Early(e) => exec[e].ctx.proposal = NoProposal
    /\ \A r \in Runs : ResumeNode(latest[r]) # "none" => ~latest[r].ctx.arguments

ProposalInv == Unstarted /\ ProposesOnce /\ OneProposalPerRun

\* An executor that is about to retrieve has a step left.
StepLeft(e) ==
    LET x == exec[e]
        after == x.stage \in {"done", "saving"}
    IN
    /\ x.ctx.step <= MaxSteps
    /\ x.stage # "idle" =>
         /\ run[x.run].kind # "research" => x.ctx.step = 0
         /\ x.node = "route" => x.ctx.step = 0
         /\ x.node = "retrieve" /\ ~after => x.ctx.step < MaxSteps
         /\ x.node = "assess" /\ after /\ x.ctx.continue => x.ctx.step < MaxSteps

\* A checkpoint that is resumed at a retrieval has a step left.
StepSaved(r) ==
    LET c == latest[r].ctx
    IN
    /\ c.step <= MaxSteps
    /\ run[r].kind # "research" => c.step = 0
    /\ latest[r].node = "assess" /\ c.continue => c.step < MaxSteps

StepsCounted ==
    /\ \A e \in Executors : StepLeft(e)
    /\ \A r \in Runs : StepSaved(r)

\* A run leaves the state running, whatever fails in it, or the process that executed
\* it dies; then nobody is at work on it, and it can be resumed (_execute).
EveryRunSettles ==
    \A r \in Runs : run[r].state = "running" ~>
        run[r].state # "running" \/ (crashes > 0 /\ ~AtWork(r))

=============================================================================
