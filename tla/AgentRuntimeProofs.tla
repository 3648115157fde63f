------------------------- MODULE AgentRuntimeProofs -------------------------
(***************************************************************************)
(* Theorems about agent runs and the approval of their writes, for any     *)
(* number of runs, proposals, executors and deciders.                      *)
(***************************************************************************)
EXTENDS AgentHistory, FiniteSetTheorems, TLAPS

(* Types *)

\* An executor record built by At has its fields.
LEMMA AtType ==
    ASSUME NEW stage \in Stage, NEW r \in Runs \cup {NoRun},
           NEW node \in NodeName, NEW c \in Context,
           NEW seen \in RunState, NEW n \in Nat
    PROVE  /\ At(stage, r, node, c, seen, n) \in Executor
           /\ At(stage, r, node, c, seen, n).stage = stage
           /\ At(stage, r, node, c, seen, n).run = r
BY DEF At, Executor

\* The fields of an executor record.
LEMMA ExecutorFields ==
    ASSUME NEW x \in Executor
    PROVE  /\ x.stage \in Stage /\ x.run \in Runs \cup {NoRun}
           /\ x.node \in NodeName /\ x.ctx \in Context
           /\ x.seen \in RunState /\ x.number \in Nat
BY DEF Executor

\* A context built by Ctx has its fields.
LEMMA CtxType ==
    ASSUME NEW step \in Nat, NEW continue \in BOOLEAN,
           NEW p \in Proposals \cup {NoProposal}, NEW arguments \in BOOLEAN
    PROVE  Ctx(step, continue, p, arguments) \in Context
BY DEF Ctx, Context

\* The fields of a context.
LEMMA ContextFields ==
    ASSUME NEW c \in Context
    PROVE  /\ c.step \in Nat /\ c.continue \in BOOLEAN
           /\ c.proposal \in Proposals \cup {NoProposal} /\ c.arguments \in BOOLEAN
BY DEF Context

\* The records that stand for nothing are of their types.
LEMMA NullTypes ==
    /\ NewContext \in Context
    /\ IdleExecutor \in Executor
    /\ IdleExecutor.stage = "idle"
    /\ IdleDecider \in Decider
    /\ IdleDecider.proposal = NoProposal
<1>1. NewContext \in Context
  BY CtxType DEF NewContext
<1>2. /\ "idle" \in Stage /\ "absent" \in RunState /\ "none" \in NodeName
      /\ "none" \in Verdict /\ NoRun \in Runs \cup {NoRun} /\ 0 \in Nat
  BY DEF Stage, RunState, NodeName, Verdict
<1>3. IdleExecutor \in Executor /\ IdleExecutor.stage = "idle"
  BY <1>1, <1>2 DEF IdleExecutor, At, Executor
<1>4. IdleDecider \in Decider /\ IdleDecider.proposal = NoProposal
  BY <1>2 DEF IdleDecider, Deciding, Decider
<1> QED
  BY <1>1, <1>3, <1>4

\* Writing a column leaves the run rows well formed.
LEMMA SetStateType ==
    ASSUME TypeOK, NEW r \in Runs, NEW old \in RunState, NEW new \in RunState,
           SetState(r, old, new)
    PROVE  run' \in [Runs -> Run]
<1>1. run[r] \in Run
  BY DEF TypeOK
<1>2. RunRow(Column(old, new, run[r].state), run[r].kind) \in Run
  BY <1>1 DEF Run, RunRow, Column
<1> QED
  BY <1>2 DEF SetState, TypeOK

\* A busy executor works on a run.
LEMMA BusyExecutor ==
    ASSUME TypeOK, NEW e \in Executors, exec[e].stage # "idle"
    PROVE  exec[e] \in Executor /\ exec[e].run \in Runs
BY DEF TypeOK

\* Moving one executor leaves the executors well formed.
LEMMA MoveType ==
    ASSUME TypeOK, NEW e \in Executors, NEW x \in Executor,
           x.stage # "idle" => x.run \in Runs,
           exec' = [exec EXCEPT ![e] = x]
    PROVE  /\ exec' \in [Executors -> Executor]
           /\ \A f \in Executors : exec'[f].stage # "idle" => exec'[f].run \in Runs
BY DEF TypeOK

\* A resume starts from a name the executor record admits.
LEMMA ResumeNodeType ==
    ASSUME NEW c \in Checkpoint
    PROVE  ResumeNode(c) \in NodeName
BY DEF ResumeNode, NodeName, Node

\* The graph leads to a node or to its end.
LEMMA FollowingType ==
    ASSUME NEW node, NEW kind, NEW c
    PROVE  Following(node, kind, c) \in NodeName \cup {"end"}
BY DEF Following, NodeName, Node

\* A node that returns leaves the executors well formed.
LEMMA ReturnType ==
    ASSUME TypeOK, NEW e \in Executors, exec[e].stage # "idle", NEW c \in Context,
           NEW seen \in RunState, Return(e, c, seen)
    PROVE  /\ exec' \in [Executors -> Executor]
           /\ \A f \in Executors : exec'[f].stage # "idle" => exec'[f].run \in Runs
<1> DEFINE x == At("done", exec[e].run, exec[e].node, c, seen, 0)
<1>1. exec[e] \in Executor /\ exec[e].run \in Runs
  BY BusyExecutor
<1>2. "done" \in Stage /\ exec[e].run \in Runs \cup {NoRun} /\ exec[e].node \in NodeName
  BY <1>1, ExecutorFields DEF Stage
<1>4. x \in Executor /\ (x.stage # "idle" => x.run \in Runs)
  BY <1>1, <1>2, AtType
<1>3. exec' = [exec EXCEPT ![e] = x]
  BY DEF Return
<1> HIDE DEF x
<1> QED
  BY <1>3, <1>4, MoveType

\* A decider record has its fields.
LEMMA DeciderFields ==
    ASSUME NEW d \in Decider
    PROVE  /\ d.proposal \in Proposals \cup {NoProposal} /\ d.verdict \in Verdict
           /\ d.seen \in RunState
BY DEF Decider

\* A decider record built by Deciding has its fields.
LEMMA DecidingType ==
    ASSUME NEW p \in Proposals \cup {NoProposal}, NEW verdict \in Verdict,
           NEW seen \in RunState
    PROVE  /\ Deciding(p, verdict, seen) \in Decider
           /\ Deciding(p, verdict, seen).proposal = p
           /\ Deciding(p, verdict, seen).verdict = verdict
           /\ Deciding(p, verdict, seen).seen = seen
BY DEF Deciding, Decider

\* The steps of a decision keep the shapes.
LEMMA DecideType ==
    ASSUME TypeOK, NEW a \in Deciders, Decide(a)
    PROVE  TypeOK'
<1>1. CASE DecideLoad(a)
  <2>1. decider[a] \in Decider /\ decider[a].proposal \in Proposals
    BY <1>1, DeciderFields DEF DecideLoad, Busy, TypeOK
  <2>2. run[proposal[decider[a].proposal].run].state \in RunState
    <3>1. proposal[decider[a].proposal].run \in Runs
      BY <2>1, RuntimeConstants DEF TypeOK
    <3>2. run[proposal[decider[a].proposal].run] \in Run
      BY <3>1 DEF TypeOK
    <3> QED
      BY <3>2 DEF Run
  <2>3. Deciding(decider[a].proposal, decider[a].verdict,
                 run[proposal[decider[a].proposal].run].state) \in Decider
    BY <2>1, <2>2, DecidingType, DeciderFields
  <2>4. \A b \in Deciders : decider'[b].proposal = decider[b].proposal
    BY <1>1, <2>1, <2>2, DecidingType, DeciderFields DEF DecideLoad, TypeOK
  <2> QED
    BY <1>1, <2>3, <2>4 DEF DecideLoad, rows, TypeOK, Busy
<1>2. CASE DecideCommit(a)
  <2> DEFINE p == decider[a].proposal
             r == proposal[p].run
             new == Decided(decider[a].verdict, decider[a].seen)
  <2>1. /\ decider[a] \in Decider /\ p \in Proposals /\ r \in Runs
        /\ decider[a].verdict \in Verdict /\ decider[a].seen \in RunState
    BY <1>2, DeciderFields DEF DecideCommit, Busy, TypeOK
  <2>2. new \in RunState
    BY <2>1 DEF Decided, RunState
  <2>3. run' \in [Runs -> Run]
    BY <1>2, <2>1, <2>2, SetStateType DEF DecideCommit
  <2>4. /\ proposal[p] \in Proposal /\ latest[r] \in Checkpoint
        /\ latest[r].number + 1 \in Nat
    BY <2>1 DEF TypeOK, Checkpoint
  <2>5. Outcome(decider[a].verdict) \in ProposalState
    BY DEF Outcome, ProposalState
  <2>6. /\ ProposalRow(Outcome(decider[a].verdict), r, proposal[p].expired) \in Proposal
        /\ ProposalRow(Outcome(decider[a].verdict), r, proposal[p].expired).run = r
    BY <2>1, <2>4, <2>5 DEF ProposalRow, Proposal
  <2>7. Saved(latest[r].number + 1, "finish", NewContext) \in Checkpoint
    BY <2>4, NullTypes DEF Saved, Checkpoint, NodeName, Node
  <2>8. latest' \in [Runs -> Checkpoint]
    BY <1>2, <2>1, <2>7 DEF DecideCommit, TypeOK
  <2>9. writes' \in [Proposals -> Nat]
    <3>1. writes[p] \in Nat /\ writes[p] + 1 \in Nat
      BY <2>1 DEF TypeOK
    <3> QED
      BY <1>2, <3>1 DEF DecideCommit, TypeOK
  <2>10. /\ proposal' \in [Proposals -> Proposal]
         /\ \A q \in Proposals : proposal'[q].run = proposal[q].run
         /\ \A q \in Proposals : q # p => proposal'[q].state = proposal[q].state
    BY <1>2, <2>6 DEF DecideCommit, TypeOK
  <2>11. /\ decider' \in [Deciders -> Decider]
         /\ \A b \in Deciders : b = a \/ decider'[b] = decider[b]
         /\ decider'[a].proposal = NoProposal
    BY <1>2, NullTypes DEF DecideCommit, TypeOK
  <2>12. UNCHANGED <<exec, crashes, resumes>>
    BY <1>2 DEF DecideCommit
  <2>13. \A q \in Proposals : proposal'[q].state # "none" => proposal'[q].run \in Runs
    <3>1. proposal[p].run \in Runs
      BY <2>1
    <3> QED
      BY <2>10, <3>1 DEF TypeOK
  <2> HIDE DEF p, r, new
  <2>14. \A b \in Deciders : decider'[b].proposal # NoProposal =>
                                 proposal'[decider'[b].proposal].run \in Runs
    BY <2>10, <2>11, DeciderFields DEF TypeOK
  <2> QED
    BY <2>3, <2>8, <2>9, <2>10, <2>11, <2>12, <2>13, <2>14 DEF TypeOK
<1>3. CASE DecideAbort(a)
  BY <1>3, NullTypes DEF DecideAbort, rows, TypeOK, Busy
<1>4. ASSUME NEW p \in Proposals, NEW v \in Verdict \ {"none"}, DecideRead(a, p, v)
      PROVE  TypeOK'
  <2> DEFINE seen == IF v = "expire" THEN run[proposal[p].run].state ELSE "absent"
  <2>1. p \in Proposals \cup {NoProposal} /\ v \in Verdict
    OBVIOUS
  <2>2. proposal[p].run \in Runs
    BY <1>4 DEF DecideRead, Decidable, TypeOK
  <2>3. seen \in RunState
    BY <2>2 DEF TypeOK, Run, RunState
  <2>4. decider' = [decider EXCEPT ![a] = Deciding(p, v, seen)]
    BY <1>4 DEF DecideRead
  <2> HIDE DEF seen
  <2>5. /\ Deciding(p, v, seen) \in Decider
        /\ Deciding(p, v, seen).proposal = p
    BY <2>1, <2>3, DecidingType
  <2> QED
    BY <1>4, <2>2, <2>4, <2>5 DEF DecideRead, rows, TypeOK, Busy
<1> QED
  BY <1>1, <1>2, <1>3, <1>4 DEF Decide

\* Every row, executor and decider keeps its shape.
THEOREM Typing == Spec => []TypeOK
<1>1. Init => TypeOK
  <2>1. RunRow("absent", "none") \in Run
    BY DEF RunRow, Run, RunState, Kind
  <2>2. Saved(0, "none", NewContext) \in Checkpoint
    BY NullTypes DEF Saved, Checkpoint, NodeName
  <2>3. /\ ProposalRow("none", NoRun, FALSE) \in Proposal
        /\ ProposalRow("none", NoRun, FALSE).state = "none"
    BY DEF ProposalRow, Proposal, ProposalState
  <2> QED
    <3>1. ASSUME Init
          PROVE  /\ run \in [Runs -> Run] /\ latest \in [Runs -> Checkpoint]
                 /\ proposal \in [Proposals -> Proposal] /\ writes \in [Proposals -> Nat]
                 /\ exec \in [Executors -> Executor] /\ decider \in [Deciders -> Decider]
      BY <3>1, <2>1, <2>2, <2>3, NullTypes DEF Init
    <3>2. ASSUME Init
          PROVE  /\ crashes \in 0..MaxCrashes /\ resumes \in 0..MaxResumes
                 /\ \A e \in Executors : exec[e].stage = "idle"
                 /\ \A p \in Proposals : proposal[p].state = "none"
                 /\ \A a \in Deciders : decider[a].proposal = NoProposal
      <4>1. crashes \in 0..MaxCrashes /\ resumes \in 0..MaxResumes
        BY <3>2, RuntimeConstants DEF Init
      <4>2. \A p \in Proposals : proposal[p].state = "none"
        BY <3>2, <2>3 DEF Init
      <4> QED
        BY <3>2, <4>1, <4>2, NullTypes DEF Init
    <3> QED
      BY <3>1, <3>2 DEF TypeOK
<1>2. TypeOK /\ [Next]_vars => TypeOK'
  <2> SUFFICES ASSUME TypeOK, [Next]_vars PROVE TypeOK'
    OBVIOUS
  <2> USE RuntimeConstants
  <2>1. ASSUME NEW e \in Executors, NEW r \in Runs, NEW k \in Kinds,
               RunResearch(e, r, k)
        PROVE  TypeOK'
    <3> DEFINE x == At("ready", r, "route", NewContext, "running", 0)
    <3>1. x \in Executor /\ x.run \in Runs
      <4>1. /\ "ready" \in Stage /\ "route" \in NodeName /\ "running" \in RunState
            /\ r \in Runs \cup {NoRun} /\ 0 \in Nat
        BY DEF Stage, NodeName, Node, RunState
      <4> QED
        BY <4>1, AtType, NullTypes
    <3>2. RunRow("running", k) \in Run
      BY DEF Run, RunRow, RunState, Kind
    <3>3. exec' = [exec EXCEPT ![e] = x]
      BY <2>1 DEF RunResearch
    <3> HIDE DEF x
    <3>4. /\ exec' \in [Executors -> Executor]
          /\ \A f \in Executors : exec'[f].stage # "idle" => exec'[f].run \in Runs
      BY <3>1, <3>3, MoveType
    <3> QED
      BY <2>1, <3>2, <3>4 DEF RunResearch, TypeOK
  <2>2. ASSUME NEW r \in Runs, NEW p \in Proposals, ProposeNoteCreation(r, p)
        PROVE  TypeOK'
    <3>1. RunRow("awaiting_approval", "manual") \in Run
      BY DEF Run, RunRow, RunState, Kind
    <3>2. Saved(1, "approval", NewContext) \in Checkpoint
      BY NullTypes DEF Saved, Checkpoint, NodeName, Node
    <3>3. ProposalRow("pending", r, FALSE) \in Proposal
          /\ ProposalRow("pending", r, FALSE).run = r
      BY DEF ProposalRow, Proposal, ProposalState
    <3>4. /\ proposal' \in [Proposals -> Proposal]
          /\ \A q \in Proposals : proposal'[q].state # "none" => proposal'[q].run \in Runs
          /\ \A q \in Proposals : proposal[q].run \in Runs => proposal'[q].run \in Runs
      BY <2>2, <3>3 DEF ProposeNoteCreation, Insert, TypeOK
    <3> QED
      BY <2>2, <3>1, <3>2, <3>4 DEF ProposeNoteCreation, TypeOK, Decider
  <2>3. ASSUME NEW e \in Executors, NEW r \in Runs, ResumeRead(e, r) PROVE TypeOK'
    <3> DEFINE x == Resumed(r)
    <3>1. latest[r] \in Checkpoint /\ latest[r].ctx \in Context /\ run[r].state \in RunState
      BY DEF TypeOK, Checkpoint, Run
    <3>2. x \in Executor /\ x.run \in Runs
      BY <3>1, AtType, ResumeNodeType DEF Resumed, Stage
    <3>3. exec' = [exec EXCEPT ![e] = x]
      BY <2>3 DEF ResumeRead
    <3> HIDE DEF x
    <3>4. /\ exec' \in [Executors -> Executor]
          /\ \A f \in Executors : exec'[f].stage # "idle" => exec'[f].run \in Runs
      BY <3>2, <3>3, MoveType
    <3> QED
      BY <2>3, <3>4 DEF ResumeRead, rows, TypeOK
  <2>4. ASSUME NEW e \in Executors, ResumeCommit(e) PROVE TypeOK'
    <3> DEFINE x == At("ready", exec[e].run, exec[e].node, exec[e].ctx, "running", 0)
    <3>1. exec[e] \in Executor /\ exec[e].run \in Runs
      BY <2>4, BusyExecutor DEF ResumeCommit
    <3>2. x \in Executor /\ x.run \in Runs
      BY <3>1, AtType, ExecutorFields DEF Stage, RunState
    <3>3. exec' = [exec EXCEPT ![e] = x]
      BY <2>4 DEF ResumeCommit
    <3>4. run' \in [Runs -> Run]
      BY <2>4, <3>1, SetStateType, ExecutorFields DEF ResumeCommit, RunState
    <3> HIDE DEF x
    <3>5. /\ exec' \in [Executors -> Executor]
          /\ \A f \in Executors : exec'[f].stage # "idle" => exec'[f].run \in Runs
      BY <3>2, <3>3, MoveType
    <3> QED
      BY <2>4, <3>4, <3>5 DEF ResumeCommit, TypeOK
  <2>5. ASSUME NEW e \in Executors, Route(e) PROVE TypeOK'
    <3>1. exec[e].stage # "idle" /\ exec[e].ctx \in Context /\ exec[e].seen \in RunState
      BY <2>5, ExecutorFields DEF Route, Invoke, TypeOK
    <3>2. /\ exec' \in [Executors -> Executor]
          /\ \A f \in Executors : exec'[f].stage # "idle" => exec'[f].run \in Runs
      BY <2>5, <3>1, ReturnType DEF Route
    <3> QED
      BY <2>5, <3>2 DEF Route, rows, TypeOK
  <2>6. ASSUME NEW e \in Executors, Retrieve(e) PROVE TypeOK'
    <3> DEFINE c == exec[e].ctx
               d == Ctx(IF run[exec[e].run].kind = "research" THEN c.step + 1
                        ELSE c.step, c.continue, c.proposal, c.arguments)
    <3>1. exec[e].stage # "idle" /\ c \in Context /\ exec[e].seen \in RunState
      BY <2>6, ExecutorFields DEF Retrieve, Invoke, TypeOK
    <3>2. d \in Context
      <4> DEFINE step == IF run[exec[e].run].kind = "research" THEN c.step + 1 ELSE c.step
      <4>1. step \in Nat
        BY <3>1, ContextFields
      <4> HIDE DEF step
      <4>2. Ctx(step, c.continue, c.proposal, c.arguments) \in Context
        BY <3>1, <4>1, CtxType, ContextFields
      <4> QED
        BY <4>2 DEF step
    <3>3. Return(e, d, exec[e].seen)
      BY <2>6 DEF Retrieve
    <3> HIDE DEF d
    <3>4. /\ exec' \in [Executors -> Executor]
          /\ \A f \in Executors : exec'[f].stage # "idle" => exec'[f].run \in Runs
      BY <3>1, <3>2, <3>3, ReturnType
    <3> QED
      BY <2>6, <3>4 DEF Retrieve, rows, TypeOK
  <2>7. ASSUME NEW e \in Executors, ProposeRead(e) PROVE TypeOK'
    <3> DEFINE c == exec[e].ctx
    <3>1. exec[e] \in Executor /\ exec[e].run \in Runs /\ c \in Context
      BY <2>7, BusyExecutor, ExecutorFields DEF ProposeRead, Invoke
    <3>2. PICK p \in Proposals \cup {NoProposal} :
            exec' = [exec EXCEPT ![e] =
              At("proposing", exec[e].run, exec[e].node,
                 Ctx(c.step, c.continue, p, c.arguments), exec[e].seen, 0)]
      BY <2>7 DEF ProposeRead
    <3> DEFINE x == At("proposing", exec[e].run, exec[e].node,
                       Ctx(c.step, c.continue, p, c.arguments), exec[e].seen, 0)
    <3>3. x \in Executor /\ x.run \in Runs
      <4>1. Ctx(c.step, c.continue, p, c.arguments) \in Context
        BY <3>1, CtxType, ContextFields
      <4>2. /\ "proposing" \in Stage /\ exec[e].run \in Runs \cup {NoRun}
            /\ exec[e].node \in NodeName /\ exec[e].seen \in RunState
        BY <3>1, ExecutorFields DEF Stage
      <4> QED
        BY <3>1, <4>1, <4>2, AtType
    <3> HIDE DEF x
    <3>4. /\ exec' \in [Executors -> Executor]
          /\ \A f \in Executors : exec'[f].stage # "idle" => exec'[f].run \in Runs
      BY <3>2, <3>3, MoveType DEF x
    <3> QED
      BY <2>7, <3>4 DEF ProposeRead, rows, TypeOK
  <2>8. ASSUME NEW e \in Executors, ProposeCommit(e) PROVE TypeOK'
    <3> DEFINE c == exec[e].ctx
    <3>1. /\ exec[e].stage # "idle" /\ exec[e].run \in Runs /\ c \in Context
          /\ exec[e].seen \in RunState
      BY <2>8, BusyExecutor, ExecutorFields DEF ProposeCommit
    <3>2. CASE c.proposal # NoProposal
      <4>1. /\ exec' \in [Executors -> Executor]
            /\ \A f \in Executors : exec'[f].stage # "idle" => exec'[f].run \in Runs
        BY <2>8, <3>1, <3>2, ReturnType DEF ProposeCommit
      <4> QED
        BY <2>8, <3>2, <4>1 DEF ProposeCommit, TypeOK
    <3>3. CASE c.proposal = NoProposal
      <4>1. PICK p \in Proposals :
              /\ Insert(p, exec[e].run)
              /\ Return(e, Ctx(c.step, c.continue, p, c.arguments), exec[e].seen)
        BY <2>8, <3>3 DEF ProposeCommit
      <4>2. Ctx(c.step, c.continue, p, c.arguments) \in Context
        BY <3>1, CtxType, ContextFields
      <4>3. /\ exec' \in [Executors -> Executor]
            /\ \A f \in Executors : exec'[f].stage # "idle" => exec'[f].run \in Runs
        BY <3>1, <4>1, <4>2, ReturnType
      <4>4. ProposalRow("pending", exec[e].run, FALSE) \in Proposal
            /\ ProposalRow("pending", exec[e].run, FALSE).run = exec[e].run
        BY <3>1 DEF ProposalRow, Proposal, ProposalState
      <4>5. /\ proposal' \in [Proposals -> Proposal]
            /\ \A q \in Proposals : proposal'[q].state # "none" => proposal'[q].run \in Runs
            /\ \A q \in Proposals :
                 proposal[q].run \in Runs => proposal'[q].run \in Runs
        BY <3>1, <4>1, <4>4 DEF Insert, TypeOK
      <4> QED
        BY <2>8, <4>3, <4>5 DEF ProposeCommit, TypeOK, Decider
    <3> QED
      BY <3>2, <3>3
  <2>9. ASSUME NEW e \in Executors, Assess(e) PROVE TypeOK'
    <3> DEFINE c == exec[e].ctx
    <3>1. exec[e].stage # "idle" /\ c \in Context /\ exec[e].seen \in RunState
      BY <2>9, ExecutorFields DEF Assess, Invoke, TypeOK
    <3>2. \E d \in Context : Return(e, d, exec[e].seen)
      <4>1. CASE run[exec[e].run].kind = "research"
        <5>1. PICK sufficient, spent, added \in BOOLEAN :
                Return(e, Ctx(c.step, Continue(c.step, sufficient, spent, added),
                              c.proposal, c.arguments), exec[e].seen)
          BY <2>9, <4>1 DEF Assess
        <5>2. Continue(c.step, sufficient, spent, added) \in BOOLEAN
          BY DEF Continue
        <5> QED
          BY <3>1, <5>1, <5>2, CtxType, ContextFields
      <4>2. CASE run[exec[e].run].kind # "research"
        BY <2>9, <3>1, <4>2 DEF Assess
      <4> QED
        BY <4>1, <4>2
    <3>3. /\ exec' \in [Executors -> Executor]
          /\ \A f \in Executors : exec'[f].stage # "idle" => exec'[f].run \in Runs
      BY <3>1, <3>2, ReturnType
    <3> QED
      BY <2>9, <3>3 DEF Assess, rows, TypeOK
  <2>10. ASSUME NEW e \in Executors, Approval(e) \/ Finish(e) PROVE TypeOK'
    <3>1. /\ exec[e].stage # "idle" /\ exec[e].run \in Runs /\ exec[e].ctx \in Context
          /\ exec[e].seen \in RunState
      BY <2>10, BusyExecutor, ExecutorFields DEF Approval, Finish, Invoke
    <3>2. \E new \in RunState :
            SetState(exec[e].run, exec[e].seen, new) /\ Return(e, exec[e].ctx, new)
      BY <2>10 DEF Approval, Finish, RunState
    <3>3. /\ exec' \in [Executors -> Executor]
          /\ \A f \in Executors : exec'[f].stage # "idle" => exec'[f].run \in Runs
      BY <3>1, <3>2, ReturnType
    <3>4. run' \in [Runs -> Run]
      BY <3>1, <3>2, SetStateType
    <3> QED
      BY <2>10, <3>3, <3>4 DEF Approval, Finish, TypeOK
  <2>11. ASSUME NEW e \in Executors, Fail(e) PROVE TypeOK'
    <3>1. exec[e].stage # "idle" /\ exec[e].run \in Runs /\ exec[e].seen \in RunState
      BY <2>11, BusyExecutor, ExecutorFields DEF Fail
    <3>2. run' \in [Runs -> Run]
      BY <2>11, <3>1, SetStateType DEF Fail, Failed, RunState
    <3>3. /\ exec' \in [Executors -> Executor]
          /\ \A f \in Executors : exec'[f].stage # "idle" => exec'[f].run \in Runs
      BY <2>11, NullTypes, MoveType DEF Fail
    <3> QED
      BY <2>11, <3>2, <3>3 DEF Fail, TypeOK
  <2>12. ASSUME NEW e \in Executors, CheckpointRead(e) PROVE TypeOK'
    <3> DEFINE x == At("saving", exec[e].run, exec[e].node, exec[e].ctx, exec[e].seen,
                       latest[exec[e].run].number + 1)
    <3>1. exec[e] \in Executor /\ exec[e].run \in Runs
      BY <2>12, BusyExecutor DEF CheckpointRead
    <3>2. latest[exec[e].run].number + 1 \in Nat
      BY <3>1 DEF TypeOK, Checkpoint
    <3>3. x \in Executor /\ x.run \in Runs
      BY <3>1, <3>2, AtType, ExecutorFields DEF Stage
    <3>4. exec' = [exec EXCEPT ![e] = x]
      BY <2>12 DEF CheckpointRead
    <3> HIDE DEF x
    <3>5. /\ exec' \in [Executors -> Executor]
          /\ \A f \in Executors : exec'[f].stage # "idle" => exec'[f].run \in Runs
      BY <3>3, <3>4, MoveType
    <3> QED
      BY <2>12, <3>5 DEF CheckpointRead, rows, TypeOK
  <2>13. ASSUME NEW e \in Executors, CheckpointCommit(e) PROVE TypeOK'
    <3> DEFINE following == Following(exec[e].node, run[exec[e].run].kind, exec[e].ctx)
               x == IF following = "end" THEN IdleExecutor
                    ELSE At("ready", exec[e].run, following, exec[e].ctx, exec[e].seen, 0)
               cp == Saved(exec[e].number, exec[e].node, Snapshot(exec[e].ctx))
    <3>1. exec[e] \in Executor /\ exec[e].run \in Runs
      BY <2>13, BusyExecutor DEF CheckpointCommit
    <3>2. x \in Executor /\ (x.stage # "idle" => x.run \in Runs)
      <4>1. CASE following = "end"
        BY <4>1, NullTypes
      <4>2. CASE following # "end"
        <5>1. following \in NodeName
          BY <4>2, FollowingType
        <5> HIDE DEF following
        <5>2. "ready" \in Stage
          BY DEF Stage
        <5> QED
          BY <3>1, <4>2, <5>1, <5>2, AtType, ExecutorFields
      <4> QED
        BY <4>1, <4>2
    <3>3. exec' = [exec EXCEPT ![e] = x]
      BY <2>13 DEF CheckpointCommit
    <3>4. /\ exec' \in [Executors -> Executor]
          /\ \A f \in Executors : exec'[f].stage # "idle" => exec'[f].run \in Runs
      <4> HIDE DEF x
      <4> QED
        BY <3>2, <3>3, MoveType
    <3>5. Snapshot(exec[e].ctx) \in Context
      BY <3>1, CtxType, ContextFields, ExecutorFields DEF Snapshot
    <3>6. cp \in Checkpoint
      BY <3>1, <3>5, ExecutorFields DEF Saved, Checkpoint
    <3> QED
      BY <2>13, <3>4, <3>6 DEF CheckpointCommit, TypeOK
  <2>14. ASSUME NEW e \in Executors, CheckpointClash(e) \/ Crash(e) PROVE TypeOK'
    <3>1. exec' = [exec EXCEPT ![e] = IdleExecutor]
      BY <2>14 DEF CheckpointClash, Crash
    <3>2. /\ exec' \in [Executors -> Executor]
          /\ \A f \in Executors : exec'[f].stage # "idle" => exec'[f].run \in Runs
      BY <3>1, NullTypes, MoveType
    <3> QED
      BY <2>14, <3>2 DEF CheckpointClash, Crash, rows, TypeOK
  <2>15. ASSUME NEW a \in Deciders, Decide(a) PROVE TypeOK'
    BY <2>15, DecideType
  <2>16. ASSUME NEW p \in Proposals, ProposalExpires(p) PROVE TypeOK'
    <3>1. proposal[p] \in Proposal
      BY DEF TypeOK
    <3>2. /\ ProposalRow("pending", proposal[p].run, TRUE) \in Proposal
          /\ ProposalRow("pending", proposal[p].run, TRUE).run = proposal[p].run
      BY <3>1 DEF ProposalRow, Proposal, ProposalState
    <3>3. /\ proposal' \in [Proposals -> Proposal]
          /\ \A q \in Proposals : proposal'[q].run = proposal[q].run
          /\ \A q \in Proposals :
               proposal'[q].state # "none" => proposal[q].state # "none"
      BY <2>16, <3>2 DEF ProposalExpires, TypeOK
    <3> QED
      BY <2>16, <3>3 DEF ProposalExpires, TypeOK, Decider
  <2>17. CASE UNCHANGED vars
    BY <2>17 DEF vars, TypeOK
  <2> QED
    BY <2>1, <2>2, <2>3, <2>4, <2>5, <2>6, <2>7, <2>8, <2>9, <2>10, <2>11, <2>12, <2>13,
       <2>14, <2>15, <2>16, <2>17 DEF Next, Request, Execute
<1> QED
  BY <1>1, <1>2, PTL DEF Spec

(* Approval *)

\* Executors do not decide, and touch the proposals only by inserting one.
LEMMA ExecutorFrame ==
    ASSUME NEW e \in Executors, Request(e) \/ Execute(e) \/ Crash(e)
    PROVE  /\ UNCHANGED <<writes, decider>>
           /\ UNCHANGED proposal \/ \E p \in Proposals : Insert(p, exec[e].run)
<1>1. CASE ProposeCommit(e)
  BY <1>1 DEF ProposeCommit
<1>2. CASE ~ProposeCommit(e)
  BY <1>2 DEF Request, Execute, ResumeRead, RunResearch, ResumeCommit, Route, Retrieve,
          ProposeRead, Assess, Approval, Finish, CheckpointRead, CheckpointCommit,
          CheckpointClash, Fail, Crash, rows
<1> QED
  BY <1>1, <1>2

\* A new row is pending and no other row changes.
LEMMA InsertRow ==
    ASSUME TypeOK, NEW p \in Proposals, NEW r, Insert(p, r)
    PROVE  /\ proposal[p].state = "none" /\ proposal'[p].state = "pending"
           /\ proposal'[p].run = r
           /\ \A q \in Proposals \ {p} : proposal'[q] = proposal[q]
BY DEF Insert, TypeOK, ProposalRow

\* A decision that commits closes its proposal and is over.
LEMMA DecideCommitRows ==
    ASSUME TypeOK, NEW a \in Deciders, DecideCommit(a)
    PROVE  LET p == decider[a].proposal
           IN  /\ p \in Proposals
               /\ proposal'[p].state = Outcome(decider[a].verdict)
               /\ proposal'[p].run = proposal[p].run
               /\ writes'[p] = IF decider[a].verdict = "approve" THEN writes[p] + 1
                               ELSE writes[p]
               /\ \A q \in Proposals \ {p} : proposal'[q] = proposal[q]
                                              /\ writes'[q] = writes[q]
               /\ decider'[a].proposal = NoProposal
               /\ \A b \in Deciders \ {a} : decider'[b] = decider[b]
<1> DEFINE p == decider[a].proposal
<1>1. p \in Proposals
  BY DeciderFields DEF DecideCommit, Busy, TypeOK
<1>2. decider'[a].proposal = NoProposal /\ \A b \in Deciders \ {a} : decider'[b] = decider[b]
  BY NullTypes DEF DecideCommit, TypeOK
<1>3. /\ writes'[p] = IF decider[a].verdict = "approve" THEN writes[p] + 1 ELSE writes[p]
      /\ \A q \in Proposals \ {p} : writes'[q] = writes[q]
  BY <1>1 DEF DecideCommit, TypeOK
<1>4. /\ proposal'[p].state = Outcome(decider[a].verdict)
      /\ proposal'[p].run = proposal[p].run
      /\ \A q \in Proposals \ {p} : proposal'[q] = proposal[q]
  BY <1>1 DEF DecideCommit, TypeOK, ProposalRow
<1> QED
  BY <1>1, <1>2, <1>3, <1>4

\* With row locks every step keeps decisions apart and the writes in step with the
\* approvals.
LEMMA ApprovalStep ==
    ASSUME RowLocks, ApprovalInv, TypeOK', [Next]_vars
    PROVE  DecisionsExclude' /\ WrittenIffApproved'
<1> USE RuntimeConstants
<1>0. TypeOK /\ DecisionsExclude /\ WrittenIffApproved
  BY DEF ApprovalInv
<1>1. ASSUME UNCHANGED <<writes, decider>>, NEW p \in Proposals, NEW r, Insert(p, r)
      PROVE  DecisionsExclude' /\ WrittenIffApproved'
  <2>1. /\ proposal[p].state = "none" /\ proposal'[p].state = "pending"
        /\ \A q \in Proposals \ {p} : proposal'[q] = proposal[q]
    BY <1>0, <1>1, InsertRow
  <2>2. \A a \in Deciders : Busy(a) => decider[a].proposal \in Proposals \ {p}
    BY <1>0, <2>1, DeciderFields DEF DecisionsExclude, Busy, TypeOK
  <2>3. DecisionsExclude'
    BY <1>0, <1>1, <2>1, <2>2 DEF DecisionsExclude, Busy
  <2>4. WrittenIffApproved'
    BY <1>0, <1>1, <2>1 DEF WrittenIffApproved
  <2> QED
    BY <2>3, <2>4
<1>2. ASSUME UNCHANGED <<proposal, writes, decider>>
      PROVE  DecisionsExclude' /\ WrittenIffApproved'
  BY <1>0, <1>2 DEF DecisionsExclude, WrittenIffApproved, Busy
<1>3. ASSUME NEW e \in Executors, Request(e) \/ Execute(e) \/ Crash(e)
      PROVE  DecisionsExclude' /\ WrittenIffApproved'
  BY <1>1, <1>2, <1>3, ExecutorFrame
<1>4. ASSUME NEW r \in Runs, NEW p \in Proposals, ProposeNoteCreation(r, p)
      PROVE  DecisionsExclude' /\ WrittenIffApproved'
  BY <1>1, <1>4 DEF ProposeNoteCreation
<1>5. ASSUME NEW p \in Proposals, ProposalExpires(p)
      PROVE  DecisionsExclude' /\ WrittenIffApproved'
  <2>1. \A q \in Proposals : proposal'[q].state = proposal[q].state
    BY <1>0, <1>5 DEF ProposalExpires, TypeOK, ProposalRow
  <2>2. \A a \in Deciders : Busy(a) => decider[a].proposal \in Proposals
    BY <1>0, DeciderFields DEF Busy, TypeOK
  <2> QED
    BY <1>0, <1>5, <2>1, <2>2
       DEF ProposalExpires, DecisionsExclude, WrittenIffApproved, Busy
<1>6. ASSUME NEW a \in Deciders, NEW p \in Proposals, NEW v \in Verdict \ {"none"},
             DecideRead(a, p, v)
      PROVE  DecisionsExclude' /\ WrittenIffApproved'
  <2>1. /\ decider'[a].proposal = p
        /\ \A b \in Deciders \ {a} : decider'[b] = decider[b]
    BY <1>0, <1>6 DEF DecideRead, Deciding, TypeOK
  <2>2. /\ proposal[p].state = "pending"
        /\ \A b \in Deciders : decider[b].proposal # p
        /\ UNCHANGED <<proposal, writes>>
    BY <1>6 DEF DecideRead, Decidable, rows
  <2> QED
    BY <1>0, <2>1, <2>2 DEF DecisionsExclude, WrittenIffApproved, Busy
<1>7. ASSUME NEW a \in Deciders, DecideLoad(a)
      PROVE  DecisionsExclude' /\ WrittenIffApproved'
  <2>1. \A b \in Deciders : decider'[b].proposal = decider[b].proposal
    BY <1>0, <1>7 DEF DecideLoad, Deciding, TypeOK
  <2> QED
    <3>1. UNCHANGED <<proposal, writes>>
      BY <1>7 DEF DecideLoad, rows
    <3>2. DecisionsExclude'
      BY <1>0, <2>1, <3>1 DEF DecisionsExclude, Busy
    <3>3. WrittenIffApproved'
      BY <1>0, <3>1 DEF WrittenIffApproved
    <3> QED
      BY <3>2, <3>3
<1>8. ASSUME NEW a \in Deciders, DecideCommit(a)
      PROVE  DecisionsExclude' /\ WrittenIffApproved'
  <2> DEFINE p == decider[a].proposal
  <2>1. /\ p \in Proposals
        /\ proposal'[p].state = Outcome(decider[a].verdict)
        /\ writes'[p] = IF decider[a].verdict = "approve" THEN writes[p] + 1 ELSE writes[p]
        /\ \A q \in Proposals \ {p} : proposal'[q] = proposal[q] /\ writes'[q] = writes[q]
        /\ decider'[a].proposal = NoProposal
        /\ \A b \in Deciders \ {a} : decider'[b] = decider[b]
    BY <1>0, <1>8, DecideCommitRows
  <2>2. proposal[p].state = "pending" /\ writes[p] = 0
    BY <1>0, <1>8, <2>1 DEF DecideCommit, DecisionsExclude, WrittenIffApproved
  <2>3. \A b \in Deciders \ {a} : Busy(b) => decider[b].proposal \in Proposals \ {p}
    BY <1>0, <1>8, DeciderFields DEF DecideCommit, DecisionsExclude, Busy, TypeOK
  <2>4. DecisionsExclude'
    BY <1>0, <2>1, <2>3 DEF DecisionsExclude, Busy
  <2>5. writes'[p] = IF proposal'[p].state = "approved" THEN 1 ELSE 0
    BY <2>1, <2>2 DEF Outcome
  <2>6. WrittenIffApproved'
    BY <1>0, <2>1, <2>5 DEF WrittenIffApproved
  <2> QED
    BY <2>4, <2>6
<1>9. ASSUME NEW a \in Deciders, DecideAbort(a)
      PROVE  DecisionsExclude' /\ WrittenIffApproved'
  BY <1>0, <1>9, NullTypes
     DEF DecideAbort, rows, DecisionsExclude, WrittenIffApproved, Busy, TypeOK
<1>10. CASE UNCHANGED vars
  BY <1>2, <1>10 DEF vars
<1> QED
  BY <1>3, <1>4, <1>5, <1>6, <1>7, <1>8, <1>9, <1>10 DEF Next, Decide

\* With row locks a proposal is written exactly when it is approved, once, however
\* approvals, rejections, expiry, runs and crashes interleave.
THEOREM ApprovalInvariant == ASSUME RowLocks PROVE Spec => []ApprovalInv
<1>1. Init => DecisionsExclude /\ WrittenIffApproved
  BY NullTypes DEF Init, DecisionsExclude, WrittenIffApproved, Busy, ProposalRow
<1>2. ApprovalInv /\ TypeOK' /\ [Next]_vars => ApprovalInv'
  BY RowLocks, ApprovalStep DEF ApprovalInv
<1>3. Init /\ TypeOK => ApprovalInv
  BY <1>1 DEF ApprovalInv
<1> QED
  BY <1>2, <1>3, Typing, PTL DEF Spec

\* With row locks the proposals behave as the contract of WriteApproval says.
THEOREM ApprovalRefinement == ASSUME RowLocks PROVE Spec => ImplementsApproval
<1>1. Init => Contract!Init
  <2>1. ASSUME Init PROVE \A p \in Proposals : proposal[p].state = "none"
    BY <2>1 DEF Init, ProposalRow
  <2> QED
    BY <2>1 DEF Init, Contract!Init
<1>2. ApprovalInv /\ [Next]_vars => [Contract!Next]_(Contract!vars)
  <2> SUFFICES ASSUME ApprovalInv, [Next]_vars PROVE [Contract!Next]_(Contract!vars)
    OBVIOUS
  <2> DEFINE St == [q \in Proposals |-> proposal[q].state]
  <2>0. TypeOK /\ DecisionsExclude
    BY DEF ApprovalInv
  <2>1. ASSUME NEW p \in Proposals, NEW r, Insert(p, r), UNCHANGED writes
        PROVE  Contract!Propose(p)
    <3>1. /\ proposal[p].state = "none" /\ proposal'[p].state = "pending"
          /\ \A q \in Proposals \ {p} : proposal'[q] = proposal[q]
      BY <2>0, <2>1, InsertRow
    <3> QED
      BY <2>1, <3>1 DEF Contract!Propose
  <2>2. ASSUME \A q \in Proposals : proposal'[q].state = proposal[q].state,
               UNCHANGED writes
        PROVE  UNCHANGED Contract!vars
    BY <2>2 DEF Contract!vars
  <2>Approve. ASSUME NEW p \in Proposals, Contract!Approve(p) PROVE Contract!Next
    BY <2>Approve DEF Contract!Next
  <2>Dismiss. ASSUME NEW p \in Proposals, NEW outcome \in {"rejected", "expired"},
                Contract!Dismiss(p, outcome)
         PROVE  Contract!Next
    BY <2>Dismiss DEF Contract!Next
  <2>3. ASSUME NEW a \in Deciders, DecideCommit(a) PROVE Contract!Next
    <3>0. PICK p \in Proposals : p = decider[a].proposal
      BY <2>0, <2>3, DecideCommitRows
    <3>1. /\ p \in Proposals
          /\ proposal'[p].state = Outcome(decider[a].verdict)
          /\ writes'[p] = IF decider[a].verdict = "approve" THEN writes[p] + 1
                          ELSE writes[p]
          /\ \A q \in Proposals \ {p} : proposal'[q] = proposal[q] /\ writes'[q] = writes[q]
      BY <2>0, <2>3, <3>0, DecideCommitRows
    <3>2. proposal[p].state = "pending"
      BY <2>0, <2>3, <3>0 DEF DecideCommit, DecisionsExclude
    <3>3. writes \in [Proposals -> Nat] /\ DOMAIN writes' = Proposals
      BY <2>0, <2>3 DEF TypeOK, DecideCommit
    <3>4. [q \in Proposals |-> proposal'[q].state]
            = [St EXCEPT ![p] = Outcome(decider[a].verdict)]
      BY <3>1
    <3>5. CASE decider[a].verdict = "approve"
      <4>1. writes' = [writes EXCEPT ![p] = @ + 1]
        BY <2>3, <3>0, <3>5 DEF DecideCommit
      <4>2. Outcome(decider[a].verdict) = "approved"
        BY <3>5 DEF Outcome
      <4>3. Contract!Approve(p)
        BY <3>1, <3>2, <3>4, <4>1, <4>2 DEF Contract!Approve
      <4> QED
        BY <4>3, <2>Approve
    <3>6. CASE decider[a].verdict # "approve"
      <4>1. writes' = writes
        BY <2>3, <3>0, <3>1, <3>3, <3>6 DEF DecideCommit
      <4>2. PICK outcome \in {"rejected", "expired"} :
              outcome = Outcome(decider[a].verdict)
        BY <3>6 DEF Outcome
      <4>3. Contract!Dismiss(p, outcome)
        BY <3>1, <3>2, <3>4, <4>1, <4>2 DEF Contract!Dismiss
      <4> QED
        BY <4>3, <2>Dismiss
    <3> QED
      BY <3>5, <3>6
  <2>4. ASSUME NEW p \in Proposals, ProposalExpires(p) PROVE UNCHANGED Contract!vars
    <3>1. \A q \in Proposals : proposal'[q].state = proposal[q].state
      BY <2>0, <2>4 DEF ProposalExpires, TypeOK, ProposalRow
    <3> QED
      BY <2>2, <2>4, <3>1 DEF ProposalExpires
  <2>5. ASSUME NEW e \in Executors, Request(e) \/ Execute(e) \/ Crash(e)
        PROVE  Contract!Next \/ UNCHANGED Contract!vars
    BY <2>1, <2>2, <2>5, ExecutorFrame DEF Contract!Next
  <2>6. ASSUME NEW r \in Runs, NEW p \in Proposals, ProposeNoteCreation(r, p)
        PROVE  Contract!Next
    BY <2>1, <2>6 DEF ProposeNoteCreation, Contract!Next
  <2>7. ASSUME NEW a \in Deciders, Decide(a), ~DecideCommit(a)
        PROVE  UNCHANGED Contract!vars
    BY <2>2, <2>7 DEF Decide, DecideRead, DecideLoad, DecideAbort, rows
  <2>8. CASE UNCHANGED vars
    BY <2>2, <2>8 DEF vars
  <2> QED
    BY <2>3, <2>4, <2>5, <2>6, <2>7, <2>8 DEF Next
<1> QED
  BY <1>1, <1>2, ApprovalInvariant, PTL DEF Spec, ImplementsApproval, Contract!Spec


(* One proposal for each run *)

\* No write of a run's column brings a run back to absent or changes its kind.
LEMMA SetStateRow ==
    ASSUME TypeOK, NEW r \in Runs, NEW old \in RunState, NEW new \in RunState,
           new # "absent" \/ new = old, SetState(r, old, new)
    PROVE  /\ run'[r].kind = run[r].kind
           /\ run'[r].state = "absent" => run[r].state = "absent"
           /\ \A q \in Runs \ {r} : run'[q] = run[q]
BY DEF SetState, TypeOK, RunRow, Column

\* The fields of an executor record built by At.
LEMMA AtFields ==
    ASSUME NEW stage, NEW r, NEW node, NEW c, NEW seen, NEW n
    PROVE  LET x == At(stage, r, node, c, seen, n)
           IN  /\ x.stage = stage /\ x.run = r /\ x.node = node /\ x.ctx = c
               /\ x.seen = seen /\ x.number = n
BY DEF At

\* The fields of a context built by Ctx.
LEMMA CtxFields ==
    ASSUME NEW step, NEW continue, NEW p, NEW arguments
    PROVE  LET c == Ctx(step, continue, p, arguments)
           IN  /\ c.step = step /\ c.continue = continue /\ c.proposal = p
               /\ c.arguments = arguments
BY DEF Ctx

\* A step of an executor leaves the others alone.
LEMMA OneExecutor ==
    ASSUME TypeOK, NEW e \in Executors, Request(e) \/ Execute(e) \/ Crash(e)
    PROVE  \A f \in Executors \ {e} : exec'[f] = exec[f]
<1>1. CASE ProposeRead(e)
  BY <1>1 DEF ProposeRead, TypeOK
<1>2. CASE ProposeCommit(e) \/ Assess(e)
  BY <1>2 DEF ProposeCommit, Assess, Return, TypeOK
<1>3. CASE ~(ProposeRead(e) \/ ProposeCommit(e) \/ Assess(e))
  BY <1>3
     DEF Request, Execute, ResumeRead, RunResearch, ResumeCommit, Route, Retrieve,
         Approval, Finish, CheckpointRead, CheckpointCommit, CheckpointClash, Fail, Crash,
         Return, TypeOK
<1> QED
  BY <1>1, <1>2, <1>3

\* The node that returns, field by field.
LEMMA ReturnFields ==
    ASSUME TypeOK, NEW e \in Executors, NEW c, NEW seen, Return(e, c, seen)
    PROVE  /\ exec'[e].stage = "done" /\ exec'[e].run = exec[e].run
           /\ exec'[e].node = exec[e].node /\ exec'[e].ctx = c
BY AtFields DEF Return, TypeOK

\* What a step inside the graph does to its executor: it goes on with the same run,
\* carrying the proposal and the arguments it had or a new proposal, or it stops.
LEMMA ExecuteRun ==
    ASSUME TypeOK, NEW e \in Executors, Execute(e) \/ Crash(e)
    PROVE  /\ exec[e].stage # "idle" /\ exec[e].run \in Runs
           /\ exec'[e].stage # "idle" => exec'[e].run = exec[e].run
           /\ exec'[e].stage # "idle" => exec'[e].ctx.arguments = exec[e].ctx.arguments
<1> DEFINE x == exec[e]
           Goal == /\ x.stage # "idle"
                   /\ exec'[e].stage # "idle" => exec'[e].run = x.run
                   /\ exec'[e].stage # "idle" => exec'[e].ctx.arguments = x.ctx.arguments
<1>1. CASE ResumeCommit(e)
  BY <1>1, AtFields DEF ResumeCommit, TypeOK
<1>2. CASE Route(e) \/ Approval(e) \/ Finish(e)
  <2>1. PICK seen : Return(e, x.ctx, seen)
    BY <1>2 DEF Route, Approval, Finish
  <2>2. x.stage = "ready"
    BY <1>2 DEF Route, Approval, Finish, Invoke
  <2> QED
    BY <2>1, <2>2, AtFields DEF Return, TypeOK
<1>3. CASE Retrieve(e)
  <2>1. PICK step : Return(e, Ctx(step, x.ctx.continue, x.ctx.proposal, x.ctx.arguments), x.seen)
    BY <1>3 DEF Retrieve
  <2> QED
    BY <1>3, <2>1, AtFields, CtxFields DEF Retrieve, Invoke, Return, TypeOK
<1>4. CASE ProposeRead(e)
  <2>1. PICK p : exec' = [exec EXCEPT ![e] =
          At("proposing", x.run, x.node, Ctx(x.ctx.step, x.ctx.continue, p, x.ctx.arguments),
             x.seen, 0)]
    BY <1>4 DEF ProposeRead
  <2>2. /\ exec'[e].run = x.run
        /\ exec'[e].ctx = Ctx(x.ctx.step, x.ctx.continue, p, x.ctx.arguments)
    BY <2>1, AtFields DEF TypeOK
  <2>3. x.stage = "ready" /\ x.run \in Runs
    BY <1>4, BusyExecutor DEF ProposeRead, Invoke
  <2> QED
    BY <2>2, <2>3 DEF Ctx
<1>5. CASE ProposeCommit(e)
  <2>1. \/ Return(e, x.ctx, x.seen)
        \/ \E p : Return(e, Ctx(x.ctx.step, x.ctx.continue, p, x.ctx.arguments), x.seen)
    BY <1>5 DEF ProposeCommit
  <2> QED
    BY <1>5, <2>1, AtFields, CtxFields DEF ProposeCommit, Return, TypeOK
<1>6. CASE Assess(e)
  <2>1. \/ Return(e, x.ctx, x.seen)
        \/ \E b : Return(e, Ctx(x.ctx.step, b, x.ctx.proposal, x.ctx.arguments), x.seen)
    BY <1>6 DEF Assess
  <2> QED
    BY <1>6, <2>1, AtFields, CtxFields DEF Assess, Invoke, Return, TypeOK
<1>7. CASE CheckpointRead(e)
  BY <1>7, AtFields DEF CheckpointRead, TypeOK
<1>8. CASE CheckpointCommit(e)
  <2>1. \E node : \/ exec' = [exec EXCEPT ![e] = IdleExecutor]
                  \/ exec' = [exec EXCEPT ![e] = At("ready", x.run, node, x.ctx, x.seen, 0)]
    BY <1>8 DEF CheckpointCommit
  <2> QED
    BY <1>8, <2>1, AtFields, NullTypes DEF CheckpointCommit, TypeOK
<1>9. CASE CheckpointClash(e) \/ Fail(e) \/ Crash(e)
  BY <1>9, NullTypes DEF CheckpointClash, Fail, Crash, TypeOK
<1>10. Goal
  BY <1>1, <1>2, <1>3, <1>4, <1>5, <1>6, <1>7, <1>8, <1>9 DEF Execute
<1> QED
  BY <1>10 DEF TypeOK

\* Every step leaves the runs that are absent as they are, or starts one.
LEMMA RunStays ==
    ASSUME TypeOK, [Next]_vars
    PROVE  \A r \in Runs : /\ run'[r].state = "absent" => run[r].state = "absent"
                           /\ run[r].state # "absent" => run'[r].kind = run[r].kind
<1> DEFINE Goal == \A r \in Runs : /\ run'[r].state = "absent" => run[r].state = "absent"
                                   /\ run[r].state # "absent" => run'[r].kind = run[r].kind
<1>1. ASSUME UNCHANGED run PROVE Goal
  BY <1>1
<1>2. ASSUME NEW r \in Runs, NEW old \in RunState, NEW new \in RunState,
             new # "absent" \/ new = old, SetState(r, old, new)
      PROVE  Goal
  BY <1>2, SetStateRow
<1>3. ASSUME NEW e \in Executors, NEW r \in Runs, NEW k \in Kinds, RunResearch(e, r, k)
      PROVE  Goal
  BY <1>3 DEF RunResearch, TypeOK, RunRow
<1>4. ASSUME NEW e \in Executors, NEW r \in Runs, ResumeRead(e, r) PROVE Goal
  BY <1>1, <1>4 DEF ResumeRead, rows
<1>5. ASSUME NEW e \in Executors, Execute(e) PROVE Goal
  <2>1. exec[e].run \in Runs /\ exec[e].seen \in RunState
    BY <1>5, ExecuteRun, ExecutorFields DEF TypeOK
  <2>2. CASE UNCHANGED run
    BY <1>1, <2>2
  <2>3. CASE \E new \in {"running", "awaiting_approval", "completed", "failed"} :
               SetState(exec[e].run, exec[e].seen, new)
    BY <1>2, <2>1, <2>3 DEF RunState
  <2> QED
    BY <1>5, <2>2, <2>3
       DEF Execute, ResumeCommit, Route, Retrieve, ProposeRead, ProposeCommit, Assess,
           Approval, Finish, CheckpointRead, CheckpointCommit, CheckpointClash, Fail,
           Failed, rows
<1>6. ASSUME NEW e \in Executors, Crash(e) PROVE Goal
  BY <1>1, <1>6 DEF Crash, rows
<1>7. ASSUME NEW a \in Deciders, Decide(a) PROVE Goal
  <2>1. CASE DecideCommit(a)
    <3> DEFINE r == proposal[decider[a].proposal].run
               seen == decider[a].seen
               new == Decided(decider[a].verdict, seen)
    <3>1. r \in Runs /\ seen \in RunState /\ seen # "absent"
      BY <2>1, DeciderFields DEF DecideCommit, Busy, TypeOK
    <3>2. new \in RunState /\ new # "absent"
      BY <3>1 DEF Decided, RunState
    <3>3. SetState(r, seen, new)
      BY <2>1 DEF DecideCommit
    <3> HIDE DEF r, seen, new
    <3> QED
      BY <1>2, <3>1, <3>2, <3>3
  <2>2. CASE ~DecideCommit(a)
    BY <1>1, <1>7, <2>2 DEF Decide, DecideRead, DecideLoad, DecideAbort, rows
  <2> QED
    BY <2>1, <2>2
<1>8. ASSUME NEW p \in Proposals, ProposalExpires(p) PROVE Goal
  BY <1>1, <1>8 DEF ProposalExpires
<1>9. ASSUME NEW r \in Runs, NEW p \in Proposals, ProposeNoteCreation(r, p) PROVE Goal
  BY <1>9 DEF ProposeNoteCreation, TypeOK, RunRow
<1>10. CASE UNCHANGED vars
  BY <1>1, <1>10 DEF vars
<1> QED
  BY <1>3, <1>4, <1>5, <1>6, <1>7, <1>8, <1>9, <1>10 DEF Next, Request

\* Where the checkpoint of a run comes from.
LEMMA LatestStays ==
    ASSUME TypeOK, NEW r \in Runs, [Next]_vars, latest'[r] # latest[r]
    PROVE  \/ \E e \in Executors : CheckpointCommit(e) /\ exec[e].run = r
           \/ \E a \in Deciders : DecideCommit(a) /\ proposal[decider[a].proposal].run = r
           \/ \E p \in Proposals : ProposeNoteCreation(r, p)
<1>1. ASSUME NEW e \in Executors, Request(e) \/ Execute(e) \/ Crash(e)
      PROVE  CheckpointCommit(e) /\ exec[e].run = r
  <2>1. CASE CheckpointCommit(e)
    BY <2>1 DEF CheckpointCommit, TypeOK
  <2>2. CASE ~CheckpointCommit(e)
    BY <1>1, <2>2
       DEF Request, Execute, ResumeRead, RunResearch, ResumeCommit, Route, Retrieve,
           ProposeRead, ProposeCommit, Assess, Approval, Finish, CheckpointRead,
           CheckpointClash, Fail, Crash, rows
  <2> QED
    BY <2>1, <2>2
<1>2. ASSUME NEW a \in Deciders, Decide(a)
      PROVE  DecideCommit(a) /\ proposal[decider[a].proposal].run = r
  <2>1. CASE DecideCommit(a)
    BY <2>1 DEF DecideCommit, TypeOK
  <2>2. CASE ~DecideCommit(a)
    BY <1>2, <2>2 DEF Decide, DecideRead, DecideLoad, DecideAbort, rows
  <2> QED
    BY <2>1, <2>2
<1>3. ASSUME NEW p \in Proposals, ProposalExpires(p) PROVE FALSE
  BY <1>3 DEF ProposalExpires
<1>4. ASSUME NEW q \in Runs, NEW p \in Proposals, ProposeNoteCreation(q, p)
      PROVE  q = r
  BY <1>4 DEF ProposeNoteCreation, TypeOK
<1>5. CASE UNCHANGED vars
  BY <1>5 DEF vars
<1> QED
  BY <1>1, <1>2, <1>3, <1>4, <1>5 DEF Next

\* Where a proposal comes from.
LEMMA ProposalStays ==
    ASSUME TypeOK, NEW p \in Proposals, [Next]_vars, proposal'[p].state # "none",
           proposal[p].state = "none" \/ proposal'[p].run # proposal[p].run
    PROVE  \/ \E e \in Executors : ProposeCommit(e) /\ Insert(p, exec[e].run)
                                     /\ exec[e].ctx.proposal = NoProposal
           \/ \E r \in Runs : ProposeNoteCreation(r, p)
           \/ \E a \in Deciders : DecideCommit(a) /\ decider[a].proposal = p
                                   /\ proposal[p].state = "none"
<1>1. ASSUME NEW e \in Executors, Request(e) \/ Execute(e) \/ Crash(e)
      PROVE  ProposeCommit(e) /\ Insert(p, exec[e].run)
             /\ exec[e].ctx.proposal = NoProposal
  <2>1. CASE ProposeCommit(e)
    <3>1. exec[e].ctx.proposal = NoProposal
      BY <2>1 DEF ProposeCommit
    <3>2. PICK q \in Proposals : Insert(q, exec[e].run)
      BY <2>1, <3>1 DEF ProposeCommit
    <3>3. q = p
      BY <3>2, InsertRow
    <3> QED
      BY <2>1, <3>1, <3>2, <3>3
  <2>2. CASE ~ProposeCommit(e)
    <3>1. UNCHANGED proposal
      BY <1>1, <2>2
         DEF Request, Execute, ResumeRead, RunResearch, ResumeCommit, Route, Retrieve,
             ProposeRead, CheckpointCommit, Assess, Approval, Finish, CheckpointRead,
             CheckpointClash, Fail, Crash, rows
    <3> QED
      BY <3>1
  <2> QED
    BY <2>1, <2>2
<1>2. ASSUME NEW a \in Deciders, Decide(a)
      PROVE  DecideCommit(a) /\ decider[a].proposal = p /\ proposal[p].state = "none"
  <2>1. CASE DecideCommit(a)
    BY <2>1, DecideCommitRows
  <2>2. CASE ~DecideCommit(a)
    BY <1>2, <2>2 DEF Decide, DecideRead, DecideLoad, DecideAbort, rows
  <2> QED
    BY <2>1, <2>2
<1>3. ASSUME NEW q \in Proposals, ProposalExpires(q) PROVE FALSE
  BY <1>3 DEF ProposalExpires, TypeOK, ProposalRow
<1>4. ASSUME NEW r \in Runs, NEW q \in Proposals, ProposeNoteCreation(r, q)
      PROVE  q = p
  BY <1>4, InsertRow DEF ProposeNoteCreation
<1>5. CASE UNCHANGED vars
  BY <1>5 DEF vars
<1> QED
  BY <1>1, <1>2, <1>3, <1>4, <1>5 DEF Next

\* Where the run of an executor comes from.
LEMMA ExecutorStays ==
    ASSUME TypeOK, NEW e \in Executors, [Next]_vars, exec'[e].stage # "idle"
    PROVE  \/ exec[e].stage # "idle" /\ exec'[e].run = exec[e].run
                                     /\ exec'[e].ctx.arguments = exec[e].ctx.arguments
           \/ \E r \in Runs, k \in Kinds :
                RunResearch(e, r, k) /\ exec'[e].run = r
           \/ \E r \in Runs :
                ResumeRead(e, r) /\ exec'[e] = Resumed(r) /\ exec'[e].run = r
<1>1. ASSUME NEW f \in Executors \ {e}, Request(f) \/ Execute(f) \/ Crash(f)
      PROVE  exec'[e] = exec[e]
  BY <1>1, OneExecutor
<1>2. ASSUME Execute(e) \/ Crash(e)
      PROVE  exec[e].stage # "idle" /\ exec'[e].run = exec[e].run
             /\ exec'[e].ctx.arguments = exec[e].ctx.arguments
  BY <1>2, ExecuteRun
<1>3. ASSUME NEW r \in Runs, NEW k \in Kinds, RunResearch(e, r, k)
      PROVE  exec'[e].run = r
  BY <1>3, AtFields DEF RunResearch, TypeOK
<1>4. ASSUME NEW r \in Runs, ResumeRead(e, r)
      PROVE  exec'[e] = Resumed(r) /\ exec'[e].run = r
  BY <1>4, AtFields DEF ResumeRead, Resumed, TypeOK
<1>5. ASSUME NEW a \in Deciders, Decide(a) PROVE exec'[e] = exec[e]
  BY <1>5 DEF Decide, DecideRead, DecideLoad, DecideCommit, DecideAbort
<1>6. ASSUME NEW p \in Proposals, ProposalExpires(p) PROVE exec'[e] = exec[e]
  BY <1>6 DEF ProposalExpires
<1>7. ASSUME NEW r \in Runs, NEW p \in Proposals, ProposeNoteCreation(r, p)
      PROVE  exec'[e] = exec[e]
  BY <1>7 DEF ProposeNoteCreation
<1>8. CASE UNCHANGED vars
  BY <1>8 DEF vars
<1> QED
  BY <1>1, <1>2, <1>3, <1>4, <1>5, <1>6, <1>7, <1>8 DEF Next, Request

\* A proposal that has been made is never unmade.
LEMMA ProposalKept ==
    ASSUME TypeOK, NEW p \in Proposals, [Next]_vars, proposal[p].state # "none"
    PROVE  proposal'[p].state # "none" /\ proposal'[p].run = proposal[p].run
<1>1. ASSUME NEW q \in Proposals, NEW r, Insert(q, r)
      PROVE  proposal'[p] = proposal[p]
  BY <1>1, InsertRow
<1>2. ASSUME NEW e \in Executors, Request(e) \/ Execute(e) \/ Crash(e)
      PROVE  proposal'[p] = proposal[p]
  BY <1>1, <1>2, ExecutorFrame
<1>3. ASSUME NEW a \in Deciders, Decide(a)
      PROVE  proposal'[p].state # "none" /\ proposal'[p].run = proposal[p].run
  <2>1. CASE DecideCommit(a)
    <3>1. Outcome(decider[a].verdict) # "none"
      BY DEF Outcome
    <3> QED
      BY <2>1, <3>1, DecideCommitRows
  <2>2. CASE ~DecideCommit(a)
    BY <1>3, <2>2 DEF Decide, DecideRead, DecideLoad, DecideAbort, rows
  <2> QED
    BY <2>1, <2>2
<1>4. ASSUME NEW q \in Proposals, ProposalExpires(q)
      PROVE  proposal'[p].state # "none" /\ proposal'[p].run = proposal[p].run
  BY <1>4 DEF ProposalExpires, TypeOK, ProposalRow
<1>5. ASSUME NEW r \in Runs, NEW q \in Proposals, ProposeNoteCreation(r, q)
      PROVE  proposal'[p] = proposal[p]
  BY <1>1, <1>5 DEF ProposeNoteCreation
<1>6. CASE UNCHANGED vars
  BY <1>6 DEF vars
<1> QED
  BY <1>2, <1>3, <1>4, <1>5, <1>6 DEF Next

\* What a decider decides, it has read as pending.
LEMMA DeciderStays ==
    ASSUME TypeOK, NEW a \in Deciders, [Next]_vars, decider'[a].proposal # NoProposal
    PROVE  \/ decider'[a].proposal = decider[a].proposal
           \/ /\ decider'[a].proposal \in Proposals
              /\ proposal[decider'[a].proposal].state = "pending"
<1>1. ASSUME NEW b \in Deciders, Decide(b)
      PROVE  \/ decider'[a].proposal = decider[a].proposal
             \/ /\ decider'[a].proposal \in Proposals
                /\ proposal[decider'[a].proposal].state = "pending"
  <2>1. CASE DecideCommit(b)
    BY <2>1, DecideCommitRows
  <2>2. CASE DecideAbort(b)
    BY <2>2, NullTypes DEF DecideAbort, TypeOK
  <2>3. CASE DecideLoad(b)
    BY <2>3 DEF DecideLoad, Deciding, TypeOK
  <2>4. ASSUME NEW p \in Proposals, NEW v \in Verdict \ {"none"}, DecideRead(b, p, v)
        PROVE  \/ decider'[a].proposal = decider[a].proposal
               \/ (decider'[a].proposal = p /\ proposal[p].state = "pending")
    BY <2>4 DEF DecideRead, Decidable, Deciding, TypeOK
  <2> QED
    BY <1>1, <2>1, <2>2, <2>3, <2>4 DEF Decide
<1>2. ASSUME NEW e \in Executors, Request(e) \/ Execute(e) \/ Crash(e)
      PROVE  decider'[a] = decider[a]
  BY <1>2, ExecutorFrame
<1>3. CASE \/ \E p \in Proposals : ProposalExpires(p)
           \/ \E r \in Runs, p \in Proposals : ProposeNoteCreation(r, p)
           \/ UNCHANGED vars
  BY <1>3 DEF ProposalExpires, ProposeNoteCreation, vars
<1> QED
  BY <1>1, <1>2, <1>3 DEF Next

\* Nothing is attached to a run before it exists.
LEMMA UnstartedStep ==
    ASSUME TypeOK, TypeOK', Unstarted, [Next]_vars
    PROVE  Unstarted'
<1>1. ASSUME NEW r \in Runs, run'[r].state = "absent"
      PROVE  /\ \A e \in Executors : exec'[e].stage # "idle" => exec'[e].run # r
             /\ \A p \in Proposals : proposal'[p].state # "none" => proposal'[p].run # r
             /\ latest'[r].number = 0 /\ latest'[r].ctx.step = 0
  <2>1. run[r].state = "absent"
    BY <1>1, RunStays
  <2>2. /\ \A e \in Executors : exec[e].stage # "idle" => exec[e].run # r
        /\ \A p \in Proposals : proposal[p].state # "none" => proposal[p].run # r
        /\ latest[r].number = 0 /\ latest[r].ctx.step = 0
    BY <2>1 DEF Unstarted
  <2>3. ASSUME NEW p \in Proposals PROVE ~ProposeNoteCreation(r, p)
    BY <1>1 DEF ProposeNoteCreation, TypeOK, RunRow
  <2>4. ASSUME NEW e \in Executors, exec'[e].stage # "idle", exec'[e].run = r PROVE FALSE
    <3>1. ASSUME NEW k \in Kinds PROVE ~RunResearch(e, r, k)
      BY <1>1 DEF RunResearch, TypeOK, RunRow
    <3>2. ~ResumeRead(e, r)
      BY <2>1 DEF ResumeRead
    <3> QED
      BY <2>2, <2>4, <3>1, <3>2, ExecutorStays
  <2>5. ASSUME NEW p \in Proposals, proposal'[p].state # "none", proposal'[p].run = r
        PROVE  FALSE
    <3>1. proposal[p].state = "none"
      BY <2>2, <2>5, ProposalKept
    <3>2. ASSUME NEW e \in Executors, ProposeCommit(e), Insert(p, exec[e].run) PROVE FALSE
      BY <2>2, <2>5, <3>2, InsertRow DEF ProposeCommit
    <3>3. ASSUME NEW q \in Runs, ProposeNoteCreation(q, p) PROVE FALSE
      BY <2>3, <2>5, <3>3, InsertRow DEF ProposeNoteCreation
    <3>4. ASSUME NEW a \in Deciders, DecideCommit(a), decider[a].proposal = p PROVE FALSE
      BY <3>1, <3>4 DEF DecideCommit, Busy, Unstarted
    <3> QED
      BY <2>5, <3>1, <3>2, <3>3, <3>4, ProposalStays
  <2>6. latest'[r] = latest[r]
    <3>1. ASSUME NEW e \in Executors, CheckpointCommit(e), exec[e].run = r PROVE FALSE
      BY <2>2, <3>1 DEF CheckpointCommit
    <3>2. ASSUME NEW a \in Deciders, DecideCommit(a),
                 proposal[decider[a].proposal].run = r
          PROVE  FALSE
      BY <2>2, <3>2, DecideCommitRows DEF DecideCommit, Busy, Unstarted
    <3> QED
      BY <2>3, <3>1, <3>2, LatestStays
  <2> QED
    BY <2>2, <2>4, <2>5, <2>6
<1>2. ASSUME NEW a \in Deciders, decider'[a].proposal # NoProposal
      PROVE  proposal'[decider'[a].proposal].state # "none"
  <2>1. decider'[a].proposal \in Proposals
    BY <1>2, DeciderFields DEF TypeOK
  <2>2. proposal[decider'[a].proposal].state # "none"
    BY <1>2, DeciderStays DEF Unstarted
  <2> QED
    BY <2>1, <2>2, ProposalKept
<1> QED
  BY <1>1, <1>2 DEF Unstarted

\* No step inside the graph makes an executor fresh again, and the write tool is
\* reached with its arguments and without a proposal.
LEMMA ExecuteFresh ==
    ASSUME TypeOK, ProposesOnce, NEW e \in Executors, Execute(e)
    PROVE  /\ Fresh(e)' => Fresh(e) /\ exec'[e].run = exec[e].run
           /\ exec'[e].stage = "proposing" =>
                exec'[e].ctx.arguments /\ exec'[e].node = "retrieve"
           /\ Early(e)' => exec'[e].ctx.proposal = NoProposal
<1> DEFINE x == exec[e]
           c == x.ctx
           Goal == /\ Fresh(e)' => Fresh(e) /\ exec'[e].run = exec[e].run
                   /\ exec'[e].stage = "proposing" =>
                        exec'[e].ctx.arguments /\ exec'[e].node = "retrieve"
                   /\ Early(e)' => exec'[e].ctx.proposal = NoProposal
<1> USE RuntimeConstants
<1>0. /\ x.stage = "proposing" => c.arguments /\ x.node = "retrieve"
      /\ Early(e) => c.proposal = NoProposal
  BY DEF ProposesOnce
<1>1. ASSUME exec'[e].stage = "idle" PROVE Goal
  BY <1>1 DEF Fresh, Early
<1>2. ASSUME x.stage # "idle", exec'[e].stage \in {"done", "saving"},
             exec'[e].run = x.run, exec'[e].node = x.node,
             exec'[e].ctx.proposal = c.proposal, exec'[e].ctx.arguments = c.arguments
      PROVE  Goal
  <2>1. Early(e)' => Early(e)
    BY <1>2 DEF Early
  <2> QED
    BY <1>0, <1>2, <2>1 DEF Fresh
<1>3. CASE ResumeCommit(e)
  <2>1. exec'[e] = At("ready", x.run, x.node, c, "running", 0)
    BY <1>3 DEF ResumeCommit, TypeOK
  <2>2. Early(e)' => Early(e)
    BY <1>3, <2>1, AtFields DEF ResumeCommit, Early
  <2> QED
    BY <1>0, <1>3, <2>1, <2>2, AtFields DEF ResumeCommit, Fresh
<1>4. CASE Route(e) \/ Approval(e) \/ Finish(e)
  <2>1. PICK seen : Return(e, c, seen)
    BY <1>4 DEF Route, Approval, Finish
  <2>2. exec'[e] = At("done", x.run, x.node, c, seen, 0)
    BY <2>1 DEF Return, TypeOK
  <2>3. x.stage = "ready"
    BY <1>4 DEF Route, Approval, Finish, Invoke
  <2> QED
    BY <1>2, <2>2, <2>3, AtFields
<1>5. CASE Retrieve(e)
  <2>1. PICK step : Return(e, Ctx(step, c.continue, c.proposal, c.arguments), x.seen)
    BY <1>5 DEF Retrieve
  <2>2. exec'[e] = At("done", x.run, x.node,
                      Ctx(step, c.continue, c.proposal, c.arguments), x.seen, 0)
    BY <2>1 DEF Return, TypeOK
  <2>3. x.stage = "ready"
    BY <1>5 DEF Retrieve, Invoke
  <2> QED
    BY <1>2, <2>2, <2>3, AtFields, CtxFields
<1>6. CASE Assess(e)
  <2>1. PICK d : /\ Return(e, d, x.seen)
                 /\ d.proposal = c.proposal /\ d.arguments = c.arguments
    <3>1. \/ Return(e, c, x.seen)
          \/ \E b : Return(e, Ctx(c.step, b, c.proposal, c.arguments), x.seen)
      BY <1>6 DEF Assess
    <3> QED
      BY <3>1, CtxFields
  <2>2. exec'[e] = At("done", x.run, x.node, d, x.seen, 0)
    BY <2>1 DEF Return, TypeOK
  <2>3. x.stage = "ready"
    BY <1>6 DEF Assess, Invoke
  <2> QED
    BY <1>2, <2>1, <2>2, <2>3, AtFields
<1>7. CASE ProposeRead(e)
  <2>1. PICK p : exec' = [exec EXCEPT ![e] =
          At("proposing", x.run, x.node, Ctx(c.step, c.continue, p, c.arguments),
             x.seen, 0)]
    BY <1>7 DEF ProposeRead
  <2>2. /\ exec'[e].stage = "proposing" /\ exec'[e].run = x.run
        /\ exec'[e].node = x.node
        /\ exec'[e].ctx = Ctx(c.step, c.continue, p, c.arguments)
    BY <2>1, AtFields DEF TypeOK
  <2>3. x.stage = "ready" /\ x.node = "retrieve" /\ c.arguments
    BY <1>7 DEF ProposeRead, Invoke
  <2>4. Fresh(e)
    BY <1>0, <2>3 DEF Early, Fresh
  <2>5. exec'[e].ctx.arguments = c.arguments
    BY <2>2, CtxFields
  <2>6. ~Early(e)'
    BY <2>2, <2>3 DEF Early
  <2> QED
    BY <2>2, <2>3, <2>4, <2>5, <2>6
<1>8. CASE ProposeCommit(e)
  <2>1. PICK d : Return(e, d, x.seen) /\ d.proposal # NoProposal
    <3>1. CASE c.proposal # NoProposal
      BY <1>8, <3>1 DEF ProposeCommit
    <3>2. CASE c.proposal = NoProposal
      <4>1. PICK p \in Proposals : Return(e, Ctx(c.step, c.continue, p, c.arguments), x.seen)
        BY <1>8, <3>2 DEF ProposeCommit
      <4> QED
        BY <4>1, CtxFields
    <3> QED
      BY <3>1, <3>2
  <2>2. /\ exec'[e].stage = "done" /\ exec'[e].node = x.node /\ exec'[e].ctx = d
    BY <2>1, AtFields DEF Return, TypeOK
  <2>3. x.node = "retrieve"
    BY <1>0, <1>8 DEF ProposeCommit
  <2> QED
    BY <2>1, <2>2, <2>3 DEF Fresh, Early
<1>9. CASE CheckpointRead(e)
  <2>1. /\ exec'[e].stage = "saving" /\ exec'[e].run = x.run /\ exec'[e].node = x.node
        /\ exec'[e].ctx = c
    BY <1>9, AtFields DEF CheckpointRead, TypeOK
  <2> QED
    BY <1>2, <1>9, <2>1 DEF CheckpointRead
<1>10. CASE CheckpointCommit(e)
  <2> DEFINE following == Following(x.node, run[x.run].kind, c)
  <2>1. CASE following = "end"
    <3>1. exec'[e] = IdleExecutor
      BY <1>10, <2>1 DEF CheckpointCommit, TypeOK
    <3> QED
      BY <1>1, <3>1, NullTypes
  <2>2. CASE following # "end"
    <3>1. exec'[e] = At("ready", x.run, following, c, x.seen, 0)
      BY <1>10, <2>2 DEF CheckpointCommit, TypeOK
    <3>2. x.stage = "saving"
      BY <1>10 DEF CheckpointCommit
    <3>3. following # "route"
      BY DEF Following
    <3>4. following = "assess" => c.proposal = NoProposal
      BY DEF Following
    <3>5. following = "retrieve" => x.node \in {"route", "assess"}
      BY DEF Following
    <3> HIDE DEF following
    <3>6. Early(e)' => c.proposal = NoProposal
      BY <1>0, <3>1, <3>2, <3>3, <3>4, <3>5, AtFields DEF Early
    <3> QED
      BY <3>1, <3>2, <3>6, AtFields DEF Fresh
  <2> QED
    BY <2>1, <2>2
<1>11. CASE CheckpointClash(e) \/ Fail(e)
  BY <1>1, <1>11, NullTypes DEF CheckpointClash, Fail, TypeOK
<1> QED
  BY <1>3, <1>4, <1>5, <1>6, <1>7, <1>8, <1>9, <1>10, <1>11 DEF Execute

\* What can happen to one executor in a step.
LEMMA ExecutorCases ==
    ASSUME TypeOK, NEW e \in Executors, [Next]_vars
    PROVE  \/ exec'[e] = exec[e]
           \/ Execute(e)
           \/ Crash(e)
           \/ \E r \in Runs, k \in Kinds : RunResearch(e, r, k)
           \/ \E r \in Runs : ResumeRead(e, r)
<1>1. ASSUME NEW f \in Executors \ {e}, Request(f) \/ Execute(f) \/ Crash(f)
      PROVE  exec'[e] = exec[e]
  BY <1>1, OneExecutor
<1>2. ASSUME NEW a \in Deciders, Decide(a) PROVE exec'[e] = exec[e]
  BY <1>2 DEF Decide, DecideRead, DecideLoad, DecideCommit, DecideAbort
<1>3. CASE \/ \E p \in Proposals : ProposalExpires(p)
           \/ \E r \in Runs, p \in Proposals : ProposeNoteCreation(r, p)
           \/ UNCHANGED vars
  BY <1>3 DEF ProposalExpires, ProposeNoteCreation, vars
<1> QED
  BY <1>1, <1>2, <1>3 DEF Next, Request

\* An executor is fresh because it was, or because its run has just been started.
LEMMA FreshStays ==
    ASSUME TypeOK, ProposesOnce, NEW e \in Executors, [Next]_vars, Fresh(e)'
    PROVE  \/ Fresh(e) /\ exec'[e].run = exec[e].run
           \/ \E r \in Runs, k \in Kinds : RunResearch(e, r, k) /\ exec'[e].run = r
<1>1. CASE exec'[e] = exec[e]
  BY <1>1 DEF Fresh
<1>2. CASE Execute(e)
  BY <1>2, ExecuteFresh
<1>3. CASE Crash(e)
  BY <1>3, NullTypes DEF Crash, TypeOK, Fresh
<1>4. ASSUME NEW r \in Runs, NEW k \in Kinds, RunResearch(e, r, k)
      PROVE  exec'[e].run = r
  BY <1>4, AtFields DEF RunResearch, TypeOK
<1>5. ASSUME NEW r \in Runs, ResumeRead(e, r) PROVE FALSE
  <2>1. exec'[e].ctx = latest[r].ctx
    BY <1>5, AtFields DEF ResumeRead, Resumed, TypeOK
  <2>2. ~latest[r].ctx.arguments
    BY <1>5 DEF ResumeRead, ProposesOnce
  <2> QED
    BY <2>1, <2>2 DEF Fresh
<1> QED
  BY <1>1, <1>2, <1>3, <1>4, <1>5, ExecutorCases

\* Whoever has proposed is no longer fresh.
LEMMA ProposeCommitSpends ==
    ASSUME TypeOK, NEW e \in Executors, ProposeCommit(e)
    PROVE  ~Fresh(e)'
<1> DEFINE c == exec[e].ctx
<1>1. PICK d : Return(e, d, exec[e].seen) /\ d.proposal # NoProposal
  <2>1. CASE c.proposal # NoProposal
    BY <2>1 DEF ProposeCommit
  <2>2. CASE c.proposal = NoProposal
    <3>1. PICK p \in Proposals :
            Return(e, Ctx(c.step, c.continue, p, c.arguments), exec[e].seen)
      BY <2>2 DEF ProposeCommit
    <3> QED
      BY <3>1, CtxFields, RuntimeConstants
  <2> QED
    BY <2>1, <2>2
<1>2. exec'[e].ctx = d
  BY <1>1, AtFields DEF Return, TypeOK
<1> QED
  BY <1>1, <1>2 DEF Fresh

\* A proposal is new for its run: nobody else could make one.
LEMMA NewProposal ==
    ASSUME TypeOK, Unstarted, ProposesOnce, NEW p \in Proposals, [Next]_vars,
           proposal[p].state = "none", proposal'[p].state # "none"
    PROVE  /\ \A q \in Proposals : proposal[q].state # "none" =>
                                   proposal[q].run # proposal'[p].run
           /\ \A q \in Proposals \ {p} : proposal'[q] = proposal[q]
           /\ \A e \in Executors : Fresh(e)' => exec'[e].run # proposal'[p].run
<1>1. ASSUME NEW e \in Executors, ProposeCommit(e), Insert(p, exec[e].run),
             exec[e].ctx.proposal = NoProposal
      PROVE  /\ \A q \in Proposals : proposal[q].state # "none" =>
                                     proposal[q].run # proposal'[p].run
             /\ \A q \in Proposals \ {p} : proposal'[q] = proposal[q]
             /\ \A f \in Executors : Fresh(f)' => exec'[f].run # proposal'[p].run
  <2>1. Fresh(e)
    BY <1>1 DEF ProposeCommit, ProposesOnce, Fresh
  <2>2. /\ proposal'[p].run = exec[e].run
        /\ \A q \in Proposals \ {p} : proposal'[q] = proposal[q]
    BY <1>1, InsertRow
  <2>3. \A f \in Executors \ {e} : exec'[f] = exec[f]
    BY <1>1, OneExecutor DEF Execute
  <2>4. ASSUME NEW f \in Executors, Fresh(f)', exec'[f].run = exec[e].run PROVE FALSE
    <3>1. f # e
      BY <1>1, <2>4, ProposeCommitSpends
    <3>2. Fresh(f) /\ exec[f].run = exec[e].run
      BY <2>3, <2>4, <3>1 DEF Fresh
    <3> QED
      BY <2>1, <3>1, <3>2 DEF ProposesOnce
  <2> QED
    BY <2>1, <2>2, <2>4 DEF ProposesOnce
<1>2. ASSUME NEW r \in Runs, ProposeNoteCreation(r, p)
      PROVE  /\ \A q \in Proposals : proposal[q].state # "none" =>
                                     proposal[q].run # proposal'[p].run
             /\ \A q \in Proposals \ {p} : proposal'[q] = proposal[q]
             /\ \A f \in Executors : Fresh(f)' => exec'[f].run # proposal'[p].run
  <2>1. /\ proposal'[p].run = r
        /\ \A q \in Proposals \ {p} : proposal'[q] = proposal[q]
    BY <1>2, InsertRow DEF ProposeNoteCreation
  <2>2. run[r].state = "absent" /\ exec' = exec
    BY <1>2 DEF ProposeNoteCreation
  <2> QED
    BY <2>1, <2>2 DEF Unstarted, Fresh
<1>3. ASSUME NEW a \in Deciders, DecideCommit(a), decider[a].proposal = p PROVE FALSE
  BY <1>3 DEF DecideCommit, Busy, Unstarted
<1> QED
  BY <1>1, <1>2, <1>3, ProposalStays

\* No step gives a run a second proposal, or a second chance to make one.
LEMMA ProposesOnceStep ==
    ASSUME TypeOK, ProposalInv, [Next]_vars
    PROVE  ProposesOnce' /\ OneProposalPerRun'
<1>0. Unstarted /\ ProposesOnce /\ OneProposalPerRun
  BY DEF ProposalInv
<1>1. ASSUME NEW e \in Executors, Fresh(e)', NEW p \in Proposals,
             proposal'[p].state # "none", proposal'[p].run = exec'[e].run
      PROVE  FALSE
  <2>1. proposal[p].state # "none" /\ proposal[p].run = proposal'[p].run
    BY <1>0, <1>1, NewProposal, ProposalKept
  <2>2. CASE Fresh(e) /\ exec'[e].run = exec[e].run
    BY <1>0, <1>1, <2>1, <2>2 DEF ProposesOnce
  <2>3. ASSUME NEW r \in Runs, NEW k \in Kinds, RunResearch(e, r, k), exec'[e].run = r
        PROVE  FALSE
    BY <1>0, <1>1, <2>1, <2>3 DEF RunResearch, Unstarted
  <2> QED
    BY <1>0, <1>1, <2>2, <2>3, FreshStays
<1>2. ASSUME NEW e \in Executors, NEW f \in Executors, Fresh(e)', Fresh(f)',
             exec'[e].run = exec'[f].run, e # f
      PROVE  FALSE
  <2>1. ASSUME NEW g \in Executors, NEW h \in Executors \ {g}, NEW r \in Runs,
               NEW k \in Kinds, RunResearch(g, r, k), exec'[g].run = r, Fresh(h)',
               exec'[h].run = r
        PROVE  FALSE
    <3>1. exec'[h] = exec[h]
      BY <2>1, OneExecutor DEF Request
    <3> QED
      BY <1>0, <2>1, <3>1 DEF RunResearch, Unstarted, Fresh
  <2>2. CASE /\ Fresh(e) /\ exec'[e].run = exec[e].run
             /\ Fresh(f) /\ exec'[f].run = exec[f].run
    BY <1>0, <1>2, <2>2 DEF ProposesOnce
  <2> QED
    BY <1>0, <1>2, <2>1, <2>2, FreshStays
<1>3. ASSUME NEW e \in Executors
      PROVE  /\ exec'[e].stage = "proposing" =>
                  exec'[e].ctx.arguments /\ exec'[e].node = "retrieve"
             /\ Early(e)' => exec'[e].ctx.proposal = NoProposal
  <2>1. CASE exec'[e] = exec[e]
    BY <1>0, <2>1 DEF ProposesOnce, Early
  <2>2. CASE Execute(e)
    BY <1>0, <2>2, ExecuteFresh
  <2>3. CASE Crash(e)
    BY <2>3, NullTypes DEF Crash, TypeOK, Early
  <2>4. ASSUME NEW r \in Runs, NEW k \in Kinds, RunResearch(e, r, k)
        PROVE  exec'[e].stage = "ready" /\ exec'[e].ctx.proposal = NoProposal
    <3>1. exec'[e] = At("ready", r, "route", NewContext, "running", 0)
      BY <2>4 DEF RunResearch, TypeOK
    <3> QED
      BY <3>1, AtFields DEF NewContext, Ctx
  <2>5. ASSUME NEW r \in Runs, ResumeRead(e, r)
        PROVE  exec'[e].stage = "resuming" /\ ~exec'[e].ctx.arguments
    <3>1. exec'[e].stage = "resuming" /\ exec'[e].ctx = latest[r].ctx
      BY <2>5, AtFields DEF ResumeRead, Resumed, TypeOK
    <3> QED
      BY <1>0, <2>5, <3>1 DEF ResumeRead, ProposesOnce
  <2> QED
    BY <2>1, <2>2, <2>3, <2>4, <2>5, ExecutorCases DEF Early
<1>4. ASSUME NEW r \in Runs, ResumeNode(latest'[r]) # "none"
      PROVE  ~latest'[r].ctx.arguments
  <2>1. CASE latest'[r] = latest[r]
    BY <1>0, <1>4, <2>1 DEF ProposesOnce
  <2>2. ASSUME NEW e \in Executors, CheckpointCommit(e), exec[e].run = r
        PROVE  ~latest'[r].ctx.arguments
    BY <2>2 DEF CheckpointCommit, Saved, Snapshot, Ctx, TypeOK
  <2>3. ASSUME latest'[r] # latest[r], NEW a \in Deciders, DecideCommit(a),
               proposal[decider[a].proposal].run = r
        PROVE  FALSE
    <3>1. latest'[r] = Saved(latest[r].number + 1, "finish", NewContext)
      BY <2>3 DEF DecideCommit, TypeOK
    <3> QED
      BY <1>4, <3>1 DEF ResumeNode, Saved
  <2>4. ASSUME NEW p \in Proposals, ProposeNoteCreation(r, p) PROVE FALSE
    <3>1. latest'[r] = Saved(1, "approval", NewContext)
      BY <2>4 DEF ProposeNoteCreation, TypeOK
    <3> QED
      BY <1>4, <3>1 DEF ResumeNode, Saved
  <2> QED
    BY <2>1, <2>2, <2>3, <2>4, LatestStays
<1>5. OneProposalPerRun'
  <2>1. SUFFICES ASSUME NEW p \in Proposals, NEW q \in Proposals, p # q,
                        proposal'[p].state # "none", proposal'[q].state # "none",
                        proposal'[p].run = proposal'[q].run
                 PROVE  FALSE
    BY DEF OneProposalPerRun
  <2>2. CASE proposal[p].state # "none" /\ proposal[q].state # "none"
    BY <1>0, <2>1, <2>2, ProposalKept DEF OneProposalPerRun
  <2>3. CASE proposal[p].state = "none"
    BY <1>0, <2>1, <2>3, NewProposal
  <2>4. CASE proposal[q].state = "none"
    BY <1>0, <2>1, <2>4, NewProposal
  <2> QED
    BY <2>2, <2>3, <2>4
<1>6. ProposesOnce'
  BY <1>1, <1>2, <1>3, <1>4 DEF ProposesOnce
<1> QED
  BY <1>5, <1>6

\* Proposals stay one for each run, and executors that can propose stay alone.
THEOREM ProposalInvariant == Spec => []ProposalInv
<1>1. Init => ProposalInv
  <2>1. ASSUME Init
        PROVE  /\ \A e \in Executors : exec[e].stage = "idle"
               /\ \A p \in Proposals : proposal[p].state = "none"
               /\ \A a \in Deciders : decider[a].proposal = NoProposal
    BY <2>1, NullTypes DEF Init, ProposalRow
  <2>2. ASSUME Init, NEW r \in Runs
        PROVE  /\ latest[r].number = 0 /\ latest[r].ctx.step = 0
               /\ ResumeNode(latest[r]) = "none"
    BY <2>2 DEF Init, Saved, NewContext, Ctx, ResumeNode
  <2> QED
    BY <2>1, <2>2 DEF ProposalInv, Unstarted, ProposesOnce, OneProposalPerRun, Fresh, Early
<1>2. TypeOK /\ TypeOK' /\ ProposalInv /\ [Next]_vars => ProposalInv'
  BY UnstartedStep, ProposesOnceStep DEF ProposalInv
<1> QED
  BY <1>1, <1>2, Typing, PTL DEF Spec

\* A run makes at most one proposal, whatever crashes and is resumed, with row locks
\* or without.
THEOREM OneProposal == Spec => []OneProposalPerRun
<1>1. ProposalInv => OneProposalPerRun
  BY DEF ProposalInv
<1> QED
  BY <1>1, ProposalInvariant, PTL

(* The step limit *)

\* A step inside the graph leaves its executor with a step left if it goes on to
\* retrieve.
LEMMA ExecuteSteps ==
    ASSUME TypeOK, ProposesOnce, StepsCounted, NEW e \in Executors, Execute(e),
           run'[exec[e].run].kind = run[exec[e].run].kind
    PROVE  StepLeft(e)'
<1> DEFINE x == exec[e]
           c == x.ctx
<1> USE RuntimeConstants
<1>0. StepLeft(e) /\ x.stage # "idle" /\ c \in Context
  BY BusyExecutor, ExecuteRun, ExecutorFields DEF StepsCounted
<1>a. c.step \in Nat
  BY <1>0, ContextFields
<1>1. ASSUME exec'[e] = IdleExecutor PROVE StepLeft(e)'
  BY <1>1, AtFields DEF StepLeft, IdleExecutor, NewContext, Ctx
<1>2. ASSUME exec'[e].run = x.run, exec'[e].node = x.node, exec'[e].ctx = c,
             exec'[e].stage \in {"ready", "proposing", "done", "saving"},
             x.node = "assess" => (x.stage \in {"done", "saving"} \/
                                   exec'[e].stage \notin {"done", "saving"}),
             x.node = "retrieve" => (x.stage \notin {"done", "saving"} \/
                                     exec'[e].stage \in {"done", "saving"})
      PROVE  StepLeft(e)'
  BY <1>0, <1>2 DEF StepLeft
<1>3. CASE ResumeCommit(e)
  <2>1. exec'[e] = At("ready", x.run, x.node, c, "running", 0)
    BY <1>3 DEF ResumeCommit, TypeOK
  <2>2. x.stage = "resuming"
    BY <1>3 DEF ResumeCommit
  <2> QED
    BY <1>2, <2>1, <2>2, AtFields
<1>4. CASE Route(e) \/ Approval(e) \/ Finish(e)
  <2>1. PICK seen : Return(e, c, seen)
    BY <1>4 DEF Route, Approval, Finish
  <2>2. exec'[e] = At("done", x.run, x.node, c, seen, 0)
    BY <2>1 DEF Return, TypeOK
  <2>3. x.node \in {"route", "approval", "finish"}
    BY <1>4 DEF Route, Approval, Finish, Invoke
  <2> QED
    BY <1>2, <2>2, <2>3, AtFields
<1>5. CASE Retrieve(e)
  <2> DEFINE step == IF run[x.run].kind = "research" THEN c.step + 1 ELSE c.step
             d == Ctx(step, c.continue, c.proposal, c.arguments)
  <2>1. exec'[e] = At("done", x.run, x.node, d, x.seen, 0)
    BY <1>5 DEF Retrieve, Return, TypeOK
  <2>2. x.node = "retrieve" /\ x.stage = "ready"
    BY <1>5 DEF Retrieve, Invoke
  <2>3. step <= MaxSteps /\ (run[x.run].kind # "research" => step = 0)
    BY <1>0, <1>a, <2>2 DEF StepLeft
  <2>4. d.step = step
    BY DEF Ctx
  <2> HIDE DEF d, step
  <2>5. /\ exec'[e].stage = "done" /\ exec'[e].run = x.run /\ exec'[e].node = "retrieve"
        /\ exec'[e].ctx = d
    BY <2>1, <2>2, AtFields
  <2> QED
    BY <2>3, <2>4, <2>5 DEF StepLeft
<1>6. CASE Assess(e)
  <2>1. x.node = "assess" /\ x.stage = "ready"
    BY <1>6 DEF Assess, Invoke
  <2>2. PICK d : /\ Return(e, d, x.seen) /\ d.step = c.step
                 /\ d.continue => c.step < MaxSteps
    <3>1. CASE run[x.run].kind = "research"
      <4>1. PICK sufficient, spent, added \in BOOLEAN :
              Return(e, Ctx(c.step, Continue(c.step, sufficient, spent, added),
                            c.proposal, c.arguments), x.seen)
        BY <1>6, <3>1 DEF Assess
      <4>2. Continue(c.step, sufficient, spent, added) => c.step < MaxSteps
        BY DEF Continue
      <4> QED
        BY <4>1, <4>2, CtxFields
    <3>2. CASE run[x.run].kind # "research"
      <4>1. c.step < MaxSteps
        BY <1>0, <3>2 DEF StepLeft
      <4> QED
        BY <1>6, <3>2, <4>1 DEF Assess
    <3> QED
      BY <3>1, <3>2
  <2>3. /\ exec'[e].stage = "done" /\ exec'[e].run = x.run /\ exec'[e].node = "assess"
        /\ exec'[e].ctx = d
    BY <2>1, <2>2, AtFields DEF Return, TypeOK
  <2> QED
    BY <1>0, <2>2, <2>3 DEF StepLeft
<1>7. CASE ProposeRead(e)
  <2>1. PICK p : exec' = [exec EXCEPT ![e] =
          At("proposing", x.run, x.node, Ctx(c.step, c.continue, p, c.arguments),
             x.seen, 0)]
    BY <1>7 DEF ProposeRead
  <2>2. /\ exec'[e].stage = "proposing" /\ exec'[e].run = x.run
        /\ exec'[e].node = x.node
        /\ exec'[e].ctx = Ctx(c.step, c.continue, p, c.arguments)
    BY <2>1, AtFields DEF TypeOK
  <2>3. x.stage = "ready" /\ x.node = "retrieve"
    BY <1>7 DEF ProposeRead, Invoke
  <2>4. exec'[e].ctx.step = c.step
    BY <2>2 DEF Ctx
  <2> QED
    BY <1>0, <2>2, <2>3, <2>4 DEF StepLeft
<1>8. CASE ProposeCommit(e)
  <2>1. PICK d : Return(e, d, x.seen) /\ d.step = c.step
    <3>1. CASE c.proposal # NoProposal
      BY <1>8, <3>1 DEF ProposeCommit
    <3>2. CASE c.proposal = NoProposal
      <4>1. PICK p \in Proposals : Return(e, Ctx(c.step, c.continue, p, c.arguments), x.seen)
        BY <1>8, <3>2 DEF ProposeCommit
      <4> QED
        BY <4>1, CtxFields
    <3> QED
      BY <3>1, <3>2
  <2>2. /\ exec'[e].stage = "done" /\ exec'[e].run = x.run /\ exec'[e].node = x.node
        /\ exec'[e].ctx = d
    BY <2>1, AtFields DEF Return, TypeOK
  <2>3. x.node = "retrieve"
    BY <1>8 DEF ProposeCommit, ProposesOnce
  <2> QED
    BY <1>0, <2>1, <2>2, <2>3 DEF StepLeft
<1>9. CASE CheckpointRead(e)
  <2>1. /\ exec'[e].stage = "saving" /\ exec'[e].run = x.run /\ exec'[e].node = x.node
        /\ exec'[e].ctx = c
    BY <1>9, AtFields DEF CheckpointRead, TypeOK
  <2> QED
    BY <1>2, <1>9, <2>1 DEF CheckpointRead
<1>10. CASE CheckpointCommit(e)
  <2> DEFINE following == Following(x.node, run[x.run].kind, c)
  <2>1. CASE following = "end"
    BY <1>1, <1>10, <2>1 DEF CheckpointCommit, TypeOK
  <2>2. CASE following # "end"
    <3>1. exec'[e] = At("ready", x.run, following, c, x.seen, 0)
      BY <1>10, <2>2 DEF CheckpointCommit, TypeOK
    <3>2. x.stage = "saving"
      BY <1>10 DEF CheckpointCommit
    <3>3. following # "route"
      BY DEF Following
    <3>4. following = "retrieve" => x.node = "route" \/ (x.node = "assess" /\ c.continue)
      BY DEF Following
    <3> HIDE DEF following
    <3>5. /\ exec'[e].stage = "ready" /\ exec'[e].run = x.run /\ exec'[e].node = following
          /\ exec'[e].ctx = c
      BY <3>1, AtFields
    <3>6. following = "retrieve" => c.step < MaxSteps
      BY <1>0, <3>2, <3>4 DEF StepLeft
    <3> QED
      BY <1>0, <3>3, <3>5, <3>6 DEF StepLeft
  <2> QED
    BY <2>1, <2>2
<1>11. CASE CheckpointClash(e) \/ Fail(e)
  BY <1>1, <1>11 DEF CheckpointClash, Fail, TypeOK
<1> QED
  BY <1>3, <1>4, <1>5, <1>6, <1>7, <1>8, <1>9, <1>10, <1>11 DEF Execute

\* No step spends a step that is not left, in an executor or in a checkpoint.
LEMMA StepsStep ==
    ASSUME TypeOK, Unstarted, ProposesOnce, StepsCounted, [Next]_vars
    PROVE  StepsCounted'
<1> USE RuntimeConstants
<1>1. ASSUME NEW e \in Executors PROVE StepLeft(e)'
  <2>0. StepLeft(e)
    BY DEF StepsCounted
  <2>1. exec[e].stage # "idle" =>
          exec[e].run \in Runs /\ run'[exec[e].run].kind = run[exec[e].run].kind
    BY BusyExecutor, RunStays DEF Unstarted
  <2>2. CASE exec'[e] = exec[e]
    BY <2>0, <2>1, <2>2 DEF StepLeft
  <2>3. CASE Execute(e)
    BY <2>1, <2>3, ExecuteRun, ExecuteSteps
  <2>4. CASE Crash(e)
    <3>1. exec'[e] = IdleExecutor
      BY <2>4 DEF Crash, TypeOK
    <3> QED
      BY <3>1, AtFields DEF StepLeft, IdleExecutor, NewContext, Ctx
  <2>5. ASSUME NEW r \in Runs, NEW k \in Kinds, RunResearch(e, r, k) PROVE StepLeft(e)'
    <3>1. exec'[e] = At("ready", r, "route", NewContext, "running", 0)
      BY <2>5 DEF RunResearch, TypeOK
    <3>2. NewContext.step = 0
      BY DEF NewContext, Ctx
    <3> QED
      BY <3>1, <3>2, AtFields DEF StepLeft
  <2>6. ASSUME NEW r \in Runs, ResumeRead(e, r) PROVE StepLeft(e)'
    <3>1. /\ exec'[e].stage = "resuming" /\ exec'[e].run = r
          /\ exec'[e].ctx = latest[r].ctx /\ exec'[e].node = ResumeNode(latest[r])
      BY <2>6, AtFields DEF ResumeRead, Resumed, TypeOK
    <3>2. run' = run
      BY <2>6 DEF ResumeRead, rows
    <3>3. /\ ResumeNode(latest[r]) # "route"
          /\ ResumeNode(latest[r]) = "retrieve" =>
               latest[r].node = "assess" /\ latest[r].ctx.continue
      BY DEF ResumeNode
    <3>4. StepSaved(r)
      BY DEF StepsCounted
    <3> QED
      BY <3>1, <3>2, <3>3, <3>4 DEF StepLeft, StepSaved
  <2> QED
    BY <2>2, <2>3, <2>4, <2>5, <2>6, ExecutorCases
<1>2. ASSUME NEW r \in Runs PROVE StepSaved(r)'
  <2>0. StepSaved(r)
    BY DEF StepsCounted
  <2>1. CASE latest'[r] = latest[r]
    BY <2>0, <2>1, RunStays DEF StepSaved, Unstarted
  <2>2. ASSUME NEW e \in Executors, CheckpointCommit(e), exec[e].run = r
        PROVE  StepSaved(r)'
    <3>1. latest'[r] = Saved(exec[e].number, exec[e].node, Snapshot(exec[e].ctx))
      BY <2>2 DEF CheckpointCommit, TypeOK
    <3>2. /\ latest'[r].node = exec[e].node
          /\ latest'[r].ctx.step = exec[e].ctx.step
          /\ latest'[r].ctx.continue = exec[e].ctx.continue
      BY <3>1 DEF Saved, Snapshot, Ctx
    <3>3. StepLeft(e) /\ exec[e].stage = "saving" /\ run' = run
      BY <2>2 DEF StepsCounted, CheckpointCommit
    <3> QED
      BY <2>2, <3>2, <3>3 DEF StepLeft, StepSaved
  <2>3. ASSUME latest'[r] # latest[r], NEW a \in Deciders, DecideCommit(a),
               proposal[decider[a].proposal].run = r
        PROVE  StepSaved(r)'
    <3>1. latest'[r] = Saved(latest[r].number + 1, "finish", NewContext)
      BY <2>3 DEF DecideCommit, TypeOK
    <3> QED
      BY <3>1 DEF StepSaved, Saved, NewContext, Ctx
  <2>4. ASSUME NEW p \in Proposals, ProposeNoteCreation(r, p) PROVE StepSaved(r)'
    <3>1. latest'[r] = Saved(1, "approval", NewContext)
      BY <2>4 DEF ProposeNoteCreation, TypeOK
    <3> QED
      BY <3>1 DEF StepSaved, Saved, NewContext, Ctx
  <2> QED
    BY <2>1, <2>2, <2>3, <2>4, LatestStays
<1> QED
  BY <1>1, <1>2 DEF StepsCounted

----------------------------------------------------------------------------
(* The history of a run                                                    *)

\* The history variables constrain no step of the runtime.
THEOREM HistoryIsObserved == HistorySpec => Spec
<1>1. HistoryInit => Init
  BY DEF HistoryInit
<1>2. [HistoryNext]_historyVars => [Next]_vars
  BY DEF HistoryNext, historyVars
<1> QED
  BY <1>1, <1>2, PTL DEF HistorySpec, Spec

\* What changes the state of a run, and to what.
LEMMA RunMoves ==
    ASSUME TypeOK, [Next]_vars, NEW r \in Runs, run'[r].state # run[r].state
    PROVE  \/ /\ run[r].state = "absent"
              /\ \/ run'[r].state = "running"
                 \/ /\ run'[r].state = "awaiting_approval"
                    /\ \E p \in Proposals : ProposeNoteCreation(r, p)
           \/ /\ run'[r].state \in {"running", "awaiting_approval", "completed", "failed"}
              /\ \E e \in Executors :
                   /\ exec[e].run = r
                   /\ \/ ResumeCommit(e) /\ run'[r].state = "running"
                      \/ Approval(e) /\ run'[r].state = "awaiting_approval"
                      \/ Finish(e) /\ run'[r].state = "completed"
                      \/ Fail(e) /\ run'[r].state = "failed"
           \/ \E a \in Deciders :
                /\ DecideCommit(a)
                /\ proposal[decider[a].proposal].run = r
                /\ run'[r].state = Decided(decider[a].verdict, decider[a].seen)
                /\ decider[a].seen # run'[r].state
<1>1. ASSUME NEW q \in Runs, NEW old, NEW new, SetState(q, old, new)
      PROVE  q = r /\ run'[r].state = new /\ old # new
  BY <1>1 DEF SetState, Column, RunRow, TypeOK
<1>2. ASSUME NEW e \in Executors, Execute(e)
      PROVE  \/ ResumeCommit(e) /\ exec[e].run = r /\ run'[r].state = "running"
             \/ Approval(e) /\ exec[e].run = r /\ run'[r].state = "awaiting_approval"
             \/ Finish(e) /\ exec[e].run = r /\ run'[r].state = "completed"
             \/ Fail(e) /\ exec[e].run = r /\ run'[r].state = "failed"
  <2>1. exec[e].run \in Runs
    BY <1>2, ExecuteRun
  <2>2. CASE ResumeCommit(e)
    BY <1>1, <2>1, <2>2 DEF ResumeCommit
  <2>3. CASE Approval(e)
    BY <1>1, <2>1, <2>3 DEF Approval
  <2>4. CASE Finish(e)
    BY <1>1, <2>1, <2>4 DEF Finish
  <2>5. CASE Fail(e)
    BY <1>1, <2>1, <2>5 DEF Fail, Failed
  <2> QED
    BY <1>2, <2>2, <2>3, <2>4, <2>5
       DEF Execute, Route, Retrieve, ProposeRead, ProposeCommit, Assess, CheckpointRead,
           CheckpointCommit, CheckpointClash, rows
<1>3. ASSUME NEW a \in Deciders, Decide(a)
      PROVE  /\ DecideCommit(a)
             /\ proposal[decider[a].proposal].run = r
             /\ run'[r].state = Decided(decider[a].verdict, decider[a].seen)
             /\ decider[a].seen # run'[r].state
  <2>1. DecideCommit(a)
    BY <1>3 DEF Decide, DecideRead, DecideLoad, DecideAbort, rows
  <2>2. proposal[decider[a].proposal].run \in Runs
    BY <2>1 DEF DecideCommit, Busy, TypeOK
  <2>3. SetState(proposal[decider[a].proposal].run, decider[a].seen,
                 Decided(decider[a].verdict, decider[a].seen))
    BY <2>1 DEF DecideCommit
  <2> QED
    BY <1>1, <2>1, <2>2, <2>3
<1>4. ASSUME NEW e \in Executors, NEW q \in Runs, NEW k \in Kinds, RunResearch(e, q, k)
      PROVE  run[r].state = "absent" /\ run'[r].state = "running"
  BY <1>4 DEF RunResearch, RunRow, TypeOK
<1>5. ASSUME NEW q \in Runs, NEW p \in Proposals, ProposeNoteCreation(q, p)
      PROVE  q = r /\ run[r].state = "absent" /\ run'[r].state = "awaiting_approval"
  BY <1>5 DEF ProposeNoteCreation, RunRow, TypeOK
<1> QED
  BY <1>2, <1>3, <1>4, <1>5
     DEF Next, Request, ResumeRead, Crash, ProposalExpires, rows, vars

\* What can happen to one decider in a step.
LEMMA DeciderCases ==
    ASSUME TypeOK, NEW a \in Deciders, [Next]_vars
    PROVE  \/ decider'[a] = decider[a]
           \/ \E p \in Proposals, v \in Verdict \ {"none"} : DecideRead(a, p, v)
           \/ DecideLoad(a)
           \/ DecideCommit(a) \/ DecideAbort(a)
<1>1. ASSUME NEW b \in Deciders, Decide(b)
      PROVE  b = a \/ decider'[a] = decider[a]
  BY <1>1 DEF Decide, DecideRead, DecideLoad, DecideCommit, DecideAbort, TypeOK
<1>2. ASSUME NEW e \in Executors, Request(e) \/ Execute(e) \/ Crash(e)
      PROVE  decider'[a] = decider[a]
  BY <1>2, ExecutorFrame
<1> QED
  BY <1>1, <1>2 DEF Next, Decide, ProposalExpires, ProposeNoteCreation, vars

\* Decider a decides a proposal of run r.
DecidesOn(a, r) == Busy(a) /\ proposal[decider[a].proposal].run = r

\* A decision that was not in progress begins in this step, with the proposal pending.
LEMMA DecisionBegins ==
    ASSUME TypeOK, Unstarted, [Next]_vars, NEW a \in Deciders, NEW r \in Runs,
           DecidesOn(a, r)'
    PROVE  \/ DecidesOn(a, r) /\ decider'[a].proposal = decider[a].proposal
           \/ /\ BeginsDecision(r) /\ decider'[a].proposal \in Proposals
              /\ proposal[decider'[a].proposal].run = r
              /\ \E v \in Verdict : DecideRead(a, decider'[a].proposal, v)
<1>1. CASE decider'[a] = decider[a]
  <2>1. Busy(a) /\ decider[a].proposal \in Proposals
    BY <1>1, DeciderFields DEF DecidesOn, Busy, TypeOK
  <2>2. proposal'[decider[a].proposal].run = proposal[decider[a].proposal].run
    BY <2>1, ProposalKept DEF Unstarted, Busy
  <2> QED
    BY <1>1, <2>1, <2>2 DEF DecidesOn, Busy
<1>2. ASSUME NEW p \in Proposals, NEW v \in Verdict \ {"none"}, DecideRead(a, p, v)
      PROVE  /\ BeginsDecision(r) /\ decider'[a].proposal = p
             /\ proposal[p].run = r
             /\ DecideRead(a, decider'[a].proposal, v)
  <2>1. decider'[a].proposal = p /\ ~Busy(a) /\ proposal' = proposal
    BY <1>2, DecidingType DEF DecideRead, TypeOK, RunState, rows, Deciding
  <2> QED
    BY <1>2, <2>1 DEF BeginsDecision, DecidesOn, Busy
<1>3. CASE DecideLoad(a)
  <2>1. decider'[a].proposal = decider[a].proposal /\ Busy(a) /\ proposal' = proposal
    BY <1>3 DEF DecideLoad, TypeOK, Deciding, rows
  <2> QED
    BY <2>1 DEF DecidesOn
<1>4. CASE DecideCommit(a) \/ DecideAbort(a)
  <2>1. decider'[a] = IdleDecider
    BY <1>4 DEF DecideCommit, DecideAbort, TypeOK
  <2> QED
    BY <2>1, NullTypes DEF DecidesOn, Busy
<1> QED
  BY <1>1, <1>2, <1>3, <1>4, DeciderCases

\* What the history says of a run that it does not list.
LEMMA HistoryStays ==
    ASSUME [HistoryNext]_historyVars, NEW r \in Runs
    PROVE  /\ [Next]_vars
           /\ r \notin early' =>
                r \notin early /\ (BeginsDecision(r) => run[r].state = "awaiting_approval")
           /\ r \notin crowded' => r \notin crowded
<1>1. CASE HistoryNext
  BY <1>1 DEF HistoryNext, Recorded
<1>2. CASE UNCHANGED historyVars
  BY <1>2 DEF historyVars, history, vars, BeginsDecision, Busy
<1> QED
  BY <1>1, <1>2

\* Only a decision that commits changes the state of a proposal that has been made.
LEMMA ProposalMoves ==
    ASSUME TypeOK, [Next]_vars, NEW p \in Proposals,
           proposal[p].state # "none", proposal'[p].state # proposal[p].state
    PROVE  \E a \in Deciders : /\ DecideCommit(a) /\ decider[a].proposal = p
                               /\ proposal'[p].state \in {"approved", "rejected", "expired"}
<1>1. ASSUME NEW q \in Proposals, NEW r, Insert(q, r) PROVE FALSE
  BY <1>1, InsertRow
<1>2. ASSUME NEW e \in Executors, Request(e) \/ Execute(e) \/ Crash(e) PROVE FALSE
  BY <1>1, <1>2, ExecutorFrame
<1>3. ASSUME NEW a \in Deciders, Decide(a)
      PROVE  /\ DecideCommit(a) /\ decider[a].proposal = p
             /\ proposal'[p].state \in {"approved", "rejected", "expired"}
  <2>1. DecideCommit(a)
    BY <1>3 DEF Decide, DecideRead, DecideLoad, DecideAbort, rows
  <2> QED
    BY <2>1, DecideCommitRows DEF Outcome
<1>4. ASSUME NEW q \in Proposals, ProposalExpires(q) PROVE FALSE
  BY <1>4 DEF ProposalExpires, ProposalRow, TypeOK
<1>5. ASSUME NEW r \in Runs, NEW q \in Proposals, ProposeNoteCreation(r, q) PROVE FALSE
  BY <1>1, <1>5 DEF ProposeNoteCreation
<1> QED
  BY <1>2, <1>3, <1>4, <1>5 DEF Next, vars

\* The counts of the history only grow, and a resume is counted.
LEMMA CountsGrow ==
    ASSUME TypeOK, resumed \in [Runs -> Nat], retrieved \in [Runs -> Nat],
           [HistoryNext]_historyVars
    PROVE  /\ resumed' \in [Runs -> Nat] /\ retrieved' \in [Runs -> Nat]
           /\ \A r \in Runs : resumed'[r] \in {resumed[r], resumed[r] + 1}
           /\ \A r \in Runs : retrieved'[r] = retrieved[r] \/
                              (retrieved'[r] = retrieved[r] + 1 /\ Retrieves(r))
           /\ \A r \in Runs, e \in Executors :
                ResumeRead(e, r) => resumed'[r] = resumed[r] + 1
<1>1. CASE UNCHANGED historyVars
  <2>1. \A r \in Runs, e \in Executors : ~ResumeRead(e, r)
    BY <1>1, AtFields DEF ResumeRead, Resumed, historyVars, vars, TypeOK
  <2> QED
    BY <1>1, <2>1 DEF historyVars, history
<1>2. CASE HistoryNext
  <2>1. ASSUME NEW r \in Runs, NEW e \in Executors, ResumeRead(e, r) PROVE Resumes(r)
    BY <2>1, AtFields DEF Resumes, ResumeRead, Resumed, TypeOK
  <2>2. /\ resumed' = [r \in Runs |-> resumed[r] + IF Resumes(r) THEN 1 ELSE 0]
        /\ retrieved' = [r \in Runs |-> retrieved[r] + IF Retrieves(r) THEN 1 ELSE 0]
    BY <1>2 DEF HistoryNext, Recorded
  <2> QED
    BY <2>1, <2>2
<1> QED
  BY <1>1, <1>2

----------------------------------------------------------------------------
(* Completed runs stay completed                                           *)

\* An executor that has paused or finished its run; only its checkpoint is left.
Over(e) == exec[e].node \in {"approval", "finish"} /\ exec[e].stage \in {"done", "saving"}

\* A run that waits or is completed has no executor that would still write its state.
Undriven(r) ==
    run[r].state \in {"completed", "awaiting_approval"} =>
        \A e \in Executors : WorksOn(e, r) => Over(e)

\* Outside the history's exceptions a run has one executor, which is over once the
\* run waits or is completed, and decisions are in progress only while it waits.
SettledInv ==
    \A r \in Runs :
        /\ r \notin crowded =>
             \A e, f \in Executors : WorksOn(e, r) /\ WorksOn(f, r) => e = f
        /\ r \notin early \cup crowded =>
             /\ Undriven(r)
             /\ \A a \in Deciders : DecidesOn(a, r) => run[r].state = "awaiting_approval"

\* An executor that is over stays so until it has stopped, and writes no state.
LEMMA OverStays ==
    ASSUME TypeOK, NEW e \in Executors, Execute(e) \/ Crash(e), Over(e)
    PROVE  /\ exec'[e].stage # "idle" => Over(e)'
           /\ UNCHANGED run
<1>1. ~(ResumeCommit(e) \/ ProposeCommit(e) \/ \E node : Invoke(e, node))
  BY DEF Over, ResumeCommit, ProposeCommit, Invoke
<1>2. CASE CheckpointRead(e)
  <2>1. exec'[e].stage = "saving" /\ exec'[e].node = exec[e].node
    BY <1>2, AtFields DEF CheckpointRead, TypeOK
  <2> QED
    BY <1>2, <2>1 DEF Over, CheckpointRead, rows
<1>3. CASE CheckpointCommit(e)
  <2>1. Following(exec[e].node, run[exec[e].run].kind, exec[e].ctx) = "end"
    BY DEF Over, Following
  <2>2. exec'[e] = IdleExecutor
    BY <1>3, <2>1 DEF CheckpointCommit, TypeOK
  <2> QED
    BY <1>3, <2>2, NullTypes DEF CheckpointCommit
<1>4. CASE CheckpointClash(e) \/ Crash(e)
  <2>1. exec'[e] = IdleExecutor
    BY <1>4 DEF CheckpointClash, Crash, TypeOK
  <2> QED
    BY <1>4, <2>1, NullTypes DEF CheckpointClash, Crash, rows
<1>5. ~Fail(e)
  BY DEF Over, Fail
<1> QED
  BY <1>1, <1>2, <1>3, <1>4, <1>5
     DEF Execute, Route, Retrieve, ProposeRead, Assess, Approval, Finish

\* An executor that comes to a run finds it running, failed or absent.
LEMMA ExecutorArrives ==
    ASSUME TypeOK, [Next]_vars, NEW e \in Executors, NEW r \in Runs, WorksOn(e, r)'
    PROVE  \/ WorksOn(e, r)
           \/ /\ run[r].state \in {"absent", "running", "failed"}
              /\ run'[r].state \in {"running", "failed"}
<1>1. CASE exec[e].stage # "idle" /\ exec'[e].run = exec[e].run
  BY <1>1 DEF WorksOn
<1>2. ASSUME NEW q \in Runs, NEW k \in Kinds, RunResearch(e, q, k), exec'[e].run = q
      PROVE  run[r].state = "absent" /\ run'[r].state = "running"
  BY <1>2 DEF WorksOn, RunResearch, RunRow, TypeOK
<1>3. ASSUME NEW q \in Runs, ResumeRead(e, q), exec'[e].run = q
      PROVE  run[r].state \in {"running", "failed"} /\ run'[r].state = run[r].state
  BY <1>3 DEF WorksOn, ResumeRead, rows
<1> QED
  BY <1>1, <1>2, <1>3, ExecutorStays DEF WorksOn

\* Two decisions on one run are one: one proposal for a run, one decision on a
\* proposal.
LEMMA OneDecision ==
    ASSUME TypeOK, Unstarted, OneProposalPerRun, DecisionsExclude, NEW r \in Runs,
           NEW a \in Deciders, NEW b \in Deciders, DecidesOn(a, r), DecidesOn(b, r)
    PROVE  a = b
<1>1. decider[a].proposal \in Proposals /\ decider[b].proposal \in Proposals
  BY DeciderFields DEF DecidesOn, Busy, TypeOK
<1>2. decider[a].proposal = decider[b].proposal
  BY <1>1 DEF OneProposalPerRun, Unstarted, DecidesOn, Busy
<1> QED
  BY <1>2 DEF DecisionsExclude, DecidesOn

\* Every step keeps executors and decisions away from runs that are settled.
LEMMA SettledStep ==
    ASSUME TypeOK, TypeOK', ProposalInv, DecisionsExclude, SettledInv,
           [HistoryNext]_historyVars
    PROVE  SettledInv'
<1> SUFFICES ASSUME NEW r \in Runs
             PROVE /\ r \notin crowded' =>
                        \A e, f \in Executors :
                            WorksOn(e, r)' /\ WorksOn(f, r)' => e = f
                   /\ r \notin early' \cup crowded' =>
                        /\ Undriven(r)'
                        /\ \A a \in Deciders :
                             DecidesOn(a, r)' => run'[r].state = "awaiting_approval"
  BY DEF SettledInv
<1>0. [Next]_vars /\ Unstarted /\ OneProposalPerRun
  BY HistoryStays DEF ProposalInv
<1>1. ASSUME r \notin crowded', NEW e \in Executors, NEW f \in Executors,
             WorksOn(e, r)', WorksOn(f, r)'
      PROVE  e = f
  <2>1. CASE HistoryNext
    BY <1>1, <2>1 DEF HistoryNext, Recorded
  <2>2. CASE UNCHANGED historyVars
    BY <1>1, <2>2 DEF historyVars, history, vars, SettledInv, WorksOn
  <2> QED
    BY <2>1, <2>2
<1>2. ASSUME r \notin early' \cup crowded'
      PROVE  /\ Undriven(r)'
             /\ \A a \in Deciders : DecidesOn(a, r)' => run'[r].state = "awaiting_approval"
  <2>1. /\ r \notin early \cup crowded
        /\ BeginsDecision(r) => run[r].state = "awaiting_approval"
    BY <1>2, HistoryStays
  <2>2. /\ \A e, f \in Executors : WorksOn(e, r) /\ WorksOn(f, r) => e = f
        /\ Undriven(r)
        /\ \A a \in Deciders : DecidesOn(a, r) => run[r].state = "awaiting_approval"
    BY <2>1 DEF SettledInv
  <2>3. ASSUME NEW e \in Executors, WorksOn(e, r)',
               run'[r].state \in {"completed", "awaiting_approval"}
        PROVE  Over(e)'
    <3>1. WorksOn(e, r)
      BY <1>0, <2>3, ExecutorArrives
    <3>2. CASE exec'[e] = exec[e] /\ run'[r].state = run[r].state
      BY <2>2, <2>3, <3>1, <3>2 DEF Undriven, Over
    <3>3. CASE exec'[e] # exec[e] /\ run'[r].state = run[r].state
      <4>1. Execute(e) \/ Crash(e)
        BY <1>0, <3>1, <3>3, ExecutorCases DEF WorksOn, RunResearch, ResumeRead
      <4> QED
        BY <2>2, <2>3, <3>1, <3>3, <4>1, OverStays DEF Undriven, WorksOn
    <3>4. CASE run'[r].state # run[r].state
      <4>1. run[r].state # "absent"
        BY <1>0, <3>1 DEF Unstarted, WorksOn
      <4>2. ASSUME NEW f \in Executors, exec[f].run = r, Approval(f) \/ Finish(f)
            PROVE  Over(e)'
        <5>1. f = e
          BY <2>2, <3>1, <4>2 DEF WorksOn, Approval, Finish, Invoke
        <5>2. PICK seen : Return(e, exec[e].ctx, seen)
          BY <4>2, <5>1 DEF Approval, Finish
        <5>3. exec'[e].stage = "done" /\ exec'[e].node = exec[e].node
          BY <5>2, ReturnFields
        <5> QED
          BY <4>2, <5>1, <5>3 DEF Over, Approval, Finish, Invoke
      <4>3. ASSUME NEW a \in Deciders, DecideCommit(a),
                   proposal[decider[a].proposal].run = r
            PROVE  Over(e)'
        <5>1. Over(e) /\ exec' = exec
          BY <2>2, <3>1, <4>3 DEF DecidesOn, DecideCommit, Undriven
        <5> QED
          BY <5>1 DEF Over
      <4> QED
        BY <1>0, <2>3, <3>4, <4>1, <4>2, <4>3, RunMoves
    <3> QED
      BY <3>2, <3>3, <3>4
  <2>4. ASSUME NEW a \in Deciders, DecidesOn(a, r)'
        PROVE  run'[r].state = "awaiting_approval"
    <3>1. run[r].state = "awaiting_approval"
      BY <1>0, <2>1, <2>2, <2>4, DecisionBegins
    <3>2. ASSUME NEW f \in Executors, exec[f].run = r,
                 ResumeCommit(f) \/ Approval(f) \/ Finish(f) \/ Fail(f)
          PROVE  FALSE
      BY <2>2, <3>1, <3>2
         DEF Undriven, Over, WorksOn, ResumeCommit, Approval, Finish, Fail, Invoke
    <3>3. ASSUME NEW b \in Deciders, DecideCommit(b), proposal[decider[b].proposal].run = r
          PROVE  FALSE
      <4>1. DecidesOn(b, r) /\ ~DecidesOn(b, r)'
        BY <3>3, DecideCommitRows DEF DecidesOn, DecideCommit, Busy
      <4>2. ~\E p \in Proposals, v \in Verdict : DecideRead(a, p, v)
        <5>1. proposal' # proposal
          <6>1. proposal'[decider[b].proposal].state = Outcome(decider[b].verdict)
            BY <3>3, DecideCommitRows
          <6>2. proposal[decider[b].proposal].state = "pending"
            BY <3>3 DEF DecideCommit, DecisionsExclude
          <6>3. Outcome(decider[b].verdict) # "pending"
            BY DEF Outcome
          <6> QED
            BY <6>1, <6>2, <6>3
        <5> QED
          BY <5>1 DEF DecideRead, rows
      <4>3. DecidesOn(a, r)
        BY <1>0, <2>4, <4>2, DecisionBegins
      <4> QED
        BY <1>0, <2>4, <4>1, <4>3, OneDecision
    <3> QED
      BY <1>0, <3>1, <3>2, <3>3, RunMoves
  <2> QED
    BY <2>3, <2>4 DEF Undriven
<1> QED
  BY <1>1, <1>2

\* With row locks: a completed run stays completed whatever crashes, is resumed one
\* after the other or is decided, unless a decision was begun before the run paused
\* or two executors worked on it at once.
THEOREM CompletedStays == ASSUME RowLocks PROVE HistorySpec => CompletedUnlessDisturbed
<1>1. HistoryInit => SettledInv
  BY NullTypes DEF HistoryInit, Init, SettledInv, Undriven, WorksOn, DecidesOn, Busy
<1>2. /\ TypeOK /\ TypeOK' /\ ProposalInv /\ ApprovalInv /\ SettledInv
      /\ [HistoryNext]_historyVars
      => SettledInv'
  BY SettledStep DEF ApprovalInv
<1>3. ASSUME TypeOK, SettledInv, [HistoryNext]_historyVars, NEW r \in Runs,
             run[r].state = "completed"
      PROVE  run'[r].state = "completed" \/ r \in early \cup crowded
  <2> SUFFICES ASSUME run'[r].state # "completed", r \notin early \cup crowded
               PROVE  FALSE
    OBVIOUS
  <2>1. /\ \A e \in Executors : WorksOn(e, r) => Over(e)
        /\ \A a \in Deciders : ~DecidesOn(a, r)
    BY <1>3 DEF SettledInv, Undriven
  <2>2. ASSUME NEW e \in Executors, exec[e].run = r,
               ResumeCommit(e) \/ Approval(e) \/ Finish(e) \/ Fail(e)
        PROVE  FALSE
    BY <2>1, <2>2 DEF Over, WorksOn, ResumeCommit, Approval, Finish, Fail, Invoke
  <2>3. ASSUME NEW a \in Deciders, DecideCommit(a), proposal[decider[a].proposal].run = r
        PROVE  FALSE
    BY <2>1, <2>3 DEF DecidesOn, DecideCommit
  <2> QED
    BY <1>3, <2>2, <2>3, RunMoves, HistoryStays
<1>4. TypeOK /\ SettledInv /\ [HistoryNext]_historyVars =>
        [\A r \in Runs : run[r].state = "completed" =>
            run'[r].state = "completed" \/ r \in early \cup crowded]_historyVars
  BY <1>3
<1> QED
  BY <1>1, <1>2, <1>4, HistoryIsObserved, Typing, ProposalInvariant, ApprovalInvariant, PTL
     DEF HistorySpec, CompletedUnlessDisturbed

----------------------------------------------------------------------------
(* Where the executors of each kind of run can be                          *)

\* A write tool is passed only with the arguments and leads, with a proposal, to the
\* approval node; the plan goes on only in a bounded plan, after a first step.
OnPath(e) ==
    LET x == exec[e]
        c == x.ctx
        kind == run[x.run].kind
        after == x.stage \in {"done", "saving"}
    IN  x.stage # "idle" =>
        /\ kind # "manual"
        /\ x.stage = "proposing" => kind = "write"
        /\ c.continue => kind = "research"
        /\ c.proposal # NoProposal =>
             /\ kind = "write"
             /\ c.arguments => /\ proposal[c.proposal].run = x.run
                               /\ proposal[c.proposal].state # "none"
        /\ x.node = "route" => c.arguments
        /\ x.node = "approval" => c.arguments /\ c.proposal # NoProposal
        /\ x.node = "retrieve" /\ ~c.arguments => kind = "research"
        /\ kind = "write" /\ c.arguments =>
             /\ x.node \in {"route", "retrieve", "approval"}
             /\ x.node = "retrieve" /\ after => c.proposal # NoProposal
        /\ kind = "research" /\ (x.node = "assess" \/ (x.node = "retrieve" /\ after)) =>
             c.step # 0

\* The same of the checkpoints, as far as an executor can be resumed from them.
PathSaved(r) ==
    LET c == latest[r].ctx
    IN
    /\ c.proposal # NoProposal => run[r].kind = "write"
    /\ c.continue => run[r].kind = "research"
    /\ run[r].kind = "manual" => ResumeNode(latest[r]) = "none"
    /\ run[r].kind = "research" /\ ResumeNode(latest[r]) \notin {"none", "plan"} =>
         c.step # 0
    /\ run[r].state = "absent" => latest[r].node = "none" /\ c = NewContext

PathInv ==
    /\ \A e \in Executors : OnPath(e)
    /\ \A r \in Runs : PathSaved(r)
    /\ \A p \in Proposals : proposal[p].state # "none" =>
         run[proposal[p].run].kind \in {"write", "manual"}

\* A step inside the graph keeps its executor on the path of its kind.
LEMMA PathOwnStep ==
    ASSUME TypeOK, TypeOK', Unstarted, ProposesOnce, NEW e \in Executors, OnPath(e),
           Execute(e), [Next]_vars
    PROVE  OnPath(e)'
<1> DEFINE x == exec[e]
           c == x.ctx
           kind == run[x.run].kind
           y == exec'[e]
<1>0. /\ x \in Executor /\ x.stage # "idle" /\ x.run \in Runs /\ c \in Context
      /\ run'[x.run].kind = kind
  BY ExecuteRun, BusyExecutor, RunStays, ExecutorFields DEF Unstarted
<1>1. ASSUME y = IdleExecutor PROVE OnPath(e)'
  BY <1>1, NullTypes DEF OnPath
<1>2. ASSUME NEW p \in Proposals, proposal[p].state # "none"
      PROVE  proposal'[p].state # "none" /\ proposal'[p].run = proposal[p].run
  BY <1>2, ProposalKept
<1>3. c.proposal # NoProposal /\ c.arguments =>
        /\ proposal'[c.proposal].run = x.run
        /\ proposal'[c.proposal].state # "none"
  BY <1>0, <1>2, ContextFields DEF OnPath
<1>4. ASSUME y.run = x.run, y.ctx = c, y.node = x.node,
             y.stage \in {"ready", "done", "saving"},
             y.stage = "ready" => x.stage = "resuming",
             y.stage = "done" => x.node \notin {"retrieve", "assess"},
             y.stage = "saving" => x.stage = "done"
      PROVE  OnPath(e)'
  BY <1>0, <1>3, <1>4 DEF OnPath
<1>5. CASE ResumeCommit(e)
  BY <1>4, <1>5, AtFields DEF ResumeCommit, TypeOK
<1>6. CASE Route(e) \/ Approval(e) \/ Finish(e)
  <2>1. PICK seen : Return(e, c, seen)
    BY <1>6 DEF Route, Approval, Finish
  <2> QED
    BY <1>4, <1>6, <2>1, ReturnFields DEF Route, Approval, Finish, Invoke
<1>7. CASE CheckpointRead(e)
  BY <1>4, <1>7, AtFields DEF CheckpointRead, TypeOK
<1>8. CASE Retrieve(e)
  <2> DEFINE step == IF kind = "research" THEN c.step + 1 ELSE c.step
             d == Ctx(step, c.continue, c.proposal, c.arguments)
  <2>1. /\ y.stage = "done" /\ y.run = x.run /\ y.node = "retrieve" /\ y.ctx = d
        /\ x.node = "retrieve" /\ x.stage = "ready" /\ kind # "write"
    BY <1>8, ReturnFields DEF Retrieve, Invoke
  <2>2. /\ d.step = step /\ d.continue = c.continue /\ d.proposal = c.proposal
        /\ d.arguments = c.arguments
    BY CtxFields
  <2>3. kind = "research" => step # 0
    BY <1>0, ContextFields
  <2> HIDE DEF d, step
  <2> QED
    BY <1>0, <1>3, <2>1, <2>2, <2>3 DEF OnPath
<1>9. CASE ProposeRead(e)
  <2>1. PICK p \in Proposals \cup {NoProposal} :
          /\ p # NoProposal => proposal[p].run = x.run /\ proposal[p].state = "pending"
          /\ exec' = [exec EXCEPT ![e] = At("proposing", x.run, x.node,
                 Ctx(c.step, c.continue, p, c.arguments), x.seen, 0)]
    BY <1>9, RuntimeConstants DEF ProposeRead
  <2> DEFINE d == Ctx(c.step, c.continue, p, c.arguments)
  <2>2. /\ y.stage = "proposing" /\ y.run = x.run /\ y.node = x.node /\ y.ctx = d
    BY <2>1, AtFields DEF TypeOK
  <2>3. x.node = "retrieve" /\ kind = "write" /\ c.arguments
    BY <1>9 DEF ProposeRead, Invoke
  <2>4. d.continue = c.continue /\ d.proposal = p /\ d.arguments = c.arguments
    BY CtxFields
  <2>5. p # NoProposal => proposal'[p].run = x.run /\ proposal'[p].state # "none"
    BY <1>2, <2>1
  <2> HIDE DEF d
  <2> QED
    BY <1>0, <2>2, <2>3, <2>4, <2>5 DEF OnPath
<1>10. CASE ProposeCommit(e)
  <2>1. PICK p \in Proposals :
          /\ \/ p = c.proposal /\ y.ctx = c
             \/ Insert(p, x.run) /\ y.ctx = Ctx(c.step, c.continue, p, c.arguments)
          /\ y.stage = "done" /\ y.run = x.run /\ y.node = x.node
    <3>1. CASE c.proposal # NoProposal
      BY <1>0, <1>10, <3>1, ReturnFields, ContextFields DEF ProposeCommit
    <3>2. CASE c.proposal = NoProposal
      BY <1>10, <3>2, ReturnFields DEF ProposeCommit
    <3> QED
      BY <3>1, <3>2
  <2>2. x.node = "retrieve" /\ c.arguments /\ kind = "write"
    BY <1>0, <1>10 DEF ProposeCommit, ProposesOnce, OnPath
  <2>3. /\ y.ctx.continue = c.continue /\ y.ctx.proposal = p /\ y.ctx.arguments
        /\ proposal'[p].run = x.run /\ proposal'[p].state # "none"
    <3>1. CASE p = c.proposal /\ y.ctx = c
      <4>1. c.proposal # NoProposal
        BY <3>1, RuntimeConstants
      <4> QED
        BY <1>3, <2>2, <3>1, <4>1
    <3>2. CASE Insert(p, x.run) /\ y.ctx = Ctx(c.step, c.continue, p, c.arguments)
      <4>1. proposal'[p].run = x.run /\ proposal'[p].state # "none"
        BY <3>2, InsertRow
      <4>2. /\ y.ctx.continue = c.continue /\ y.ctx.proposal = p
            /\ y.ctx.arguments = c.arguments
        BY <3>2, CtxFields
      <4> QED
        BY <2>2, <4>1, <4>2
    <3> QED
      BY <2>1, <3>1, <3>2
  <2>4. y.stage = "done" /\ y.run = x.run /\ y.node = "retrieve" /\ p # NoProposal
    BY <2>1, <2>2, RuntimeConstants
  <2> QED
    BY <1>0, <2>2, <2>3, <2>4 DEF OnPath
<1>11. CASE Assess(e)
  <2>1. PICK b \in BOOLEAN : /\ b => kind = "research" \/ c.continue
                             /\ Return(e, Ctx(c.step, b, c.proposal, c.arguments), x.seen)
                                \/ (Return(e, c, x.seen) /\ b = c.continue)
    <3>1. CASE kind = "research"
      BY <1>11, <3>1 DEF Assess, Continue
    <3>2. CASE kind # "research"
      BY <1>0, <1>11, <3>2, ContextFields DEF Assess
    <3> QED
      BY <3>1, <3>2
  <2>2. /\ y.stage = "done" /\ y.run = x.run /\ y.node = x.node
        /\ y.ctx.step = c.step /\ y.ctx.continue = b
        /\ y.ctx.proposal = c.proposal /\ y.ctx.arguments = c.arguments
    BY <2>1, ReturnFields, CtxFields
  <2>3. x.node = "assess"
    BY <1>11 DEF Assess, Invoke
  <2> QED
    BY <1>0, <1>3, <2>1, <2>2, <2>3 DEF OnPath
<1>12. CASE CheckpointCommit(e)
  <2> DEFINE following == Following(x.node, kind, c)
  <2>1. CASE following = "end"
    BY <1>1, <1>12, <2>1 DEF CheckpointCommit, TypeOK
  <2>2. CASE following # "end"
    <3>1. /\ y.stage = "ready" /\ y.run = x.run /\ y.node = following /\ y.ctx = c
          /\ x.stage = "saving"
      BY <1>12, <2>2, AtFields DEF CheckpointCommit, TypeOK
    <3>2. CASE x.node = "route"
      <4>1. following = "retrieve"
        BY <3>2 DEF Following
      <4> HIDE DEF following
      <4> QED
        BY <1>0, <1>3, <3>1, <3>2, <4>1 DEF OnPath
    <3>3. CASE x.node = "retrieve"
      <4>1. following = IF c.proposal # NoProposal THEN "approval"
                        ELSE IF kind = "research" THEN "assess" ELSE "finish"
        BY <3>3 DEF Following
      <4> HIDE DEF following
      <4> QED
        BY <1>0, <1>3, <3>1, <3>3, <4>1 DEF OnPath
    <3>4. CASE x.node = "assess"
      <4>1. following = IF c.continue THEN "retrieve" ELSE "finish"
        BY <3>4 DEF Following
      <4> HIDE DEF following
      <4> QED
        BY <1>0, <1>3, <3>1, <3>4, <4>1 DEF OnPath
    <3> QED
      BY <2>2, <3>2, <3>3, <3>4 DEF Following
  <2> QED
    BY <2>1, <2>2
<1>13. CASE CheckpointClash(e) \/ Fail(e)
  BY <1>1, <1>13 DEF CheckpointClash, Fail, TypeOK
<1> QED
  BY <1>5, <1>6, <1>7, <1>8, <1>9, <1>10, <1>11, <1>12, <1>13 DEF Execute

\* Every step keeps all executors, checkpoints and proposals on the paths.
LEMMA PathStep ==
    ASSUME TypeOK, TypeOK', Unstarted, ProposesOnce, PathInv, [Next]_vars
    PROVE  PathInv'
<1>1. ASSUME NEW e \in Executors PROVE OnPath(e)'
  <2>0. OnPath(e)
    BY DEF PathInv
  <2>1. CASE exec'[e] = exec[e]
    <3>1. CASE exec[e].stage = "idle"
      BY <2>1, <3>1 DEF OnPath
    <3>2. CASE exec[e].stage # "idle"
      <4>1. /\ exec[e].run \in Runs /\ exec[e].ctx \in Context
            /\ run'[exec[e].run].kind = run[exec[e].run].kind
        BY <3>2, BusyExecutor, ExecutorFields, RunStays DEF Unstarted
      <4>2. exec[e].ctx.proposal # NoProposal /\ exec[e].ctx.arguments =>
              /\ proposal'[exec[e].ctx.proposal].run = exec[e].run
              /\ proposal'[exec[e].ctx.proposal].state # "none"
        BY <2>0, <3>2, <4>1, ContextFields, ProposalKept DEF OnPath
      <4> QED
        BY <2>0, <2>1, <3>2, <4>1, <4>2 DEF OnPath
    <3> QED
      BY <3>1, <3>2
  <2>2. CASE Execute(e)
    BY <2>0, <2>2, PathOwnStep
  <2>3. CASE Crash(e)
    <3>1. exec'[e] = IdleExecutor
      BY <2>3 DEF Crash, TypeOK
    <3> QED
      BY <3>1, NullTypes DEF OnPath
  <2>4. ASSUME NEW r \in Runs, NEW k \in Kinds, RunResearch(e, r, k) PROVE OnPath(e)'
    <3>1. /\ exec'[e].stage = "ready" /\ exec'[e].run = r /\ exec'[e].node = "route"
          /\ exec'[e].ctx = NewContext
      BY <2>4, AtFields DEF RunResearch, TypeOK
    <3>2. run'[r].kind = k /\ k # "manual"
      BY <2>4 DEF RunResearch, RunRow, TypeOK
    <3>3. /\ NewContext.proposal = NoProposal /\ NewContext.arguments
          /\ ~NewContext.continue
      BY DEF NewContext, Ctx
    <3> QED
      BY <3>1, <3>2, <3>3 DEF OnPath
  <2>5. ASSUME NEW r \in Runs, ResumeRead(e, r) PROVE OnPath(e)'
    <3>1. /\ exec'[e].stage = "resuming" /\ exec'[e].run = r
          /\ exec'[e].ctx = latest[r].ctx /\ exec'[e].node = ResumeNode(latest[r])
      BY <2>5, AtFields DEF ResumeRead, Resumed, TypeOK
    <3>2. run' = run /\ ResumeNode(latest[r]) # "none"
      BY <2>5 DEF ResumeRead, rows
    <3>3. /\ ResumeNode(latest[r]) \in {"plan", "assess", "retrieve", "finish"}
          /\ ResumeNode(latest[r]) = "retrieve" => latest[r].ctx.continue
      BY <3>2 DEF ResumeNode
    <3>4. PathSaved(r) /\ ~latest[r].ctx.arguments
      BY <3>2 DEF PathInv, ProposesOnce
    <3> QED
      BY <3>1, <3>2, <3>3, <3>4 DEF OnPath, PathSaved
  <2> QED
    BY <2>1, <2>2, <2>3, <2>4, <2>5, ExecutorCases
<1>2. ASSUME NEW r \in Runs PROVE PathSaved(r)'
  <2>0. PathSaved(r)
    BY DEF PathInv
  <2>1. CASE run[r].state # "absent" /\ latest'[r] = latest[r]
    BY <2>0, <2>1, RunStays DEF PathSaved
  <2>2. ASSUME NEW e \in Executors, CheckpointCommit(e), exec[e].run = r
        PROVE  PathSaved(r)'
    <3>1. latest'[r] = Saved(exec[e].number, exec[e].node, Snapshot(exec[e].ctx))
      BY <2>2 DEF CheckpointCommit, TypeOK
    <3>2. /\ latest'[r].node = exec[e].node
          /\ latest'[r].ctx.step = exec[e].ctx.step
          /\ latest'[r].ctx.continue = exec[e].ctx.continue
          /\ latest'[r].ctx.proposal = exec[e].ctx.proposal
      BY <3>1 DEF Saved, Snapshot, Ctx
    <3>3. /\ OnPath(e) /\ exec[e].stage = "saving" /\ run' = run
          /\ run[r].state # "absent"
      BY <2>2 DEF PathInv, CheckpointCommit, Unstarted
    <3>4. ResumeNode(latest'[r]) \notin {"none", "plan"} =>
            exec[e].node \in {"retrieve", "assess"}
      BY <3>2 DEF ResumeNode
    <3> QED
      BY <2>2, <3>2, <3>3, <3>4 DEF OnPath, PathSaved
  <2>3. ASSUME NEW d \in Nat, NEW node \in {"approval", "finish"},
               latest'[r] = Saved(d, node, NewContext), run'[r].state # "absent"
        PROVE  PathSaved(r)'
    <3>1. /\ latest'[r].node = node /\ latest'[r].ctx.proposal = NoProposal
          /\ ~latest'[r].ctx.continue
      BY <2>3 DEF Saved, NewContext, Ctx
    <3>2. ResumeNode(latest'[r]) = "none"
      BY <3>1 DEF ResumeNode
    <3> QED
      BY <2>3, <3>1, <3>2 DEF PathSaved
  <2>4. ASSUME NEW a \in Deciders, DecideCommit(a), latest'[r] # latest[r],
               proposal[decider[a].proposal].run = r
        PROVE  PathSaved(r)'
    <3>1. latest'[r] = Saved(latest[r].number + 1, "finish", NewContext)
      BY <2>4 DEF DecideCommit, TypeOK
    <3>2. latest[r].number + 1 \in Nat
      BY DEF TypeOK, Checkpoint
    <3>3. run'[r].state # "absent"
      BY <2>4, RunStays DEF DecideCommit, Busy, Unstarted, TypeOK
    <3> QED
      BY <2>3, <3>1, <3>2, <3>3
  <2>5. ASSUME NEW p \in Proposals, ProposeNoteCreation(r, p) PROVE PathSaved(r)'
    <3>1. latest'[r] = Saved(1, "approval", NewContext) /\ run'[r].state # "absent"
      BY <2>5 DEF ProposeNoteCreation, RunRow, TypeOK
    <3> QED
      BY <2>3, <3>1
  <2>6. CASE run[r].state = "absent" /\ latest'[r] = latest[r]
    <3>1. /\ latest'[r].node = "none" /\ latest'[r].ctx = NewContext
          /\ NewContext.proposal = NoProposal /\ ~NewContext.continue
      BY <2>0, <2>6 DEF PathSaved, NewContext, Ctx
    <3>2. ResumeNode(latest'[r]) = "none"
      BY <3>1 DEF ResumeNode
    <3> QED
      BY <3>1, <3>2 DEF PathSaved
  <2> QED
    BY <2>1, <2>2, <2>4, <2>5, <2>6, LatestStays
<1>3. ASSUME NEW p \in Proposals, proposal'[p].state # "none"
      PROVE  run'[proposal'[p].run].kind \in {"write", "manual"}
  <2>1. CASE proposal[p].state # "none" /\ proposal'[p].run = proposal[p].run
    <3>1. proposal[p].run \in Runs /\ run[proposal[p].run].state # "absent"
      BY <2>1 DEF TypeOK, Unstarted
    <3> QED
      BY <2>1, <3>1, RunStays DEF PathInv
  <2>2. ASSUME NEW e \in Executors, ProposeCommit(e), Insert(p, exec[e].run)
        PROVE  run'[proposal'[p].run].kind \in {"write", "manual"}
    <3>1. proposal'[p].run = exec[e].run /\ run' = run
      BY <2>2, InsertRow DEF ProposeCommit
    <3> QED
      BY <2>2, <3>1 DEF PathInv, OnPath, ProposeCommit
  <2>3. ASSUME NEW r \in Runs, ProposeNoteCreation(r, p)
        PROVE  run'[proposal'[p].run].kind \in {"write", "manual"}
    <3>1. proposal'[p].run = r
      BY <2>3, InsertRow DEF ProposeNoteCreation
    <3> QED
      BY <2>3, <3>1 DEF ProposeNoteCreation, RunRow, TypeOK
  <2>4. ASSUME NEW a \in Deciders, DecideCommit(a), decider[a].proposal = p,
               proposal[p].state = "none"
        PROVE  FALSE
    BY <2>4 DEF Unstarted, DecideCommit, Busy
  <2> QED
    BY <1>3, <2>1, <2>2, <2>3, <2>4, ProposalStays
<1> QED
  BY <1>1, <1>2, <1>3 DEF PathInv

\* Executors, checkpoints and proposals stay on the paths of their runs.
LEMMA PathInvariant == Spec => []PathInv
<1>1. Init => PathInv
  <2>1. ASSUME Init
        PROVE  /\ \A e \in Executors : exec[e] = IdleExecutor
               /\ \A r \in Runs : latest[r] = Saved(0, "none", NewContext)
                                  /\ run[r].kind = "none"
               /\ \A p \in Proposals : proposal[p].state = "none"
    BY <2>1 DEF Init, RunRow, ProposalRow
  <2>2. /\ Saved(0, "none", NewContext).node = "none"
        /\ Saved(0, "none", NewContext).ctx = NewContext
        /\ NewContext.proposal = NoProposal /\ ~NewContext.continue
    BY DEF Saved, NewContext, Ctx
  <2>3. ResumeNode(Saved(0, "none", NewContext)) = "none"
    BY <2>2 DEF ResumeNode
  <2> QED
    BY <2>1, <2>2, <2>3, NullTypes DEF PathInv, OnPath, PathSaved
<1>2. TypeOK /\ TypeOK' /\ ProposalInv /\ PathInv /\ [Next]_vars => PathInv'
  BY PathStep DEF ProposalInv
<1> QED
  BY <1>1, <1>2, Typing, ProposalInvariant, PTL DEF Spec

----------------------------------------------------------------------------
(* Writes stop for approval                                                *)

Proposed(r) == \E p \in Proposals : proposal[p].state # "none" /\ proposal[p].run = r

\* As long as a run has not been resumed its executor has the arguments; a write that
\* is completed without a resume has made its proposal, and the proposal is closed.
StopInv ==
    /\ resumed \in [Runs -> Nat] /\ retrieved \in [Runs -> Nat]
    /\ \A e \in Executors : exec[e].stage # "idle" =>
         exec[e].ctx.arguments \/ resumed[exec[e].run] # 0
    /\ \A r \in Runs : run[r].state = "completed" /\ resumed[r] = 0 =>
         ~Pending(r) /\ (run[r].kind = "write" => Proposed(r))

\* Nobody proposes for a run that has been completed without a resume, and nobody
\* completes one while its proposal is pending.
LEMMA StopStep ==
    ASSUME TypeOK, TypeOK', ProposalInv, PathInv, StopInv, [HistoryNext]_historyVars
    PROVE  StopInv'
<1>0. [Next]_vars /\ Unstarted /\ ProposesOnce /\ OneProposalPerRun
  BY DEF ProposalInv, HistoryNext, historyVars
<1>1. /\ resumed' \in [Runs -> Nat] /\ retrieved' \in [Runs -> Nat]
      /\ \A r \in Runs : resumed'[r] = 0 => resumed[r] = 0
      /\ \A r \in Runs, e \in Executors : ResumeRead(e, r) => resumed'[r] # 0
  <2>1. resumed \in [Runs -> Nat] /\ retrieved \in [Runs -> Nat]
    BY DEF StopInv
  <2> QED
    BY <2>1, CountsGrow
<1>2. ASSUME NEW e \in Executors, exec'[e].stage # "idle"
      PROVE  exec'[e].ctx.arguments \/ resumed'[exec'[e].run] # 0
  <2>1. CASE exec[e].stage # "idle" /\ exec'[e].run = exec[e].run
             /\ exec'[e].ctx.arguments = exec[e].ctx.arguments
    BY <1>1, <2>1, BusyExecutor DEF StopInv
  <2>2. ASSUME NEW r \in Runs, NEW k \in Kinds, RunResearch(e, r, k)
        PROVE  exec'[e].ctx.arguments
    <3>1. exec'[e].ctx = NewContext
      BY <2>2, AtFields DEF RunResearch, TypeOK
    <3> QED
      BY <3>1 DEF NewContext, Ctx
  <2>3. ASSUME NEW r \in Runs, ResumeRead(e, r), exec'[e].run = r
        PROVE  resumed'[exec'[e].run] # 0
    BY <1>1, <2>3
  <2> QED
    BY <1>0, <1>2, <2>1, <2>2, <2>3, ExecutorStays
<1>3. ASSUME NEW r \in Runs, run'[r].state = "completed", resumed'[r] = 0
      PROVE  ~Pending(r)' /\ (run'[r].kind = "write" => Proposed(r)')
  <2>0. resumed[r] = 0
    BY <1>1, <1>3
  <2>1. Proposed(r) => Proposed(r)'
    BY <1>0, ProposalKept DEF Proposed
  <2>2. CASE run[r].state = "completed"
    <3>1. ~Pending(r) /\ (run[r].kind = "write" => Proposed(r))
      BY <2>0, <2>2 DEF StopInv
    <3>2. run'[r].kind = run[r].kind
      BY <1>0, <2>2, RunStays
    <3>3. ASSUME NEW p \in Proposals, proposal'[p].run = r, proposal'[p].state = "pending"
          PROVE  FALSE
      <4>1. CASE proposal[p].state # "none" /\ proposal[p].run = r
        BY <1>0, <3>1, <3>3, <4>1, ProposalMoves DEF Pending
      <4>2. ASSUME NEW e \in Executors, ProposeCommit(e), Insert(p, exec[e].run),
                   exec[e].ctx.proposal = NoProposal
            PROVE  FALSE
        <5>1. exec[e].run = r /\ exec[e].stage = "proposing"
          BY <3>3, <4>2, InsertRow DEF ProposeCommit
        <5>2. Fresh(e) /\ run[r].kind = "write"
          BY <1>0, <4>2, <5>1 DEF Fresh, ProposesOnce, PathInv, OnPath
        <5> QED
          BY <1>0, <3>1, <5>1, <5>2 DEF Proposed, ProposesOnce
      <4>3. ASSUME NEW q \in Runs, ProposeNoteCreation(q, p) PROVE FALSE
        BY <2>2, <3>3, <4>3, InsertRow DEF ProposeNoteCreation
      <4>4. ASSUME NEW a \in Deciders, DecideCommit(a), decider[a].proposal = p,
                   proposal[p].state = "none"
            PROVE  FALSE
        BY <1>0, <4>4 DEF Unstarted, DecideCommit, Busy
      <4> QED
        BY <1>0, <3>3, <4>1, <4>2, <4>3, <4>4, ProposalStays
    <3> QED
      BY <2>1, <3>1, <3>2, <3>3 DEF Pending
  <2>3. ASSUME NEW e \in Executors, Finish(e), exec[e].run = r
        PROVE  ~Pending(r)' /\ (run'[r].kind = "write" => Proposed(r)')
    <3>1. /\ exec[e].stage # "idle" /\ exec[e].node = "finish"
          /\ proposal' = proposal
      BY <2>3 DEF Finish, Invoke
    <3>2. exec[e].ctx.arguments
      BY <2>0, <2>3, <3>1 DEF StopInv
    <3>3. run[r].kind \notin {"write", "manual"}
      BY <2>3, <3>1, <3>2 DEF PathInv, OnPath
    <3>4. run'[r].kind = run[r].kind
      BY <1>0, <2>3, <3>1, RunStays DEF Unstarted
    <3> QED
      BY <3>1, <3>3, <3>4 DEF PathInv, Pending
  <2>4. ASSUME NEW a \in Deciders, DecideCommit(a), proposal[decider[a].proposal].run = r
        PROVE  ~Pending(r)' /\ (run'[r].kind = "write" => Proposed(r)')
    <3> DEFINE p == decider[a].proposal
    <3>1. /\ p \in Proposals /\ proposal[p].state # "none"
          /\ proposal'[p].state \in {"approved", "rejected", "expired"}
          /\ proposal'[p].run = r
          /\ \A q \in Proposals \ {p} : proposal'[q] = proposal[q]
      BY <1>0, <2>4, DecideCommitRows DEF Unstarted, DecideCommit, Busy, Outcome
    <3>2. ASSUME NEW q \in Proposals, proposal'[q].run = r, proposal'[q].state = "pending"
          PROVE  FALSE
      BY <1>0, <2>4, <3>1, <3>2 DEF OneProposalPerRun
    <3> QED
      BY <3>1, <3>2 DEF Pending, Proposed
  <2> QED
    BY <1>0, <1>3, <2>2, <2>3, <2>4, RunMoves
<1> QED
  BY <1>1, <1>2, <1>3 DEF StopInv

\* A run that is never resumed is not completed while its proposal is pending,
\* whenever its proposal is decided, with row locks or without.
THEOREM WritesStop == HistorySpec => []WritesStopUnlessResumed
<1>1. HistoryInit => StopInv
  BY NullTypes DEF HistoryInit, Init, StopInv, RunRow
<1>2. /\ TypeOK /\ TypeOK' /\ ProposalInv /\ PathInv /\ StopInv
      /\ [HistoryNext]_historyVars
      => StopInv'
  BY StopStep
<1>3. StopInv => WritesStopUnlessResumed
  BY DEF StopInv, WritesStopUnlessResumed
<1> QED
  BY <1>1, <1>2, <1>3, HistoryIsObserved, Typing, ProposalInvariant, PathInvariant, PTL
     DEF HistorySpec

----------------------------------------------------------------------------
(* Runs that wait can be decided                                           *)

\* An executor that has the arguments of the request.
Original(e) == exec[e].stage # "idle" /\ exec[e].ctx.arguments

\* An executor that can still pause its run for approval.
Asking(e) == Original(e) /\ ~Over(e)

\* Only one executor of a run can pause it.  Until it does, nothing is decided on the
\* run, unless early; once the run has left its pause nobody brings it back, and a
\* decision that has read another state than waiting knows this.
WaitInv ==
    /\ \A e, f \in Executors :
         Original(e) /\ Original(f) /\ exec[e].run = exec[f].run => e = f
    /\ \A e \in Executors, r \in Runs : Asking(e) /\ exec[e].run = r =>
         /\ run[r].state # "awaiting_approval"
         /\ r \notin early =>
              /\ \A p \in Proposals :
                   proposal[p].state # "none" /\ proposal[p].run = r =>
                       proposal[p].state = "pending"
              /\ \A a \in Deciders : ~DecidesOn(a, r)
    /\ \A a \in Deciders, r \in Runs : DecidesOn(a, r) /\ r \notin early =>
         /\ decider[a].verdict = "expire" => decider[a].seen = "awaiting_approval"
         /\ decider[a].seen \notin {"absent", "awaiting_approval"} =>
              run[r].state # "awaiting_approval"
    /\ WaitsForDecision

\* An executor has the arguments, or can still pause its run, because it could before
\* or because its run has just been started.
LEMMA AskingStays ==
    ASSUME TypeOK, ProposesOnce, NEW e \in Executors, [Next]_vars, Original(e)'
    PROVE  \/ \E r \in Runs, k \in Kinds : RunResearch(e, r, k) /\ exec'[e].run = r
           \/ /\ Original(e) /\ exec'[e].run = exec[e].run
              /\ Asking(e)' => Asking(e)
<1>1. CASE exec'[e] = exec[e]
  BY <1>1 DEF Original, Asking, Over
<1>2. CASE Execute(e) \/ Crash(e)
  BY <1>2, ExecuteRun, OverStays DEF Original, Asking
<1>3. ASSUME NEW r \in Runs, NEW k \in Kinds, RunResearch(e, r, k)
      PROVE  exec'[e].run = r
  BY <1>3, AtFields DEF RunResearch, TypeOK
<1>4. ASSUME NEW r \in Runs, ResumeRead(e, r) PROVE FALSE
  <2>1. exec'[e].ctx = latest[r].ctx
    BY <1>4, AtFields DEF ResumeRead, Resumed, TypeOK
  <2> QED
    BY <1>4, <2>1 DEF ResumeRead, ProposesOnce, Original
<1> QED
  BY <1>1, <1>2, <1>3, <1>4, ExecutorCases

\* A run comes to wait when its note is proposed, or when an executor pauses it.
LEMMA WaitBegins ==
    ASSUME TypeOK, PathInv, [Next]_vars, NEW r \in Runs,
           run[r].state # "awaiting_approval", run'[r].state = "awaiting_approval"
    PROVE  \/ run[r].state = "absent" /\ \E p \in Proposals : ProposeNoteCreation(r, p)
           \/ \E e \in Executors : Approval(e) /\ exec[e].run = r /\ Asking(e) /\ ~Asking(e)'
<1>1. ASSUME NEW e \in Executors, Approval(e), exec[e].run = r
      PROVE  Asking(e) /\ ~Asking(e)'
  <2>1. exec[e].stage = "ready" /\ exec[e].node = "approval"
    BY <1>1 DEF Approval, Invoke
  <2>2. exec'[e].stage = "done" /\ exec'[e].node = "approval"
    BY <1>1, <2>1, ReturnFields DEF Approval
  <2> QED
    BY <2>1, <2>2 DEF PathInv, OnPath, Asking, Original, Over
<1>2. ASSUME NEW verdict, NEW seen PROVE
        Decided(verdict, seen) = "awaiting_approval" => seen = "awaiting_approval"
  BY DEF Decided
<1> QED
  BY <1>1, <1>2, RunMoves

\* A proposal that is new is pending.
LEMMA NewIsPending ==
    ASSUME TypeOK, Unstarted, [Next]_vars, NEW p \in Proposals,
           proposal[p].state = "none", proposal'[p].state # "none"
    PROVE  proposal'[p].state = "pending"
<1>1. ASSUME NEW a \in Deciders, DecideCommit(a), decider[a].proposal = p PROVE FALSE
  BY <1>1 DEF Unstarted, DecideCommit, Busy
<1> QED
  BY <1>1, ProposalStays, InsertRow DEF ProposeNoteCreation

\* The state a run is left in by a decision that had read it as waiting.
LEMMA DecisionEndsWait ==
    ASSUME TypeOK, NEW a \in Deciders, DecideCommit(a),
           NEW r \in Runs, proposal[decider[a].proposal].run = r,
           decider[a].seen = "awaiting_approval"
    PROVE  run'[r].state # "awaiting_approval"
<1>1. Decided(decider[a].verdict, "awaiting_approval") \in {"completed", "cancelled"}
  BY DEF Decided
<1>2. SetState(r, "awaiting_approval", Decided(decider[a].verdict, "awaiting_approval"))
  BY DEF DecideCommit
<1> QED
  BY <1>1, <1>2 DEF SetState, Column, RunRow, TypeOK

\* Every step keeps decisions away from runs that have not paused, and keeps a
\* proposal for those that wait.
LEMMA WaitStep ==
    ASSUME TypeOK, TypeOK', ProposalInv, PathInv, WaitInv, [HistoryNext]_historyVars
    PROVE  WaitInv'
<1>0. [Next]_vars /\ Unstarted /\ ProposesOnce /\ OneProposalPerRun
  BY DEF ProposalInv, HistoryNext, historyVars
<1>1. ASSUME NEW e \in Executors, NEW f \in Executors, Original(e)', Original(f)',
             exec'[e].run = exec'[f].run
      PROVE  e = f
  <2>1. ASSUME NEW d \in Executors, Original(d), exec'[d].run = exec[d].run,
               NEW g \in Executors, NEW r \in Runs, NEW k \in Kinds,
               RunResearch(g, r, k), exec'[g].run = r, exec'[d].run = r
        PROVE  FALSE
    BY <1>0, <2>1 DEF Unstarted, Original, RunResearch
  <2>2. ASSUME NEW r \in Runs, NEW k \in Kinds, RunResearch(e, r, k),
               NEW q \in Runs, NEW l \in Kinds, RunResearch(f, q, l)
        PROVE  e = f
    <3>1. exec'[e].stage = "ready" /\ exec[e].stage = "idle"
      BY <2>2, AtFields DEF RunResearch, TypeOK
    <3>2. e # f => exec'[e] = exec[e]
      BY <2>2 DEF RunResearch, TypeOK
    <3> QED
      BY <3>1, <3>2
  <2> QED
    BY <1>0, <1>1, <2>1, <2>2, AskingStays DEF WaitInv
<1>2. ASSUME NEW e \in Executors, NEW r \in Runs, Asking(e)', exec'[e].run = r
      PROVE  /\ run'[r].state # "awaiting_approval"
             /\ r \notin early' =>
                  /\ \A p \in Proposals :
                       proposal'[p].state # "none" /\ proposal'[p].run = r =>
                           proposal'[p].state = "pending"
                  /\ \A a \in Deciders : ~DecidesOn(a, r)'
  <2>1. CASE Asking(e) /\ exec[e].run = r
    <3>0. run[r].state \notin {"absent", "awaiting_approval"}
      BY <1>0, <2>1, BusyExecutor DEF WaitInv, Asking, Original, Unstarted
    <3>1. run'[r].state # "awaiting_approval"
      BY <1>0, <1>2, <2>1, <3>0, WaitBegins DEF WaitInv, Asking
    <3>2. ASSUME r \notin early'
          PROVE  /\ r \notin early /\ ~BeginsDecision(r)
                 /\ \A a \in Deciders : ~DecidesOn(a, r)
                 /\ \A p \in Proposals :
                      proposal[p].state # "none" /\ proposal[p].run = r =>
                          proposal[p].state = "pending"
      <4>1. r \notin early /\ ~BeginsDecision(r)
        BY <3>0, <3>2, HistoryStays
      <4> QED
        BY <2>1, <4>1 DEF WaitInv
    <3>3. ASSUME r \notin early', NEW p \in Proposals,
                 proposal'[p].state # "none", proposal'[p].run = r
          PROVE  proposal'[p].state = "pending"
      <4>1. CASE proposal[p].state = "none"
        BY <1>0, <3>3, <4>1, NewIsPending
      <4>2. CASE proposal[p].state # "none"
        <5>1. proposal[p].run = r /\ proposal[p].state = "pending"
          BY <1>0, <3>2, <3>3, <4>2, ProposalKept
        <5>2. ASSUME NEW a \in Deciders, DecideCommit(a), decider[a].proposal = p
              PROVE  FALSE
          BY <3>2, <3>3, <5>1, <5>2 DEF DecidesOn, DecideCommit
        <5> QED
          BY <1>0, <4>2, <5>1, <5>2, ProposalMoves
      <4> QED
        BY <4>1, <4>2
    <3>4. ASSUME r \notin early', NEW a \in Deciders, DecidesOn(a, r)' PROVE FALSE
      BY <1>0, <3>0, <3>2, <3>4, DecisionBegins
    <3> QED
      BY <3>1, <3>3, <3>4
  <2>2. ASSUME NEW k \in Kinds, RunResearch(e, r, k)
        PROVE  /\ run'[r].state # "awaiting_approval"
               /\ \A p \in Proposals :
                    proposal'[p].state # "none" => proposal'[p].run # r
               /\ \A a \in Deciders : ~DecidesOn(a, r)'
    <3>1. /\ run[r].state = "absent" /\ run'[r].state = "running"
          /\ UNCHANGED <<proposal, decider>>
      BY <2>2 DEF RunResearch, RunRow, TypeOK
    <3>2. \A p \in Proposals : proposal[p].state # "none" => proposal[p].run # r
      BY <1>0, <3>1 DEF Unstarted
    <3>3. ASSUME NEW a \in Deciders, DecidesOn(a, r) PROVE FALSE
      BY <1>0, <3>2, <3>3, DeciderFields DEF DecidesOn, Busy, Unstarted, TypeOK
    <3> QED
      BY <3>1, <3>2, <3>3 DEF DecidesOn, Busy
  <2> QED
    BY <1>0, <1>2, <2>1, <2>2, AskingStays DEF Asking
<1>3. ASSUME NEW a \in Deciders, NEW r \in Runs, DecidesOn(a, r)', r \notin early'
      PROVE  /\ decider'[a].verdict = "expire" => decider'[a].seen = "awaiting_approval"
             /\ decider'[a].seen \notin {"absent", "awaiting_approval"} =>
                  run'[r].state # "awaiting_approval"
  <2>0. r \notin early /\ (BeginsDecision(r) => run[r].state = "awaiting_approval")
    BY <1>3, HistoryStays
  <2>1. ASSUME NEW v \in Verdict, DecideRead(a, decider'[a].proposal, v),
               BeginsDecision(r), proposal[decider'[a].proposal].run = r
        PROVE  /\ decider'[a].verdict = "expire" => decider'[a].seen = "awaiting_approval"
               /\ decider'[a].seen \in {"absent", "awaiting_approval"}
    <3>1. decider'[a] = Deciding(decider'[a].proposal, v,
                                 IF v = "expire" THEN run[r].state ELSE "absent")
      BY <2>1 DEF DecideRead, TypeOK
    <3>2. /\ decider'[a].verdict = v
          /\ decider'[a].seen = IF v = "expire" THEN run[r].state ELSE "absent"
      BY <3>1 DEF Deciding
    <3> QED
      BY <2>0, <2>1, <3>2
  <2>2. CASE DecidesOn(a, r) /\ decider'[a].proposal = decider[a].proposal
    <3>1. /\ decider[a].verdict = "expire" => decider[a].seen = "awaiting_approval"
          /\ decider[a].seen \notin {"absent", "awaiting_approval"} =>
               run[r].state # "awaiting_approval"
      BY <2>0, <2>2 DEF WaitInv
    <3>2. run[r].state # "absent"
      BY <1>0, <2>2, DeciderFields DEF DecidesOn, Busy, Unstarted, TypeOK
    <3>3. run[r].state # "awaiting_approval" => run'[r].state # "awaiting_approval"
      BY <1>0, <2>0, <2>2, <3>2, WaitBegins DEF WaitInv
    <3>4. CASE decider'[a] = decider[a]
      BY <3>1, <3>3, <3>4
    <3>5. CASE DecideLoad(a)
      <4>1. /\ decider'[a].verdict = decider[a].verdict /\ decider'[a].seen = run[r].state
            /\ decider[a].seen = "absent" /\ run' = run
        BY <2>2, <3>5 DEF DecideLoad, Deciding, DecidesOn, rows, TypeOK
      <4> QED
        BY <3>1, <4>1
    <3>6. CASE \E p \in Proposals, v \in Verdict \ {"none"} : DecideRead(a, p, v)
      BY <2>2, <3>6 DEF DecideRead, DecidesOn
    <3>7. CASE DecideCommit(a) \/ DecideAbort(a)
      <4>1. decider'[a] = IdleDecider
        BY <3>7 DEF DecideCommit, DecideAbort, TypeOK
      <4> QED
        BY <1>3, <4>1, NullTypes DEF DecidesOn, Busy
    <3> QED
      BY <1>0, <3>4, <3>5, <3>6, <3>7, DeciderCases
  <2> QED
    BY <1>0, <1>3, <2>1, <2>2, DecisionBegins
<1>4. ASSUME NEW r \in Runs, run'[r].state = "awaiting_approval", r \notin early'
      PROVE  Pending(r)'
  <2>0. r \notin early
    BY <1>4, HistoryStays
  <2>1. CASE run[r].state = "awaiting_approval"
    <3>1. PICK p \in Proposals : proposal[p].run = r /\ proposal[p].state = "pending"
      BY <2>0, <2>1 DEF WaitInv, WaitsForDecision, Pending
    <3>2. proposal'[p].run = r
      BY <1>0, <3>1, ProposalKept
    <3>3. ASSUME NEW a \in Deciders, DecideCommit(a), decider[a].proposal = p PROVE FALSE
      <4>1. DecidesOn(a, r) /\ decider[a].seen # "absent"
        BY <3>1, <3>3 DEF DecidesOn, DecideCommit
      <4>2. decider[a].seen = "awaiting_approval"
        BY <2>0, <2>1, <4>1 DEF WaitInv
      <4> QED
        BY <1>4, <3>1, <3>3, <4>2, DecisionEndsWait
    <3>4. proposal'[p].state = "pending"
      BY <1>0, <3>1, <3>3, ProposalMoves
    <3> QED
      BY <3>2, <3>4 DEF Pending
  <2>2. ASSUME NEW p \in Proposals, ProposeNoteCreation(r, p) PROVE Pending(r)'
    BY <2>2, InsertRow DEF ProposeNoteCreation, Pending
  <2>3. ASSUME NEW e \in Executors, Approval(e), exec[e].run = r, Asking(e)
        PROVE  Pending(r)'
    <3> DEFINE p == exec[e].ctx.proposal
    <3>1. /\ p \in Proposals
          /\ proposal[p].run = r /\ proposal[p].state # "none"
      <4>1. exec[e].ctx \in Context /\ exec[e].stage # "idle" /\ OnPath(e)
        BY <2>3, ExecutorFields DEF PathInv, TypeOK, Asking, Original
      <4>2. exec[e].node = "approval"
        BY <2>3 DEF Approval, Invoke
      <4> QED
        BY <2>3, <4>1, <4>2, ContextFields DEF OnPath
    <3>2. proposal[p].state = "pending" /\ proposal' = proposal
      BY <2>0, <2>3, <3>1 DEF WaitInv, Approval
    <3> QED
      BY <3>1, <3>2 DEF Pending
  <2> QED
    BY <1>0, <1>4, <2>1, <2>2, <2>3, WaitBegins
<1> QED
  BY <1>1, <1>2, <1>3, <1>4 DEF WaitInv, WaitsForDecision

\* A run that waits has a proposal that can be decided, unless a decision was begun
\* before the run had paused: whatever crashes, is resumed or races, with row locks
\* or without.
THEOREM WaitingCanBeDecided == HistorySpec => []WaitsForDecision
<1>1. HistoryInit => WaitInv
  <2>1. ASSUME HistoryInit
        PROVE  /\ \A e \in Executors : ~Original(e)
               /\ \A a \in Deciders : ~Busy(a)
               /\ \A r \in Runs : run[r].state = "absent"
    BY <2>1, NullTypes DEF HistoryInit, Init, Original, Busy, RunRow
  <2> QED
    BY <2>1 DEF WaitInv, Asking, DecidesOn, WaitsForDecision
<1>2. /\ TypeOK /\ TypeOK' /\ ProposalInv /\ PathInv /\ WaitInv
      /\ [HistoryNext]_historyVars
      => WaitInv'
  BY WaitStep
<1>3. WaitInv => WaitsForDecision
  BY DEF WaitInv
<1> QED
  BY <1>1, <1>2, <1>3, HistoryIsObserved, Typing, ProposalInvariant, PathInvariant, PTL
     DEF HistorySpec

----------------------------------------------------------------------------
(* Retrievals are bounded                                                  *)

\* The retrievals that the executors of r, a run with a bounded plan, have left.
Tokens(r) ==
    {t \in Executors \X (1..MaxSteps) :
        /\ run[r].kind = "research"
        /\ WorksOn(t[1], r)
        /\ exec[t[1]].node # "plan"
        /\ t[2] > exec[t[1]].ctx.step}

\* What has been retrieved and what can still be stays within the bound.
BudgetInv ==
    /\ resumed \in [Runs -> Nat] /\ retrieved \in [Runs -> Nat]
    /\ \A r \in Runs : run[r].state = "absent" => retrieved[r] = 0
    /\ \A r \in Runs :
         retrieved[r] + Cardinality(Tokens(r)) <= MaxSteps + resumed[r] * (MaxSteps - 1)

\* The executors' retrievals can be counted.
LEMMA TokensFinite ==
    ASSUME IsFiniteSet(Executors), NEW r \in Runs
    PROVE  IsFiniteSet(Tokens(r)) /\ Cardinality(Tokens(r)) \in Nat
<1>1. IsFiniteSet(1..MaxSteps)
  BY FS_Interval, RuntimeConstants
<1>2. IsFiniteSet(Executors \X (1..MaxSteps))
  BY <1>1, FS_Product
<1>3. Tokens(r) \in SUBSET (Executors \X (1..MaxSteps))
  BY DEF Tokens
<1> QED
  BY <1>2, <1>3, FS_Subset, FS_CardinalityType

\* One executor that has n retrievals left of them at most.
LEMMA OneShare ==
    ASSUME NEW e \in Executors, NEW n \in 1..(MaxSteps + 1)
    PROVE  /\ IsFiniteSet({e} \X (n..MaxSteps))
           /\ Cardinality({e} \X (n..MaxSteps)) = MaxSteps - n + 1
<1> USE RuntimeConstants
<1>1. IsFiniteSet(n..MaxSteps) /\ Cardinality(n..MaxSteps) = MaxSteps - n + 1
  <2>1. n \in Int /\ MaxSteps \in Int /\ n <= MaxSteps + 1
    OBVIOUS
  <2>2. /\ IsFiniteSet(n..MaxSteps)
        /\ Cardinality(n..MaxSteps) = IF n > MaxSteps THEN 0 ELSE MaxSteps - n + 1
    BY <2>1, FS_Interval
  <2> QED
    BY <2>1, <2>2
<1>2. IsFiniteSet({e}) /\ Cardinality({e}) = 1
  BY FS_Singleton
<1>3. /\ IsFiniteSet({e} \X (n..MaxSteps))
      /\ Cardinality({e} \X (n..MaxSteps)) = Cardinality({e}) * Cardinality(n..MaxSteps)
  BY <1>1, <1>2, FS_Product
<1>4. MaxSteps - n + 1 \in Int
  OBVIOUS
<1>5. 1 * (MaxSteps - n + 1) = MaxSteps - n + 1
  BY <1>4
<1> QED
  BY <1>1, <1>2, <1>3, <1>5

\* A step inside the graph leaves its executor as many retrievals as before, and one
\* less when it retrieves.
LEMMA ExecuteSpends ==
    ASSUME TypeOK, NEW e \in Executors, Execute(e), exec'[e].stage # "idle",
           run[exec[e].run].kind = "research", ProposesOnce, PathInv
    PROVE  /\ exec[e].ctx.step <= exec'[e].ctx.step
           /\ exec'[e].node # "plan" => exec[e].node # "plan"
           /\ Invoke(e, "retrieve") =>
                exec'[e].ctx.step = exec[e].ctx.step + 1 /\ exec[e].node = "retrieve"
<1> DEFINE x == exec[e]
           c == x.ctx
<1>0. x.stage # "idle" /\ c \in Context /\ c.step \in Nat
  BY ExecuteRun, BusyExecutor, ExecutorFields, ContextFields
<1>1. CASE ResumeCommit(e)
  BY <1>0, <1>1, AtFields DEF ResumeCommit, Invoke, TypeOK
<1>2. CASE Route(e) \/ Approval(e) \/ Finish(e)
  <2>1. PICK seen : Return(e, c, seen)
    BY <1>2 DEF Route, Approval, Finish
  <2> QED
    BY <1>0, <1>2, <2>1, ReturnFields DEF Route, Approval, Finish, Invoke
<1>3. CASE Retrieve(e)
  <2>1. Return(e, Ctx(c.step + 1, c.continue, c.proposal, c.arguments), x.seen)
    BY <1>3 DEF Retrieve
  <2>2. exec'[e].ctx.step = c.step + 1 /\ exec'[e].node = x.node
    BY <2>1, ReturnFields, CtxFields
  <2> QED
    BY <1>0, <1>3, <2>2 DEF Retrieve, Invoke
<1>4. CASE ProposeRead(e)
  BY <1>4 DEF ProposeRead
<1>5. CASE ProposeCommit(e)
  BY <1>0, <1>5 DEF ProposeCommit, PathInv, OnPath
<1>6. CASE Assess(e)
  <2>1. \/ Return(e, c, x.seen)
        \/ \E b : Return(e, Ctx(c.step, b, c.proposal, c.arguments), x.seen)
    BY <1>6 DEF Assess
  <2>2. exec'[e].ctx.step = c.step /\ exec'[e].node = x.node /\ x.node = "assess"
    BY <1>6, <2>1, ReturnFields, CtxFields DEF Assess, Invoke
  <2> QED
    BY <1>0, <1>6, <2>2 DEF Invoke
<1>7. CASE CheckpointRead(e)
  BY <1>0, <1>7, AtFields DEF CheckpointRead, Invoke, TypeOK
<1>8. CASE CheckpointCommit(e)
  <2>1. exec'[e].ctx = c /\ x.stage = "saving"
    BY <1>8, AtFields, NullTypes DEF CheckpointCommit, TypeOK
  <2>2. x.node = "plan" => exec'[e] = IdleExecutor
    BY <1>8 DEF CheckpointCommit, Following, TypeOK
  <2> QED
    BY <1>0, <2>1, <2>2, NullTypes DEF Invoke
<1>9. CASE CheckpointClash(e) \/ Fail(e)
  BY <1>9, NullTypes DEF CheckpointClash, Fail, TypeOK
<1> QED
  BY <1>1, <1>2, <1>3, <1>4, <1>5, <1>6, <1>7, <1>8, <1>9 DEF Execute

\* A retrieval that is counted is a step of the executor that made it.
LEMMA RetrievesOne ==
    ASSUME TypeOK, NEW r \in Runs, [Next]_vars, Retrieves(r)
    PROVE  \E e \in Executors :
             /\ Execute(e) /\ Invoke(e, "retrieve") /\ exec[e].run = r
             /\ exec'[e].stage # "idle"
<1>1. PICK e \in Executors : /\ Invoke(e, "retrieve") /\ exec[e].run = r
                             /\ exec'[e].stage = "done"
  BY DEF Retrieves
<1>2. exec[e].stage = "ready"
  BY <1>1 DEF Invoke
<1>3. ~Crash(e)
  BY <1>1, NullTypes DEF Crash, TypeOK
<1> QED
  BY <1>1, <1>2, <1>3, ExecutorCases DEF RunResearch, ResumeRead

\* A token is left over, or its executor is new to the run.
LEMMA TokensStay ==
    ASSUME TypeOK, TypeOK', Unstarted, ProposesOnce, PathInv, [Next]_vars,
           NEW r \in Runs, NEW e \in Executors, NEW i \in 1..MaxSteps,
           <<e, i>> \in Tokens(r)'
    PROVE  \/ /\ <<e, i>> \in Tokens(r)
              /\ Invoke(e, "retrieve") =>
                   exec'[e] = exec[e] \/ i # exec[e].ctx.step + 1
           \/ \E k \in Kinds : RunResearch(e, r, k)
           \/ ResumeRead(e, r) /\ i > 1
<1>0. /\ run'[r].kind = "research" /\ WorksOn(e, r)' /\ exec'[e].node # "plan"
      /\ i > exec'[e].ctx.step
  BY DEF Tokens
<1>1. CASE exec'[e] = exec[e]
  <2>1. WorksOn(e, r) /\ run[r].kind = "research"
    BY <1>0, <1>1, RunStays DEF WorksOn, Unstarted
  <2> QED
    BY <1>0, <1>1, <2>1 DEF Tokens
<1>2. CASE Execute(e)
  <2>1. WorksOn(e, r) /\ run[r].kind = "research"
    BY <1>0, <1>2, ExecuteRun, RunStays DEF WorksOn, Unstarted
  <2>2. exec[e].ctx.step \in Nat /\ exec'[e].ctx.step \in Nat
    BY ExecutorFields, ContextFields DEF TypeOK
  <2>3. /\ exec[e].ctx.step <= exec'[e].ctx.step /\ exec[e].node # "plan"
        /\ Invoke(e, "retrieve") => exec'[e].ctx.step = exec[e].ctx.step + 1
    BY <1>0, <1>2, <2>1, ExecuteSpends DEF WorksOn
  <2> QED
    BY <1>0, <2>1, <2>2, <2>3 DEF Tokens
<1>3. CASE Crash(e)
  BY <1>0, <1>3, NullTypes DEF Crash, WorksOn, TypeOK
<1>4. ASSUME NEW q \in Runs, NEW k \in Kinds, RunResearch(e, q, k) PROVE q = r
  BY <1>0, <1>4, AtFields DEF RunResearch, WorksOn, TypeOK
<1>5. ASSUME NEW q \in Runs, ResumeRead(e, q) PROVE q = r /\ i > 1
  <2>1. /\ exec'[e].run = q /\ exec'[e].ctx = latest[q].ctx
        /\ exec'[e].node = ResumeNode(latest[q])
        /\ run' = run /\ ResumeNode(latest[q]) # "none"
    BY <1>5, AtFields DEF ResumeRead, Resumed, rows, TypeOK
  <2>2. q = r
    BY <1>0, <2>1 DEF WorksOn
  <2>3. ResumeNode(latest[r]) \notin {"none", "plan"} => latest[r].ctx.step # 0
    BY <1>0, <2>1 DEF PathInv, PathSaved
  <2>4. latest[r].ctx.step \in Nat
    BY ContextFields DEF TypeOK, Checkpoint
  <2> QED
    BY <1>0, <2>1, <2>2, <2>3, <2>4 DEF ResumeNode
<1> QED
  BY <1>1, <1>2, <1>3, <1>4, <1>5, ExecutorCases

\* Every step keeps what has been retrieved and what can still be within the bound.
LEMMA BudgetStep ==
    ASSUME IsFiniteSet(Executors), TypeOK, TypeOK', ProposalInv, PathInv, StepsCounted,
           BudgetInv, [HistoryNext]_historyVars
    PROVE  BudgetInv'
<1> USE RuntimeConstants
<1>0. [Next]_vars /\ Unstarted /\ ProposesOnce
  BY DEF ProposalInv, HistoryNext, historyVars
<1>1. /\ resumed' \in [Runs -> Nat] /\ retrieved' \in [Runs -> Nat]
      /\ \A r \in Runs : resumed'[r] \in {resumed[r], resumed[r] + 1}
      /\ \A r \in Runs : retrieved'[r] = retrieved[r] \/
                         (retrieved'[r] = retrieved[r] + 1 /\ Retrieves(r))
      /\ \A r \in Runs, e \in Executors : ResumeRead(e, r) => resumed'[r] = resumed[r] + 1
  BY CountsGrow DEF BudgetInv
<1>2. ASSUME NEW r \in Runs, run'[r].state = "absent" PROVE retrieved'[r] = 0
  <2>1. run[r].state = "absent" /\ retrieved[r] = 0
    BY <1>0, <1>2, RunStays DEF BudgetInv
  <2>2. ~Retrieves(r)
    BY <1>0, <2>1 DEF Retrieves, Invoke, Unstarted
  <2> QED
    BY <1>1, <2>1, <2>2
<1>3. ASSUME NEW r \in Runs
      PROVE  retrieved'[r] + Cardinality(Tokens(r)') <=
               MaxSteps + resumed'[r] * (MaxSteps - 1)
  <2> DEFINE had == Cardinality(Tokens(r))
             has == Cardinality(Tokens(r)')
  <2>0. /\ retrieved[r] \in Nat /\ retrieved'[r] \in Nat
        /\ resumed[r] \in Nat /\ resumed'[r] \in Nat
        /\ IsFiniteSet(Tokens(r)) /\ had \in Nat
        /\ retrieved[r] + had <= MaxSteps + resumed[r] * (MaxSteps - 1)
    BY <1>1, TokensFinite DEF BudgetInv
  <2>1. ASSUME NEW n \in Nat, n <= MaxSteps
        PROVE  /\ resumed[r] * (MaxSteps - 1) <= resumed'[r] * (MaxSteps - 1)
               /\ resumed'[r] = resumed[r] + 1 =>
                    resumed'[r] * (MaxSteps - 1) = resumed[r] * (MaxSteps - 1) + MaxSteps - 1
               /\ resumed[r] * (MaxSteps - 1) \in Nat
               /\ resumed'[r] * (MaxSteps - 1) \in Nat
    <3>1. MaxSteps - 1 \in Nat
      OBVIOUS
    <3>2. ASSUME NEW a \in Nat, NEW m \in Nat
          PROVE  a * m \in Nat /\ (a + 1) * m = a * m + m
      OBVIOUS
    <3>3. resumed[r] * (MaxSteps - 1) \in Nat
          /\ (resumed[r] + 1) * (MaxSteps - 1) = resumed[r] * (MaxSteps - 1) + (MaxSteps - 1)
      BY <2>0, <3>1, <3>2
    <3> DEFINE m == resumed[r] * (MaxSteps - 1)
    <3>4. CASE resumed'[r] = resumed[r]
      BY <2>0, <3>3, <3>4
    <3>5. CASE resumed'[r] = resumed[r] + 1
      <4>1. resumed'[r] * (MaxSteps - 1) = m + (MaxSteps - 1) /\ m \in Nat
        BY <3>3, <3>5
      <4> HIDE DEF m
      <4>2. m + (MaxSteps - 1) \in Nat /\ m <= m + (MaxSteps - 1)
        BY <4>1
      <4>3. m + (MaxSteps - 1) = m + MaxSteps - 1
        BY <4>1
      <4> QED
        BY <4>1, <4>2, <4>3 DEF m
    <3> QED
      BY <1>1, <3>4, <3>5
  <2>2. ASSUME NEW e \in Executors, NEW k \in Kinds, RunResearch(e, r, k)
        PROVE  has <= MaxSteps /\ retrieved'[r] = 0
    <3>1. run[r].state = "absent" /\ \A f \in Executors : ~WorksOn(f, r)
      BY <1>0, <2>2 DEF RunResearch, Unstarted, WorksOn
    <3>2. ~Retrieves(r) /\ retrieved[r] = 0
      BY <3>1 DEF Retrieves, Invoke, WorksOn, BudgetInv
    <3>3. \A f \in Executors \ {e} : ~WorksOn(f, r)'
      BY <2>2, <3>1 DEF RunResearch, WorksOn, TypeOK
    <3>4. Tokens(r)' \in SUBSET ({e} \X (1..MaxSteps))
      BY <3>3 DEF Tokens
    <3>5. /\ IsFiniteSet({e} \X (1..MaxSteps))
          /\ Cardinality({e} \X (1..MaxSteps)) = MaxSteps
      <4>1. 1 \in 1..(MaxSteps + 1) /\ MaxSteps - 1 + 1 = MaxSteps
        OBVIOUS
      <4> QED
        BY <4>1, OneShare
    <3>6. has <= MaxSteps
      BY <3>4, <3>5, FS_Subset
    <3> QED
      BY <1>1, <3>2, <3>6
  <2>3. ASSUME NEW e \in Executors, ResumeRead(e, r)
        PROVE  has <= had + MaxSteps - 1 /\ retrieved'[r] = retrieved[r]
    <3> DEFINE share == {e} \X (2..MaxSteps)
    <3>1. IsFiniteSet(share) /\ Cardinality(share) = MaxSteps - 1
      <4>1. 2 \in 1..(MaxSteps + 1) /\ MaxSteps - 2 + 1 = MaxSteps - 1
        OBVIOUS
      <4> QED
        BY <4>1, OneShare
    <3>2. ASSUME NEW f \in Executors, NEW i \in 1..MaxSteps, <<f, i>> \in Tokens(r)'
          PROVE  <<f, i>> \in Tokens(r) \cup share
      <4>1. ASSUME NEW k \in Kinds, RunResearch(f, r, k) PROVE FALSE
        BY <2>3, <4>1 DEF ResumeRead, RunResearch
      <4>2. ASSUME ResumeRead(f, r) PROVE f = e
        <5>1. exec'[f].stage = "resuming" /\ exec[f].stage = "idle"
          BY <4>2, AtFields DEF ResumeRead, Resumed, TypeOK
        <5>2. f # e => exec'[f] = exec[f]
          BY <2>3 DEF ResumeRead, TypeOK
        <5> QED
          BY <5>1, <5>2
      <4> QED
        BY <1>0, <3>2, <4>1, <4>2, TokensStay
    <3>3. Tokens(r)' \in SUBSET (Tokens(r) \cup share)
      <4>1. \A t \in Tokens(r)' : \E f \in Executors, i \in 1..MaxSteps : t = <<f, i>>
        BY DEF Tokens
      <4> HIDE DEF share
      <4> QED
        BY <3>2, <4>1
    <3> HIDE DEF share
    <3>4. /\ IsFiniteSet(Tokens(r) \cup share)
          /\ Cardinality(Tokens(r) \cup share) =
               had + Cardinality(share) - Cardinality(Tokens(r) \cap share)
      BY <2>0, <3>1, FS_Union
    <3>5. Cardinality(Tokens(r) \cap share) \in Nat
      <4>1. IsFiniteSet(Tokens(r) \cap share)
        BY <2>0, FS_Intersection
      <4> QED
        BY <4>1, FS_CardinalityType
    <3>6. has <= Cardinality(Tokens(r) \cup share) /\ has \in Nat
      BY <3>3, <3>4, FS_Subset, FS_CardinalityType
    <3>7. ~Retrieves(r)
      <4>1. ASSUME NEW f \in Executors, Invoke(f, "retrieve"), exec'[f].stage = "done"
            PROVE  FALSE
        <5>1. exec'[e].stage = "resuming" /\ \A g \in Executors \ {e} : exec'[g] = exec[g]
          BY <2>3, AtFields DEF ResumeRead, Resumed, TypeOK
        <5> QED
          BY <4>1, <5>1 DEF Invoke
      <4> QED
        BY <4>1 DEF Retrieves
    <3> HIDE DEF had, has
    <3>8. has <= had + MaxSteps - 1
      BY <2>0, <3>1, <3>4, <3>5, <3>6
    <3> QED
      BY <1>1, <3>7, <3>8
  <2>4. ASSUME \A e \in Executors : ~ResumeRead(e, r) /\ \A k \in Kinds : ~RunResearch(e, r, k)
        PROVE  retrieved'[r] + has <= retrieved[r] + had
    <3>1. Tokens(r)' \in SUBSET Tokens(r)
      <4>1. \A t \in Tokens(r)' : \E f \in Executors, i \in 1..MaxSteps : t = <<f, i>>
        BY DEF Tokens
      <4> QED
        BY <1>0, <2>4, <4>1, TokensStay
    <3>2. CASE retrieved'[r] = retrieved[r]
      <4>1. has <= had /\ has \in Nat
        BY <2>0, <3>1, FS_Subset, FS_CardinalityType
      <4> HIDE DEF had, has
      <4> QED
        BY <2>0, <3>2, <4>1
    <3>3. CASE retrieved'[r] = retrieved[r] + 1 /\ Retrieves(r)
      <4>1. PICK e \in Executors : /\ Execute(e) /\ Invoke(e, "retrieve") /\ exec[e].run = r
                                   /\ exec'[e].stage # "idle"
        BY <1>0, <3>3, RetrievesOne
      <4> DEFINE t == <<e, exec[e].ctx.step + 1>>
      <4>2. t \in Tokens(r)
        <5>1. run[r].kind = "research" /\ exec[e].stage = "ready" /\ exec[e].node = "retrieve"
          BY <3>3, <4>1 DEF Retrieves, Invoke
        <5>2. exec[e].ctx.step \in Nat /\ exec[e].ctx.step < MaxSteps
          BY <5>1, ExecutorFields, ContextFields DEF StepsCounted, StepLeft, TypeOK
        <5> QED
          BY <4>1, <5>1, <5>2 DEF Tokens, WorksOn
      <4>3. t \notin Tokens(r)'
        <5>1. /\ run[exec[e].run].kind = "research"
          BY <3>3, <4>1 DEF Retrieves
        <5>2. exec'[e].ctx.step = exec[e].ctx.step + 1
          BY <1>0, <4>1, <5>1, ExecuteSpends
        <5>3. exec[e].ctx.step \in Nat
          BY ExecutorFields, ContextFields DEF TypeOK
        <5> QED
          BY <5>2, <5>3 DEF Tokens
      <4>4. Tokens(r)' \in SUBSET (Tokens(r) \ {t})
        BY <3>1, <4>3
      <4> HIDE DEF t
      <4>5. /\ IsFiniteSet(Tokens(r) \ {t})
            /\ Cardinality(Tokens(r) \ {t}) = had - 1
        BY <2>0, <4>2, FS_RemoveElement
      <4>6. has <= had - 1 /\ has \in Nat
        BY <4>4, <4>5, FS_Subset, FS_CardinalityType
      <4> HIDE DEF had, has
      <4> QED
        BY <2>0, <3>3, <4>6
    <3> QED
      BY <1>1, <3>2, <3>3
  <2>5. IsFiniteSet(Tokens(r)') /\ has \in Nat
    <3>1. (IsFiniteSet(Tokens(r)) /\ Cardinality(Tokens(r)) \in Nat)'
      BY TokensFinite, PTL
    <3> QED
      BY <3>1
  <2> HIDE DEF had, has
  <2> DEFINE before == resumed[r] * (MaxSteps - 1)
             after == resumed'[r] * (MaxSteps - 1)
  <2>6. /\ before \in Nat /\ after \in Nat /\ before <= after
        /\ resumed'[r] = resumed[r] + 1 => after = before + MaxSteps - 1
    BY <2>1
  <2>7. retrieved[r] + had <= MaxSteps + before
    BY <2>0
  <2> HIDE DEF before, after
  <2>8. retrieved'[r] + has <= MaxSteps + after
    <3>1. CASE \E e \in Executors, k \in Kinds : RunResearch(e, r, k)
      BY <2>2, <2>5, <2>6, <3>1
    <3>2. CASE \E e \in Executors : ResumeRead(e, r)
      BY <1>1, <2>0, <2>3, <2>5, <2>6, <2>7, <3>2
    <3>3. CASE \A e \in Executors : ~ResumeRead(e, r) /\ \A k \in Kinds : ~RunResearch(e, r, k)
      BY <2>0, <2>4, <2>5, <2>6, <2>7, <3>3
    <3> QED
      BY <3>1, <3>2, <3>3
  <2> QED
    BY <2>8 DEF has, after
<1> QED
  BY <1>1, <1>2, <1>3 DEF BudgetInv

\* The retrievals really carried out for a run with a bounded plan: max_steps at most,
\* and max_steps - 1 more for every resume, whatever dies before its checkpoint and
\* however many executors repeat each other's steps.
THEOREM RetrievalBounded ==
    ASSUME IsFiniteSet(Executors) PROVE HistorySpec => []RetrievalsBounded
<1>1. ASSUME Init PROVE StepsCounted
  <2>1. /\ \A e \in Executors : exec[e] = IdleExecutor
        /\ \A r \in Runs : latest[r] = Saved(0, "none", NewContext)
    BY <1>1 DEF Init
  <2>2. IdleExecutor.stage = "idle" /\ IdleExecutor.ctx.step = 0
    BY AtFields DEF IdleExecutor, NewContext, Ctx
  <2>3. /\ Saved(0, "none", NewContext).node = "none"
        /\ Saved(0, "none", NewContext).ctx.step = 0
    BY DEF Saved, NewContext, Ctx
  <2> QED
    BY <2>1, <2>2, <2>3, RuntimeConstants DEF StepsCounted, StepLeft, StepSaved
<1>2. ASSUME HistoryInit PROVE BudgetInv
  <2>1. /\ resumed = [r \in Runs |-> 0] /\ retrieved = [r \in Runs |-> 0]
        /\ \A e \in Executors : exec[e].stage = "idle"
    BY <1>2, NullTypes DEF HistoryInit, Init
  <2>2. ASSUME NEW r \in Runs
        PROVE  retrieved[r] + Cardinality(Tokens(r)) <= MaxSteps + resumed[r] * (MaxSteps - 1)
    <3>1. Tokens(r) = {}
      BY <2>1 DEF Tokens, WorksOn
    <3>2. Cardinality(Tokens(r)) = 0
      BY <3>1, FS_EmptySet
    <3>3. retrieved[r] = 0 /\ resumed[r] = 0
      BY <2>1
    <3> QED
      BY <3>2, <3>3, RuntimeConstants
  <2> QED
    BY <2>1, <2>2 DEF BudgetInv
<1>3. TypeOK /\ ProposalInv /\ StepsCounted /\ [Next]_vars => StepsCounted'
  BY StepsStep DEF ProposalInv
<1>4. /\ TypeOK /\ TypeOK' /\ ProposalInv /\ PathInv /\ StepsCounted /\ BudgetInv
      /\ [HistoryNext]_historyVars
      => BudgetInv'
  BY BudgetStep
<1>5. ASSUME BudgetInv PROVE RetrievalsBounded
  <2> SUFFICES ASSUME NEW r \in Runs
               PROVE  retrieved[r] <= MaxSteps + resumed[r] * (MaxSteps - 1)
    BY DEF RetrievalsBounded
  <2> DEFINE bound == MaxSteps + resumed[r] * (MaxSteps - 1)
             had == Cardinality(Tokens(r))
  <2>1. retrieved[r] + had <= bound /\ retrieved[r] \in Nat /\ had \in Nat
    BY <1>5, TokensFinite DEF BudgetInv
  <2>2. bound \in Int
    BY <1>5, RuntimeConstants DEF BudgetInv
  <2> HIDE DEF bound, had
  <2>3. retrieved[r] <= bound
    BY <2>1, <2>2
  <2> QED
    BY <2>3 DEF bound
<1>6. Spec => []StepsCounted
  BY <1>1, <1>3, Typing, ProposalInvariant, PTL DEF Spec
<1> QED
  BY <1>2, <1>4, <1>5, <1>6, HistoryIsObserved, Typing, ProposalInvariant, PathInvariant, PTL
     DEF HistorySpec
=============================================================================
