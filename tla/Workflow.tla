------------------------------ MODULE Workflow ------------------------------
(***************************************************************************)
(* The workflow graph executor: one durable run and the workflow it        *)
(* carries, with the node states and edge activations that are kept in the *)
(* database, the ready queue that executes nodes in parallel batches, and  *)
(* the users and timers that resume waiting nodes.                         *)
(*                                                                         *)
(* RunLifecycle models how the run is leased; here one worker executes it  *)
(* at a time, and a lease that ends requeues it.  A second workflow run of *)
(* the same run begins only when no timer of the first is left.            *)
(***************************************************************************)
EXTENDS Naturals, FiniteSets

CONSTANTS
  Nodes,          \* node keys, numbered in the order of the keys
  Start,
  Kind,           \* work, ask (ask_user) or timer (wait_timer)
  Routes,         \* the sets of successors an output of the node may match
  MaxAttempts,    \* retry_policy of each node
  Concurrency,    \* nodes of a batch (4)
  MaxExecutions,  \* node executions of one ExecuteGraph (100)
  Budget          \* how often each kind of event may happen

Events == {"crash", "fault", "denial", "cancel", "blind", "early", "refire"}

Successors(n) == UNION Routes[n]

\* validateGraph: the start reaches every node, and there is no cycle.
ValidGraph ==
  \A S \in SUBSET Nodes :
    /\ Start \in S /\ (\A n \in S : Successors(n) \subseteq S) => S = Nodes
    /\ S # {} => \E n \in S : Successors(n) \cap S = {}

ASSUME WorkflowAssumption ==
  /\ Nodes \subseteq Nat /\ IsFiniteSet(Nodes) /\ Start \in Nodes
  /\ Kind \in [Nodes -> {"work", "ask", "timer"}]
  /\ Routes \in [Nodes -> SUBSET SUBSET Nodes]
  /\ \A n \in Nodes : Routes[n] # {}
  /\ ValidGraph
  /\ MaxAttempts \in [Nodes -> Nat \ {0}]
  /\ Concurrency \in Nat \ {0} /\ MaxExecutions \in Nat
  /\ Budget \in [Events -> Nat]

VARIABLES
  run,        \* runs.state; running is any state a lease is held in
  flow,       \* workflow_runs.status
  node,       \* workflow_node_states.status
  attempts,   \* workflow_node_states.attempts
  route,      \* the successors that the node's output matches
  active,     \* workflow_edge_activations
  timers,     \* timer nodes with a scheduler job that is to fire
  pc,         \* the executor: where it is,
  phase,      \* where each node of its batch is,
  executions, \* and how many nodes it has executed
  begun,      \* how often a node was executed (history)
  replies,    \* final messages of the run
  spent       \* events so far

graphVars == <<flow, node, attempts, route, active>>
execVars  == <<pc, phase, executions>>
vars == <<run, graphVars, timers, execVars, begun, replies, spent>>

RunStates == {"queued", "running", "awaiting_user", "completed", "failed", "cancelled"}
Terminal  == {"completed", "failed", "cancelled"}
NodeStates == {"pending", "queued", "running", "awaiting_user", "succeeded", "failed", "skipped"}
Results   == {"done", "awaiting", "retry", "error"}
Phases    == {"none", "todo", "running", "armed"} \cup Results

\* Types; and nodes are in a batch only while the executor executes one.
TypeOK ==
  /\ run \in RunStates
  /\ flow \in {"none", "running", "awaiting_user", "succeeded", "failed"}
  /\ node \in [Nodes -> NodeStates]
  /\ attempts \in [Nodes -> Nat]
  /\ route \in [Nodes -> SUBSET Nodes]
  /\ active \subseteq Nodes \X Nodes
  /\ timers \subseteq Nodes
  /\ pc \in {"idle", "ready", "batch", "suspending", "failing", "answering"}
  /\ phase \in [Nodes -> Phases]
  /\ pc = "batch" <=> \E n \in Nodes : phase[n] # "none"
  /\ executions \in Nat
  /\ begun \in [Nodes -> Nat] /\ replies \in Nat
  /\ spent \in [Events -> Nat]

Blank(x) == [n \in Nodes |-> x]

Init ==
  /\ run = "queued" /\ flow = "none"
  /\ node = Blank("pending") /\ attempts = Blank(0) /\ route = Blank({})
  /\ active = {} /\ timers = {}
  /\ pc = "idle" /\ phase = Blank("none") /\ executions = 0
  /\ begun = Blank(0) /\ replies = 0
  /\ spent = [e \in Events |-> 0]

-----------------------------------------------------------------------------
InState(s) == {n \in Nodes : node[n] = s}

Spend(e) ==
  /\ spent[e] < Budget[e]
  /\ spent' = [spent EXCEPT ![e] = @ + 1]

Leave == pc' = "idle" /\ phase' = Blank("none") /\ executions' = 0

GoTo(p) == pc' = p /\ phase' = Blank("none") /\ UNCHANGED executions

\* Variant: edge conditions are not looked at.
MatchedAnyway(D) == {e \in D \X Nodes : e[2] \in Successors(e[1])}

\* The edges that the outputs of D match.
Matched(D) == {e \in D \X Nodes : e[2] \in route[e[1]]}

\* Every parent that has activated its edge has succeeded, and there is one.
ParentsSatisfied(n) ==
  LET parents == {m \in Nodes : <<m, n>> \in active'} IN
  parents # {} /\ \A m \in parents : node[m] = "succeeded"

\* The outgoing edges of the nodes D, and their targets.
ActivateOutgoing(D) ==
  /\ active' = active \cup Matched(D)
  /\ node' = [n \in Nodes |->
       IF /\ node[n] = "pending" /\ ParentsSatisfied(n)
          /\ \E m \in D : n \in Successors(m)
       THEN "queued" ELSE node[n]]

Aside == <<timers, begun, replies>>

-----------------------------------------------------------------------------
(* ExecuteGraph *)

\* A workflow run under way is continued, otherwise a new one begins; the start
\* is queued unless it has been already.
ExecuteGraph ==
  /\ pc = "idle" /\ run = "queued"
  /\ run' = "running" /\ pc' = "ready" /\ UNCHANGED <<phase, executions>>
  /\ \/ /\ flow \in {"running", "awaiting_user"}
        /\ node' = [node EXCEPT ![Start] = IF @ = "pending" THEN "queued" ELSE @]
        /\ UNCHANGED <<flow, attempts, route, active>>
     \/ /\ flow \in {"none", "succeeded", "failed"} /\ timers = {}
        /\ flow' = "running" /\ node' = [Blank("pending") EXCEPT ![Start] = "queued"]
        /\ attempts' = Blank(0) /\ route' = Blank({}) /\ active' = {}
  /\ UNCHANGED <<Aside, spent>>

\* runReadyQueue reads the node states once and activates again what has
\* succeeded; what that queues is found on the next turn only.
Turn == pc = "ready" /\ ActivateOutgoing(InState("succeeded"))
NothingReady ==
  /\ InState("awaiting_user") = {} /\ InState("queued") = {}
  /\ ~\E n \in InState("pending") : ParentsSatisfied(n)

\* The worker takes the run for suspended; nobody writes so.
FindWaiting ==
  /\ Turn /\ InState("awaiting_user") # {}
  /\ Leave
  /\ UNCHANGED <<run, flow, attempts, route, Aside, spent>>

\* The first of the queued nodes, in the order of their keys.
Ready ==
  {n \in InState("queued") : Cardinality({m \in InState("queued") : m < n}) < Concurrency}

StartBatch ==
  /\ Turn /\ InState("awaiting_user") = {} /\ Ready # {}
  /\ executions + Cardinality(Ready) <= MaxExecutions
  /\ executions' = executions + Cardinality(Ready)
  /\ phase' = [n \in Nodes |-> IF n \in Ready THEN "todo" ELSE "none"]
  /\ pc' = "batch"
  /\ UNCHANGED <<run, flow, attempts, route, Aside, spent>>

ExceedExecutions ==
  /\ Turn /\ InState("awaiting_user") = {}
  /\ executions + Cardinality(Ready) > MaxExecutions
  /\ flow' = "failed"
  /\ GoTo("failing")
  /\ UNCHANGED <<run, attempts, route, Aside, spent>>

\* hasPendingMergeReady: another turn.
TurnAgain ==
  /\ Turn /\ InState("awaiting_user") = {} /\ InState("queued") = {}
  /\ \E n \in InState("pending") : ParentsSatisfied(n)
  /\ UNCHANGED <<run, flow, attempts, route, execVars, Aside, spent>>

FindFailed ==
  /\ Turn /\ NothingReady /\ InState("failed") # {}
  /\ flow' = "failed"
  /\ GoTo("failing")
  /\ UNCHANGED <<run, attempts, route, Aside, spent>>

\* Variant: a node left running counts as ended.
SucceedAnyway ==
  /\ pc = "ready" /\ active' = active \cup Matched(InState("succeeded"))
  /\ NothingReady /\ InState("failed") = {}
  /\ node' = [n \in Nodes |-> IF node[n] = "pending" THEN "skipped" ELSE node[n]]
  /\ flow' = "succeeded"
  /\ GoTo("answering")
  /\ UNCHANGED <<run, attempts, route, Aside, spent>>

\* What is pending still was not routed to.
Succeed ==
  /\ pc = "ready" /\ active' = active \cup Matched(InState("succeeded"))
  /\ NothingReady /\ InState("failed") \cup InState("running") = {}
  /\ node' = [n \in Nodes |-> IF node[n] = "pending" THEN "skipped" ELSE node[n]]
  /\ flow' = "succeeded"
  /\ GoTo("answering")
  /\ UNCHANGED <<run, attempts, route, Aside, spent>>

\* A node that another execution left running is no case of its own.
Stall ==
  /\ Turn /\ NothingReady /\ InState("failed") = {} /\ InState("running") # {}
  /\ GoTo("failing")
  /\ UNCHANGED <<run, flow, attempts, route, Aside, spent>>

-----------------------------------------------------------------------------
(* executeOne, one goroutine for each node of the batch *)

Quiet == <<run, flow, active, pc, executions, replies>>

NodeBecomes(n, status, result) ==
  /\ node' = [node EXCEPT ![n] = status]
  /\ phase' = [phase EXCEPT ![n] = result]

BeginNode(n) ==
  /\ phase[n] = "todo"
  /\ NodeBecomes(n, "running", "running")
  /\ attempts' = [attempts EXCEPT ![n] = @ + 1]
  /\ begun' = [begun EXCEPT ![n] = @ + 1]
  /\ UNCHANGED <<route, timers, spent, Quiet>>

\* The policy refuses the node,
DenyNode(n) ==
  /\ phase[n] = "todo"
  /\ Spend("denial")
  /\ NodeBecomes(n, "failed", "error")
  /\ UNCHANGED <<attempts, route, timers, begun, Quiet>>

\* or its output, which has been written by then.
DenyOutput(n) ==
  /\ phase[n] \in {"done", "awaiting"}
  /\ Spend("denial")
  /\ NodeBecomes(n, "failed", "error")
  /\ UNCHANGED <<attempts, route, timers, begun, Quiet>>

\* executeWaitTimer creates the scheduler job first.
ArmTimer(n) ==
  /\ phase[n] = "running" /\ Kind[n] = "timer"
  /\ timers' = timers \cup {n}
  /\ phase' = [phase EXCEPT ![n] = "armed"]
  /\ UNCHANGED <<node, attempts, route, begun, spent, Quiet>>

CompleteNode(n) ==
  /\ phase[n] = "running" /\ Kind[n] = "work"
  /\ NodeBecomes(n, "succeeded", "done")
  /\ \E R \in Routes[n] : route' = [route EXCEPT ![n] = R]
  /\ UNCHANGED <<attempts, timers, begun, spent, Quiet>>

SuspendNode(n) ==
  /\ phase[n] = "armed" \/ (phase[n] = "running" /\ Kind[n] = "ask")
  /\ NodeBecomes(n, "awaiting_user", "awaiting")
  /\ UNCHANGED <<attempts, route, timers, begun, spent, Quiet>>

FailNode(n) ==
  /\ phase[n] = "running" /\ Kind[n] = "work"
  /\ Spend("fault")
  /\ IF attempts[n] < MaxAttempts[n]
     THEN NodeBecomes(n, "queued", "retry")
     ELSE NodeBecomes(n, "failed", "error")
  /\ UNCHANGED <<attempts, route, timers, begun, Quiet>>

\* The results in the order of the keys, up to the first error or wait; the
\* rest of them is found in the node states later.
Collect ==
  LET batch == {n \in Nodes : phase[n] # "none"}
      stops == {n \in batch : phase[n] \in {"error", "awaiting"}}
  IN
  /\ pc = "batch" /\ \A n \in batch : phase[n] \in Results
  /\ ActivateOutgoing({n \in batch : phase[n] = "done" /\ \A m \in stops : n < m})
  /\ \/ stops = {} /\ GoTo("ready") /\ UNCHANGED flow
     \/ \E first \in stops :
          /\ \A m \in stops : first <= m
          /\ \/ phase[first] = "error" /\ GoTo("failing") /\ flow' = "failed"
             \/ phase[first] = "awaiting" /\ GoTo("suspending") /\ flow' = "awaiting_user"
  /\ UNCHANGED <<run, attempts, route, Aside, spent>>

-----------------------------------------------------------------------------
(* The run *)

Suspend ==
  /\ pc = "suspending"
  /\ run' = "awaiting_user"
  /\ Leave
  /\ UNCHANGED <<graphVars, Aside, spent>>

\* Variant: the run's state is not written.
FailRunQuietly ==
  /\ pc = "failing"
  /\ Leave
  /\ UNCHANGED <<run, graphVars, Aside, spent>>

FailRun ==
  /\ pc = "failing"
  /\ run' = "failed"
  /\ Leave
  /\ UNCHANGED <<graphVars, Aside, spent>>

\* Variant: the completion is left to the next execution.
AnswerUncompleted ==
  /\ pc = "answering"
  /\ replies' = IF run = "running" THEN replies + 1 ELSE replies
  /\ Leave
  /\ UNCHANGED <<run, graphVars, timers, begun, spent>>

\* Context, model and the final message; ensureRunnable stops a run that is no
\* longer running.
Answer ==
  /\ pc = "answering"
  /\ IF run = "running" THEN run' = "completed" /\ replies' = replies + 1
                        ELSE UNCHANGED <<run, replies>>
  /\ Leave
  /\ UNCHANGED <<graphVars, timers, begun, spent>>

-----------------------------------------------------------------------------
(* Users, timers and faults *)

\* Variant: the parent run is not requeued.
ResumeNodeOnly(n) ==
  /\ run = "awaiting_user" /\ node[n] = "awaiting_user" /\ Kind[n] = "ask"
  /\ node' = [node EXCEPT ![n] = "succeeded"]
  /\ \E R \in Routes[n] : route' = [route EXCEPT ![n] = R]
  /\ flow' = "running"
  /\ UNCHANGED <<run, attempts, active, execVars, Aside, spent>>

\* The user's answer, with the workflow run and the node it is for.
ResumeAwaitingUser(n) ==
  /\ run = "awaiting_user" /\ node[n] = "awaiting_user" /\ Kind[n] = "ask"
  /\ node' = [node EXCEPT ![n] = "succeeded"]
  /\ \E R \in Routes[n] : route' = [route EXCEPT ![n] = R]
  /\ flow' = "running" /\ run' = "queued"
  /\ UNCHANGED <<attempts, active, execVars, Aside, spent>>

\* An answer that names no workflow run.
ResumeRun ==
  /\ run = "awaiting_user"
  /\ Spend("blind")
  /\ run' = "queued"
  /\ UNCHANGED <<graphVars, execVars, Aside>>

\* Variant: the parent run is not requeued.
ResumeTimerOnly(n) ==
  /\ n \in timers
  /\ timers' = timers \ {n}
  /\ node' = [node EXCEPT ![n] = "succeeded"]
  /\ \E R \in Routes[n] : route' = [route EXCEPT ![n] = R]
  /\ flow' = "running"
  /\ UNCHANGED <<run, attempts, active, execVars, begun, replies, spent>>

\* The scheduler job fires, whatever the run's state is; early if the execution
\* that armed it still goes on; and again if the scheduler dies before
\* CompleteSchedulerJob.
ResumeWorkflowTimer(n) ==
  /\ n \in timers
  /\ node' = [node EXCEPT ![n] = "succeeded"]
  /\ \E R \in Routes[n] : route' = [route EXCEPT ![n] = R]
  /\ flow' = "running" /\ run' = "queued"
  /\ \/ timers' = timers \ {n} /\ IF pc = "idle" THEN UNCHANGED spent ELSE Spend("early")
     \/ UNCHANGED timers /\ pc = "idle" /\ Spend("refire")
  /\ UNCHANGED <<attempts, active, execVars, begun, replies>>

Cancel ==
  /\ Spend("cancel")
  /\ run' = "cancelled"
  /\ UNCHANGED <<graphVars, execVars, Aside>>

Crash ==
  /\ pc # "idle"
  /\ Spend("crash")
  /\ Leave
  /\ UNCHANGED <<run, graphVars, Aside>>

RecoverExpiredLease ==
  /\ pc = "idle" /\ run = "running"
  /\ run' = "queued"
  /\ UNCHANGED <<graphVars, execVars, Aside, spent>>

-----------------------------------------------------------------------------
ExecutorStep ==
  \/ ExecuteGraph \/ FindWaiting \/ StartBatch \/ ExceedExecutions \/ TurnAgain
  \/ FindFailed \/ Succeed \/ Stall \/ Collect \/ Suspend \/ FailRun \/ Answer
  \/ \E n \in Nodes : \/ BeginNode(n) \/ DenyNode(n) \/ DenyOutput(n) \/ ArmTimer(n)
                      \/ CompleteNode(n) \/ SuspendNode(n) \/ FailNode(n)

Next ==
  \/ ExecutorStep \/ ResumeRun \/ Cancel \/ Crash \/ RecoverExpiredLease
  \/ \E n \in Nodes : ResumeAwaitingUser(n) \/ ResumeWorkflowTimer(n)

Spec == Init /\ [][Next]_vars

\* The worker works, leases end, timers fire, and the user who is asked answers.
Fairness ==
  /\ WF_vars(ExecutorStep) /\ WF_vars(RecoverExpiredLease)
  /\ \A n \in Nodes : WF_vars(ResumeAwaitingUser(n)) /\ WF_vars(ResumeWorkflowTimer(n))

FairSpec == Spec /\ Fairness

-----------------------------------------------------------------------------
(* Properties *)

\* Done for good: the policy may refuse what a batch still holds.
Done == {n \in InState("succeeded") : phase[n] = "none"}

Path == INSTANCE Traversal WITH
          done <- Done,
          route <- [n \in Nodes |-> IF n \in Done THEN route[n] ELSE {}],
          outcome <- IF flow = "succeeded" THEN "finished"
                     ELSE IF flow = "failed" THEN "abandoned" ELSE "open"

\* Through retries, waits, denials, cancellations and crashes, the workflow
\* executes nodes in the order of its edges, each once, and succeeds only when
\* everything that was routed to has succeeded; until a timer fires again, which
\* reopens what was finished.
TraversesGraph ==
  Path!Init /\ [][Path!Next \/ spent["refire"]' > 0]_(Path!vars)

\* And what was not routed to has been skipped.
SkipsTheRest ==
  flow = "succeeded" =>
    \A n \in Nodes : node[n] = IF Path!Reached(n) THEN "succeeded" ELSE "skipped"

\* What makes a workflow that has ended, or is ending, begin again.
Restarts == spent["crash"] + spent["refire"] + spent["early"]

\* Otherwise a node's side effects are repeated by its retry policy only.
BegunPaid == \A n \in Nodes : begun[n] <= MaxAttempts[n] * (1 + Restarts)

\* A suspended run waits for something: one of its nodes has not been resumed.
\* (A timer must not fire while the batch that armed it goes on: the batch would
\* suspend the run over it.)
WaitsForSomething ==
  run = "awaiting_user" /\ spent["early"] = 0 => InState("awaiting_user") # {}

\* A crash, an answer that names no node, or a timer that fires before its node
\* waits may leave a node waiting in a run that nobody can resume.
Disturbed == \E e \in {"crash", "blind", "early"} : spent[e] > 0

\* Otherwise the run ends, when its user answers and its timers fire.
RunEnds == run = "queued" ~> run \in Terminal \/ Disturbed

\* And a node that failed for good fails the run, be it after its siblings'
\* waits (README.md: exhausted retries fail the workflow and the parent run).
FailureReachesRun ==
  \A n \in Nodes : node[n] = "failed" ~> run \in {"failed", "cancelled"} \/ Disturbed

\* Without crashes the run is answered at most once; unless the scheduler dies
\* between the fire of a timer and the completion of its job.
AnsweredOnce == replies <= 1 + spent["crash"] + spent["refire"]

\* Neither nodes nor answers are repeated but for the reasons named.
RepetitionPaid == BegunPaid /\ AnsweredOnce
=============================================================================
