--------------------------- MODULE WorkflowProofs ---------------------------
(***************************************************************************)
(* Theorems about Workflow for every valid graph, every batch size and     *)
(* every budget of crashes, faults, denials, cancellations and timers.     *)
(***************************************************************************)
EXTENDS Workflow, TLAPS, FiniteSetTheorems

\* What a node of the batch has done agrees with the row of its state, but for a
\* timer that fires early.
PhaseFits ==
  \A n \in Nodes :
    /\ phase[n] \in {"todo", "retry"} => node[n] = "queued"
    /\ phase[n] = "running" => node[n] = "running"
    /\ phase[n] = "armed" => node[n] \in {"running", "succeeded"} /\ Kind[n] = "timer"
    /\ phase[n] = "done" => node[n] = "succeeded" /\ Kind[n] = "work"
    /\ phase[n] = "awaiting" => node[n] \in {"awaiting_user", "succeeded"}
    /\ phase[n] = "awaiting" /\ spent["early"] = 0 => node[n] = "awaiting_user"
    /\ phase[n] = "error" => node[n] \in {"failed", "succeeded"}
    /\ node[n] = "succeeded" => route[n] \in Routes[n]

\* A timer that is to fire was armed by this execution of the graph; it has fired
\* before only if it fires again.
TimersFit ==
  \A n \in timers :
    /\ Kind[n] = "timer"
    /\ node[n] \in {"running", "awaiting_user", "succeeded", "failed"}
    /\ phase[n] \notin {"todo", "running"}
    /\ phase[n] # "none" \/ spent["refire"] = 0 => node[n] # "succeeded"

\* The rows of the run and of the workflow run, and where the executor is.
FlowFits ==
  /\ flow = "none" => pc = "idle" /\ \A n \in Nodes : node[n] = "pending" /\ attempts[n] = 0
  /\ flow # "none" => node[Start] \notin {"pending", "skipped"}
  /\ flow = "succeeded" => /\ pc \in {"idle", "answering"}
                           /\ \A n \in Nodes : node[n] \in {"succeeded", "skipped"}
  /\ pc \in {"ready", "batch"} => flow \in {"running", "awaiting_user"}
  /\ pc = "answering" /\ run = "running" => flow = "succeeded"
  /\ pc = "suspending" \/ run = "awaiting_user" => flow \in {"running", "awaiting_user"}
  /\ run = "awaiting_user" => pc = "idle"

\* Before its end a suspension finds what it waits for.
Waiting ==
  spent["early"] = 0 /\ (pc = "suspending" \/ run = "awaiting_user") =>
    InState("awaiting_user") # {}

Walk == TypeOK /\ PhaseFits /\ TimersFit /\ FlowFits /\ Waiting

\* The run has been answered or cancelled over a workflow that has succeeded.
Ended == flow = "succeeded" /\ run \in {"completed", "cancelled"} /\ pc = "idle"

\* The timers that will fire once more.
Fired == {n \in timers : node[n] = "succeeded"}

AnswersPaid ==
  replies + Cardinality(Fired) + (IF Ended THEN 0 ELSE 1) <= 1 + spent["refire"]

\* A queued or crashed run whose workflow is over will begin it again.
BeginsAgain ==
  \/ run = "queued" /\ pc # "idle"
  \/ flow \in {"succeeded", "failed"} /\ pc = "idle" /\ run \in {"queued", "running"}

Owed == IF BeginsAgain THEN 1 ELSE 0

\* The attempts of the executions of the graph that are over, each paid for, and
\* those of this one.
AttemptsPaid ==
  /\ Owed <= Restarts
  /\ \A n \in Nodes :
       /\ attempts[n] <= MaxAttempts[n]
       /\ node[n] = "queued" => attempts[n] < MaxAttempts[n]
       /\ node[n] = "pending" => attempts[n] = 0
       /\ begun[n] <= MaxAttempts[n] * (Restarts - Owed) + attempts[n]

\* What a timer puts out does not change when it fires again: its job and the
\* time it was due.
TimersFixed == \A n \in Nodes : Kind[n] = "timer" => \A R, S \in Routes[n] : R = S

\* A node is executed only if it is routed to, and skipped only if it is not.
Arrived(n) == n = Start \/ \E m \in Done : n \in route[m]

Paths ==
  /\ \A e \in active : e[1] \in Done /\ e[2] \in route[e[1]]
  /\ \A n \in Nodes : node[n] \notin {"pending", "skipped"} => Arrived(n)
  /\ \A n \in Nodes : node[n] = "skipped" =>
       ~Arrived(n) /\ \A m \in Nodes : m \in Done \/ node[m] = "skipped"

Routed == spent["refire"] = 0 \/ TimersFixed => Paths
-----------------------------------------------------------------------------
USE DEF graphVars, execVars, Aside, Quiet, Blank, InState, Events, RunStates, Terminal,
        NodeStates, Results, Phases

\* Activating edges queues some of the nodes that are pending, and nothing else.
LEMMA Activated ==
  ASSUME TypeOK, NEW D, ActivateOutgoing(D)
  PROVE  /\ node' \in [Nodes -> NodeStates]
         /\ \A n \in Nodes : \/ node'[n] = node[n]
                             \/ node[n] = "pending" /\ node'[n] = "queued"
  BY DEF TypeOK, ActivateOutgoing

\* Between batches no node is in one.
LEMMA OutOfBatch ==
  ASSUME TypeOK, pc # "batch"
  PROVE  \A n \in Nodes : phase[n] = "none"
  BY DEF TypeOK

\* Every step keeps the rows of nodes and run consistent with the executor.
THEOREM WalkKept == Spec => []Walk
<1> USE WorkflowAssumption
<1>1. Init => Walk
  BY DEF Init, Walk, TypeOK, PhaseFits, TimersFit, FlowFits, Waiting
<1>2. Walk /\ [Next]_vars => Walk'
  <2> SUFFICES ASSUME TypeOK, PhaseFits, TimersFit, FlowFits, Waiting, [Next]_vars
               PROVE  Walk'
    BY DEF Walk
  <2>1. CASE ExecuteGraph
    <3>1. TypeOK'
      BY <2>1 DEF TypeOK, ExecuteGraph
    <3>2. PhaseFits'
      BY <2>1 DEF TypeOK, PhaseFits, ExecuteGraph
    <3>3. TimersFit'
      BY <2>1 DEF TypeOK, PhaseFits, TimersFit, ExecuteGraph
    <3>4. FlowFits'
      BY <2>1 DEF TypeOK, PhaseFits, TimersFit, FlowFits, ExecuteGraph
    <3>5. Waiting'
      BY <2>1 DEF TypeOK, PhaseFits, FlowFits, Waiting, ExecuteGraph
    <3> QED
      BY <3>1, <3>2, <3>3, <3>4, <3>5 DEF Walk
  <2>2. CASE FindWaiting
    <3>a. /\ pc = "ready" /\ active' = active \cup Matched(InState("succeeded"))
          /\ node' \in [Nodes -> NodeStates]
          /\ \A n \in Nodes : \/ node'[n] = node[n]
                              \/ node[n] = "pending" /\ node'[n] = "queued"
      BY <2>2, Activated DEF FindWaiting, Turn, ActivateOutgoing
    <3>b. active' \subseteq Nodes \X Nodes
      BY <3>a DEF TypeOK, Matched
    <3>c. \A n \in Nodes : phase[n] = "none"
      BY <3>a, OutOfBatch
    <3>1. TypeOK'
      BY <2>2, <3>a, <3>b, <3>c DEF TypeOK, FindWaiting, Leave
    <3>2. PhaseFits'
      BY <2>2, <3>a, <3>b, <3>c DEF TypeOK, PhaseFits, FindWaiting, Leave
    <3>3. TimersFit'
      BY <2>2, <3>a, <3>b, <3>c DEF TypeOK, PhaseFits, TimersFit, FindWaiting, Leave
    <3>4. FlowFits'
      BY <2>2, <3>a, <3>b, <3>c DEF TypeOK, PhaseFits, TimersFit, FlowFits, FindWaiting, Leave
    <3>5. Waiting'
      BY <2>2, <3>a, <3>b, <3>c DEF TypeOK, PhaseFits, FlowFits, Waiting, FindWaiting, Leave
    <3> QED
      BY <3>1, <3>2, <3>3, <3>4, <3>5 DEF Walk
  <2>3. CASE StartBatch
    <3>a. /\ pc = "ready" /\ active' = active \cup Matched(InState("succeeded"))
          /\ node' \in [Nodes -> NodeStates]
          /\ \A n \in Nodes : \/ node'[n] = node[n]
                              \/ node[n] = "pending" /\ node'[n] = "queued"
      BY <2>3, Activated DEF StartBatch, Turn, ActivateOutgoing
    <3>b. active' \subseteq Nodes \X Nodes
      BY <3>a DEF TypeOK, Matched
    <3>c. \A n \in Nodes : phase[n] = "none"
      BY <3>a, OutOfBatch
    <3>1. TypeOK'
      <4>1. Ready \subseteq Nodes /\ Ready # {}
        BY <2>3 DEF StartBatch, Ready
      <4>2. Cardinality(Ready) \in Nat
        BY <4>1, FS_Subset, FS_CardinalityType
      <4>3. executions' \in Nat /\ phase' \in [Nodes -> Phases] /\ pc' = "batch"
        BY <2>3, <4>2 DEF TypeOK, StartBatch
      <4>4. \E n \in Nodes : phase'[n] # "none"
        BY <2>3, <4>1 DEF StartBatch
      <4> QED
        BY <2>3, <3>a, <3>b, <4>3, <4>4 DEF TypeOK, StartBatch
    <3>2. PhaseFits'
      BY <2>3, <3>a, <3>b, <3>c DEF TypeOK, PhaseFits, StartBatch, Ready
    <3>3. TimersFit'
      BY <2>3, <3>a, <3>b, <3>c DEF TypeOK, PhaseFits, TimersFit, StartBatch, Ready
    <3>4. FlowFits'
      BY <2>3, <3>a, <3>b, <3>c DEF TypeOK, PhaseFits, TimersFit, FlowFits, StartBatch, Ready
    <3>5. Waiting'
      BY <2>3, <3>a, <3>b, <3>c DEF TypeOK, PhaseFits, FlowFits, Waiting, StartBatch, Ready
    <3> QED
      BY <3>1, <3>2, <3>3, <3>4, <3>5 DEF Walk
  <2>4. CASE ExceedExecutions
    <3>a. /\ pc = "ready" /\ active' = active \cup Matched(InState("succeeded"))
          /\ node' \in [Nodes -> NodeStates]
          /\ \A n \in Nodes : \/ node'[n] = node[n]
                              \/ node[n] = "pending" /\ node'[n] = "queued"
      BY <2>4, Activated DEF ExceedExecutions, Turn, ActivateOutgoing
    <3>b. active' \subseteq Nodes \X Nodes
      BY <3>a DEF TypeOK, Matched
    <3>c. \A n \in Nodes : phase[n] = "none"
      BY <3>a, OutOfBatch
    <3>1. TypeOK'
      BY <2>4, <3>a, <3>b, <3>c DEF TypeOK, ExceedExecutions, GoTo
    <3>2. PhaseFits'
      BY <2>4, <3>a, <3>b, <3>c DEF TypeOK, PhaseFits, ExceedExecutions, GoTo
    <3>3. TimersFit'
      BY <2>4, <3>a, <3>b, <3>c DEF TypeOK, PhaseFits, TimersFit, ExceedExecutions, GoTo
    <3>4. FlowFits'
      BY <2>4, <3>a, <3>b, <3>c DEF TypeOK, PhaseFits, TimersFit, FlowFits, ExceedExecutions, GoTo
    <3>5. Waiting'
      BY <2>4, <3>a, <3>b, <3>c DEF TypeOK, PhaseFits, FlowFits, Waiting, ExceedExecutions, GoTo
    <3> QED
      BY <3>1, <3>2, <3>3, <3>4, <3>5 DEF Walk
  <2>5. CASE TurnAgain
    <3>a. /\ pc = "ready" /\ active' = active \cup Matched(InState("succeeded"))
          /\ node' \in [Nodes -> NodeStates]
          /\ \A n \in Nodes : \/ node'[n] = node[n]
                              \/ node[n] = "pending" /\ node'[n] = "queued"
      BY <2>5, Activated DEF TurnAgain, Turn, ActivateOutgoing
    <3>b. active' \subseteq Nodes \X Nodes
      BY <3>a DEF TypeOK, Matched
    <3>c. \A n \in Nodes : phase[n] = "none"
      BY <3>a, OutOfBatch
    <3>1. TypeOK'
      BY <2>5, <3>a, <3>b, <3>c DEF TypeOK, TurnAgain
    <3>2. PhaseFits'
      BY <2>5, <3>a, <3>b, <3>c DEF TypeOK, PhaseFits, TurnAgain
    <3>3. TimersFit'
      BY <2>5, <3>a, <3>b, <3>c DEF TypeOK, PhaseFits, TimersFit, TurnAgain
    <3>4. FlowFits'
      BY <2>5, <3>a, <3>b, <3>c DEF TypeOK, PhaseFits, TimersFit, FlowFits, TurnAgain
    <3>5. Waiting'
      BY <2>5, <3>a, <3>b, <3>c DEF TypeOK, PhaseFits, FlowFits, Waiting, TurnAgain
    <3> QED
      BY <3>1, <3>2, <3>3, <3>4, <3>5 DEF Walk
  <2>6. CASE FindFailed
    <3>a. /\ pc = "ready" /\ active' = active \cup Matched(InState("succeeded"))
          /\ node' \in [Nodes -> NodeStates]
          /\ \A n \in Nodes : \/ node'[n] = node[n]
                              \/ node[n] = "pending" /\ node'[n] = "queued"
      BY <2>6, Activated DEF FindFailed, Turn, ActivateOutgoing
    <3>b. active' \subseteq Nodes \X Nodes
      BY <3>a DEF TypeOK, Matched
    <3>c. \A n \in Nodes : phase[n] = "none"
      BY <3>a, OutOfBatch
    <3>1. TypeOK'
      BY <2>6, <3>a, <3>b, <3>c DEF TypeOK, FindFailed, GoTo
    <3>2. PhaseFits'
      BY <2>6, <3>a, <3>b, <3>c DEF TypeOK, PhaseFits, FindFailed, GoTo
    <3>3. TimersFit'
      BY <2>6, <3>a, <3>b, <3>c DEF TypeOK, PhaseFits, TimersFit, FindFailed, GoTo
    <3>4. FlowFits'
      BY <2>6, <3>a, <3>b, <3>c DEF TypeOK, PhaseFits, TimersFit, FlowFits, FindFailed, GoTo
    <3>5. Waiting'
      BY <2>6, <3>a, <3>b, <3>c DEF TypeOK, PhaseFits, FlowFits, Waiting, FindFailed, GoTo
    <3> QED
      BY <3>1, <3>2, <3>3, <3>4, <3>5 DEF Walk
  <2>7. CASE Succeed
    <3>a. active' \subseteq Nodes \X Nodes
      BY <2>7 DEF TypeOK, Succeed, Matched
    <3>b. node' \in [Nodes -> NodeStates]
      BY <2>7 DEF TypeOK, Succeed
    <3>c. \A n \in Nodes : phase[n] = "none"
      BY <2>7, OutOfBatch DEF Succeed
    <3>1. TypeOK'
      BY <2>7, <3>a, <3>b, <3>c DEF TypeOK, Succeed, NothingReady, GoTo
    <3>2. PhaseFits'
      BY <2>7, <3>a, <3>b, <3>c DEF TypeOK, PhaseFits, Succeed, NothingReady, GoTo
    <3>3. TimersFit'
      BY <2>7, <3>a, <3>b, <3>c DEF TypeOK, PhaseFits, TimersFit, Succeed, NothingReady, GoTo
    <3>4. FlowFits'
      BY <2>7, <3>a, <3>b, <3>c DEF TypeOK, PhaseFits, TimersFit, FlowFits, Succeed, NothingReady, GoTo
    <3>5. Waiting'
      BY <2>7, <3>a, <3>b, <3>c DEF TypeOK, PhaseFits, FlowFits, Waiting, Succeed, NothingReady, GoTo
    <3> QED
      BY <3>1, <3>2, <3>3, <3>4, <3>5 DEF Walk
  <2>8. CASE Stall
    <3>a. /\ pc = "ready" /\ active' = active \cup Matched(InState("succeeded"))
          /\ node' \in [Nodes -> NodeStates]
          /\ \A n \in Nodes : \/ node'[n] = node[n]
                              \/ node[n] = "pending" /\ node'[n] = "queued"
      BY <2>8, Activated DEF Stall, Turn, ActivateOutgoing
    <3>b. active' \subseteq Nodes \X Nodes
      BY <3>a DEF TypeOK, Matched
    <3>c. \A n \in Nodes : phase[n] = "none"
      BY <3>a, OutOfBatch
    <3>1. TypeOK'
      BY <2>8, <3>a, <3>b, <3>c DEF TypeOK, Stall, GoTo
    <3>2. PhaseFits'
      BY <2>8, <3>a, <3>b, <3>c DEF TypeOK, PhaseFits, Stall, GoTo
    <3>3. TimersFit'
      BY <2>8, <3>a, <3>b, <3>c DEF TypeOK, PhaseFits, TimersFit, Stall, GoTo
    <3>4. FlowFits'
      BY <2>8, <3>a, <3>b, <3>c DEF TypeOK, PhaseFits, TimersFit, FlowFits, Stall, GoTo
    <3>5. Waiting'
      BY <2>8, <3>a, <3>b, <3>c DEF TypeOK, PhaseFits, FlowFits, Waiting, Stall, GoTo
    <3> QED
      BY <3>1, <3>2, <3>3, <3>4, <3>5 DEF Walk
  <2>9. CASE Collect
    <3> DEFINE batch == {n \in Nodes : phase[n] # "none"}
               stops == {n \in batch : phase[n] \in {"error", "awaiting"}}
               D == {n \in batch : phase[n] = "done" /\ \A m \in stops : n < m}
    <3>a. /\ pc = "batch" /\ \A n \in Nodes : phase[n] \in Results \cup {"none"}
          /\ ActivateOutgoing(D)
          /\ phase' = [n \in Nodes |-> "none"]
          /\ UNCHANGED <<run, attempts, route, Aside, spent, executions>>
      BY <2>9 DEF Collect, GoTo, TypeOK
    <3>b. \/ pc' = "ready" /\ flow' = flow
          \/ pc' = "failing" /\ flow' = "failed"
          \/ /\ pc' = "suspending" /\ flow' = "awaiting_user"
             /\ \E n \in Nodes : phase[n] = "awaiting"
      BY <2>9 DEF Collect, GoTo
    <3>c. /\ node' \in [Nodes -> NodeStates]
          /\ \A n \in Nodes : \/ node'[n] = node[n]
                              \/ node[n] = "pending" /\ node'[n] = "queued"
      BY <3>a, Activated, Zenon
    <3>d. active' = active \cup Matched(D)
      BY <3>a DEF ActivateOutgoing
    <3>e. active' \subseteq Nodes \X Nodes
      BY <3>d DEF TypeOK, Matched
    <3> HIDE DEF batch, stops, D
    <3>1. TypeOK'
      BY <3>a, <3>b, <3>c, <3>e DEF TypeOK
    <3>2. PhaseFits'
      BY <3>a, <3>b, <3>c, <3>e DEF TypeOK, PhaseFits
    <3>3. TimersFit'
      BY <3>a, <3>b, <3>c, <3>e DEF TypeOK, PhaseFits, TimersFit
    <3>4. FlowFits'
      BY <3>a, <3>b, <3>c, <3>e DEF TypeOK, PhaseFits, TimersFit, FlowFits
    <3>5. Waiting'
      BY <3>a, <3>b, <3>c, <3>e DEF TypeOK, PhaseFits, FlowFits, Waiting
    <3> QED
      BY <3>1, <3>2, <3>3, <3>4, <3>5 DEF Walk
  <2>10. CASE Suspend
    <3>1. TypeOK'
      BY <2>10 DEF TypeOK, Suspend, Leave
    <3>2. PhaseFits'
      BY <2>10 DEF TypeOK, PhaseFits, Suspend, Leave
    <3>3. TimersFit'
      BY <2>10 DEF TypeOK, PhaseFits, TimersFit, Suspend, Leave
    <3>4. FlowFits'
      BY <2>10 DEF TypeOK, PhaseFits, TimersFit, FlowFits, Suspend, Leave
    <3>5. Waiting'
      BY <2>10 DEF TypeOK, PhaseFits, FlowFits, Waiting, Suspend, Leave
    <3> QED
      BY <3>1, <3>2, <3>3, <3>4, <3>5 DEF Walk
  <2>11. CASE FailRun
    <3>1. TypeOK'
      BY <2>11 DEF TypeOK, FailRun, Leave
    <3>2. PhaseFits'
      BY <2>11 DEF TypeOK, PhaseFits, FailRun, Leave
    <3>3. TimersFit'
      BY <2>11 DEF TypeOK, PhaseFits, TimersFit, FailRun, Leave
    <3>4. FlowFits'
      BY <2>11 DEF TypeOK, PhaseFits, TimersFit, FlowFits, FailRun, Leave
    <3>5. Waiting'
      BY <2>11 DEF TypeOK, PhaseFits, FlowFits, Waiting, FailRun, Leave
    <3> QED
      BY <3>1, <3>2, <3>3, <3>4, <3>5 DEF Walk
  <2>12. CASE Answer
    <3>1. TypeOK'
      BY <2>12 DEF TypeOK, Answer, Leave
    <3>2. PhaseFits'
      BY <2>12 DEF TypeOK, PhaseFits, Answer, Leave
    <3>3. TimersFit'
      BY <2>12 DEF TypeOK, PhaseFits, TimersFit, Answer, Leave
    <3>4. FlowFits'
      BY <2>12 DEF TypeOK, PhaseFits, TimersFit, FlowFits, Answer, Leave
    <3>5. Waiting'
      BY <2>12 DEF TypeOK, PhaseFits, FlowFits, Waiting, Answer, Leave
    <3> QED
      BY <3>1, <3>2, <3>3, <3>4, <3>5 DEF Walk
  <2>13. ASSUME NEW n \in Nodes, BeginNode(n) PROVE Walk'
    <3>1. TypeOK'
      BY <2>13 DEF TypeOK, BeginNode, NodeBecomes
    <3>2. PhaseFits'
      BY <2>13 DEF TypeOK, PhaseFits, BeginNode, NodeBecomes
    <3>3. TimersFit'
      BY <2>13 DEF TypeOK, PhaseFits, TimersFit, BeginNode, NodeBecomes
    <3>4. FlowFits'
      BY <2>13 DEF TypeOK, PhaseFits, TimersFit, FlowFits, BeginNode, NodeBecomes
    <3>5. Waiting'
      BY <2>13 DEF TypeOK, PhaseFits, FlowFits, Waiting, BeginNode, NodeBecomes
    <3> QED
      BY <3>1, <3>2, <3>3, <3>4, <3>5 DEF Walk
  <2>14. ASSUME NEW n \in Nodes, DenyNode(n) PROVE Walk'
    <3>1. TypeOK'
      BY <2>14 DEF TypeOK, DenyNode, NodeBecomes, Spend
    <3>2. PhaseFits'
      BY <2>14 DEF TypeOK, PhaseFits, DenyNode, NodeBecomes, Spend
    <3>3. TimersFit'
      BY <2>14 DEF TypeOK, PhaseFits, TimersFit, DenyNode, NodeBecomes, Spend
    <3>4. FlowFits'
      BY <2>14 DEF TypeOK, PhaseFits, TimersFit, FlowFits, DenyNode, NodeBecomes, Spend
    <3>5. Waiting'
      BY <2>14 DEF TypeOK, PhaseFits, FlowFits, Waiting, DenyNode, NodeBecomes, Spend
    <3> QED
      BY <3>1, <3>2, <3>3, <3>4, <3>5 DEF Walk
  <2>15. ASSUME NEW n \in Nodes, DenyOutput(n) PROVE Walk'
    <3>1. TypeOK'
      BY <2>15 DEF TypeOK, DenyOutput, NodeBecomes, Spend
    <3>2. PhaseFits'
      BY <2>15 DEF TypeOK, PhaseFits, DenyOutput, NodeBecomes, Spend
    <3>3. TimersFit'
      BY <2>15 DEF TypeOK, PhaseFits, TimersFit, DenyOutput, NodeBecomes, Spend
    <3>4. FlowFits'
      BY <2>15 DEF TypeOK, PhaseFits, TimersFit, FlowFits, DenyOutput, NodeBecomes, Spend
    <3>5. Waiting'
      BY <2>15 DEF TypeOK, PhaseFits, FlowFits, Waiting, DenyOutput, NodeBecomes, Spend
    <3> QED
      BY <3>1, <3>2, <3>3, <3>4, <3>5 DEF Walk
  <2>16. ASSUME NEW n \in Nodes, ArmTimer(n) PROVE Walk'
    <3>1. TypeOK'
      BY <2>16 DEF TypeOK, ArmTimer
    <3>2. PhaseFits'
      BY <2>16 DEF TypeOK, PhaseFits, ArmTimer
    <3>3. TimersFit'
      BY <2>16 DEF TypeOK, PhaseFits, TimersFit, ArmTimer
    <3>4. FlowFits'
      BY <2>16 DEF TypeOK, PhaseFits, TimersFit, FlowFits, ArmTimer
    <3>5. Waiting'
      BY <2>16 DEF TypeOK, PhaseFits, FlowFits, Waiting, ArmTimer
    <3> QED
      BY <3>1, <3>2, <3>3, <3>4, <3>5 DEF Walk
  <2>17. ASSUME NEW n \in Nodes, CompleteNode(n) PROVE Walk'
    <3>1. TypeOK'
      BY <2>17 DEF TypeOK, CompleteNode, NodeBecomes
    <3>2. PhaseFits'
      BY <2>17 DEF TypeOK, PhaseFits, CompleteNode, NodeBecomes
    <3>3. TimersFit'
      BY <2>17 DEF TypeOK, PhaseFits, TimersFit, CompleteNode, NodeBecomes
    <3>4. FlowFits'
      BY <2>17 DEF TypeOK, PhaseFits, TimersFit, FlowFits, CompleteNode, NodeBecomes
    <3>5. Waiting'
      BY <2>17 DEF TypeOK, PhaseFits, FlowFits, Waiting, CompleteNode, NodeBecomes
    <3> QED
      BY <3>1, <3>2, <3>3, <3>4, <3>5 DEF Walk
  <2>18. ASSUME NEW n \in Nodes, SuspendNode(n) PROVE Walk'
    <3>1. TypeOK'
      BY <2>18 DEF TypeOK, SuspendNode, NodeBecomes
    <3>2. PhaseFits'
      BY <2>18 DEF TypeOK, PhaseFits, SuspendNode, NodeBecomes
    <3>3. TimersFit'
      BY <2>18 DEF TypeOK, PhaseFits, TimersFit, SuspendNode, NodeBecomes
    <3>4. FlowFits'
      BY <2>18 DEF TypeOK, PhaseFits, TimersFit, FlowFits, SuspendNode, NodeBecomes
    <3>5. Waiting'
      BY <2>18 DEF TypeOK, PhaseFits, FlowFits, Waiting, SuspendNode, NodeBecomes
    <3> QED
      BY <3>1, <3>2, <3>3, <3>4, <3>5 DEF Walk
  <2>19. ASSUME NEW n \in Nodes, FailNode(n) PROVE Walk'
    <3>1. TypeOK'
      BY <2>19 DEF TypeOK, FailNode, NodeBecomes, Spend
    <3>2. PhaseFits'
      BY <2>19 DEF TypeOK, PhaseFits, FailNode, NodeBecomes, Spend
    <3>3. TimersFit'
      BY <2>19 DEF TypeOK, PhaseFits, TimersFit, FailNode, NodeBecomes, Spend
    <3>4. FlowFits'
      BY <2>19 DEF TypeOK, PhaseFits, TimersFit, FlowFits, FailNode, NodeBecomes, Spend
    <3>5. Waiting'
      BY <2>19 DEF TypeOK, PhaseFits, FlowFits, Waiting, FailNode, NodeBecomes, Spend
    <3> QED
      BY <3>1, <3>2, <3>3, <3>4, <3>5 DEF Walk
  <2>20. CASE ResumeRun
    <3>1. TypeOK'
      BY <2>20 DEF TypeOK, ResumeRun, Spend
    <3>2. PhaseFits'
      BY <2>20 DEF TypeOK, PhaseFits, ResumeRun, Spend
    <3>3. TimersFit'
      BY <2>20 DEF TypeOK, PhaseFits, TimersFit, ResumeRun, Spend
    <3>4. FlowFits'
      BY <2>20 DEF TypeOK, PhaseFits, TimersFit, FlowFits, ResumeRun, Spend
    <3>5. Waiting'
      BY <2>20 DEF TypeOK, PhaseFits, FlowFits, Waiting, ResumeRun, Spend
    <3> QED
      BY <3>1, <3>2, <3>3, <3>4, <3>5 DEF Walk
  <2>21. CASE Cancel
    <3>1. TypeOK'
      BY <2>21 DEF TypeOK, Cancel, Spend
    <3>2. PhaseFits'
      BY <2>21 DEF TypeOK, PhaseFits, Cancel, Spend
    <3>3. TimersFit'
      BY <2>21 DEF TypeOK, PhaseFits, TimersFit, Cancel, Spend
    <3>4. FlowFits'
      BY <2>21 DEF TypeOK, PhaseFits, TimersFit, FlowFits, Cancel, Spend
    <3>5. Waiting'
      BY <2>21 DEF TypeOK, PhaseFits, FlowFits, Waiting, Cancel, Spend
    <3> QED
      BY <3>1, <3>2, <3>3, <3>4, <3>5 DEF Walk
  <2>22. CASE Crash
    <3>1. TypeOK'
      BY <2>22 DEF TypeOK, Crash, Spend, Leave
    <3>2. PhaseFits'
      BY <2>22 DEF TypeOK, PhaseFits, Crash, Spend, Leave
    <3>3. TimersFit'
      BY <2>22 DEF TypeOK, PhaseFits, TimersFit, Crash, Spend, Leave
    <3>4. FlowFits'
      BY <2>22 DEF TypeOK, PhaseFits, TimersFit, FlowFits, Crash, Spend, Leave
    <3>5. Waiting'
      BY <2>22 DEF TypeOK, PhaseFits, FlowFits, Waiting, Crash, Spend, Leave
    <3> QED
      BY <3>1, <3>2, <3>3, <3>4, <3>5 DEF Walk
  <2>23. CASE RecoverExpiredLease
    <3>1. TypeOK'
      BY <2>23 DEF TypeOK, RecoverExpiredLease
    <3>2. PhaseFits'
      BY <2>23 DEF TypeOK, PhaseFits, RecoverExpiredLease
    <3>3. TimersFit'
      BY <2>23 DEF TypeOK, PhaseFits, TimersFit, RecoverExpiredLease
    <3>4. FlowFits'
      BY <2>23 DEF TypeOK, PhaseFits, TimersFit, FlowFits, RecoverExpiredLease
    <3>5. Waiting'
      BY <2>23 DEF TypeOK, PhaseFits, FlowFits, Waiting, RecoverExpiredLease
    <3> QED
      BY <3>1, <3>2, <3>3, <3>4, <3>5 DEF Walk
  <2>24. ASSUME NEW n \in Nodes, ResumeAwaitingUser(n) PROVE Walk'
    <3>a. PICK R \in Routes[n] : route' = [route EXCEPT ![n] = R]
      BY <2>24 DEF ResumeAwaitingUser
    <3>b. R \subseteq Nodes
      BY <3>a
    <3>c. pc = "idle" /\ \A m \in Nodes : phase[m] = "none"
      BY <2>24, OutOfBatch DEF FlowFits, ResumeAwaitingUser
    <3>1. TypeOK'
      BY <2>24, <3>a, <3>b, <3>c DEF TypeOK, ResumeAwaitingUser
    <3>2. PhaseFits'
      BY <2>24, <3>a, <3>b, <3>c DEF TypeOK, PhaseFits, ResumeAwaitingUser
    <3>3. TimersFit'
      BY <2>24, <3>a, <3>b, <3>c DEF TypeOK, PhaseFits, TimersFit, ResumeAwaitingUser
    <3>4. FlowFits'
      BY <2>24, <3>a, <3>b, <3>c DEF TypeOK, PhaseFits, TimersFit, FlowFits, ResumeAwaitingUser
    <3>5. Waiting'
      BY <2>24, <3>a, <3>b, <3>c DEF TypeOK, PhaseFits, FlowFits, Waiting, ResumeAwaitingUser
    <3> QED
      BY <3>1, <3>2, <3>3, <3>4, <3>5 DEF Walk
  <2>25. ASSUME NEW n \in Nodes, ResumeWorkflowTimer(n) PROVE Walk'
    <3>a. PICK R \in Routes[n] : route' = [route EXCEPT ![n] = R]
      BY <2>25 DEF ResumeWorkflowTimer
    <3>b. R \subseteq Nodes
      BY <3>a
    <3>c. /\ n \in timers /\ node' = [node EXCEPT ![n] = "succeeded"]
          /\ flow' = "running" /\ run' = "queued"
          /\ UNCHANGED <<attempts, active, execVars, begun, replies>>
      BY <2>25 DEF ResumeWorkflowTimer
    <3>d. \/ timers' = timers \ {n} /\ pc = "idle" /\ spent' = spent
          \/ timers' = timers \ {n} /\ spent' = [spent EXCEPT !["early"] = @ + 1]
          \/ timers' = timers /\ pc = "idle" /\ spent' = [spent EXCEPT !["refire"] = @ + 1]
      BY <2>25 DEF ResumeWorkflowTimer, Spend
    <3>e. spent' \in [Events -> Nat] /\ spent'["early"] >= spent["early"]
          /\ (spent'["early"] = spent["early"] => pc = "idle")
      BY <3>d DEF TypeOK
    <3>f. pc = "idle" => \A m \in Nodes : phase[m] = "none"
      BY OutOfBatch
    <3>1. TypeOK'
      BY <3>a, <3>b, <3>c, <3>d, <3>e, <3>f DEF TypeOK
    <3>2. PhaseFits'
      <4>1. phase[n] # "none" => spent'["early"] # 0
        BY <3>d, <3>f DEF TypeOK
      <4>2. phase[n] \notin {"todo", "retry", "running"}
        BY <3>c DEF PhaseFits, TimersFit
      <4>3. \A m \in Nodes : m # n => node'[m] = node[m] /\ route'[m] = route[m]
        BY <3>a, <3>c DEF TypeOK
      <4>4. node'[n] = "succeeded" /\ route'[n] \in Routes[n] /\ phase' = phase
        BY <3>a, <3>c DEF TypeOK
      <4>5. spent'["early"] = 0 => spent["early"] = 0
        BY <3>d DEF TypeOK
      <4> SUFFICES ASSUME NEW m \in Nodes, PhaseFits!(m) PROVE PhaseFits!(m)'
        BY DEF PhaseFits
      <4>6. CASE m = n
        BY <4>1, <4>2, <4>4, <4>6
      <4>7. CASE m # n
        BY <4>3, <4>4, <4>5, <4>7
      <4> QED
        BY <4>6, <4>7
    <3>3. TimersFit'
      <4>1. ASSUME timers' = timers \ {n},
                   spent' = spent \/ spent' = [spent EXCEPT !["early"] = @ + 1]
            PROVE  TimersFit'
        BY <3>c, <4>1 DEF TypeOK, TimersFit
      <4>2. CASE timers' = timers /\ pc = "idle" /\ spent'["refire"] # 0
        BY <3>c, <3>f, <4>2 DEF TypeOK, TimersFit
      <4>3. ASSUME timers' = timers, pc = "idle", spent' = [spent EXCEPT !["refire"] = @ + 1]
            PROVE  spent'["refire"] # 0
        <5>1. "refire" \in Events /\ spent["refire"] \in Nat
          BY DEF TypeOK
        <5> QED
          BY <4>3, <5>1 DEF TypeOK
      <4> QED
        BY <3>d, <4>1, <4>2, <4>3
    <3>4. FlowFits'
      BY <3>a, <3>b, <3>c, <3>d, <3>e, <3>f DEF TypeOK, PhaseFits, TimersFit, FlowFits
    <3>5. Waiting'
      BY <3>a, <3>b, <3>c, <3>d, <3>e, <3>f DEF TypeOK, PhaseFits, FlowFits, Waiting
    <3> QED
      BY <3>1, <3>2, <3>3, <3>4, <3>5 DEF Walk
  <2>26. CASE UNCHANGED vars
    BY <2>26 DEF vars, Walk, TypeOK, PhaseFits, TimersFit, FlowFits, Waiting
  <2> QED
    BY <2>1, <2>2, <2>3, <2>4, <2>5, <2>6, <2>7, <2>8, <2>9, <2>10, <2>11, <2>12, <2>13, <2>14, <2>15, <2>16, <2>17, <2>18, <2>19, <2>20, <2>21, <2>22, <2>23, <2>24, <2>25, <2>26
       DEF Next, ExecutorStep
<1> QED
  BY <1>1, <1>2, PTL DEF Spec

\* A suspended run waits for something: one of its nodes has not been resumed.
THEOREM SuspendedRunWaits == Spec => []WaitsForSomething
<1>1. Walk => WaitsForSomething
  BY DEF Walk, Waiting, WaitsForSomething
<1> QED
  BY <1>1, WalkKept, PTL

\* The timers that will fire again are finitely many.
LEMMA FiredFinite ==
  ASSUME TypeOK
  PROVE  IsFiniteSet(Fired) /\ Cardinality(Fired) \in Nat
<1>1. Fired \subseteq Nodes
  BY DEF TypeOK, Fired
<1> QED
  BY <1>1, WorkflowAssumption, FS_Subset, FS_CardinalityType

\* Nothing is owed for a step that neither answers nor lets a timer fire.
LEMMA AnswersStay ==
  ASSUME TypeOK, TypeOK', AnswersPaid, Fired' \subseteq Fired, Ended => Ended',
         replies' = replies, spent'["refire"] = spent["refire"]
  PROVE  AnswersPaid'
<1>1. IsFiniteSet(Fired) /\ Cardinality(Fired) \in Nat
  BY FiredFinite
<1>2. Cardinality(Fired') \in Nat /\ Cardinality(Fired') <= Cardinality(Fired)
  BY <1>1, FS_Subset, FS_CardinalityType
<1> QED
  BY <1>1, <1>2 DEF AnswersPaid, TypeOK

\* Every answer but the first is paid for by a timer that fired again.
THEOREM AnswersArePaid == Spec => []AnswersPaid
<1> USE WorkflowAssumption
<1>1. Init => AnswersPaid
  <2> SUFFICES ASSUME Init PROVE AnswersPaid
    OBVIOUS
  <2>1. Fired = {} /\ ~Ended
    BY DEF Init, Fired, Ended
  <2>2. Cardinality(Fired) = 0
    BY <2>1, FS_EmptySet
  <2> QED
    BY <2>1, <2>2 DEF Init, AnswersPaid
<1>2. Walk /\ Walk' /\ AnswersPaid /\ [Next]_vars => AnswersPaid'
  <2> SUFFICES ASSUME TypeOK, TypeOK', PhaseFits, TimersFit, FlowFits, AnswersPaid,
                      [Next]_vars
               PROVE  AnswersPaid'
    BY DEF Walk
  <2>1. CASE ExecuteGraph
    <3>1. replies' = replies /\ spent' = spent /\ ~Ended
      BY <2>1 DEF ExecuteGraph, Ended
    <3>2. CASE timers = {}
      BY <2>1, <3>1, <3>2, AnswersStay DEF Fired, ExecuteGraph
    <3>3. CASE node' = [node EXCEPT ![Start] = IF @ = "pending" THEN "queued" ELSE @]
      <4>1. timers' = timers /\ \A m \in timers : node'[m] = node[m]
        BY <2>1, <3>3 DEF ExecuteGraph, TimersFit, TypeOK
      <4>2. Fired' \subseteq Fired
        BY <4>1 DEF Fired, TypeOK
      <4> QED
        BY <3>1, <4>2, AnswersStay
    <3> QED
      BY <2>1, <3>2, <3>3 DEF ExecuteGraph
  <2>2. CASE FindWaiting
    <3>1. ActivateOutgoing(InState("succeeded")) /\ UNCHANGED <<timers, attempts, begun, replies, spent>>
      BY <2>2 DEF FindWaiting, Turn
    <3>2. \A m \in Nodes : \/ node'[m] = node[m]
                           \/ node[m] = "pending" /\ node'[m] = "queued"
      BY <3>1 DEF ActivateOutgoing
    <3>3. Fired' \subseteq Fired
      BY <3>1, <3>2 DEF Fired, TypeOK
    <3>4. Ended => Ended'
      BY <2>2 DEF Ended, FindWaiting, Leave, Turn
    <3> QED
      BY <3>1, <3>3, <3>4, AnswersStay
  <2>3. CASE StartBatch
    <3>1. ActivateOutgoing(InState("succeeded")) /\ UNCHANGED <<timers, attempts, begun, replies, spent>>
      BY <2>3 DEF StartBatch, Turn
    <3>2. \A m \in Nodes : \/ node'[m] = node[m]
                           \/ node[m] = "pending" /\ node'[m] = "queued"
      BY <3>1 DEF ActivateOutgoing
    <3>3. Fired' \subseteq Fired
      BY <3>1, <3>2 DEF Fired, TypeOK
    <3>4. Ended => Ended'
      BY <2>3 DEF Ended, StartBatch, Ready, Turn
    <3> QED
      BY <3>1, <3>3, <3>4, AnswersStay
  <2>4. CASE ExceedExecutions
    <3>1. ActivateOutgoing(InState("succeeded")) /\ UNCHANGED <<timers, attempts, begun, replies, spent>>
      BY <2>4 DEF ExceedExecutions, Turn
    <3>2. \A m \in Nodes : \/ node'[m] = node[m]
                           \/ node[m] = "pending" /\ node'[m] = "queued"
      BY <3>1 DEF ActivateOutgoing
    <3>3. Fired' \subseteq Fired
      BY <3>1, <3>2 DEF Fired, TypeOK
    <3>4. Ended => Ended'
      BY <2>4 DEF Ended, ExceedExecutions, GoTo, Turn
    <3> QED
      BY <3>1, <3>3, <3>4, AnswersStay
  <2>5. CASE TurnAgain
    <3>1. ActivateOutgoing(InState("succeeded")) /\ UNCHANGED <<timers, attempts, begun, replies, spent>>
      BY <2>5 DEF TurnAgain, Turn
    <3>2. \A m \in Nodes : \/ node'[m] = node[m]
                           \/ node[m] = "pending" /\ node'[m] = "queued"
      BY <3>1 DEF ActivateOutgoing
    <3>3. Fired' \subseteq Fired
      BY <3>1, <3>2 DEF Fired, TypeOK
    <3>4. Ended => Ended'
      BY <2>5 DEF Ended, TurnAgain, Turn
    <3> QED
      BY <3>1, <3>3, <3>4, AnswersStay
  <2>6. CASE FindFailed
    <3>1. ActivateOutgoing(InState("succeeded")) /\ UNCHANGED <<timers, attempts, begun, replies, spent>>
      BY <2>6 DEF FindFailed, Turn
    <3>2. \A m \in Nodes : \/ node'[m] = node[m]
                           \/ node[m] = "pending" /\ node'[m] = "queued"
      BY <3>1 DEF ActivateOutgoing
    <3>3. Fired' \subseteq Fired
      BY <3>1, <3>2 DEF Fired, TypeOK
    <3>4. Ended => Ended'
      BY <2>6 DEF Ended, FindFailed, GoTo, Turn
    <3> QED
      BY <3>1, <3>3, <3>4, AnswersStay
  <2>7. CASE Succeed
    <3>1. replies' = replies /\ spent'["refire"] = spent["refire"]
      BY <2>7 DEF TypeOK, Succeed, NothingReady, GoTo
    <3>2. Fired' \subseteq Fired
      BY <2>7 DEF TypeOK, Fired, TimersFit, PhaseFits, Succeed, NothingReady, GoTo
    <3>3. Ended => Ended'
      BY <2>7 DEF Ended, FlowFits, TypeOK, Succeed, NothingReady, GoTo
    <3> QED
      BY <3>1, <3>2, <3>3, AnswersStay
  <2>8. CASE Stall
    <3>1. ActivateOutgoing(InState("succeeded")) /\ UNCHANGED <<timers, attempts, begun, replies, spent>>
      BY <2>8 DEF Stall, Turn
    <3>2. \A m \in Nodes : \/ node'[m] = node[m]
                           \/ node[m] = "pending" /\ node'[m] = "queued"
      BY <3>1 DEF ActivateOutgoing
    <3>3. Fired' \subseteq Fired
      BY <3>1, <3>2 DEF Fired, TypeOK
    <3>4. Ended => Ended'
      BY <2>8 DEF Ended, Stall, GoTo, Turn
    <3> QED
      BY <3>1, <3>3, <3>4, AnswersStay
  <2>9. CASE Collect
    <3>1. /\ \E D : ActivateOutgoing(D)
          /\ UNCHANGED <<run, timers, attempts, begun, replies, spent>>
      BY <2>9 DEF Collect
    <3>2. \A m \in Nodes : \/ node'[m] = node[m]
                           \/ node[m] = "pending" /\ node'[m] = "queued"
      BY <3>1 DEF ActivateOutgoing
    <3>3. Fired' \subseteq Fired
      BY <3>1, <3>2 DEF Fired, TypeOK
    <3>4. Ended => Ended'
      BY <2>9 DEF Ended, Collect, GoTo
    <3> QED
      BY <3>1, <3>3, <3>4, AnswersStay
  <2>10. CASE Suspend
    <3>1. replies' = replies /\ spent'["refire"] = spent["refire"]
      BY <2>10 DEF TypeOK, Suspend, Leave
    <3>2. Fired' \subseteq Fired
      BY <2>10 DEF TypeOK, Fired, TimersFit, PhaseFits, Suspend, Leave
    <3>3. Ended => Ended'
      BY <2>10 DEF Ended, FlowFits, TypeOK, Suspend, Leave
    <3> QED
      BY <3>1, <3>2, <3>3, AnswersStay
  <2>11. CASE FailRun
    <3>1. replies' = replies /\ spent'["refire"] = spent["refire"]
      BY <2>11 DEF TypeOK, FailRun, Leave
    <3>2. Fired' \subseteq Fired
      BY <2>11 DEF TypeOK, Fired, TimersFit, PhaseFits, FailRun, Leave
    <3>3. Ended => Ended'
      BY <2>11 DEF Ended, FlowFits, TypeOK, FailRun, Leave
    <3> QED
      BY <3>1, <3>2, <3>3, AnswersStay
  <2>12. CASE Answer
    <3>1. CASE run = "running"
      <4>1. /\ replies' = replies + 1 /\ Ended' /\ ~Ended /\ Fired' = Fired /\ spent' = spent
        BY <2>12, <3>1 DEF Answer, Leave, Ended, FlowFits, Fired
      <4> QED
        BY <4>1, FiredFinite DEF AnswersPaid, TypeOK
    <3>2. CASE run # "running"
      <4>1. Fired' = Fired /\ (Ended => Ended') /\ replies' = replies /\ spent' = spent
        BY <2>12, <3>2 DEF Answer, Leave, Ended, Fired
      <4> QED
        BY <4>1, AnswersStay
    <3> QED
      BY <3>1, <3>2
  <2>13. ASSUME NEW n \in Nodes, BeginNode(n) PROVE AnswersPaid'
    <3>1. replies' = replies /\ spent'["refire"] = spent["refire"]
      BY <2>13 DEF TypeOK, BeginNode, NodeBecomes
    <3>2. Fired' \subseteq Fired
      BY <2>13 DEF TypeOK, Fired, TimersFit, PhaseFits, BeginNode, NodeBecomes
    <3>3. Ended => Ended'
      BY <2>13 DEF Ended, FlowFits, TypeOK, BeginNode, NodeBecomes
    <3> QED
      BY <3>1, <3>2, <3>3, AnswersStay
  <2>14. ASSUME NEW n \in Nodes, DenyNode(n) PROVE AnswersPaid'
    <3>1. replies' = replies /\ spent'["refire"] = spent["refire"]
      BY <2>14 DEF TypeOK, DenyNode, NodeBecomes, Spend
    <3>2. Fired' \subseteq Fired
      BY <2>14 DEF TypeOK, Fired, TimersFit, PhaseFits, DenyNode, NodeBecomes, Spend
    <3>3. Ended => Ended'
      BY <2>14 DEF Ended, FlowFits, TypeOK, DenyNode, NodeBecomes, Spend
    <3> QED
      BY <3>1, <3>2, <3>3, AnswersStay
  <2>15. ASSUME NEW n \in Nodes, DenyOutput(n) PROVE AnswersPaid'
    <3>1. replies' = replies /\ spent'["refire"] = spent["refire"]
      BY <2>15 DEF TypeOK, DenyOutput, NodeBecomes, Spend
    <3>2. Fired' \subseteq Fired
      BY <2>15 DEF TypeOK, Fired, TimersFit, PhaseFits, DenyOutput, NodeBecomes, Spend
    <3>3. Ended => Ended'
      BY <2>15 DEF Ended, FlowFits, TypeOK, DenyOutput, NodeBecomes, Spend
    <3> QED
      BY <3>1, <3>2, <3>3, AnswersStay
  <2>16. ASSUME NEW n \in Nodes, ArmTimer(n) PROVE AnswersPaid'
    <3>1. replies' = replies /\ spent'["refire"] = spent["refire"]
      BY <2>16 DEF TypeOK, ArmTimer
    <3>2. Fired' \subseteq Fired
      BY <2>16 DEF TypeOK, Fired, TimersFit, PhaseFits, ArmTimer
    <3>3. Ended => Ended'
      BY <2>16 DEF Ended, FlowFits, TypeOK, ArmTimer
    <3> QED
      BY <3>1, <3>2, <3>3, AnswersStay
  <2>17. ASSUME NEW n \in Nodes, CompleteNode(n) PROVE AnswersPaid'
    <3>1. replies' = replies /\ spent'["refire"] = spent["refire"]
      BY <2>17 DEF TypeOK, CompleteNode, NodeBecomes
    <3>2. Fired' \subseteq Fired
      BY <2>17 DEF TypeOK, Fired, TimersFit, PhaseFits, CompleteNode, NodeBecomes
    <3>3. Ended => Ended'
      BY <2>17 DEF Ended, FlowFits, TypeOK, CompleteNode, NodeBecomes
    <3> QED
      BY <3>1, <3>2, <3>3, AnswersStay
  <2>18. ASSUME NEW n \in Nodes, SuspendNode(n) PROVE AnswersPaid'
    <3>1. replies' = replies /\ spent'["refire"] = spent["refire"]
      BY <2>18 DEF TypeOK, SuspendNode, NodeBecomes
    <3>2. Fired' \subseteq Fired
      BY <2>18 DEF TypeOK, Fired, TimersFit, PhaseFits, SuspendNode, NodeBecomes
    <3>3. Ended => Ended'
      BY <2>18 DEF Ended, FlowFits, TypeOK, SuspendNode, NodeBecomes
    <3> QED
      BY <3>1, <3>2, <3>3, AnswersStay
  <2>19. ASSUME NEW n \in Nodes, FailNode(n) PROVE AnswersPaid'
    <3>1. /\ UNCHANGED <<timers, run, flow, pc, replies>>
          /\ spent' = [spent EXCEPT !["fault"] = @ + 1]
          /\ phase[n] = "running" /\ node[n] = "running"
          /\ node' \in {[node EXCEPT ![n] = s] : s \in {"queued", "failed"}}
      BY <2>19 DEF FailNode, NodeBecomes, Spend, PhaseFits
    <3>2. spent'["refire"] = spent["refire"]
      BY <3>1 DEF TypeOK
    <3>3. Fired' \subseteq Fired
      BY ZenonT(60), <3>1 DEF Fired, TypeOK
    <3>4. Ended => Ended'
      BY <3>1 DEF Ended
    <3> QED
      BY <3>1, <3>2, <3>3, <3>4, AnswersStay
  <2>20. CASE ResumeRun
    <3>1. replies' = replies /\ spent'["refire"] = spent["refire"]
      BY <2>20 DEF TypeOK, ResumeRun, Spend
    <3>2. Fired' \subseteq Fired
      BY <2>20 DEF TypeOK, Fired, TimersFit, PhaseFits, ResumeRun, Spend
    <3>3. Ended => Ended'
      BY <2>20 DEF Ended, FlowFits, TypeOK, ResumeRun, Spend
    <3> QED
      BY <3>1, <3>2, <3>3, AnswersStay
  <2>21. CASE Cancel
    <3>1. replies' = replies /\ spent'["refire"] = spent["refire"]
      BY <2>21 DEF TypeOK, Cancel, Spend
    <3>2. Fired' \subseteq Fired
      BY <2>21 DEF TypeOK, Fired, TimersFit, PhaseFits, Cancel, Spend
    <3>3. Ended => Ended'
      BY <2>21 DEF Ended, FlowFits, TypeOK, Cancel, Spend
    <3> QED
      BY <3>1, <3>2, <3>3, AnswersStay
  <2>22. CASE Crash
    <3>1. replies' = replies /\ spent'["refire"] = spent["refire"]
      BY <2>22 DEF TypeOK, Crash, Spend, Leave
    <3>2. Fired' \subseteq Fired
      BY <2>22 DEF TypeOK, Fired, TimersFit, PhaseFits, Crash, Spend, Leave
    <3>3. Ended => Ended'
      BY <2>22 DEF Ended, FlowFits, TypeOK, Crash, Spend, Leave
    <3> QED
      BY <3>1, <3>2, <3>3, AnswersStay
  <2>23. CASE RecoverExpiredLease
    <3>1. replies' = replies /\ spent'["refire"] = spent["refire"]
      BY <2>23 DEF TypeOK, RecoverExpiredLease
    <3>2. Fired' \subseteq Fired
      BY <2>23 DEF TypeOK, Fired, TimersFit, PhaseFits, RecoverExpiredLease
    <3>3. Ended => Ended'
      BY <2>23 DEF Ended, FlowFits, TypeOK, RecoverExpiredLease
    <3> QED
      BY <3>1, <3>2, <3>3, AnswersStay
  <2>24. ASSUME NEW n \in Nodes, ResumeAwaitingUser(n) PROVE AnswersPaid'
    <3>1. replies' = replies /\ spent'["refire"] = spent["refire"]
      BY <2>24 DEF TypeOK, ResumeAwaitingUser
    <3>2. Fired' \subseteq Fired
      BY <2>24 DEF TypeOK, Fired, TimersFit, PhaseFits, ResumeAwaitingUser
    <3>3. Ended => Ended'
      BY <2>24 DEF Ended, FlowFits, TypeOK, ResumeAwaitingUser
    <3> QED
      BY <3>1, <3>2, <3>3, AnswersStay
  <2>25. ASSUME NEW n \in Nodes, ResumeWorkflowTimer(n) PROVE AnswersPaid'
    <3>1. /\ n \in timers /\ node' = [node EXCEPT ![n] = "succeeded"]
          /\ flow' = "running" /\ replies' = replies
      BY <2>25 DEF ResumeWorkflowTimer
    <3>2. \/ timers' = timers \ {n} /\ spent'["refire"] = spent["refire"]
          \/ timers' = timers /\ spent'["refire"] = spent["refire"] + 1
      BY <2>25 DEF ResumeWorkflowTimer, Spend, TypeOK
    <3>3. ~Ended' /\ (n \notin Fired => ~Ended)
      BY <3>1 DEF Ended, Fired, FlowFits, TimersFit, TypeOK
    <3>4. \A m \in Nodes : m # n => node'[m] = node[m]
      BY <3>1 DEF TypeOK
    <3>5. /\ IsFiniteSet(Fired) /\ Cardinality(Fired) \in Nat
          /\ replies \in Nat /\ spent["refire"] \in Nat
      BY FiredFinite DEF TypeOK
    <3>6. /\ Cardinality(Fired \ {n}) = IF n \in Fired THEN Cardinality(Fired) - 1
                                                      ELSE Cardinality(Fired)
          /\ Cardinality(Fired \cup {n}) = IF n \in Fired THEN Cardinality(Fired)
                                                         ELSE Cardinality(Fired) + 1
      BY <3>5, FS_RemoveElement, FS_AddElement
    <3>7. CASE timers' = timers \ {n} /\ spent'["refire"] = spent["refire"]
      <4>1. Fired' = Fired \ {n}
        BY <3>4, <3>7 DEF Fired, TypeOK
      <4> QED
        BY <3>1, <3>3, <3>5, <3>6, <3>7, <4>1 DEF AnswersPaid
    <3>8. CASE timers' = timers /\ spent'["refire"] = spent["refire"] + 1
      <4>1. Fired' = Fired \cup {n}
        BY <3>1, <3>4, <3>8 DEF Fired, TypeOK
      <4> QED
        BY <3>1, <3>3, <3>5, <3>6, <3>8, <4>1 DEF AnswersPaid
    <3> QED
      BY <3>2, <3>7, <3>8
  <2>26. CASE UNCHANGED vars
    BY <2>26 DEF vars, AnswersPaid, Fired, Ended
  <2> QED
    BY <2>1, <2>2, <2>3, <2>4, <2>5, <2>6, <2>7, <2>8, <2>9, <2>10, <2>11, <2>12, <2>13, <2>14, <2>15, <2>16, <2>17, <2>18, <2>19, <2>20, <2>21, <2>22, <2>23, <2>24, <2>25, <2>26
       DEF Next, ExecutorStep
<1> QED
  BY <1>1, <1>2, WalkKept, PTL DEF Spec

\* Products that the counts of attempts need.
LEMMA Products ==
  ASSUME NEW a \in Nat, NEW b \in Nat, NEW c \in Nat
  PROVE  a * b \in Nat /\ a * (b + 1) = a * b + a /\ (b <= c => a * b <= a * c)
  OBVIOUS

\* And differences.
LEMMA Differences ==
  ASSUME NEW a \in Nat, NEW b \in Nat, NEW c \in {0, 1}, NEW d \in {0, 1},
         c <= a, a <= b, d <= c \/ a < b
  PROVE  a - c \in Nat /\ b - d \in Nat /\ a - c <= b - d /\ d <= b
  OBVIOUS

\* Nothing is begun in a step that only queues nodes with attempts left.
LEMMA AttemptsStay ==
  ASSUME TypeOK, TypeOK', AttemptsPaid, Restarts <= Restarts',
         BeginsAgain' => BeginsAgain \/ Restarts < Restarts',
         attempts' = attempts, begun' = begun,
         \A n \in Nodes : node'[n] = "queued" => node[n] = "pending" \/ attempts[n] < MaxAttempts[n],
         \A n \in Nodes : node'[n] = "pending" => node[n] = "pending"
  PROVE  AttemptsPaid'
<1>1. /\ Restarts \in Nat /\ Restarts' \in Nat /\ Owed \in {0, 1} /\ Owed' \in {0, 1}
      /\ Restarts - Owed \in Nat /\ Restarts' - Owed' \in Nat
      /\ Restarts - Owed <= Restarts' - Owed' /\ Owed' <= Restarts'
  <2>1. Restarts \in Nat /\ Restarts' \in Nat
    BY DEF TypeOK, Restarts
  <2>2. Owed \in {0, 1} /\ Owed' \in {0, 1} /\ Owed <= Restarts
    BY DEF Owed, AttemptsPaid
  <2>3. Owed' <= Owed \/ Restarts < Restarts'
    BY DEF Owed
  <2>4. /\ Restarts - Owed \in Nat /\ Restarts' - Owed' \in Nat
        /\ Restarts - Owed <= Restarts' - Owed' /\ Owed' <= Restarts'
    BY ZenonT(60), <2>1, <2>2, <2>3, Differences
  <2> QED
    BY <2>1, <2>2, <2>4
<1> USE WorkflowAssumption
<1>2. ASSUME NEW n \in Nodes
      PROVE  /\ attempts'[n] <= MaxAttempts[n]
             /\ node'[n] = "queued" => attempts'[n] < MaxAttempts[n]
             /\ node'[n] = "pending" => attempts'[n] = 0
             /\ begun'[n] <= MaxAttempts[n] * (Restarts' - Owed') + attempts'[n]
  <2>1. MaxAttempts[n] \in Nat \ {0} /\ attempts[n] \in Nat /\ begun[n] \in Nat
    BY DEF TypeOK
  <2>2. MaxAttempts[n] * (Restarts - Owed) <= MaxAttempts[n] * (Restarts' - Owed')
    BY <1>1, <2>1, Products
  <2>3. begun[n] <= MaxAttempts[n] * (Restarts' - Owed') + attempts[n]
    BY <1>1, <2>1, <2>2, Products DEF AttemptsPaid
  <2> QED
    BY <2>1, <2>3 DEF AttemptsPaid
<1> QED
  BY <1>1, <1>2 DEF AttemptsPaid

\* Every execution of a node but those its retry policy allows is paid for by an
\* event that makes the workflow begin again.
THEOREM AttemptsArePaid == Spec => []AttemptsPaid
<1> USE WorkflowAssumption
<1>1. Init => AttemptsPaid
  <2> SUFFICES ASSUME Init PROVE AttemptsPaid
    OBVIOUS
  <2>1. Restarts = 0 /\ Owed = 0
    BY DEF Init, Restarts, Owed, BeginsAgain
  <2> QED
    BY <2>1, Products DEF Init, AttemptsPaid
<1>2. Walk /\ Walk' /\ AttemptsPaid /\ [Next]_vars => AttemptsPaid'
  <2> SUFFICES ASSUME TypeOK, TypeOK', PhaseFits, TimersFit, FlowFits, AttemptsPaid,
                      [Next]_vars
               PROVE  AttemptsPaid'
    BY DEF Walk
  <2>1. CASE ExecuteGraph
    <3>1. /\ pc = "idle" /\ run = "queued" /\ run' = "running" /\ pc' = "ready"
          /\ spent' = spent /\ begun' = begun
      BY <2>1 DEF ExecuteGraph
    <3>2. ~BeginsAgain' /\ Restarts' = Restarts
      BY <3>1 DEF BeginsAgain, Restarts
    <3>3. CASE /\ node' = [node EXCEPT ![Start] = IF @ = "pending" THEN "queued" ELSE @]
               /\ attempts' = attempts
      <4>1. \A m \in Nodes : node'[m] = node[m] \/ (node[m] = "pending" /\ node'[m] = "queued")
        BY <3>3 DEF TypeOK
      <4>2. \A m \in Nodes : node'[m] = "queued" => node[m] = "pending" \/ attempts[m] < MaxAttempts[m]
        BY <4>1 DEF AttemptsPaid
      <4>3. Restarts <= Restarts'
        BY <3>2 DEF Restarts, TypeOK
      <4>4. BeginsAgain' => BeginsAgain \/ Restarts < Restarts'
        BY <3>2
      <4>5. \A m \in Nodes : node'[m] = "pending" => node[m] = "pending"
        BY <4>1
      <4> QED
        BY <3>1, <3>3, <4>2, <4>3, <4>4, <4>5, AttemptsStay
    <3>4. CASE /\ flow \in {"none", "succeeded", "failed"} /\ attempts' = Blank(0)
               /\ node' = [Blank("pending") EXCEPT ![Start] = "queued"]
      <4>1. Restarts \in Nat /\ Owed' = 0 /\ Owed \in {0, 1} /\ Restarts - Owed \in Nat
        BY <3>2 DEF TypeOK, Restarts, Owed, AttemptsPaid
      <4>2. ASSUME NEW n \in Nodes
            PROVE  begun[n] <= MaxAttempts[n] * Restarts
        <5>1. MaxAttempts[n] \in Nat \ {0} /\ attempts[n] \in Nat /\ begun[n] \in Nat
          BY DEF TypeOK
        <5>2. begun[n] <= MaxAttempts[n] * (Restarts - Owed) + attempts[n]
          BY DEF AttemptsPaid
        <5>3. CASE flow = "none"
          <6>1. attempts[n] = 0
            BY <5>3 DEF FlowFits
          <6>2. MaxAttempts[n] * (Restarts - Owed) <= MaxAttempts[n] * Restarts
            BY <4>1, <5>1, Products
          <6> QED
            BY <4>1, <5>1, <5>2, <6>1, <6>2, Products
        <5>4. CASE flow # "none"
          <6>1. Owed = 1
            BY <3>1, <3>4, <5>4 DEF Owed, BeginsAgain
          <6>2. MaxAttempts[n] * ((Restarts - Owed) + 1) = MaxAttempts[n] * (Restarts - Owed) + MaxAttempts[n]
            BY <4>1, <5>1, Products
          <6>3. (Restarts - Owed) + 1 = Restarts
            BY <4>1, <6>1
          <6>4. attempts[n] <= MaxAttempts[n]
            BY DEF AttemptsPaid
          <6> QED
            BY <4>1, <5>1, <5>2, <6>2, <6>3, <6>4, Products
        <5> QED
          BY <5>3, <5>4
      <4>3. \A n \in Nodes : attempts'[n] = 0
        BY <3>4
      <4>4. \A n \in Nodes : /\ MaxAttempts[n] \in Nat \ {0} /\ begun'[n] \in Nat
                             /\ MaxAttempts[n] * Restarts \in Nat
        BY <4>1, Products DEF TypeOK
      <4>5. Restarts' - Owed' = Restarts
        BY <3>2, <4>1
      <4>6. \A n \in Nodes : begun'[n] <= MaxAttempts[n] * (Restarts' - Owed') + attempts'[n]
        BY <3>1, <4>2, <4>3, <4>4, <4>5
      <4> QED
        BY <3>2, <4>1, <4>3, <4>4, <4>6 DEF AttemptsPaid
    <3> QED
      BY <2>1, <3>3, <3>4 DEF ExecuteGraph
  <2>2. CASE FindWaiting
    <3>1. ActivateOutgoing(InState("succeeded")) /\ UNCHANGED <<timers, attempts, begun, replies, spent>>
      BY <2>2 DEF FindWaiting, Turn
    <3>2. \A m \in Nodes : \/ node'[m] = node[m]
                           \/ node[m] = "pending" /\ node'[m] = "queued"
      BY <3>1 DEF ActivateOutgoing
    <3>3. \A m \in Nodes : /\ node'[m] = "queued" => node[m] = "pending" \/ attempts[m] < MaxAttempts[m]
                           /\ node'[m] = "pending" => node[m] = "pending"
      BY <3>2 DEF AttemptsPaid
    <3>4. Restarts <= Restarts'
      BY <2>2 DEF Restarts, TypeOK, FindWaiting, Leave, Turn
    <3>5. BeginsAgain' => BeginsAgain \/ Restarts < Restarts'
      BY <2>2 DEF Restarts, TypeOK, BeginsAgain, FlowFits, FindWaiting, Leave, Turn
    <3> QED
      BY <3>1, <3>3, <3>4, <3>5, AttemptsStay
  <2>3. CASE StartBatch
    <3>1. ActivateOutgoing(InState("succeeded")) /\ UNCHANGED <<timers, attempts, begun, replies, spent>>
      BY <2>3 DEF StartBatch, Turn
    <3>2. \A m \in Nodes : \/ node'[m] = node[m]
                           \/ node[m] = "pending" /\ node'[m] = "queued"
      BY <3>1 DEF ActivateOutgoing
    <3>3. \A m \in Nodes : /\ node'[m] = "queued" => node[m] = "pending" \/ attempts[m] < MaxAttempts[m]
                           /\ node'[m] = "pending" => node[m] = "pending"
      BY <3>2 DEF AttemptsPaid
    <3>4. Restarts <= Restarts'
      BY <2>3 DEF Restarts, TypeOK, StartBatch, Ready, Turn
    <3>5. BeginsAgain' => BeginsAgain \/ Restarts < Restarts'
      BY <2>3 DEF Restarts, TypeOK, BeginsAgain, FlowFits, StartBatch, Ready, Turn
    <3> QED
      BY <3>1, <3>3, <3>4, <3>5, AttemptsStay
  <2>4. CASE ExceedExecutions
    <3>1. ActivateOutgoing(InState("succeeded")) /\ UNCHANGED <<timers, attempts, begun, replies, spent>>
      BY <2>4 DEF ExceedExecutions, Turn
    <3>2. \A m \in Nodes : \/ node'[m] = node[m]
                           \/ node[m] = "pending" /\ node'[m] = "queued"
      BY <3>1 DEF ActivateOutgoing
    <3>3. \A m \in Nodes : /\ node'[m] = "queued" => node[m] = "pending" \/ attempts[m] < MaxAttempts[m]
                           /\ node'[m] = "pending" => node[m] = "pending"
      BY <3>2 DEF AttemptsPaid
    <3>4. Restarts <= Restarts'
      BY <2>4 DEF Restarts, TypeOK, ExceedExecutions, GoTo, Turn
    <3>5. BeginsAgain' => BeginsAgain \/ Restarts < Restarts'
      BY <2>4 DEF Restarts, TypeOK, BeginsAgain, FlowFits, ExceedExecutions, GoTo, Turn
    <3> QED
      BY <3>1, <3>3, <3>4, <3>5, AttemptsStay
  <2>5. CASE TurnAgain
    <3>1. ActivateOutgoing(InState("succeeded")) /\ UNCHANGED <<timers, attempts, begun, replies, spent>>
      BY <2>5 DEF TurnAgain, Turn
    <3>2. \A m \in Nodes : \/ node'[m] = node[m]
                           \/ node[m] = "pending" /\ node'[m] = "queued"
      BY <3>1 DEF ActivateOutgoing
    <3>3. \A m \in Nodes : /\ node'[m] = "queued" => node[m] = "pending" \/ attempts[m] < MaxAttempts[m]
                           /\ node'[m] = "pending" => node[m] = "pending"
      BY <3>2 DEF AttemptsPaid
    <3>4. Restarts <= Restarts'
      BY <2>5 DEF Restarts, TypeOK, TurnAgain, Turn
    <3>5. BeginsAgain' => BeginsAgain \/ Restarts < Restarts'
      BY <2>5 DEF Restarts, TypeOK, BeginsAgain, FlowFits, TurnAgain, Turn
    <3> QED
      BY <3>1, <3>3, <3>4, <3>5, AttemptsStay
  <2>6. CASE FindFailed
    <3>1. ActivateOutgoing(InState("succeeded")) /\ UNCHANGED <<timers, attempts, begun, replies, spent>>
      BY <2>6 DEF FindFailed, Turn
    <3>2. \A m \in Nodes : \/ node'[m] = node[m]
                           \/ node[m] = "pending" /\ node'[m] = "queued"
      BY <3>1 DEF ActivateOutgoing
    <3>3. \A m \in Nodes : /\ node'[m] = "queued" => node[m] = "pending" \/ attempts[m] < MaxAttempts[m]
                           /\ node'[m] = "pending" => node[m] = "pending"
      BY <3>2 DEF AttemptsPaid
    <3>4. Restarts <= Restarts'
      BY <2>6 DEF Restarts, TypeOK, FindFailed, GoTo, Turn
    <3>5. BeginsAgain' => BeginsAgain \/ Restarts < Restarts'
      BY <2>6 DEF Restarts, TypeOK, BeginsAgain, FlowFits, FindFailed, GoTo, Turn
    <3> QED
      BY <3>1, <3>3, <3>4, <3>5, AttemptsStay
  <2>7. CASE Succeed
    <3>1. attempts' = attempts /\ begun' = begun
      BY <2>7 DEF Succeed, NothingReady, GoTo
    <3>2. \A m \in Nodes : /\ node'[m] = "queued" => \/ node[m] \in {"queued", "pending"}
                                                  \/ attempts[m] < MaxAttempts[m]
                           /\ node'[m] = "pending" => node[m] = "pending"
      BY <2>7 DEF TypeOK, Succeed, NothingReady, GoTo
    <3>3. \A m \in Nodes : /\ node'[m] = "queued" => node[m] = "pending" \/ attempts[m] < MaxAttempts[m]
                           /\ node'[m] = "pending" => node[m] = "pending"
      BY <3>2 DEF AttemptsPaid
    <3>4. Restarts <= Restarts'
      BY <2>7 DEF Restarts, TypeOK, Succeed, NothingReady, GoTo
    <3>5. BeginsAgain' => BeginsAgain \/ Restarts < Restarts'
      BY <2>7 DEF Restarts, TypeOK, BeginsAgain, FlowFits, Succeed, NothingReady, GoTo
    <3> QED
      BY <3>1, <3>3, <3>4, <3>5, AttemptsStay
  <2>8. CASE Stall
    <3>1. ActivateOutgoing(InState("succeeded")) /\ UNCHANGED <<timers, attempts, begun, replies, spent>>
      BY <2>8 DEF Stall, Turn
    <3>2. \A m \in Nodes : \/ node'[m] = node[m]
                           \/ node[m] = "pending" /\ node'[m] = "queued"
      BY <3>1 DEF ActivateOutgoing
    <3>3. \A m \in Nodes : /\ node'[m] = "queued" => node[m] = "pending" \/ attempts[m] < MaxAttempts[m]
                           /\ node'[m] = "pending" => node[m] = "pending"
      BY <3>2 DEF AttemptsPaid
    <3>4. Restarts <= Restarts'
      BY <2>8 DEF Restarts, TypeOK, Stall, GoTo, Turn
    <3>5. BeginsAgain' => BeginsAgain \/ Restarts < Restarts'
      BY <2>8 DEF Restarts, TypeOK, BeginsAgain, FlowFits, Stall, GoTo, Turn
    <3> QED
      BY <3>1, <3>3, <3>4, <3>5, AttemptsStay
  <2>9. CASE Collect
    <3>1. /\ \E D : ActivateOutgoing(D)
          /\ UNCHANGED <<run, timers, attempts, begun, replies, spent>>
      BY <2>9 DEF Collect
    <3>2. \A m \in Nodes : \/ node'[m] = node[m]
                           \/ node[m] = "pending" /\ node'[m] = "queued"
      BY <3>1 DEF ActivateOutgoing
    <3>3. \A m \in Nodes : /\ node'[m] = "queued" => node[m] = "pending" \/ attempts[m] < MaxAttempts[m]
                           /\ node'[m] = "pending" => node[m] = "pending"
      BY <3>2 DEF AttemptsPaid
    <3>4. Restarts <= Restarts'
      BY <2>9 DEF Restarts, TypeOK, Collect, GoTo
    <3>5. BeginsAgain' => BeginsAgain \/ Restarts < Restarts'
      BY <2>9 DEF Restarts, TypeOK, BeginsAgain, FlowFits, Collect, GoTo
    <3> QED
      BY <3>1, <3>3, <3>4, <3>5, AttemptsStay
  <2>10. CASE Suspend
    <3>1. attempts' = attempts /\ begun' = begun
      BY <2>10 DEF Suspend, Leave
    <3>2. \A m \in Nodes : /\ node'[m] = "queued" => \/ node[m] \in {"queued", "pending"}
                                                  \/ attempts[m] < MaxAttempts[m]
                           /\ node'[m] = "pending" => node[m] = "pending"
      BY <2>10 DEF TypeOK, Suspend, Leave
    <3>3. \A m \in Nodes : /\ node'[m] = "queued" => node[m] = "pending" \/ attempts[m] < MaxAttempts[m]
                           /\ node'[m] = "pending" => node[m] = "pending"
      BY <3>2 DEF AttemptsPaid
    <3>4. Restarts <= Restarts'
      BY <2>10 DEF Restarts, TypeOK, Suspend, Leave
    <3>5. BeginsAgain' => BeginsAgain \/ Restarts < Restarts'
      BY <2>10 DEF Restarts, TypeOK, BeginsAgain, FlowFits, Suspend, Leave
    <3> QED
      BY <3>1, <3>3, <3>4, <3>5, AttemptsStay
  <2>11. CASE FailRun
    <3>1. attempts' = attempts /\ begun' = begun
      BY <2>11 DEF FailRun, Leave
    <3>2. \A m \in Nodes : /\ node'[m] = "queued" => \/ node[m] \in {"queued", "pending"}
                                                  \/ attempts[m] < MaxAttempts[m]
                           /\ node'[m] = "pending" => node[m] = "pending"
      BY <2>11 DEF TypeOK, FailRun, Leave
    <3>3. \A m \in Nodes : /\ node'[m] = "queued" => node[m] = "pending" \/ attempts[m] < MaxAttempts[m]
                           /\ node'[m] = "pending" => node[m] = "pending"
      BY <3>2 DEF AttemptsPaid
    <3>4. Restarts <= Restarts'
      BY <2>11 DEF Restarts, TypeOK, FailRun, Leave
    <3>5. BeginsAgain' => BeginsAgain \/ Restarts < Restarts'
      BY <2>11 DEF Restarts, TypeOK, BeginsAgain, FlowFits, FailRun, Leave
    <3> QED
      BY <3>1, <3>3, <3>4, <3>5, AttemptsStay
  <2>12. CASE Answer
    <3>1. attempts' = attempts /\ begun' = begun
      BY <2>12 DEF Answer, Leave
    <3>2. \A m \in Nodes : /\ node'[m] = "queued" => \/ node[m] \in {"queued", "pending"}
                                                  \/ attempts[m] < MaxAttempts[m]
                           /\ node'[m] = "pending" => node[m] = "pending"
      BY <2>12 DEF TypeOK, Answer, Leave
    <3>3. \A m \in Nodes : /\ node'[m] = "queued" => node[m] = "pending" \/ attempts[m] < MaxAttempts[m]
                           /\ node'[m] = "pending" => node[m] = "pending"
      BY <3>2 DEF AttemptsPaid
    <3>4. Restarts <= Restarts'
      BY <2>12 DEF Restarts, TypeOK, Answer, Leave
    <3>5. BeginsAgain' => BeginsAgain \/ Restarts < Restarts'
      BY <2>12 DEF Restarts, TypeOK, BeginsAgain, FlowFits, Answer, Leave
    <3> QED
      BY <3>1, <3>3, <3>4, <3>5, AttemptsStay
  <2>13. ASSUME NEW n \in Nodes, BeginNode(n) PROVE AttemptsPaid'
    <3>1. /\ node[n] = "queued"
          /\ node' = [node EXCEPT ![n] = "running"]
          /\ attempts' = [attempts EXCEPT ![n] = @ + 1]
          /\ begun' = [begun EXCEPT ![n] = @ + 1]
          /\ UNCHANGED <<run, flow, pc, spent>>
      BY <2>13 DEF BeginNode, NodeBecomes, PhaseFits
    <3>2. Restarts' = Restarts /\ Owed' = Owed /\ Restarts \in Nat /\ Owed \in {0, 1} /\ Owed <= Restarts
      BY <3>1 DEF Restarts, Owed, BeginsAgain, TypeOK, AttemptsPaid
    <3>3. ASSUME NEW m \in Nodes
          PROVE  /\ attempts'[m] <= MaxAttempts[m]
                 /\ node'[m] = "queued" => attempts'[m] < MaxAttempts[m]
                 /\ node'[m] = "pending" => attempts'[m] = 0
                 /\ begun'[m] <= MaxAttempts[m] * (Restarts - Owed) + attempts'[m]
      <4>1. /\ MaxAttempts[m] \in Nat /\ attempts[m] \in Nat /\ begun[m] \in Nat
            /\ MaxAttempts[m] * (Restarts - Owed) \in Nat
        BY <3>2, Products DEF TypeOK
      <4>2. /\ attempts[m] <= MaxAttempts[m]
            /\ node[m] = "queued" => attempts[m] < MaxAttempts[m]
            /\ node[m] = "pending" => attempts[m] = 0
            /\ begun[m] <= MaxAttempts[m] * (Restarts - Owed) + attempts[m]
        BY DEF AttemptsPaid
      <4>3. CASE m = n
        BY <3>1, <4>1, <4>2, <4>3 DEF TypeOK
      <4>4. CASE m # n
        BY <3>1, <4>1, <4>2, <4>4 DEF TypeOK
      <4> QED
        BY <4>3, <4>4
    <3> QED
      BY <3>2, <3>3 DEF AttemptsPaid
  <2>14. ASSUME NEW n \in Nodes, DenyNode(n) PROVE AttemptsPaid'
    <3>1. attempts' = attempts /\ begun' = begun
      BY <2>14 DEF DenyNode, NodeBecomes, Spend
    <3>2. \A m \in Nodes : /\ node'[m] = "queued" => \/ node[m] \in {"queued", "pending"}
                                                  \/ attempts[m] < MaxAttempts[m]
                           /\ node'[m] = "pending" => node[m] = "pending"
      BY <2>14 DEF TypeOK, DenyNode, NodeBecomes, Spend
    <3>3. \A m \in Nodes : /\ node'[m] = "queued" => node[m] = "pending" \/ attempts[m] < MaxAttempts[m]
                           /\ node'[m] = "pending" => node[m] = "pending"
      BY <3>2 DEF AttemptsPaid
    <3>4. Restarts <= Restarts'
      BY <2>14 DEF Restarts, TypeOK, DenyNode, NodeBecomes, Spend
    <3>5. BeginsAgain' => BeginsAgain \/ Restarts < Restarts'
      BY <2>14 DEF Restarts, TypeOK, BeginsAgain, FlowFits, DenyNode, NodeBecomes, Spend
    <3> QED
      BY <3>1, <3>3, <3>4, <3>5, AttemptsStay
  <2>15. ASSUME NEW n \in Nodes, DenyOutput(n) PROVE AttemptsPaid'
    <3>1. attempts' = attempts /\ begun' = begun
      BY <2>15 DEF DenyOutput, NodeBecomes, Spend
    <3>2. \A m \in Nodes : /\ node'[m] = "queued" => \/ node[m] \in {"queued", "pending"}
                                                  \/ attempts[m] < MaxAttempts[m]
                           /\ node'[m] = "pending" => node[m] = "pending"
      BY <2>15 DEF TypeOK, DenyOutput, NodeBecomes, Spend
    <3>3. \A m \in Nodes : /\ node'[m] = "queued" => node[m] = "pending" \/ attempts[m] < MaxAttempts[m]
                           /\ node'[m] = "pending" => node[m] = "pending"
      BY <3>2 DEF AttemptsPaid
    <3>4. Restarts <= Restarts'
      BY <2>15 DEF Restarts, TypeOK, DenyOutput, NodeBecomes, Spend
    <3>5. BeginsAgain' => BeginsAgain \/ Restarts < Restarts'
      BY <2>15 DEF Restarts, TypeOK, BeginsAgain, FlowFits, DenyOutput, NodeBecomes, Spend
    <3> QED
      BY <3>1, <3>3, <3>4, <3>5, AttemptsStay
  <2>16. ASSUME NEW n \in Nodes, ArmTimer(n) PROVE AttemptsPaid'
    <3>1. attempts' = attempts /\ begun' = begun
      BY <2>16 DEF ArmTimer
    <3>2. \A m \in Nodes : /\ node'[m] = "queued" => \/ node[m] \in {"queued", "pending"}
                                                  \/ attempts[m] < MaxAttempts[m]
                           /\ node'[m] = "pending" => node[m] = "pending"
      BY <2>16 DEF TypeOK, ArmTimer
    <3>3. \A m \in Nodes : /\ node'[m] = "queued" => node[m] = "pending" \/ attempts[m] < MaxAttempts[m]
                           /\ node'[m] = "pending" => node[m] = "pending"
      BY <3>2 DEF AttemptsPaid
    <3>4. Restarts <= Restarts'
      BY <2>16 DEF Restarts, TypeOK, ArmTimer
    <3>5. BeginsAgain' => BeginsAgain \/ Restarts < Restarts'
      BY <2>16 DEF Restarts, TypeOK, BeginsAgain, FlowFits, ArmTimer
    <3> QED
      BY <3>1, <3>3, <3>4, <3>5, AttemptsStay
  <2>17. ASSUME NEW n \in Nodes, CompleteNode(n) PROVE AttemptsPaid'
    <3>1. attempts' = attempts /\ begun' = begun
      BY <2>17 DEF CompleteNode, NodeBecomes
    <3>2. \A m \in Nodes : /\ node'[m] = "queued" => \/ node[m] \in {"queued", "pending"}
                                                  \/ attempts[m] < MaxAttempts[m]
                           /\ node'[m] = "pending" => node[m] = "pending"
      BY <2>17 DEF TypeOK, CompleteNode, NodeBecomes
    <3>3. \A m \in Nodes : /\ node'[m] = "queued" => node[m] = "pending" \/ attempts[m] < MaxAttempts[m]
                           /\ node'[m] = "pending" => node[m] = "pending"
      BY <3>2 DEF AttemptsPaid
    <3>4. Restarts <= Restarts'
      BY <2>17 DEF Restarts, TypeOK, CompleteNode, NodeBecomes
    <3>5. BeginsAgain' => BeginsAgain \/ Restarts < Restarts'
      BY <2>17 DEF Restarts, TypeOK, BeginsAgain, FlowFits, CompleteNode, NodeBecomes
    <3> QED
      BY <3>1, <3>3, <3>4, <3>5, AttemptsStay
  <2>18. ASSUME NEW n \in Nodes, SuspendNode(n) PROVE AttemptsPaid'
    <3>1. attempts' = attempts /\ begun' = begun
      BY <2>18 DEF SuspendNode, NodeBecomes
    <3>2. \A m \in Nodes : /\ node'[m] = "queued" => \/ node[m] \in {"queued", "pending"}
                                                  \/ attempts[m] < MaxAttempts[m]
                           /\ node'[m] = "pending" => node[m] = "pending"
      BY <2>18 DEF TypeOK, SuspendNode, NodeBecomes
    <3>3. \A m \in Nodes : /\ node'[m] = "queued" => node[m] = "pending" \/ attempts[m] < MaxAttempts[m]
                           /\ node'[m] = "pending" => node[m] = "pending"
      BY <3>2 DEF AttemptsPaid
    <3>4. Restarts <= Restarts'
      BY <2>18 DEF Restarts, TypeOK, SuspendNode, NodeBecomes
    <3>5. BeginsAgain' => BeginsAgain \/ Restarts < Restarts'
      BY <2>18 DEF Restarts, TypeOK, BeginsAgain, FlowFits, SuspendNode, NodeBecomes
    <3> QED
      BY <3>1, <3>3, <3>4, <3>5, AttemptsStay
  <2>19. ASSUME NEW n \in Nodes, FailNode(n) PROVE AttemptsPaid'
    <3>1. attempts' = attempts /\ begun' = begun
      BY <2>19 DEF FailNode, NodeBecomes, Spend
    <3>2. \A m \in Nodes : /\ node'[m] = "queued" => \/ node[m] \in {"queued", "pending"}
                                                  \/ attempts[m] < MaxAttempts[m]
                           /\ node'[m] = "pending" => node[m] = "pending"
      BY <2>19 DEF TypeOK, FailNode, NodeBecomes, Spend
    <3>3. \A m \in Nodes : /\ node'[m] = "queued" => node[m] = "pending" \/ attempts[m] < MaxAttempts[m]
                           /\ node'[m] = "pending" => node[m] = "pending"
      BY <3>2 DEF AttemptsPaid
    <3>4. Restarts <= Restarts'
      BY <2>19 DEF Restarts, TypeOK, FailNode, NodeBecomes, Spend
    <3>5. BeginsAgain' => BeginsAgain \/ Restarts < Restarts'
      BY <2>19 DEF Restarts, TypeOK, BeginsAgain, FlowFits, FailNode, NodeBecomes, Spend
    <3> QED
      BY <3>1, <3>3, <3>4, <3>5, AttemptsStay
  <2>20. CASE ResumeRun
    <3>1. attempts' = attempts /\ begun' = begun
      BY <2>20 DEF ResumeRun, Spend
    <3>2. \A m \in Nodes : /\ node'[m] = "queued" => \/ node[m] \in {"queued", "pending"}
                                                  \/ attempts[m] < MaxAttempts[m]
                           /\ node'[m] = "pending" => node[m] = "pending"
      BY <2>20 DEF TypeOK, ResumeRun, Spend
    <3>3. \A m \in Nodes : /\ node'[m] = "queued" => node[m] = "pending" \/ attempts[m] < MaxAttempts[m]
                           /\ node'[m] = "pending" => node[m] = "pending"
      BY <3>2 DEF AttemptsPaid
    <3>4. Restarts <= Restarts'
      BY <2>20 DEF Restarts, TypeOK, ResumeRun, Spend
    <3>5. BeginsAgain' => BeginsAgain \/ Restarts < Restarts'
      BY <2>20 DEF Restarts, TypeOK, BeginsAgain, FlowFits, ResumeRun, Spend
    <3> QED
      BY <3>1, <3>3, <3>4, <3>5, AttemptsStay
  <2>21. CASE Cancel
    <3>1. attempts' = attempts /\ begun' = begun
      BY <2>21 DEF Cancel, Spend
    <3>2. \A m \in Nodes : /\ node'[m] = "queued" => \/ node[m] \in {"queued", "pending"}
                                                  \/ attempts[m] < MaxAttempts[m]
                           /\ node'[m] = "pending" => node[m] = "pending"
      BY <2>21 DEF TypeOK, Cancel, Spend
    <3>3. \A m \in Nodes : /\ node'[m] = "queued" => node[m] = "pending" \/ attempts[m] < MaxAttempts[m]
                           /\ node'[m] = "pending" => node[m] = "pending"
      BY <3>2 DEF AttemptsPaid
    <3>4. Restarts <= Restarts'
      BY <2>21 DEF Restarts, TypeOK, Cancel, Spend
    <3>5. BeginsAgain' => BeginsAgain \/ Restarts < Restarts'
      BY <2>21 DEF Restarts, TypeOK, BeginsAgain, FlowFits, Cancel, Spend
    <3> QED
      BY <3>1, <3>3, <3>4, <3>5, AttemptsStay
  <2>22. CASE Crash
    <3>1. attempts' = attempts /\ begun' = begun
      BY <2>22 DEF Crash, Spend, Leave
    <3>2. \A m \in Nodes : /\ node'[m] = "queued" => \/ node[m] \in {"queued", "pending"}
                                                  \/ attempts[m] < MaxAttempts[m]
                           /\ node'[m] = "pending" => node[m] = "pending"
      BY <2>22 DEF TypeOK, Crash, Spend, Leave
    <3>3. \A m \in Nodes : /\ node'[m] = "queued" => node[m] = "pending" \/ attempts[m] < MaxAttempts[m]
                           /\ node'[m] = "pending" => node[m] = "pending"
      BY <3>2 DEF AttemptsPaid
    <3>4. Restarts <= Restarts'
      BY <2>22 DEF Restarts, TypeOK, Crash, Spend, Leave
    <3>5. BeginsAgain' => BeginsAgain \/ Restarts < Restarts'
      BY <2>22 DEF Restarts, TypeOK, BeginsAgain, FlowFits, Crash, Spend, Leave
    <3> QED
      BY <3>1, <3>3, <3>4, <3>5, AttemptsStay
  <2>23. CASE RecoverExpiredLease
    <3>1. attempts' = attempts /\ begun' = begun
      BY <2>23 DEF RecoverExpiredLease
    <3>2. \A m \in Nodes : /\ node'[m] = "queued" => \/ node[m] \in {"queued", "pending"}
                                                  \/ attempts[m] < MaxAttempts[m]
                           /\ node'[m] = "pending" => node[m] = "pending"
      BY <2>23 DEF TypeOK, RecoverExpiredLease
    <3>3. \A m \in Nodes : /\ node'[m] = "queued" => node[m] = "pending" \/ attempts[m] < MaxAttempts[m]
                           /\ node'[m] = "pending" => node[m] = "pending"
      BY <3>2 DEF AttemptsPaid
    <3>4. Restarts <= Restarts'
      BY <2>23 DEF Restarts, TypeOK, RecoverExpiredLease
    <3>5. BeginsAgain' => BeginsAgain \/ Restarts < Restarts'
      BY <2>23 DEF Restarts, TypeOK, BeginsAgain, FlowFits, RecoverExpiredLease
    <3> QED
      BY <3>1, <3>3, <3>4, <3>5, AttemptsStay
  <2>24. ASSUME NEW n \in Nodes, ResumeAwaitingUser(n) PROVE AttemptsPaid'
    <3>1. attempts' = attempts /\ begun' = begun
      BY <2>24 DEF ResumeAwaitingUser
    <3>2. \A m \in Nodes : /\ node'[m] = "queued" => \/ node[m] \in {"queued", "pending"}
                                                  \/ attempts[m] < MaxAttempts[m]
                           /\ node'[m] = "pending" => node[m] = "pending"
      BY <2>24 DEF TypeOK, ResumeAwaitingUser
    <3>3. \A m \in Nodes : /\ node'[m] = "queued" => node[m] = "pending" \/ attempts[m] < MaxAttempts[m]
                           /\ node'[m] = "pending" => node[m] = "pending"
      BY <3>2 DEF AttemptsPaid
    <3>4. Restarts <= Restarts'
      BY <2>24 DEF Restarts, TypeOK, ResumeAwaitingUser
    <3>5. BeginsAgain' => BeginsAgain \/ Restarts < Restarts'
      BY <2>24 DEF Restarts, TypeOK, BeginsAgain, FlowFits, ResumeAwaitingUser
    <3> QED
      BY <3>1, <3>3, <3>4, <3>5, AttemptsStay
  <2>25. ASSUME NEW n \in Nodes, ResumeWorkflowTimer(n) PROVE AttemptsPaid'
    <3>1. attempts' = attempts /\ begun' = begun
      BY <2>25 DEF ResumeWorkflowTimer, Spend
    <3>2. \A m \in Nodes : /\ node'[m] = "queued" => \/ node[m] \in {"queued", "pending"}
                                                  \/ attempts[m] < MaxAttempts[m]
                           /\ node'[m] = "pending" => node[m] = "pending"
      BY <2>25 DEF TypeOK, ResumeWorkflowTimer, Spend
    <3>3. \A m \in Nodes : /\ node'[m] = "queued" => node[m] = "pending" \/ attempts[m] < MaxAttempts[m]
                           /\ node'[m] = "pending" => node[m] = "pending"
      BY <3>2 DEF AttemptsPaid
    <3>4. Restarts <= Restarts'
      BY <2>25 DEF Restarts, TypeOK, ResumeWorkflowTimer, Spend
    <3>5. BeginsAgain' => BeginsAgain \/ Restarts < Restarts'
      BY <2>25 DEF Restarts, TypeOK, BeginsAgain, FlowFits, ResumeWorkflowTimer, Spend
    <3> QED
      BY <3>1, <3>3, <3>4, <3>5, AttemptsStay
  <2>26. CASE UNCHANGED vars
    BY <2>26 DEF vars, AttemptsPaid, Owed, BeginsAgain, Restarts
  <2> QED
    BY <2>1, <2>2, <2>3, <2>4, <2>5, <2>6, <2>7, <2>8, <2>9, <2>10, <2>11, <2>12, <2>13, <2>14, <2>15, <2>16, <2>17, <2>18, <2>19, <2>20, <2>21, <2>22, <2>23, <2>24, <2>25, <2>26
       DEF Next, ExecutorStep
<1> QED
  BY <1>1, <1>2, WalkKept, PTL DEF Spec

\* Nodes are not repeated but by their retry policy or for the events named, and
\* neither are answers.
THEOREM RepetitionIsPaid == Spec => []RepetitionPaid
<1> USE WorkflowAssumption
<1>1. Walk /\ AttemptsPaid => BegunPaid
  <2> SUFFICES ASSUME TypeOK, AttemptsPaid, NEW n \in Nodes
               PROVE  begun[n] <= MaxAttempts[n] * (1 + Restarts)
    BY DEF Walk, BegunPaid
  <2>1. Restarts \in Nat /\ Owed \in {0, 1} /\ Owed <= Restarts /\ Restarts - Owed \in Nat
    BY DEF TypeOK, Restarts, Owed, AttemptsPaid
  <2>2. MaxAttempts[n] \in Nat /\ attempts[n] \in Nat /\ begun[n] \in Nat
    BY DEF TypeOK
  <2>3. begun[n] <= MaxAttempts[n] * (Restarts - Owed) + MaxAttempts[n]
    BY <2>1, <2>2, Products DEF AttemptsPaid
  <2>4. MaxAttempts[n] * (Restarts - Owed) <= MaxAttempts[n] * Restarts
    BY <2>1, <2>2, Products
  <2>5. MaxAttempts[n] * (1 + Restarts) = MaxAttempts[n] * Restarts + MaxAttempts[n]
    BY <2>1, <2>2, Products
  <2> QED
    BY <2>1, <2>2, <2>3, <2>4, <2>5, Products
<1>2. Walk /\ AnswersPaid => AnsweredOnce
  <2> SUFFICES ASSUME TypeOK, AnswersPaid PROVE AnsweredOnce
    BY DEF Walk
  <2> QED
    BY FiredFinite DEF TypeOK, AnswersPaid, AnsweredOnce
<1> QED
  BY <1>1, <1>2, WalkKept, AttemptsArePaid, AnswersArePaid, PTL DEF RepetitionPaid

\* What is done stays done and its edges stay: a step that keeps both keeps the
\* paths, if what it executes is routed to and it skips nothing.
LEMMA PathsStay ==
  ASSUME TypeOK, TypeOK', Paths, Done \subseteq Done',
         \A m \in Done : route'[m] = route[m],
         \A e \in active' : e \in active \/ (e[1] \in Done' /\ e[2] \in route'[e[1]]),
         \A m \in Nodes : \/ node'[m] \in {"pending", "skipped"}
                          \/ node[m] \notin {"pending", "skipped"}
                          \/ Arrived(m)',
         \A m \in Nodes : node'[m] = "skipped" => /\ node[m] = "skipped"
                                                  /\ Done' = Done /\ node' = node
  PROVE  Paths'
<1> USE WorkflowAssumption
<1>1. \A m \in Nodes : Arrived(m) => Arrived(m)'
  BY DEF Arrived, Done
<1>2. \A e \in active' : e[1] \in Done' /\ e[2] \in route'[e[1]]
  BY DEF Paths
<1>3. ASSUME NEW m \in Nodes, node'[m] \notin {"pending", "skipped"}
      PROVE  Arrived(m)'
  BY <1>1, <1>3 DEF Paths
<1>4. ASSUME NEW m \in Nodes, node'[m] = "skipped"
      PROVE  ~Arrived(m)' /\ \A k \in Nodes : k \in Done' \/ node'[k] = "skipped"
  <2>1. Done' = Done /\ node' = node /\ node[m] = "skipped"
    BY <1>4
  <2>2. Arrived(m)' => Arrived(m)
    BY <2>1 DEF Arrived
  <2> QED
    BY <2>1, <2>2 DEF Paths
<1> QED
  BY <1>2, <1>3, <1>4 DEF Paths

\* Activating the edges of nodes that are done queues only what is routed to.
LEMMA Activation ==
  ASSUME TypeOK, TypeOK', Paths, NEW D \in SUBSET Nodes, ActivateOutgoing(D),
         D \subseteq Done', Done \subseteq Done', route' = route
  PROVE  /\ \A e \in active' : e \in active \/ (e[1] \in Done' /\ e[2] \in route'[e[1]])
         /\ \A m \in Nodes : \/ node'[m] \in {"pending", "skipped"}
                             \/ node[m] \notin {"pending", "skipped"}
                             \/ Arrived(m)'
         /\ \A m \in Nodes : node'[m] = "skipped" => node[m] = "skipped" /\ node' = node
<1> USE WorkflowAssumption
<1>1. active' = active \cup Matched(D)
  BY DEF ActivateOutgoing
<1>2. \A e \in active' : e \in active \/ (e[1] \in Done' /\ e[2] \in route'[e[1]])
  BY <1>1 DEF Matched
<1>3. \A e \in active' : e[1] \in Done' /\ e[2] \in route'[e[1]]
  BY <1>2 DEF Paths
<1>4. node' = [m \in Nodes |->
         IF /\ node[m] = "pending" /\ ParentsSatisfied(m)
            /\ \E k \in D : m \in Successors(k)
         THEN "queued" ELSE node[m]]
  BY DEF ActivateOutgoing
<1>5. ASSUME NEW m \in Nodes, ParentsSatisfied(m)
      PROVE  Arrived(m)'
  <2>1. PICK k \in Nodes : <<k, m>> \in active'
    BY <1>5 DEF ParentsSatisfied
  <2>2. k \in Done' /\ m \in route'[k]
    BY <1>3, <2>1
  <2> QED
    BY <2>2 DEF Arrived
<1>6. \A m \in Nodes : \/ node'[m] \in {"pending", "skipped"}
                       \/ node[m] \notin {"pending", "skipped"}
                       \/ Arrived(m)'
  BY <1>4, <1>5
<1>7. ASSUME NEW m \in Nodes, node'[m] = "skipped"
      PROVE  node[m] = "skipped" /\ node' = node
  <2>1. node[m] = "skipped"
    BY <1>4, <1>7
  <2>2. \A k \in Nodes : node[k] # "pending"
    BY <2>1 DEF Paths, Done
  <2>3. node = [k \in Nodes |-> node[k]]
    BY DEF TypeOK
  <2>4. node' = [k \in Nodes |-> node[k]]
    BY <1>4, <2>2
  <2> QED
    BY <2>1, <2>3, <2>4
<1> QED
  BY <1>2, <1>6, <1>7

\* No event is taken back.
LEMMA RefiresGrow ==
  ASSUME TypeOK, TypeOK', [Next]_vars
  PROVE  spent["refire"] <= spent'["refire"]
<1>1. spent' = spent \/ \E e \in Events : spent' = [spent EXCEPT ![e] = @ + 1]
  BY DEF Next, ExecutorStep, vars, Spend, ExecuteGraph, FindWaiting, StartBatch,
         ExceedExecutions, TurnAgain, FindFailed, Succeed, Stall, Collect, Suspend,
         FailRun, Answer, BeginNode, DenyNode, DenyOutput, ArmTimer, CompleteNode,
         SuspendNode, FailNode, ResumeRun, Cancel, Crash, RecoverExpiredLease,
         ResumeAwaitingUser, ResumeWorkflowTimer
<1> QED
  BY <1>1 DEF TypeOK

\* Nodes are executed along the edges that the outputs before them match.
THEOREM RoutedKept == Spec => []Routed
<1> USE WorkflowAssumption
<1>1. Init => Routed
  BY DEF Init, Routed, Paths
<1>2. Walk /\ Walk' /\ Routed /\ [Next]_vars => Routed'
  <2> SUFFICES ASSUME TypeOK, TypeOK', PhaseFits, TimersFit, FlowFits, PhaseFits', [Next]_vars,
                      Paths, spent'["refire"] = 0 \/ TimersFixed
               PROVE  Paths'
    BY RefiresGrow DEF Walk, Routed, TypeOK
  <2>1. CASE ExecuteGraph
    <3>1. CASE /\ flow \in {"running", "awaiting_user"}
               /\ node' = [node EXCEPT ![Start] = IF @ = "pending" THEN "queued" ELSE @]
               /\ UNCHANGED <<flow, attempts, route, active>>
      <4>1. node' = node /\ phase' = phase
        BY <2>1, <3>1 DEF ExecuteGraph, FlowFits, TypeOK
      <4> QED
        BY <3>1, <4>1 DEF Paths, Arrived, Done
    <3>2. CASE node' = [Blank("pending") EXCEPT ![Start] = "queued"] /\ active' = {}
      BY <3>2 DEF Paths, Arrived
    <3> QED
      BY <2>1, <3>1, <3>2 DEF ExecuteGraph
  <2>2. CASE FindWaiting
    <3>1. ActivateOutgoing(InState("succeeded")) /\ pc = "ready" /\ route' = route
      BY <2>2 DEF FindWaiting, Turn
    <3>2. PICK D \in SUBSET Nodes : D = InState("succeeded")
      OBVIOUS
    <3>3. ActivateOutgoing(D)
      BY <3>1, <3>2
    <3>4. \A m \in Nodes : \/ node'[m] = node[m]
                           \/ node[m] = "pending" /\ node'[m] = "queued"
      BY <3>3, Activated
    <3>5. \A m \in Nodes : phase[m] = "none" /\ (phase'[m] = "none" \/ node[m] = "queued")
      BY <2>2, <3>1, OutOfBatch DEF FindWaiting, Leave
    <3>6. Done' = Done /\ D = Done
      BY ZenonT(60), <3>2, <3>4, <3>5 DEF Done
    <3>7. /\ \A e \in active' : e \in active \/ (e[1] \in Done' /\ e[2] \in route'[e[1]])
          /\ \A m \in Nodes : \/ node'[m] \in {"pending", "skipped"}
                              \/ node[m] \notin {"pending", "skipped"}
                              \/ Arrived(m)'
          /\ \A m \in Nodes : node'[m] = "skipped" => node[m] = "skipped" /\ node' = node
      BY <3>1, <3>3, <3>6, Activation
    <3> QED
      BY <3>1, <3>6, <3>7, PathsStay
  <2>3. CASE StartBatch
    <3>1. ActivateOutgoing(InState("succeeded")) /\ pc = "ready" /\ route' = route
      BY <2>3 DEF StartBatch, Turn
    <3>2. PICK D \in SUBSET Nodes : D = InState("succeeded")
      OBVIOUS
    <3>3. ActivateOutgoing(D)
      BY <3>1, <3>2
    <3>4. \A m \in Nodes : \/ node'[m] = node[m]
                           \/ node[m] = "pending" /\ node'[m] = "queued"
      BY <3>3, Activated
    <3>5. \A m \in Nodes : phase[m] = "none" /\ (phase'[m] = "none" \/ node[m] = "queued")
      BY <2>3, <3>1, OutOfBatch DEF StartBatch, Ready
    <3>6. Done' = Done /\ D = Done
      BY ZenonT(60), <3>2, <3>4, <3>5 DEF Done
    <3>7. /\ \A e \in active' : e \in active \/ (e[1] \in Done' /\ e[2] \in route'[e[1]])
          /\ \A m \in Nodes : \/ node'[m] \in {"pending", "skipped"}
                              \/ node[m] \notin {"pending", "skipped"}
                              \/ Arrived(m)'
          /\ \A m \in Nodes : node'[m] = "skipped" => node[m] = "skipped" /\ node' = node
      BY <3>1, <3>3, <3>6, Activation
    <3> QED
      BY <3>1, <3>6, <3>7, PathsStay
  <2>4. CASE ExceedExecutions
    <3>1. ActivateOutgoing(InState("succeeded")) /\ pc = "ready" /\ route' = route
      BY <2>4 DEF ExceedExecutions, Turn
    <3>2. PICK D \in SUBSET Nodes : D = InState("succeeded")
      OBVIOUS
    <3>3. ActivateOutgoing(D)
      BY <3>1, <3>2
    <3>4. \A m \in Nodes : \/ node'[m] = node[m]
                           \/ node[m] = "pending" /\ node'[m] = "queued"
      BY <3>3, Activated
    <3>5. \A m \in Nodes : phase[m] = "none" /\ (phase'[m] = "none" \/ node[m] = "queued")
      BY <2>4, <3>1, OutOfBatch DEF ExceedExecutions, GoTo
    <3>6. Done' = Done /\ D = Done
      BY ZenonT(60), <3>2, <3>4, <3>5 DEF Done
    <3>7. /\ \A e \in active' : e \in active \/ (e[1] \in Done' /\ e[2] \in route'[e[1]])
          /\ \A m \in Nodes : \/ node'[m] \in {"pending", "skipped"}
                              \/ node[m] \notin {"pending", "skipped"}
                              \/ Arrived(m)'
          /\ \A m \in Nodes : node'[m] = "skipped" => node[m] = "skipped" /\ node' = node
      BY <3>1, <3>3, <3>6, Activation
    <3> QED
      BY <3>1, <3>6, <3>7, PathsStay
  <2>5. CASE TurnAgain
    <3>1. ActivateOutgoing(InState("succeeded")) /\ pc = "ready" /\ route' = route
      BY <2>5 DEF TurnAgain, Turn
    <3>2. PICK D \in SUBSET Nodes : D = InState("succeeded")
      OBVIOUS
    <3>3. ActivateOutgoing(D)
      BY <3>1, <3>2
    <3>4. \A m \in Nodes : \/ node'[m] = node[m]
                           \/ node[m] = "pending" /\ node'[m] = "queued"
      BY <3>3, Activated
    <3>5. \A m \in Nodes : phase[m] = "none" /\ (phase'[m] = "none" \/ node[m] = "queued")
      BY <2>5, <3>1, OutOfBatch DEF TurnAgain
    <3>6. Done' = Done /\ D = Done
      BY ZenonT(60), <3>2, <3>4, <3>5 DEF Done
    <3>7. /\ \A e \in active' : e \in active \/ (e[1] \in Done' /\ e[2] \in route'[e[1]])
          /\ \A m \in Nodes : \/ node'[m] \in {"pending", "skipped"}
                              \/ node[m] \notin {"pending", "skipped"}
                              \/ Arrived(m)'
          /\ \A m \in Nodes : node'[m] = "skipped" => node[m] = "skipped" /\ node' = node
      BY <3>1, <3>3, <3>6, Activation
    <3> QED
      BY <3>1, <3>6, <3>7, PathsStay
  <2>6. CASE FindFailed
    <3>1. ActivateOutgoing(InState("succeeded")) /\ pc = "ready" /\ route' = route
      BY <2>6 DEF FindFailed, Turn
    <3>2. PICK D \in SUBSET Nodes : D = InState("succeeded")
      OBVIOUS
    <3>3. ActivateOutgoing(D)
      BY <3>1, <3>2
    <3>4. \A m \in Nodes : \/ node'[m] = node[m]
                           \/ node[m] = "pending" /\ node'[m] = "queued"
      BY <3>3, Activated
    <3>5. \A m \in Nodes : phase[m] = "none" /\ (phase'[m] = "none" \/ node[m] = "queued")
      BY <2>6, <3>1, OutOfBatch DEF FindFailed, GoTo
    <3>6. Done' = Done /\ D = Done
      BY ZenonT(60), <3>2, <3>4, <3>5 DEF Done
    <3>7. /\ \A e \in active' : e \in active \/ (e[1] \in Done' /\ e[2] \in route'[e[1]])
          /\ \A m \in Nodes : \/ node'[m] \in {"pending", "skipped"}
                              \/ node[m] \notin {"pending", "skipped"}
                              \/ Arrived(m)'
          /\ \A m \in Nodes : node'[m] = "skipped" => node[m] = "skipped" /\ node' = node
      BY <3>1, <3>3, <3>6, Activation
    <3> QED
      BY <3>1, <3>6, <3>7, PathsStay
  <2>7. CASE Succeed
    <3>1. /\ \A m \in Nodes : phase[m] = "none" /\ phase'[m] = "none"
          /\ active' = active \cup Matched(InState("succeeded")) /\ route' = route
          /\ NothingReady /\ InState("failed") \cup InState("running") = {}
          /\ node' = [m \in Nodes |-> IF node[m] = "pending" THEN "skipped" ELSE node[m]]
      BY <2>7, OutOfBatch DEF Succeed, GoTo
    <3>2. Done' = Done /\ \A m \in Nodes : node[m] = "succeeded" <=> m \in Done
      <4>1. \A m \in Nodes : node'[m] = "succeeded" <=> node[m] = "succeeded"
        BY <3>1
      <4> QED
        BY <3>1, <4>1 DEF Done
    <3>3. \A m \in Nodes : Arrived(m)' <=> Arrived(m)
      BY <3>1, <3>2 DEF Arrived
    <3>4. \A e \in active' : e[1] \in Done' /\ e[2] \in route'[e[1]]
      BY <3>1, <3>2 DEF Paths, Matched
    <3>5. \A m \in Nodes : node[m] \in {"succeeded", "skipped", "pending"}
      BY <3>1 DEF NothingReady, TypeOK
    <3>6. ASSUME NEW m \in Nodes, node[m] = "pending"
          PROVE  ~Arrived(m)
      <4>1. m # Start
        BY <2>7, <3>6 DEF FlowFits, Succeed
      <4>2. ASSUME NEW k \in Done, m \in route[k]
            PROVE  ParentsSatisfied(m)
        <5>1. k \in Nodes /\ <<k, m>> \in active'
          BY <3>1, <4>2 DEF Matched, Done
        <5>2. \A j \in Nodes : <<j, m>> \in active' => node[j] = "succeeded"
          BY <3>2, <3>4
        <5> QED
          BY <5>1, <5>2 DEF ParentsSatisfied
      <4>3. ~ParentsSatisfied(m)
        BY <3>1, <3>6 DEF NothingReady
      <4> QED
        BY <4>1, <4>2, <4>3 DEF Arrived
    <3>7. ASSUME NEW m \in Nodes, node'[m] \notin {"pending", "skipped"}
          PROVE  Arrived(m)'
      BY <3>1, <3>3, <3>7 DEF Paths
    <3>8. ASSUME NEW m \in Nodes, node'[m] = "skipped"
          PROVE  ~Arrived(m)' /\ \A k \in Nodes : k \in Done' \/ node'[k] = "skipped"
      <4>1. ~Arrived(m)
        BY <3>1, <3>6, <3>8 DEF Paths
      <4>2. \A k \in Nodes : k \in Done \/ node'[k] = "skipped"
        BY <3>1, <3>2, <3>5
      <4> QED
        BY <3>2, <3>3, <4>1, <4>2
    <3> QED
      BY <3>4, <3>7, <3>8 DEF Paths
  <2>8. CASE Stall
    <3>1. ActivateOutgoing(InState("succeeded")) /\ pc = "ready" /\ route' = route
      BY <2>8 DEF Stall, Turn
    <3>2. PICK D \in SUBSET Nodes : D = InState("succeeded")
      OBVIOUS
    <3>3. ActivateOutgoing(D)
      BY <3>1, <3>2
    <3>4. \A m \in Nodes : \/ node'[m] = node[m]
                           \/ node[m] = "pending" /\ node'[m] = "queued"
      BY <3>3, Activated
    <3>5. \A m \in Nodes : phase[m] = "none" /\ (phase'[m] = "none" \/ node[m] = "queued")
      BY <2>8, <3>1, OutOfBatch DEF Stall, GoTo
    <3>6. Done' = Done /\ D = Done
      BY ZenonT(60), <3>2, <3>4, <3>5 DEF Done
    <3>7. /\ \A e \in active' : e \in active \/ (e[1] \in Done' /\ e[2] \in route'[e[1]])
          /\ \A m \in Nodes : \/ node'[m] \in {"pending", "skipped"}
                              \/ node[m] \notin {"pending", "skipped"}
                              \/ Arrived(m)'
          /\ \A m \in Nodes : node'[m] = "skipped" => node[m] = "skipped" /\ node' = node
      BY <3>1, <3>3, <3>6, Activation
    <3> QED
      BY <3>1, <3>6, <3>7, PathsStay
  <2>9. CASE Collect
    <3> DEFINE batch == {n \in Nodes : phase[n] # "none"}
               stops == {n \in batch : phase[n] \in {"error", "awaiting"}}
               S == {n \in batch : phase[n] = "done" /\ \A m \in stops : n < m}
    <3>1. /\ ActivateOutgoing(S) /\ route' = route
          /\ \A m \in Nodes : phase'[m] = "none"
      BY <2>9 DEF Collect, GoTo
    <3>2. PICK D \in SUBSET Nodes : D = S
      OBVIOUS
    <3>3. ActivateOutgoing(D)
      BY <3>1, <3>2
    <3>4. \A m \in D : phase[m] = "done"
      BY <3>2
    <3> HIDE DEF batch, stops, S
    <3>5. \A m \in Nodes : \/ node'[m] = node[m]
                           \/ node[m] = "pending" /\ node'[m] = "queued"
      BY <3>3, Activated
    <3>6. D \subseteq Done' /\ Done \subseteq Done'
      BY ZenonT(60), <3>1, <3>4, <3>5 DEF Done, PhaseFits
    <3>7. ASSUME NEW m \in Nodes, node[m] = "skipped", node' = node
          PROVE  Done' = Done
      BY <3>1, <3>7 DEF Paths, Done
    <3>8. /\ \A e \in active' : e \in active \/ (e[1] \in Done' /\ e[2] \in route'[e[1]])
          /\ \A m \in Nodes : \/ node'[m] \in {"pending", "skipped"}
                              \/ node[m] \notin {"pending", "skipped"}
                              \/ Arrived(m)'
          /\ \A m \in Nodes : node'[m] = "skipped" => node[m] = "skipped" /\ node' = node
      BY <3>1, <3>3, <3>6, Activation
    <3> QED
      BY <3>1, <3>6, <3>7, <3>8, PathsStay
  <2>10. CASE Suspend
    <3>1. UNCHANGED <<node, route, active>> /\ \A m \in Nodes : phase[m] = "none" /\ phase'[m] = "none"
      BY <2>10, OutOfBatch DEF Suspend, Leave
    <3>2. Done' = Done
      BY <3>1 DEF Done
    <3> QED
      BY <3>1, <3>2, PathsStay
  <2>11. CASE FailRun
    <3>1. UNCHANGED <<node, route, active>> /\ \A m \in Nodes : phase[m] = "none" /\ phase'[m] = "none"
      BY <2>11, OutOfBatch DEF FailRun, Leave
    <3>2. Done' = Done
      BY <3>1 DEF Done
    <3> QED
      BY <3>1, <3>2, PathsStay
  <2>12. CASE Answer
    <3>1. UNCHANGED <<node, route, active>> /\ \A m \in Nodes : phase[m] = "none" /\ phase'[m] = "none"
      BY <2>12, OutOfBatch DEF Answer, Leave
    <3>2. Done' = Done
      BY <3>1 DEF Done
    <3> QED
      BY <3>1, <3>2, PathsStay
  <2>13. ASSUME NEW n \in Nodes, BeginNode(n) PROVE Paths'
    <3>1. /\ node[n] \notin {"pending", "skipped"} /\ n \notin Done /\ active' = active
          /\ \A m \in Nodes \ {n} : /\ node'[m] = node[m] /\ phase'[m] = phase[m]
                                    /\ route'[m] = route[m]
          /\ node'[n] # "skipped"
      BY <2>13 DEF Done, TypeOK, PhaseFits, BeginNode, NodeBecomes
    <3>2. Done \subseteq Done' /\ \A m \in Done : route'[m] = route[m]
      BY <3>1 DEF Done
    <3>3. \A m \in Nodes : node'[m] # "skipped"
      BY <3>1 DEF Paths
    <3> QED
      BY <3>1, <3>2, <3>3, PathsStay
  <2>14. ASSUME NEW n \in Nodes, DenyNode(n) PROVE Paths'
    <3>1. /\ node[n] \notin {"pending", "skipped"} /\ n \notin Done /\ active' = active
          /\ \A m \in Nodes \ {n} : /\ node'[m] = node[m] /\ phase'[m] = phase[m]
                                    /\ route'[m] = route[m]
          /\ node'[n] # "skipped"
      BY <2>14 DEF Done, TypeOK, PhaseFits, DenyNode, NodeBecomes, Spend
    <3>2. Done \subseteq Done' /\ \A m \in Done : route'[m] = route[m]
      BY <3>1 DEF Done
    <3>3. \A m \in Nodes : node'[m] # "skipped"
      BY <3>1 DEF Paths
    <3> QED
      BY <3>1, <3>2, <3>3, PathsStay
  <2>15. ASSUME NEW n \in Nodes, DenyOutput(n) PROVE Paths'
    <3>1. /\ node[n] \notin {"pending", "skipped"} /\ n \notin Done /\ active' = active
          /\ \A m \in Nodes \ {n} : /\ node'[m] = node[m] /\ phase'[m] = phase[m]
                                    /\ route'[m] = route[m]
          /\ node'[n] # "skipped"
      BY <2>15 DEF Done, TypeOK, PhaseFits, DenyOutput, NodeBecomes, Spend
    <3>2. Done \subseteq Done' /\ \A m \in Done : route'[m] = route[m]
      BY <3>1 DEF Done
    <3>3. \A m \in Nodes : node'[m] # "skipped"
      BY <3>1 DEF Paths
    <3> QED
      BY <3>1, <3>2, <3>3, PathsStay
  <2>16. ASSUME NEW n \in Nodes, ArmTimer(n) PROVE Paths'
    <3>1. UNCHANGED <<node, route, active>> /\ Done' = Done
      BY <2>16 DEF Done, TypeOK, ArmTimer
    <3> QED
      BY <3>1, PathsStay
  <2>17. ASSUME NEW n \in Nodes, CompleteNode(n) PROVE Paths'
    <3>1. /\ node[n] \notin {"pending", "skipped"} /\ n \notin Done /\ active' = active
          /\ \A m \in Nodes \ {n} : /\ node'[m] = node[m] /\ phase'[m] = phase[m]
                                    /\ route'[m] = route[m]
          /\ node'[n] # "skipped"
      BY <2>17 DEF Done, TypeOK, PhaseFits, CompleteNode, NodeBecomes
    <3>2. Done \subseteq Done' /\ \A m \in Done : route'[m] = route[m]
      BY <3>1 DEF Done
    <3>3. \A m \in Nodes : node'[m] # "skipped"
      BY <3>1 DEF Paths
    <3> QED
      BY <3>1, <3>2, <3>3, PathsStay
  <2>18. ASSUME NEW n \in Nodes, SuspendNode(n) PROVE Paths'
    <3>1. /\ node[n] \notin {"pending", "skipped"} /\ n \notin Done /\ active' = active
          /\ \A m \in Nodes \ {n} : /\ node'[m] = node[m] /\ phase'[m] = phase[m]
                                    /\ route'[m] = route[m]
          /\ node'[n] # "skipped"
      BY <2>18 DEF Done, TypeOK, PhaseFits, SuspendNode, NodeBecomes
    <3>2. Done \subseteq Done' /\ \A m \in Done : route'[m] = route[m]
      BY <3>1 DEF Done
    <3>3. \A m \in Nodes : node'[m] # "skipped"
      BY <3>1 DEF Paths
    <3> QED
      BY <3>1, <3>2, <3>3, PathsStay
  <2>19. ASSUME NEW n \in Nodes, FailNode(n) PROVE Paths'
    <3>1. /\ node[n] \notin {"pending", "skipped"} /\ n \notin Done /\ active' = active
          /\ \A m \in Nodes \ {n} : /\ node'[m] = node[m] /\ phase'[m] = phase[m]
                                    /\ route'[m] = route[m]
          /\ node'[n] # "skipped"
      BY <2>19 DEF Done, TypeOK, PhaseFits, FailNode, NodeBecomes, Spend
    <3>2. Done \subseteq Done' /\ \A m \in Done : route'[m] = route[m]
      BY <3>1 DEF Done
    <3>3. \A m \in Nodes : node'[m] # "skipped"
      BY <3>1 DEF Paths
    <3> QED
      BY <3>1, <3>2, <3>3, PathsStay
  <2>20. CASE ResumeRun
    <3>1. UNCHANGED <<node, route, active>> /\ Done' = Done
      BY <2>20, OutOfBatch DEF Done, TypeOK, ResumeRun, Spend
    <3> QED
      BY <3>1, PathsStay
  <2>21. CASE Cancel
    <3>1. UNCHANGED <<node, route, active>> /\ Done' = Done
      BY <2>21, OutOfBatch DEF Done, TypeOK, Cancel, Spend
    <3> QED
      BY <3>1, PathsStay
  <2>22. CASE Crash
    <3>1. UNCHANGED <<node, route, active>> /\ \A m \in Nodes : phase'[m] = "none"
      BY <2>22 DEF Crash, Leave
    <3>2. Done \subseteq Done'
      BY <3>1 DEF Done
    <3>3. \A m \in Nodes : node[m] = "skipped" => Done' = Done
      BY <3>1 DEF Paths, Done
    <3> QED
      BY <3>1, <3>2, <3>3, PathsStay
  <2>23. CASE RecoverExpiredLease
    <3>1. UNCHANGED <<node, route, active>> /\ Done' = Done
      BY <2>23, OutOfBatch DEF Done, TypeOK, RecoverExpiredLease
    <3> QED
      BY <3>1, PathsStay
  <2>24. ASSUME NEW n \in Nodes, ResumeAwaitingUser(n) PROVE Paths'
    <3>1. /\ node[n] \notin {"pending", "skipped"} /\ n \notin Done /\ active' = active
          /\ \A m \in Nodes \ {n} : /\ node'[m] = node[m] /\ phase'[m] = phase[m]
                                    /\ route'[m] = route[m]
          /\ node'[n] # "skipped"
      BY <2>24 DEF Done, TypeOK, PhaseFits, FlowFits, ResumeAwaitingUser
    <3>2. Done \subseteq Done' /\ \A m \in Done : route'[m] = route[m]
      BY <3>1 DEF Done
    <3>3. \A m \in Nodes : node'[m] # "skipped"
      BY <3>1 DEF Paths
    <3> QED
      BY <3>1, <3>2, <3>3, PathsStay
  <2>25. ASSUME NEW n \in Nodes, ResumeWorkflowTimer(n) PROVE Paths'
    <3>1. PICK R \in Routes[n] : route' = [route EXCEPT ![n] = R]
      BY <2>25 DEF ResumeWorkflowTimer
    <3>2. /\ n \in timers /\ node' = [node EXCEPT ![n] = "succeeded"]
          /\ active' = active /\ phase' = phase
      BY <2>25 DEF ResumeWorkflowTimer
    <3>3. spent["refire"] <= spent'["refire"]
      BY <2>25 DEF ResumeWorkflowTimer, Spend, TypeOK
    <3>4. CASE n \in Done
      <4>1. spent["refire"] # 0
        BY <3>2, <3>4 DEF TimersFit, Done
      <4>2. TimersFixed
        BY <3>3, <4>1 DEF TypeOK
      <4>3. route' = route
        BY <3>1, <3>2, <3>4, <4>2 DEF TimersFixed, TimersFit, PhaseFits, Done, TypeOK
      <4>4. node' = node
        BY <3>2, <3>4 DEF Done, TypeOK
      <4> QED
        BY <3>2, <4>3, <4>4 DEF Paths, Arrived, Done
    <3>5. CASE n \notin Done
      <4>1. \A m \in Nodes : m # n => node'[m] = node[m] /\ route'[m] = route[m]
        BY <3>1, <3>2 DEF TypeOK
      <4>2. node[n] \notin {"pending", "skipped"}
        BY <3>2 DEF TimersFit
      <4>3. Done \subseteq Done' /\ \A m \in Done : route'[m] = route[m]
        BY <3>2, <3>5, <4>1 DEF Done
      <4>4. \A m \in Nodes : node[m] # "skipped"
        BY <3>5, <4>2 DEF Paths
      <4>5. \A m \in Nodes : node'[m] # "skipped"
        BY <3>2, <4>4 DEF TypeOK
      <4>6. \A m \in Nodes : \/ node'[m] \in {"pending", "skipped"}
                             \/ node[m] \notin {"pending", "skipped"}
        BY <4>1, <4>2
      <4> QED
        BY <3>2, <4>3, <4>5, <4>6, PathsStay
    <3> QED
      BY <3>4, <3>5
  <2>26. CASE UNCHANGED vars
    BY <2>26 DEF vars, Paths, Arrived, Done
  <2> QED
    BY <2>1, <2>2, <2>3, <2>4, <2>5, <2>6, <2>7, <2>8, <2>9, <2>10, <2>11, <2>12, <2>13, <2>14, <2>15, <2>16, <2>17, <2>18, <2>19, <2>20, <2>21, <2>22, <2>23, <2>24, <2>25, <2>26
       DEF Next, ExecutorStep
<1> QED
  BY <1>1, <1>2, WalkKept, PTL DEF Spec

\* What Traversal calls reached.
LEMMA ReachedIsArrived ==
  ASSUME NEW n \in Nodes
  PROVE  Path!Reached(n) <=> Arrived(n)
  BY DEF Path!Reached, Arrived, Done

\* A workflow that has succeeded has executed what was routed to and skipped the
\* rest.
THEOREM RestIsSkipped ==
  ASSUME TimersFixed
  PROVE  Spec => []SkipsTheRest
<1>1. Walk /\ Routed => SkipsTheRest
  <2> SUFFICES ASSUME TypeOK, FlowFits, Paths, flow = "succeeded", NEW n \in Nodes
               PROVE  node[n] = IF Path!Reached(n) THEN "succeeded" ELSE "skipped"
    BY DEF Walk, Routed, SkipsTheRest
  <2>1. node[n] \in {"succeeded", "skipped"}
    BY DEF FlowFits
  <2> QED
    BY <2>1, ReachedIsArrived DEF Paths
<1> QED
  BY <1>1, WalkKept, RoutedKept, PTL

\* How far the workflow is, as Traversal sees it.
Shown == [n \in Nodes |-> IF n \in Done THEN route[n] ELSE {}]
Outcome == IF flow = "succeeded" THEN "finished"
           ELSE IF flow = "failed" THEN "abandoned" ELSE "open"

\* A step that Traversal does not see.
LEMMA Stays ==
  ASSUME Done' = Done, \A m \in Done : route'[m] = route[m], flow' = flow
  PROVE  UNCHANGED Path!vars
<1>1. Shown' = Shown
  BY DEF Shown
<1> QED
  BY <1>1 DEF Shown, Path!vars

\* A step that adds to what is done, or gives up, is one of Traversal.
LEMMA Advances ==
  ASSUME TypeOK', PhaseFits', Done \subseteq Done', \A m \in Done : route'[m] = route[m],
         \A m \in Done' \ Done : Arrived(m),
         flow # "succeeded", flow' # "succeeded",
         Done' = Done => flow = flow' \/ flow # "failed"
  PROVE  Path!Next \/ UNCHANGED Path!vars
<1>0. /\ Outcome \in {"open", "abandoned"} /\ Outcome' \in {"open", "abandoned"}
      /\ Done' \subseteq Nodes
  BY DEF Outcome, Done
<1>1. CASE Done' = Done
  <2>1. Shown' = Shown
    BY <1>1 DEF Shown
  <2>2. Outcome = "open" \/ Outcome' = Outcome
    BY <1>1 DEF Outcome
  <2> QED
    BY <1>0, <1>1, <2>1, <2>2 DEF Shown, Outcome, Path!vars, Path!Next, Path!GiveUp
<1>2. CASE Done' # Done
  <2>0. PICK D \in SUBSET Nodes : D = Done' \ Done
    BY <1>0
  <2>1. D # {} /\ D \cap Done = {} /\ Done' = Done \cup D
    BY <1>2, <2>0
  <2>2. \A n \in D : Path!Reached(n)
    BY <2>0, ReachedIsArrived
  <2>3. Shown' \in [Nodes -> SUBSET Nodes]
    BY DEF Shown, TypeOK
  <2>4. \A n \in Nodes : IF n \in D THEN Shown'[n] \in Routes[n] ELSE Shown'[n] = Shown[n]
    BY <2>0 DEF Shown, PhaseFits, Done
  <2>5. Path!Visit(D)
    BY <1>0, <2>1, <2>2, <2>3, <2>4 DEF Shown, Outcome, Path!Visit
  <2> QED
    BY <2>1, <2>5 DEF Path!Next
<1> QED
  BY <1>1, <1>2

\* The executor implements Traversal through retries, waits, denials,
\* cancellations, early timers and crashes, until a timer fires again.
THEOREM GraphIsTraversed == Spec => TraversesGraph
<1> USE WorkflowAssumption
<1>1. Init => Path!Init
  BY DEF Init, Path!Init, Done
<1>2. Walk /\ Walk' /\ Routed /\ Routed' /\ [Next]_vars =>
        [Path!Next \/ spent["refire"]' > 0]_(Path!vars)
  <2> DEFINE Goal == Path!Next \/ UNCHANGED Path!vars
  <2> SUFFICES ASSUME TypeOK, TypeOK', PhaseFits, TimersFit, FlowFits, PhaseFits', FlowFits',
                      [Next]_vars, Paths, Paths', spent'["refire"] = 0
               PROVE  Goal
    <3>1. Walk /\ Walk' /\ [Next]_vars => spent["refire"] <= spent'["refire"]
      BY RefiresGrow DEF Walk
    <3> QED
      BY <3>1 DEF Walk, Routed, TypeOK
  <2>1. CASE ExecuteGraph
    <3>1. CASE /\ flow \in {"running", "awaiting_user"}
               /\ node' = [node EXCEPT ![Start] = IF @ = "pending" THEN "queued" ELSE @]
               /\ UNCHANGED <<flow, attempts, route, active>>
      <4>1. node' = node /\ phase' = phase
        BY <2>1, <3>1 DEF ExecuteGraph, FlowFits, TypeOK
      <4> QED
        BY <3>1, <4>1, Stays DEF Done
    <3>2. CASE /\ flow \in {"none", "succeeded", "failed"} /\ flow' = "running"
               /\ node' = [Blank("pending") EXCEPT ![Start] = "queued"]
      <4>1. Done' = {}
        BY <3>2 DEF Done
      <4>2. CASE flow = "none"
        <5>1. Done = {}
          BY <4>2 DEF FlowFits, Done
        <5>2. Shown' = Shown
          BY <4>1, <5>1 DEF Shown
        <5> QED
          BY <3>2, <4>1, <4>2, <5>1, <5>2 DEF Shown, Path!vars
      <4>3. CASE flow # "none"
        <5>1. Shown' = [m \in Nodes |-> {}]
          BY <4>1 DEF Shown
        <5>2. Outcome # "open" /\ Outcome' = "open"
          BY <3>2, <4>3 DEF Outcome
        <5>3. Path!Restart
          BY <4>1, <5>1, <5>2 DEF Shown, Outcome, Path!Restart, Path!Init
        <5> QED
          BY <5>3 DEF Path!Next
      <4> QED
        BY <4>2, <4>3
    <3> QED
      BY <2>1, <3>1, <3>2 DEF ExecuteGraph
  <2>2. CASE FindWaiting
    <3>1. ActivateOutgoing(InState("succeeded")) /\ pc = "ready" /\ route' = route /\ flow' = flow
      BY <2>2 DEF FindWaiting, Turn
    <3>2. \A m \in Nodes : \/ node'[m] = node[m]
                           \/ node[m] = "pending" /\ node'[m] = "queued"
      BY <3>1 DEF ActivateOutgoing
    <3>3. \A m \in Nodes : phase[m] = "none" /\ (phase'[m] = "none" \/ node[m] = "queued")
      BY <2>2, <3>1, OutOfBatch DEF FindWaiting, Leave
    <3>4. Done' = Done
      BY <3>2, <3>3 DEF Done
    <3> QED
      BY <3>1, <3>4, Stays
  <2>3. CASE StartBatch
    <3>1. ActivateOutgoing(InState("succeeded")) /\ pc = "ready" /\ route' = route /\ flow' = flow
      BY <2>3 DEF StartBatch, Turn
    <3>2. \A m \in Nodes : \/ node'[m] = node[m]
                           \/ node[m] = "pending" /\ node'[m] = "queued"
      BY <3>1 DEF ActivateOutgoing
    <3>3. \A m \in Nodes : phase[m] = "none" /\ (phase'[m] = "none" \/ node[m] = "queued")
      BY <2>3, <3>1, OutOfBatch DEF StartBatch, Ready
    <3>4. Done' = Done
      BY <3>2, <3>3 DEF Done
    <3> QED
      BY <3>1, <3>4, Stays
  <2>4. CASE ExceedExecutions
    <3>1. ActivateOutgoing(InState("succeeded")) /\ pc = "ready" /\ route' = route /\ flow' = "failed"
      BY <2>4 DEF ExceedExecutions, Turn
    <3>2. \A m \in Nodes : \/ node'[m] = node[m]
                           \/ node[m] = "pending" /\ node'[m] = "queued"
      BY <3>1 DEF ActivateOutgoing
    <3>3. \A m \in Nodes : phase[m] = "none" /\ phase'[m] = "none"
      BY <2>4, <3>1, OutOfBatch DEF ExceedExecutions, GoTo
    <3>4. Done' = Done
      BY <3>2, <3>3 DEF Done
    <3> QED
      BY <3>1, <3>4, Advances DEF FlowFits
  <2>5. CASE TurnAgain
    <3>1. ActivateOutgoing(InState("succeeded")) /\ pc = "ready" /\ route' = route /\ flow' = flow
      BY <2>5 DEF TurnAgain, Turn
    <3>2. \A m \in Nodes : \/ node'[m] = node[m]
                           \/ node[m] = "pending" /\ node'[m] = "queued"
      BY <3>1 DEF ActivateOutgoing
    <3>3. \A m \in Nodes : phase[m] = "none" /\ (phase'[m] = "none" \/ node[m] = "queued")
      BY <2>5, <3>1, OutOfBatch DEF TurnAgain
    <3>4. Done' = Done
      BY <3>2, <3>3 DEF Done
    <3> QED
      BY <3>1, <3>4, Stays
  <2>6. CASE FindFailed
    <3>1. ActivateOutgoing(InState("succeeded")) /\ pc = "ready" /\ route' = route /\ flow' = "failed"
      BY <2>6 DEF FindFailed, Turn
    <3>2. \A m \in Nodes : \/ node'[m] = node[m]
                           \/ node[m] = "pending" /\ node'[m] = "queued"
      BY <3>1 DEF ActivateOutgoing
    <3>3. \A m \in Nodes : phase[m] = "none" /\ phase'[m] = "none"
      BY <2>6, <3>1, OutOfBatch DEF FindFailed, GoTo
    <3>4. Done' = Done
      BY <3>2, <3>3 DEF Done
    <3> QED
      BY <3>1, <3>4, Advances DEF FlowFits
  <2>7. CASE Succeed
    <3>1. /\ \A m \in Nodes : phase[m] = "none" /\ phase'[m] = "none"
          /\ pc = "ready" /\ flow' = "succeeded" /\ route' = route
          /\ node' = [m \in Nodes |-> IF node[m] = "pending" THEN "skipped" ELSE node[m]]
      BY <2>7, OutOfBatch DEF Succeed, GoTo
    <3>2. Done' = Done
      <4>1. \A m \in Nodes : node'[m] = "succeeded" <=> node[m] = "succeeded"
        BY <3>1
      <4> QED
        BY <3>1, <4>1 DEF Done
    <3>3. \A m \in Nodes : Arrived(m)' <=> Arrived(m)
      BY <3>1, <3>2 DEF Arrived
    <3>4. \A m \in Nodes : node'[m] \in {"succeeded", "skipped"}
      BY <3>1 DEF FlowFits
    <3>5. \A m \in Nodes : Path!Reached(m) => m \in Done
      BY <3>1, <3>2, <3>3, <3>4, ReachedIsArrived DEF Paths, Done
    <3>6. Shown' = Shown /\ Outcome = "open" /\ Outcome' = "finished"
      BY <3>1, <3>2 DEF Shown, Outcome, FlowFits
    <3> QED
      BY <3>2, <3>5, <3>6 DEF Shown, Outcome, Path!Finish, Path!Next
  <2>8. CASE Stall
    <3>1. ActivateOutgoing(InState("succeeded")) /\ pc = "ready" /\ route' = route /\ flow' = flow
      BY <2>8 DEF Stall, Turn
    <3>2. \A m \in Nodes : \/ node'[m] = node[m]
                           \/ node[m] = "pending" /\ node'[m] = "queued"
      BY <3>1 DEF ActivateOutgoing
    <3>3. \A m \in Nodes : phase[m] = "none" /\ (phase'[m] = "none" \/ node[m] = "queued")
      BY <2>8, <3>1, OutOfBatch DEF Stall, GoTo
    <3>4. Done' = Done
      BY <3>2, <3>3 DEF Done
    <3> QED
      BY <3>1, <3>4, Stays
  <2>9. CASE Collect
    <3>1. /\ pc = "batch" /\ (\A m \in Nodes : phase'[m] = "none") /\ route' = route
          /\ flow' \in {flow, "failed", "awaiting_user"}
          /\ \E D : ActivateOutgoing(D)
      BY <2>9 DEF Collect, GoTo
    <3>2. \A m \in Nodes : \/ node'[m] = node[m]
                           \/ node[m] = "pending" /\ node'[m] = "queued"
      BY <3>1 DEF ActivateOutgoing
    <3>3. Done \subseteq Done' /\ \A m \in Done' \ Done : Arrived(m)
      BY <3>1, <3>2 DEF Done, Paths
    <3> QED
      BY <3>1, <3>3, Advances DEF FlowFits
  <2>10. CASE Suspend
    <3>1. /\ UNCHANGED <<flow, node, route>>
          /\ \A m \in Nodes : phase[m] = "none" /\ phase'[m] = "none"
      BY <2>10, OutOfBatch DEF Suspend, Leave
    <3>2. Done' = Done
      BY <3>1 DEF Done
    <3> QED
      BY <3>1, <3>2, Stays
  <2>11. CASE FailRun
    <3>1. /\ UNCHANGED <<flow, node, route>>
          /\ \A m \in Nodes : phase[m] = "none" /\ phase'[m] = "none"
      BY <2>11, OutOfBatch DEF FailRun, Leave
    <3>2. Done' = Done
      BY <3>1 DEF Done
    <3> QED
      BY <3>1, <3>2, Stays
  <2>12. CASE Answer
    <3>1. /\ UNCHANGED <<flow, node, route>>
          /\ \A m \in Nodes : phase[m] = "none" /\ phase'[m] = "none"
      BY <2>12, OutOfBatch DEF Answer, Leave
    <3>2. Done' = Done
      BY <3>1 DEF Done
    <3> QED
      BY <3>1, <3>2, Stays
  <2>13. ASSUME NEW n \in Nodes, BeginNode(n) PROVE Goal
    <3>1. /\ flow' = flow /\ n \notin Done /\ n \notin Done'
          /\ \A m \in Nodes \ {n} : /\ node'[m] = node[m] /\ phase'[m] = phase[m]
                                    /\ route'[m] = route[m]
      BY <2>13 DEF Done, TypeOK, BeginNode, NodeBecomes
    <3>2. Done' = Done /\ \A m \in Done : route'[m] = route[m]
      BY <3>1 DEF Done
    <3> QED
      BY <3>1, <3>2, Stays
  <2>14. ASSUME NEW n \in Nodes, DenyNode(n) PROVE Goal
    <3>1. /\ flow' = flow /\ n \notin Done /\ n \notin Done'
          /\ \A m \in Nodes \ {n} : /\ node'[m] = node[m] /\ phase'[m] = phase[m]
                                    /\ route'[m] = route[m]
      BY <2>14 DEF Done, TypeOK, DenyNode, NodeBecomes, Spend
    <3>2. Done' = Done /\ \A m \in Done : route'[m] = route[m]
      BY <3>1 DEF Done
    <3> QED
      BY <3>1, <3>2, Stays
  <2>15. ASSUME NEW n \in Nodes, DenyOutput(n) PROVE Goal
    <3>1. /\ flow' = flow /\ n \notin Done /\ n \notin Done'
          /\ \A m \in Nodes \ {n} : /\ node'[m] = node[m] /\ phase'[m] = phase[m]
                                    /\ route'[m] = route[m]
      BY <2>15 DEF Done, TypeOK, DenyOutput, NodeBecomes, Spend
    <3>2. Done' = Done /\ \A m \in Done : route'[m] = route[m]
      BY <3>1 DEF Done
    <3> QED
      BY <3>1, <3>2, Stays
  <2>16. ASSUME NEW n \in Nodes, ArmTimer(n) PROVE Goal
    <3>1. UNCHANGED <<flow, node, route>> /\ Done' = Done
      BY <2>16 DEF Done, TypeOK, ArmTimer
    <3> QED
      BY <3>1, Stays
  <2>17. ASSUME NEW n \in Nodes, CompleteNode(n) PROVE Goal
    <3>1. /\ flow' = flow /\ n \notin Done /\ n \notin Done'
          /\ \A m \in Nodes \ {n} : /\ node'[m] = node[m] /\ phase'[m] = phase[m]
                                    /\ route'[m] = route[m]
      BY <2>17 DEF Done, TypeOK, CompleteNode, NodeBecomes
    <3>2. Done' = Done /\ \A m \in Done : route'[m] = route[m]
      BY <3>1 DEF Done
    <3> QED
      BY <3>1, <3>2, Stays
  <2>18. ASSUME NEW n \in Nodes, SuspendNode(n) PROVE Goal
    <3>1. /\ flow' = flow /\ n \notin Done /\ n \notin Done'
          /\ \A m \in Nodes \ {n} : /\ node'[m] = node[m] /\ phase'[m] = phase[m]
                                    /\ route'[m] = route[m]
      BY <2>18 DEF Done, TypeOK, SuspendNode, NodeBecomes
    <3>2. Done' = Done /\ \A m \in Done : route'[m] = route[m]
      BY <3>1 DEF Done
    <3> QED
      BY <3>1, <3>2, Stays
  <2>19. ASSUME NEW n \in Nodes, FailNode(n) PROVE Goal
    <3>1. /\ flow' = flow /\ n \notin Done /\ n \notin Done'
          /\ \A m \in Nodes \ {n} : /\ node'[m] = node[m] /\ phase'[m] = phase[m]
                                    /\ route'[m] = route[m]
      BY <2>19 DEF Done, TypeOK, FailNode, NodeBecomes, Spend
    <3>2. Done' = Done /\ \A m \in Done : route'[m] = route[m]
      BY <3>1 DEF Done
    <3> QED
      BY <3>1, <3>2, Stays
  <2>20. CASE ResumeRun
    <3>1. UNCHANGED <<flow, node, route>> /\ Done' = Done
      BY <2>20 DEF Done, TypeOK, ResumeRun, Spend
    <3> QED
      BY <3>1, Stays
  <2>21. CASE Cancel
    <3>1. UNCHANGED <<flow, node, route>> /\ Done' = Done
      BY <2>21 DEF Done, TypeOK, Cancel, Spend
    <3> QED
      BY <3>1, Stays
  <2>22. CASE Crash
    <3>1. /\ UNCHANGED <<flow, node, route>> /\ pc # "idle"
          /\ \A m \in Nodes : phase'[m] = "none"
      BY <2>22 DEF Crash, Leave
    <3>2. Done \subseteq Done' /\ \A m \in Done' \ Done : Arrived(m)
      BY <3>1 DEF Done, Paths
    <3>3. CASE pc = "batch"
      BY <3>1, <3>2, <3>3, Advances DEF FlowFits
    <3>4. CASE pc # "batch"
      <4>1. Done' = Done
        BY <3>1, <3>4, OutOfBatch DEF Done
      <4> QED
        BY <3>1, <4>1, Stays
    <3> QED
      BY <3>3, <3>4
  <2>23. CASE RecoverExpiredLease
    <3>1. UNCHANGED <<flow, node, route>> /\ Done' = Done
      BY <2>23 DEF Done, TypeOK, RecoverExpiredLease
    <3> QED
      BY <3>1, Stays
  <2>24. ASSUME NEW n \in Nodes, ResumeAwaitingUser(n) PROVE Goal
    <3>1. /\ node[n] = "awaiting_user" /\ flow' = "running" /\ phase' = phase
          /\ \A m \in Nodes \ {n} : node'[m] = node[m] /\ route'[m] = route[m]
          /\ node'[n] = "succeeded" /\ phase[n] = "none"
      BY <2>24, OutOfBatch DEF ResumeAwaitingUser, FlowFits, TypeOK
    <3>2. /\ Done \subseteq Done' /\ Done' # Done /\ \A m \in Done : route'[m] = route[m]
          /\ \A m \in Done' \ Done : Arrived(m)
      BY <3>1 DEF Done, Paths
    <3>3. flow # "succeeded"
      BY <3>1 DEF FlowFits
    <3> QED
      BY <3>1, <3>2, <3>3, Advances
  <2>25. ASSUME NEW n \in Nodes, ResumeWorkflowTimer(n) PROVE Goal
    <3>1. /\ n \in timers /\ flow' = "running" /\ phase' = phase
          /\ node' = [node EXCEPT ![n] = "succeeded"]
          /\ \A m \in Nodes \ {n} : node'[m] = node[m] /\ route'[m] = route[m]
      BY <2>25 DEF ResumeWorkflowTimer, TypeOK
    <3>2. /\ node[n] \notin {"succeeded", "pending", "skipped"} /\ n \notin Done
          /\ node'[n] = "succeeded"
      <4>1. spent["refire"] = 0
        BY RefiresGrow DEF TypeOK
      <4> QED
        BY <3>1, <4>1 DEF TimersFit, Done, TypeOK
    <3>3. flow # "succeeded"
      BY <3>2 DEF FlowFits
    <3>4. /\ Done \subseteq Done' /\ \A m \in Done : route'[m] = route[m]
          /\ \A m \in Done' \ Done : Arrived(m)
          /\ phase[n] = "none" => Done' # Done
      BY <3>1, <3>2 DEF Done, Paths
    <3>5. phase[n] # "none" => flow # "failed"
      BY DEF FlowFits, TypeOK
    <3> QED
      BY <3>1, <3>3, <3>4, <3>5, Advances
  <2>26. CASE UNCHANGED vars
    BY <2>26, Stays DEF vars, Done
  <2> QED
    BY <2>1, <2>2, <2>3, <2>4, <2>5, <2>6, <2>7, <2>8, <2>9, <2>10, <2>11, <2>12, <2>13, <2>14, <2>15, <2>16, <2>17, <2>18, <2>19, <2>20, <2>21, <2>22, <2>23, <2>24, <2>25, <2>26
       DEF Next, ExecutorStep
<1> QED
  BY <1>1, <1>2, WalkKept, RoutedKept, PTL DEF Spec, TraversesGraph
=============================================================================
