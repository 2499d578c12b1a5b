------------------------------ MODULE ToolLoop ------------------------------
(***************************************************************************)
(* The agent loop of a run: the model answers or calls tools, the calls    *)
(* are executed one after the other and recorded, and the model is asked   *)
(* again; workflows of the run, begun by its input or by a call, record    *)
(* what their nodes call under the same run.  A run that is claimed again  *)
(* begins a new life, at its first iteration: what keeps it from repeating *)
(* itself are the rows of the calls it made.  A worker whose lease lapsed  *)
(* goes on beside the next, until it checks the run; workers are told      *)
(* apart by their owner strings (see RunLifecycle).                        *)
(***************************************************************************)
EXTENDS Naturals, Sequences, FiniteSets

CONSTANTS
  Replies,      \* what the model may answer: sequences of calls
  Offered,      \* calls of tools in the run's definitions
  Version,      \* tool and workflow configuration of the agent instance's version
  Accessible,   \* names the access rules allow
  DefaultMaxIterations,
  ForceToolUse, \* an action was asked for
  NodeCalls,    \* what nodes of the workflows call
  MaxNodeCalls, \* bound: rows of such calls
  Interruptions \* bound: how often the run is taken up again

\* A call is a tool with its arguments (StableArgsHash), of a kind: "retryable"
\* and "effect" tools of the registry, "mcp", and the internal "ask" and "workflow".
VARIABLES
  loop,      \* life -> where its worker is
  calling,   \* life -> the call in progress: its index, its row, "recorded" or "effected"
  rows,      \* tool_calls and mcp_calls of the run, in order
  effects,   \* call of the loop that may not be repeated -> how often it took effect
  struck,    \* ... -> how often a worker died between its effect and its result
  overtaken, \* ... -> how often a worker lost the run with it in the batch
  taken      \* how often the run was taken up again

toolVars == <<loop, calling, rows, effects, struck, overtaken, taken>>

Lives == 1..(Interruptions + 1)
Current == taken + 1

Calls == UNION {{r[i] : i \in DOMAIN r} : r \in Replies}
AnyCall == Calls \cup NodeCalls
EffectCalls == {c \in Calls : c.kind = "effect"}

-----------------------------------------------------------------------------
(* The version's configuration *)

Lists(names, name) == names = {} \/ name \in names

MaxIterations == IF Version.maxIterations > 0 THEN Version.maxIterations ELSE DefaultMaxIterations
MaxToolCalls  == Version.maxToolCallsPerRun
InterleaveToolCalls    == Version.interleaveToolCalls

\* Tools of the registry that the version leaves in it.
InRegistry(c) == Lists(Version.allowedTools, c.name) /\ c.name \notin Version.disabledTools

ToolAllowedForRun(c) == InRegistry(c) /\ c.name \in Accessible

WorkflowAllowedForRun(c) ==
  Lists(Version.allowedWorkflows, c.workflow) /\ c.workflow \notin Version.disabledWorkflows

-----------------------------------------------------------------------------
NoCall == [at |-> 0, row |-> 0, stage |-> "none"]

\* A run that greets, reminds or writes a broadcast, or that looks like an
\* injection, is given no definitions of tools.  A workflow its input names is
\* executed first.
Fresh(blocked, first) ==
  [phase |-> first, first |-> first, iteration |-> 1, defs |-> ~blocked, blocked |-> blocked, executed |-> FALSE,
   reply |-> <<>>, todo |-> {}, memo |-> {}, extra |-> 0]

NotBegun == [Fresh(FALSE, "model") EXCEPT !.phase = "stopped"]

ToolInit ==
  /\ \E blocked \in BOOLEAN, first \in {"model", "graph"} :
       loop = [n \in Lives |-> IF n = 1 THEN Fresh(blocked, first) ELSE NotBegun]
  /\ calling = [n \in Lives |-> NoCall]
  /\ rows = <<>>
  /\ effects = [c \in EffectCalls |-> 0]
  /\ struck = [c \in EffectCalls |-> 0] /\ overtaken = [c \in EffectCalls |-> 0]
  /\ taken = 0

Moves(n, l) == loop' = [loop EXCEPT ![n] = l]

\* Of a worker that is through with the loop nothing is kept but where it is.
Leaves(l, phase) == [Fresh(l.blocked, l.first) EXCEPT !.phase = phase]
LoopBecomes(n, phase) == Moves(n, Leaves(loop[n], phase))

NextIteration(l) ==
  IF l.iteration = MaxIterations THEN Leaves(l, "answered")
  ELSE [l EXCEPT !.phase = "model", !.iteration = @ + 1, !.reply = <<>>, !.memo = {}]

Counts == <<effects, struck, overtaken, taken>>
Once(count, S) == [c \in EffectCalls |-> IF c \in S THEN count[c] + 1 ELSE count[c]]

-----------------------------------------------------------------------------
(* The model *)

\* The check after the model's answer: who was overtaken goes no further.
InModel(n) == n = Current /\ loop[n].phase = "model"

LeaseIsLost(n) ==
  /\ n # Current /\ loop[n].phase \in {"model", "answered"} /\ LoopBecomes(n, "stopped")
  /\ UNCHANGED <<calling, rows, Counts>>

ShouldRequireToolUse(l) == ForceToolUse /\ ~l.executed /\ l.iteration <= 2 /\ l.defs

\* The calls of tools that are in the definitions; when there are no definitions,
\* because the run is blocked or was asked again without, the calls of any tool.
\* Of several calls the first, if they are to be interleaved.  (Their indexes.)
ToolCallsForExecution(l, reply) ==
  LET wanted == {i \in DOMAIN reply : l.defs => reply[i] \in Offered}
  IN {i \in wanted : InterleaveToolCalls /\ Len(reply) > 1 => \A j \in wanted : i <= j}

\* No calls: the answer, unless a tool has to be used first.
ModelAnswers(n) ==
  /\ InModel(n)
  /\ Moves(n, IF ShouldRequireToolUse(loop[n]) THEN NextIteration(loop[n]) ELSE Leaves(loop[n], "answered"))
  /\ UNCHANGED <<calling, rows, Counts>>

\* Calls of tools that were not offered: with a text it is the answer, without
\* one the model is asked again, without tools.
CallsSuppressed(n, hasContent) ==
  /\ InModel(n)
  /\ \E reply \in Replies : ToolCallsForExecution(loop[n], reply) = {}
  /\ Moves(n, IF hasContent THEN Leaves(loop[n], "answered")
             ELSE NextIteration([loop[n] EXCEPT !.defs = FALSE]))
  /\ UNCHANGED <<calling, rows, Counts>>

ModelCalls(n) ==
  /\ InModel(n)
  /\ \E reply \in Replies :
       /\ ToolCallsForExecution(loop[n], reply) # {}
       /\ Moves(n, [loop[n] EXCEPT !.phase = "plan", !.reply = reply,
                                  !.todo = ToolCallsForExecution(loop[n], reply)])
  /\ UNCHANGED <<calling, rows, Counts>>

\* The model fails, a policy forbids its input or its output, or the run was
\* cancelled while it answered.
ModelFails(n) ==
  /\ InModel(n) /\ LoopBecomes(n, "stopped")
  /\ UNCHANGED <<calling, rows, Counts>>

RunCompletes(n) ==
  /\ loop[n].phase = "answered" /\ n = Current /\ LoopBecomes(n, "stopped")
  /\ UNCHANGED <<calling, rows, Counts>>

-----------------------------------------------------------------------------
(* The budget *)

\* Variant: the calls of a run that was taken up again are forgotten.
NoToolCalls == {}

\* The calls that may not be repeated and have a result, whatever result, of the
\* loop or of a workflow's node.
CompletedNonRetryableToolCalls ==
  {rows[i].call : i \in {j \in DOMAIN rows : rows[j].call.kind = "effect" /\ rows[j].done}}

\* Calls of both tables, finished or not, whoever made them.
ToolExecutionCount == Len(rows)

\* What of a batch will be executed: not a call with a result, or a second one.
Planned(reply, todo, memo) ==
  {i \in todo :
    reply[i].kind = "effect" => reply[i] \notin memo \cup {reply[j] : j \in {k \in todo : k < i}}}

PlannedToolExecutions(l, memo) == Cardinality(Planned(l.reply, l.todo, memo))

PlanBatch(n) ==
  /\ loop[n].phase = "plan"
  /\ LET memo == CompletedNonRetryableToolCalls
     IN IF MaxToolCalls > 0 /\ ToolExecutionCount + PlannedToolExecutions(loop[n], memo) > MaxToolCalls
        THEN LoopBecomes(n, "stopped")
        ELSE Moves(n, [loop[n] EXCEPT !.phase = "execute", !.memo = memo, !.extra = 0])
  /\ UNCHANGED <<calling, rows, Counts>>

-----------------------------------------------------------------------------
(* The calls *)

\* It is the turn of the call at i.
Executing(n, i, kinds) ==
  /\ loop[n].phase = "execute" /\ calling[n] = NoCall
  /\ i \in loop[n].todo /\ \A j \in loop[n].todo : i <= j
  /\ loop[n].reply[i].kind \in kinds

Advance(l, i) == [l EXCEPT !.todo = @ \ {i}]

\* What it takes to be executed: of an MCP tool, access; of a registry tool that is
\* unknown by now, the registry says it does not exist.
Permitted(c) ==
  /\ IF c.kind = "mcp" THEN c.name \in Accessible ELSE ToolAllowedForRun(c)
  /\ c.kind = "workflow" => WorkflowAllowedForRun(c)

\* Not permitted, or a policy is against it.
ToolRefused(n) ==
  /\ \E i \in loop[n].todo : Executing(n, i, {"retryable", "effect", "mcp", "ask", "workflow"})
  /\ LoopBecomes(n, "stopped")
  /\ UNCHANGED <<calling, rows, Counts>>

\* A call with a result is answered from its row.
ReuseResult(n) ==
  /\ \E i \in loop[n].todo :
       /\ Executing(n, i, {"effect"}) /\ Permitted(loop[n].reply[i]) /\ loop[n].reply[i] \in loop[n].memo
       /\ Moves(n, Advance(loop[n], i))
  /\ UNCHANGED <<calling, rows, Counts>>

\* Row and history: "extra" counts the rows that came, since the batch of the
\* current life was planned, from elsewhere than that batch.
RowAdded(n, c, by) ==
  /\ rows' = Append(rows, [call |-> c, by |-> by, life |-> n, extra |-> loop[n].extra, done |-> FALSE])
  /\ loop' = IF by = "loop" THEN loop ELSE [loop EXCEPT ![Current].extra = @ + 1]

StartCall(n, kinds) ==
  /\ \E i \in loop[n].todo :
       /\ Executing(n, i, kinds) /\ Permitted(loop[n].reply[i]) /\ loop[n].reply[i] \notin loop[n].memo
       /\ RowAdded(n, loop[n].reply[i], IF n = Current THEN "loop" ELSE "overtaken")
       /\ calling' = [calling EXCEPT ![n] = [at |-> i, row |-> Len(rows) + 1, stage |-> "recorded"]]
  /\ UNCHANGED Counts

StartToolCall(n) == StartCall(n, {"retryable", "effect"})
StartServerCall(n) == StartCall(n, {"mcp"})

Called(n) == loop[n].reply[calling[n].at]

Effect(n, kinds) ==
  /\ calling[n].stage = "recorded" /\ Called(n).kind \in kinds
  /\ calling' = [calling EXCEPT ![n].stage = "effected"]
  /\ effects' = Once(effects, {Called(n)})
  /\ UNCHANGED <<loop, rows, struck, overtaken, taken>>

Execute(n) == Effect(n, {"retryable", "effect"})
CallServerTool(n) == Effect(n, {"mcp"})

\* The result is stored.  An error, of the tool or of a policy that sees what it
\* returned, ends the run.
CompleteCall(n, kinds) ==
  /\ calling[n].stage = "effected" /\ Called(n).kind \in kinds
  /\ calling' = [calling EXCEPT ![n] = NoCall]
  /\ rows' = [rows EXCEPT ![calling[n].row].done = TRUE]
  /\ \/ Moves(n, [Advance(loop[n], calling[n].at) EXCEPT !.memo = @ \cup {c \in {Called(n)} : c.kind = "effect"}])
     \/ LoopBecomes(n, "failing")
  /\ UNCHANGED Counts

CompleteToolCall(n) == CompleteCall(n, {"retryable", "effect"})
CompleteServerCall(n) == CompleteCall(n, {"mcp"})

\* The state of the run follows in a statement of its own.
RunFails(n) ==
  /\ loop[n].phase = "failing" /\ LoopBecomes(n, "stopped")
  /\ UNCHANGED <<calling, rows, Counts>>

AskUser(n) ==
  /\ \E i \in loop[n].todo : Executing(n, i, {"ask"}) /\ Permitted(loop[n].reply[i])
  /\ LoopBecomes(n, "asking")
  /\ UNCHANGED <<calling, rows, Counts>>

\* The results go to the model; after the last iteration there is none to see
\* them, and the run fails.
BatchCompletes(n) ==
  /\ loop[n].phase = "execute" /\ loop[n].todo = {}
  /\ Moves(n, IF loop[n].iteration = MaxIterations THEN Leaves(loop[n], "stopped")
             ELSE NextIteration([loop[n] EXCEPT !.executed = TRUE]))
  /\ UNCHANGED <<calling, rows, Counts>>

-----------------------------------------------------------------------------
(* Workflows of the run (see Workflow) *)

RunWorkflow(n) ==
  /\ \E i \in loop[n].todo : Executing(n, i, {"workflow"}) /\ Permitted(loop[n].reply[i])
  /\ Moves(n, [loop[n] EXCEPT !.phase = "graph"])
  /\ UNCHANGED <<calling, rows, Counts>>

NodeRows == {i \in DOMAIN rows : rows[i].by = "node"}

\* A node that calls a tool or a server asks neither for the budget nor for the
\* result of an earlier call.  Nodes are executed side by side.
StartNodeCall(n) ==
  /\ loop[n].phase = "graph" /\ Cardinality(NodeRows) < MaxNodeCalls
  /\ \E c \in NodeCalls : RowAdded(n, c, "node")
  /\ UNCHANGED <<calling, Counts>>

CompleteNodeCall(n) ==
  /\ loop[n].phase = "graph"
  /\ \E i \in NodeRows : rows[i].life = n /\ ~rows[i].done /\ rows' = [rows EXCEPT ![i].done = TRUE]
  /\ UNCHANGED <<loop, calling, Counts>>

\* It ends, waits for the user, or fails, and the run with it.
WorkflowReturns(n) ==
  /\ loop[n].phase = "graph"
  /\ \/ \E i \in loop[n].todo :
          (\A j \in loop[n].todo : i <= j) /\ Moves(n, [Advance(loop[n], i) EXCEPT !.phase = "execute"])
     \/ loop[n].todo = {} /\ Moves(n, [loop[n] EXCEPT !.phase = "model"])
     \/ LoopBecomes(n, "asking")
     \/ LoopBecomes(n, "failing")
  /\ UNCHANGED <<calling, rows, Counts>>

-----------------------------------------------------------------------------
(* The run is claimed again *)

BatchOf(l) == IF l.phase \in {"plan", "execute", "graph"} THEN {l.reply[i] : i \in l.todo} ELSE {}
NewLife(old) ==
  /\ taken < Interruptions /\ taken' = taken + 1
  /\ loop' = [loop EXCEPT ![Current] = old, ![Current + 1] = Fresh(old.blocked, old.first)]
  /\ UNCHANGED <<rows, effects>>

\* The worker died, or the user has answered what was asked.
TakeUpAgain ==
  /\ loop[Current].phase # "stopped"
  /\ NewLife(Leaves(loop[Current], "stopped"))
  /\ calling' = [calling EXCEPT ![Current] = NoCall]
  /\ struck' = Once(struck, IF calling[Current].stage = "effected" THEN {Called(Current)} ELSE {})
  /\ UNCHANGED overtaken

\* Its lease lapsed while it waited for the model, a tool or a workflow.
Overtake ==
  /\ loop[Current].phase \notin {"stopped", "asking"}
  /\ NewLife(loop[Current])
  /\ overtaken' = Once(overtaken, BatchOf(loop[Current]))
  /\ UNCHANGED <<calling, struck>>

ToolNext ==
  \/ \E n \in Lives :
       \/ ModelAnswers(n) \/ CallsSuppressed(n, TRUE) \/ CallsSuppressed(n, FALSE) \/ ModelCalls(n)
       \/ ModelFails(n) \/ LeaseIsLost(n) \/ RunCompletes(n) \/ PlanBatch(n) \/ ToolRefused(n)
       \/ ReuseResult(n) \/ StartToolCall(n) \/ StartServerCall(n) \/ Execute(n) \/ CallServerTool(n)
       \/ CompleteToolCall(n) \/ CompleteServerCall(n) \/ RunFails(n) \/ AskUser(n) \/ BatchCompletes(n)
       \/ RunWorkflow(n) \/ StartNodeCall(n) \/ CompleteNodeCall(n) \/ WorkflowReturns(n)
  \/ TakeUpAgain \/ Overtake

-----------------------------------------------------------------------------
(* Properties *)

\* A call of the loop that may not be repeated takes effect once, however often the
\* model repeats it and the run is taken up again.  It is repeated only by a death
\* between the effect and its result, because the row has no result then, or by a
\* worker that was overtaken with the call in its batch.  (Nodes of workflows
\* look at no rows, and are not counted.)
EffectsOnce ==
  \A c \in EffectCalls : effects[c] <= 1 + struck[c] + overtaken[c]

\* The budget holds for the run and not for each of its lives: rows of calls
\* whose worker died count, and so do those of nodes and of workers that were
\* overtaken.  These ask for no budget, and the loop exceeds it by as many of them
\* as came while its batch was executed.
BudgetKept ==
  MaxToolCalls > 0 =>
    \A i \in DOMAIN rows : rows[i].by = "loop" => i <= MaxToolCalls + rows[i].extra
=============================================================================
