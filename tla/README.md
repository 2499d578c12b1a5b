# TLA+ models of Duraclaw

Duraclaw runs agents durably: every user message is a *run* in PostgreSQL, workers lease runs
and execute them, and replies leave through a transactional outbox.  These modules model the
protocols that make this hold under several instances, crashes, lapsed leases, late users and
timers.  TLC checks them on small instances; TLAPS proves, for every value of the constants, the
safety of the queue, the follow-ups, the outbox, the async writes, the executor, the schedulers,
the quotas, the access rules, the delegations, the tool loop, the broadcasts, streamed answers, the
MCP clients, the policies, the usage ledger, the recommendations, the tool evaluator, the session
monitor, the users' profiles and the shared jobs.

Paths are relative to the repository root.  `worker.go` is `internal/runtime/worker.go`,
`store.go` is `internal/db/store.go`, `handler.go` is `internal/acp/handler.go`, `executor.go` is
`internal/workflow/executor.go`.

## 1. The system

One process (`cmd/duraclaw/main.go`) runs the HTTP server and these loops: the worker
(`Worker.Loop`), the scheduler, the session monitor, the tool evaluator, the outbox worker and the
async writer.  Several processes share one PostgreSQL database and nothing else.  What excludes
them from each other is row locks (`FOR UPDATE SKIP LOCKED`), leases with an owner string
(`HOSTNAME`, or a default) and unique keys.

| Component | State | Operations | Hard | Correct when |
|---|---|---|---|---|
| run queue (`store.go`, `worker.go`, run endpoints of `handler.go`) | `runs`: state, lease owner and expiry, created_at; a worker's run in memory | create, claim, renew, recover, set state, complete, cancel, resume, start quota | claims that overlap; leases that lapse under a live worker; a cancel or resume between two statements; a death anywhere | no completion without an answer; a second answer only after a fault; one worker per run until a lease lapses; checks fence; every queued run settles |
| rapid follow-ups (same files) | `runs.interrupt_window_started_at`, `deferred_run_messages` | defer, claim deferred, complete suppressed, create refinement run | the window closes while a message is being deferred; three statements at the end of a run | each message gets one reply; no follow-up without a reader; no draft lost |
| outbox (`internal/outbound`, `store.go`) | `async_outbox`: claim owner and expiry, available_at, completed_at | create with the intent, claim, send, extend, complete, release | items that wait in a claimed batch; calls that time out after the sink took them; heartbeats | at-least-once; a completed row was sent; a heartbeat covers the call |
| async writes (`internal/asyncwrite`, `db/async_writes.go`) | a channel per process; `async_write_jobs` | enqueue, drain, claim, apply, complete, release | effect and completion are separate; a dead owner | bounded loss, bounded attempts, the table tells the truth |
| workflow executor (`executor.go`, `db/workflows.go`) | `workflow_runs`, `workflow_node_states`, `workflow_edge_activations` | execute the ready queue in batches, suspend, resume a node, fire a timer | parallel siblings that wait or fail; re-execution after a crash; timers racing the executor | nodes in edge order, each once; success only when all routed-to nodes are done; a suspended run waits for something; the run ends |
| scheduler and reminders (`internal/scheduler`, `db/reminders.go`) | `scheduler_jobs` with leases, `reminder_subscriptions` | claim due, fire, reschedule, complete | completion without a look at the lease; boundary instants of recurrences | each occurrence fired once, under idempotent keys |
| shared scheduler (`db/shared_scheduler.go`, `internal/scheduler`) | jobs, subscriptions, fires, deliveries | fan out, create runs, deliver what they said, recover stale deliveries, edit | a fire repeated after a lapse with another selection; two couriers | one message per fire and user; completed means sent |
| broadcasts (`db/broadcasts.go`) | broadcast, targets, generated runs, intents | create in several statements, generate, send, take receipts, cancel | stalled schedulers, receipts that overlap, a cancel between statements | each target at most once; delivered when all are |
| session monitor (`internal/sessionmonitor`) | sessions with leases and their last pass; the profile | claim idle sessions, count, extract, consolidate | lapsed claims; consolidations from listings that are old | a message is counted once; no fact is lost |
| tool evaluator (`internal/toolevaluator`, `db/tool_evaluations.go`) | evaluation rows with leases | queue suspicious runs, claim, judge, correct | completion without a look at the lease; crashes and given-up requests between correction and record | few corrections, truthful rows |
| recommendations (`db/recommendations.go`, `worker.go`) | catalog, decisions, jobs | search beside the answer, merge, send later | a lease that lapses after the message left | one recommendation per message, on record |
| delegations (`db/agent_delegations.go`, `worker.go`) | parent/child links | create child runs, complete, tell the parent | parent and child end in separate statements | the parent hears of the child's end |
| tool loop (`worker.go`, `tool_selection.go`) | `tool_calls`, `mcp_calls`, execution counts; the tools offered | select, offer, execute, reuse completed calls | a crash between effect and record; an overtaken worker beside the next; nodes of workflows that record calls of the run; servers that come and go | no repeated effect of a recorded call; what is executed was offered |
| access rules (`db/tool_access.go`, `db/mcp_tool_access.go`) | rules, a cache per process | look up, edit | two statements, stale caches | a decision by a recent rule |
| policies (`internal/policy`, `db/policies.go`) | packs, versions, rules, assignments, evaluations | edit, activate, pin, evaluate, enforce | edits under a run; several packs | the strongest decides; a denial stops |
| quotas (`db/runtime_limits.go`, `db/model_usage.go`) | limits, counts over `runs`, the usage ledger | enforce at submission, start and model calls; charge | check and act are separate | bounded overshoot; answers are charged |
| providers (`internal/providers`, `worker.go`) | fallback chains, an answer being streamed | call, stream, fall back | pieces of any size, gaps in the indexes of calls | the whole answer, but for calls after a gap |
| MCP clients (`internal/mcp`) | a kept process and its request numbers, slots, counters | call, retry, reopen | late answers, callers that leave, deaths | one's own answer |
| memory (`db/memory_knowledge.go`, `tools/memory.go`) | facts and preferences, embeddings, usage | write, embed, rank, mark | follow-up statements that lag or fail | found by what it says |

How they meet: a handler creates a run (or defers a message to the active one); a worker claims
it and drives it through `process` (scope and moderation, workflow, context, model and tool loop,
final message); the final message and its outbox row are one transaction; the outbox worker sends
it.  A workflow of a run may suspend it; the resume endpoint or the scheduler (timers) requeues it.
Telemetry of all of them goes through async writes.

## 2. Modules

| Module | What it is |
|---|---|
| `RunLifecycle` | the run queue, its workers and handlers; one step per SQL statement or transaction |
| `RunLifecycleProofs` | theorems about it |
| `Conversation` | abstract: each accepted message gets exactly one final reply |
| `Refinement` | follow-ups, interrupt window, refinement runs; implements `Conversation` without faults |
| `RefinementProofs` | theorems about it, with the refinement of `Conversation` |
| `Delivery` | abstract: at-least-once delivery |
| `Outbox` | the outbox and its workers; implements `Delivery` |
| `OutboxProofs` | theorems about it |
| `AsyncWrites` | channels, table and writer loops of the telemetry sidecar |
| `AsyncWritesProofs` | theorems about it |
| `Traversal` | abstract: what it is to execute a workflow graph |
| `Workflow` | the graph executor inside one durable run; implements `Traversal` |
| `WorkflowProofs` | theorems about it, with the refinement of `Traversal` |
| `Scheduler` | passes of the schedulers over shared jobs, reminders and scheduler jobs |
| `SchedulerProofs` | theorems about it |
| `SharedRuns` | shared jobs that reach their subscribers through durable runs |
| `Broadcasts` | creation, generation, delivery, receipts and cancellation of a broadcast |
| `RuntimeLimits` | the limits and how rows combine, used by the next two |
| `RunQuota` | quotas of submitted, started and background runs |
| `ModelCalls` | model calls, fallbacks and the usage they are checked against and charged |
| `ModelStream` | reading a streamed answer; the fallback of calls that do not stream |
| `AccessRules` | access rules of tools, MCP tools and delegations, with their caches |
| `Policies` | policy packs, their versions and assignments, and their enforcement in a run |
| `Delegations` | mentions that create child runs, and what becomes of these |
| `ToolLoop` | the loop of model and tool calls of a run, over its re-executions |
| `ToolSelection` | which tools the model is shown |
| `ToolNames` | the names of tools when they are offered and when they are called |
| `MCPCalls` | calls of MCP servers through every kind of client |
| `SessionMonitor` | the monitor's claims, windows and counts, and the user's profile |
| `ToolEvaluations` | evaluation of runs by judges, and their corrections |
| `Recommendations` | recommendations with an answer or after it |
| `UserContext` | facts and preferences, their embeddings, ranking and usage |
| `Services` | the modules from `RunQuota` on, side by side |
| `ServiceProofs` | theorems about `RunQuota`, `ModelCalls`, `AccessRules`, `ToolLoop`, `ModelStream`, `MCPCalls`, `Policies`, `ToolSelection`, `ToolNames`, about sums over a ledger and folds over sequences, and what follows for `Services` |
| `BackgroundProofs` | theorems about `Delegations`, `Recommendations`, `ToolEvaluations`, `SessionMonitor`, `SharedRuns`, `UserContext`, `Broadcasts`, about the best of an order, and what follows for `Services` |
| `MC*` | instances for TLC |

Definitions marked `Variant` are forms the code could have by mistake.  No specification uses
them; they are there to show that each property depends on the code being as it is.

### State and actions against the code

**RunLifecycle.**  `state`, `owner`, `lease`, `created` are the columns of a row of `runs`; a lease
is reduced to null, live or expired.  `pc`, `cur`, `iter` are a worker's position in
`RunOnce`/`process`, the run it holds and its model turn.  `flow` and `waits` keep of a workflow
only whether one is under way and whether a node of it waits, because that decides what
`ExecuteGraph` does to the run's row on a re-execution.  `resumers` counts resume handlers between
their read of `awaiting_user` and their write.  `answers` counts final messages; `claimer` is
history.  The claim is two steps (`ClaimSelect`, `ClaimCommit`) because the snapshot of
`NOT EXISTS` does not show other uncommitted claims, while the row lock does exclude them; every
writer of a row a claim has locked waits (`RowFree`).  `standing` is history: the runs that have not
ended since they were leased last, whatever `SetRunState` wrote over them afterwards.  `EnsureRunnable` is `ensureRunnable`, whose
`ExtendRunLease` renews even a lapsed lease if state and owner still match.

**Refinement.**  The session has one pipeline (how it is claimed is `RunLifecycle`'s subject).
`hpc` is a submission handler: look up the key, look up a deferral, select an interruptible run
`FOR UPDATE`, insert, or create a run.  The defer transaction is two steps, so the window may close
while it is open; the event `straddle` names that case.  `carries` holds the messages in a run's
input, which is how a reply to a refinement counts as a reply to the draft's messages; `replies` is
history: the answers of all runs that carried a message when they spoke.

**Outbox.**  `lease` has two live values, `fresh` and `ending`: heartbeats come three to a lease, so
a claim loses two ticks before it expires.  `batch` is what was claimed and waits, `call` what is
being sent; only the latter is renewed.  `sure` remembers which items of a call were freshly owned
when it began.

**AsyncWrites.**  `memory` is a writer's channel; `state` is the row's, extended by `new`,
`buffered` and `lost` for jobs without a row.  Sizes stand for `prepare`'s two limits.

**Workflow.**  `node`, `active` and `flow` are the three tables; `route` the successors whose
conditions match a node's output, an arbitrary choice from `Routes`.  `phase` is where each
goroutine of `executeBatch` is.  Results are collected only when all are in; one that waits makes
the executor drop the others' results (their node rows are written already).

**Scheduler.**  `on`, `next`, `count` and `lease` are a row's columns in its table; a row in `batch` is
the copy a claim returned, with which a scheduler works on whatever the row becomes.  `now` is the
argument of `RunOnce`, read before any claim, while claims use the database's time.  `fired` stands
for the runs (their idempotency key is job and time) and for fires recorded as succeeded; that a
workflow timer fired twice resumes twice is `refire` in `Workflow`.  A crash and an error end a pass
alike (`Abort`).  `asked`, `touched`, `paused` are history.

`Services` extends the remaining modules, which share no state; `part` says to which of them a
behaviour belongs.  It leaves their constants open, so that theorems can be about it; `MCServices`
gives them values.

**RunQuota, ModelCalls.**  `quotaRow` and `usageRow` are the tables of limits; `call`, `start` and
`chat` are the places of a submission, of a worker starting a run and of a model turn between the
statements of their checks.  `ledger` is `model_usage_ledger` by call.  `CreateBackgroundRun` holds
a connection and an advisory lock while its limits are read over a second connection, hence
`Conns`.  `startedUnder`, `createdUnder`, `lastSeen` and `returned` are history.

**ModelStream.**  Text is a number of bytes, so that what is read, shown and counted as dropped can
be compared; the pieces of tool calls are the indexes they came under, in any order and with any
gaps.

**AccessRules.**  One of three tables with their caches of one shape.  `reader` is a lookup between
its two statements; `editing` an edit of this process that has not emptied the cache yet; other
processes edit at any time.  `inForce` is history.

**Policies.**  `rules`, `packs` and `assigned` are the tables; the rules of a point are read once
and then matched one after the other (`run.queue`), each match recorded in `evals`, while edits go
on.  Points are of a run or of a prompt (`PromptInstructions`), where rules are recorded and
nothing is enforced.  A condition is a record of its operator and operands; `Likes` says which texts contain, begin
with or match which, so that no text is taken apart.

**Delegations.**  `parent` is the worker of the parent run, `hand` the worker of a child with its
statements after the answer; `told` is what the parent's session was told.

**ToolLoop, ToolSelection, ToolNames.**  A *life* is one claim of the run; each has its worker (`loop`,
`calling`), and only the last passes `ensureRunnable`.  `TakeUpAgain` ends the worker, by a death or
because the user was asked; `Overtake` leaves it: its lease lapsed, and it executes what is left of its
batch, or its workflow, beside the next.  `rows` are the calls of both tables in order, with who made
them (`by`: the loop of the current life, an overtaken worker, a workflow's node); a later life has
nothing else of a former one.  `calling` is the call in progress by its index in the answer, of which
`todo` are the indexes left.  Workflows are begun by the run's input or by a call; `StartNodeCall` and
`CompleteNodeCall` are the inserts and updates of their nodes, which ask for no budget and no earlier
result.  `effects` counts what calls of the loop did outside; `struck` and `overtaken` are the deaths
and overtakings that pay for a second effect, `extra` the rows that came from elsewhere while a
batch was executed.  A
selection is a decision passed through a method and a router, both of which may fail.  Names are
resolved twice, with the servers answering then.

**MCPCalls.**  A caller passes a manager's slots (`Acquire`), its attempts and a client.  `session`
is the kept process with the lines it wrote and the caller it was started by; `Exchanging` is its `callMu`.  `record` is the
caller's row of `mcp_calls`.

**SessionMonitor.**  Instants are counted in messages.  A monitor's phases are the statements of
`processSession`; rows of the profile are a fact with a wording, so that two rows can say the same.

**ToolEvaluations.**  A round of a loop queues and claims, then works on its rows one by one:
verdict, correction and completion are steps that a crash may separate.  A failure is written
(`EvaluationFails`) or not (`FailureIsLost`): that statement's own error is discarded, and for a request
it has the request's context, which the caller may have ended.  `left` remembers the rows that were
left behind since they were claimed.

**Recommendations.**  `run` is the answer being made beside the search; `worker` a loop with a job in
its statements; `shown` counts what left.

**UserContext.**  A content is a topic (what an embedding tells) and words (what a text search
tells).  `embedder` and `marks` are the statements that follow a write or an offer later or never.

**Broadcasts.**  `creator` and `canceller` are places in transactions and statements; `open` is a
status callback whose transaction has written its target and not yet the broadcast.  `aged`
marks what the five minutes of `updated_at` allow to be taken up again.

**SharedRuns.**  `pass` is a scheduler in `runSharedSchedulerJob` with the row it read; `courier` one
with deliveries it claimed.  `runs` is reduced to absent, under way, completed and failed.

## 3. Runs

| Run | Shows | Bounds, and why they are enough |
|---|---|---|
| `RunLifecycle_faults` | completion only with an answer; second answers are paid by faults; exclusion until a lease lapses; fencing; nobody goes on with a run that has ended, though late writes bring it back | two workers (no guard speaks of three), two runs in two sessions, one of them silent, start quota 1, one turn, one crash, lapse, cancel and resume: each fault alone and each pair and order of them |
| `RunLifecycle_single` | every executing row recoverable, one active run per session, order of a session, every queued run settles | one worker, three runs of one session (a run with a predecessor and a successor), two turns, a crash and a resume |
| `RunLifecycle_claimrace` | **violated**: one active run per session, with two workers | two runs, no faults |
| `Refinement_faults` | undisturbed, implements `Conversation` (safety and liveness); second replies are paid by crashes; deferred, claimed and suppressed messages are carried until a named fault | three messages: enough for a draft, a refinement and a refinement of it, or a message after the window; depth 2; a crash, and any one kind of event, as often as it may happen (two kinds multiply the states and take minutes; the exceptions in the properties name single kinds) |
| `Refinement_denied` | **violated**: exactly one reply, when a run is denied | as above |
| `Outbox_faults` | implements `Delivery`, with liveness; completed rows were sent; claims survive calls until a stall | two items of two topics, two workers, one crash, stall and refusal: an item in a call, one waiting behind it, and a worker to take both |
| `AsyncWrites_faults` | bounded loss, attempts and repetition; truthful table; settlement when undisturbed | two writers, a job of each size, a channel of one (so that a full one is met), claims of two, two attempts, a crash, a failed statement, two failed applications (so that the last attempt is met) |
| `AsyncWrites_stranded` | **violated**: leases of async writes are recovered | one failing application |
| `Workflow_faults` | implements `Traversal`; skips the rest; repetitions and answers only for named reasons; the run ends and failures reach it | five nodes: a question beside a choice that leads to a timer or past it, and a join; batches of two, two attempts for two of them, an execution limit of three (so that it is met); a crash, two node errors, a denial, a cancel, an answer that names no node, an early and a repeated timer |
| `Workflow_twoasks` | **violated**: the run ends, with two questions in parallel | four nodes, no faults |
| `Scheduler_faults` | a reminder runs its course, exactly once per time, unless a lease lapses; times asked for are kept; a recorded fan-out is complete; no job stays overdue | two schedulers; a shared job with two subscribers (a partial fan-out), a reminder counted to two, one ended by `repeat_until`, a cron job; claims of one, so that the second reminder is left behind; two ticks, so that times are missed and caught up; one death or error, lapse, failed evaluation, move or pause |
| `Services` | the parts of `Services`, one property for one or two of them | per part, below |

The run `Services` checks:

| Property | Says | Instance |
|---|---|---|
| `QuotasHold` | runs in execution are no more than a limit one of them was started under, unfinished background runs no more than one they were created under; usage passes the limit its last check saw by at most one call of each chat | two runs, two callers, limits of one, a pool of three; two chats (`ModelCalls`) |
| `AnswersArePaidFor` | an answer the loop acts on is in the ledger | two chats of scopes that overlap, three calls, a repeated and an unregistered reference |
| `AnswersAreWhole` | text of a stream is all there, shown or counted as dropped, and so are its tool calls unless the provider skipped an index; a fallback gives up after all candidates failed; an MCP call gets its own answer, slots and retries are bounded, records and counters tell what happened | text past the last event and tool calls of three indexes in any order; two callers, limits of one and two, servers of three kinds, one retry, two troubles |
| `RulesEnforced` | access is granted by a rule that was in force within a cache's life, unless two edits fell between two reads; a denial stops the run where it is recorded, unless its rule is one for the prompt; the first of the strongest gives the reason, every pass is recorded, and packs that do not differ decide alike | an entry of two ticks, edits in and outside the process; a pack of three rules and a version of it, two edits, three points of which one is the prompt |
| `DelegationsHonoured` | the parent is told of each child once, unless a named fault struck; only a parent that is executed again delegates again | four mentions of which two count; one fault of each kind |
| `CallsBounded` | a call of the loop that may not be repeated takes effect once, unless a worker died between effect and result or was overtaken with the call in its batch; the calls of all lives of a run stay in its budget, up to those that nodes of workflows and overtaken workers record while a batch is executed | a tool with an effect, which a node of a workflow calls too (`MaxNodeCalls` = 1), an MCP and an asking tool, one not offered; two iterations, a budget of three, one death or overtaking |
| `ToolsAreSound` | a failed model call takes no tool away, a forced tool is sure, no tool stands beside one that rules it out; the tool that is executed is the one offered, no alias is of two tools | three tools, one with two possible entries; two servers whose names look alike, up or down |
| `BackgroundSound` | messages are counted once in a session's pattern, consolidation keeps the facts unless two overlap; corrections are bounded by what was asked, only suspicion is looked into, running rows are in somebody's hand unless a death or an unwritten failure left them, recorded corrections were sent | two monitors and a request by hand, two rows; two loops and a request, two faults |
| `RecommendationsSound` | one recommendation per message unless the run is taken up again or a lease lapses; what is shown is on record unless an item was deleted | one item, two loops, one event of each kind |
| `ProfileSound` | rows are found by what they say unless edited; usage is counted up to marks that failed; what is shown is what is most relevant | two rows for a prompt of one, an edit |
| `DispatchSound` | a target is sent to once, a broadcast is delivered when its targets are, what generates ends, a cancellation leaves nothing queued that it found; a fire writes to a user once, completed deliveries were sent, recorded ones are under way, a run had its say | three sessions of two users, two schedulers, two faults; two subscribers, two agents, two schedulers, two faults |

Two actors of a kind are enough wherever the code excludes pairs, and the numbers are such that every
limit is met from both sides.

Counters are bounded by `Budget` and `Total` (faults, edits), `MaxIterations`, `MaxResumers`, `MaxDepth`,
`MaxAttempts`, `MaxExecutions`, `MaxTrouble`, `MaxEdits`,
`Interruptions`, `MaxNodeCalls`, `EvaluationFaults`, `Faults` and the finite sets.  Deadlock is checked where a loop always ticks
(`RunLifecycle`, `AsyncWrites`, `Scheduler`); `Refinement`, `Outbox`, `Workflow` and the parts of
`Services` come to rest when everything is answered, delivered or ended, so their configurations switch it off.

What `RunLifecycle_single` says of order and of one active run holds for one worker; with two it
fails by the claim race alone (`RunLifecycle_claimrace`).

### Fairness

Workers, writers, schedulers and outbox workers tick for ever (`Loop` with a ticker), so each one's next step
is weakly fair; calls they make return, by HTTP and context time-outs.  Time passes: leases,
windows and retry delays expire.  A handler that was entered runs to its end.  Users owe nothing in
`RunLifecycle` and `Refinement` (awaiting its user is one of the ends); in `Workflow` the user who
is asked answers and the scheduler fires, since the question there is whether the answer suffices.
Faults are never fair and are finite.

## 4. Proofs

Every theorem holds for arbitrary constants under the named assumption of its module
(`RunLifecycleAssumption`, `RefinementAssumption`, `OutboxAssumption`, `AsyncWritesAssumption`,
`WorkflowAssumption`, `SchedulerAssumption`, `ServicesAssumption`) and the hypotheses
listed here.  Sets of runs, messages, workers, jobs and nodes and all budgets of faults are
arbitrary; only where something is counted must they be finite.  `ServicesAssumption` is the
conjunction of the hypotheses of the parts of `Services`, from `UsageConfigured` on in the table;
theorems about a part name the one they need.  TLC evaluates the assumptions on every run.  A leaf
that takes a prover more than a fraction of its time names the prover and allows a minute.

### Hypotheses, and what they exclude

| Hypothesis | Why the code justifies it, or what happens without it |
|---|---|
| owner strings differ (`Fencing`, `EndedRunsAreLeft`, `ClaimsSurvive`) | one `HOSTNAME` per process; two processes with the default string renew each other's leases |
| `MaxResumers <= 1` | one resume request of a run in flight; two of them requeue a run under its worker (section 5), a reproduced exception |
| one worker (`OneWorkerIsSerial`) | with two, the claim race: `RunLifecycle_claimrace` |
| `Calm`: no cancellation, no lapsed lease (`NobodyIsOrphaned`) | crashes, resumptions and silent users stay; late writes after a cancellation or a lapse are exceptions of section 5 |
| each message is submitted once (`RepliesArePaid`, `ConversationKept`) | a retried submission beside the first may become a run as well as a deferral (section 5) |
| `TimersFixed` (`RestIsSkipped`) | a timer's output does not change when it fires again: it is its job and the time it was due (`internal/scheduler/service.go:93`); with an output that changes, a second fire leaves a node done that nothing routes to any more, as TLC shows |
| `UsageConfigured` (quotas) | finitely many runs; columns of limits are integers, negative ones included |
| `CacheTTL >= 1` (`DecisionsAreRecent`) | the three caches keep an entry for 30 seconds (`internal/db/tool_access.go:13`, `agent_delegations.go:13`, `mcp_tool_access.go:13`) |
| `MentionsOnce` (`DelegatesOnce`) | `mentionedAgentHandles` keeps the handles it has `seen` (`internal/runtime/worker.go:722`) |
| `LoopConfigured` (tool loop) | answers are sequences of calls; a budget that is not positive is none, so zero stands for those; the run is taken up again finitely often, as often as one likes |
| `BroadcastConfigured` | statuses are the four that `NormalizeOutboundIntentStatus` lets through (`internal/db/outbound.go:86`); names of runs are not names of places |
| `StreamConfigured` | a flush is of at least one byte (`streamDeltaFlushBytes`, `internal/runtime/worker.go:37`), and counts are numbers |
| `RecommendationConfigured`, `EvaluationConfigured`, `MonitorConfigured` | workers, evaluators and texts are finitely many; no item, worker or run has the name that stands for none |
| `SharedConfigured` | no agent has the name of a place of a pass; fires are numbered up to `MaxFires`, a bound of the model; a subscription is of one agent for a user |
| `MCPConfigured` | callers and managers are finitely many, answers have the names of callers and no others; there is at least one attempt, `max_retries` and `retry_delay` count as zero when they are negative (`internal/mcp/mcp.go:407`), and a limit that is not positive is none (`internal/mcp/mcp.go:180`) |
| `PoliciesConfigured` | the rules of the first pack are counted, as rows are |
| `CallsConfigured` (`UsageOvershoots`) | chats are finitely many, columns of limits are integers, a call's usage is a number of at most some size: the bound is in terms of the largest, and without one there is none |
| `ProfilesConfigured` | rows are finitely many, an empty content is refused and so is none of the contents; what a prompt holds and how many candidates there are, are numbers |
| `SelectionConfigured` | there is a tool to select from (`internal/runtime/tool_selection.go:157`), tools are finitely many and their names ordered, scores and confidences are numbers |
| `NamesConfigured` | the name of a server's tool ends in a hash of server and tool after a double underscore, and is made of letters a provider takes (`internal/runtime/worker.go:4556`): barring a collision it is no other tool's name, and no default alias, which has single underscores (`worker.go:4580`, `worker.go:4930`); an alias configured for two names fails the run (`worker.go:4883`).  All other names may collide |

### RunLifecycleProofs

- `TypeCorrect`.
- `CompletionAnswers`: `CompletedHasAnswer`.  A completed row could have been written by a worker in
  phase `answered`, so `AnswerInv` adds that such a worker's run has an answer.
- `Fencing`: `FenceHolds`.  Inductive: `OwnerIsClaimer`, a row's owner is the string of the worker
  that leased it last: every writer of the owner column is the claim or a release to null.
- `Exclusion`: `ExclusiveProcessing`.  That no two workers hold a run is not inductive: the row in
  hand must not become claimable, so `ExclusiveInv` says that its state is not queued or awaiting,
  its lease not expired, and that a resume handler in flight finds a row nobody holds.
- `DuplicatesPaid`: `DuplicatesNeedFaults`.  A run has an account: `Stored`, one if its row can
  still be claimed or recovered into another answer, and `Answerers`, the workers that hold it and
  have not spoken.  Answers + `Stored` + `Answerers` is at most one plus the crashes and lapses:
  a claim moves the one into the other, a crash pays for what it gives back, a lapse for the second
  holder.
- `OneWorkerIsSerial`: `SessionIsSerial`.  One executing run per session and order of creation
  are inductive together with the fact that the claim in progress overtakes nobody of its session.
- `NobodyIsOrphaned`: `NoOrphan`, from `Leased`: a run in hand is executing and its lease is written.
- `EndedRunsAreLeft`: `EndedIsLeft`, with any cancellations, lapses, crashes and resumptions.  Inductive:
  `OwnedStands`.  An end takes the owner from the row, `SetRunState` to a state that is no end leaves it as
  it is, and only a claim puts one back; so a run that has ended since it was leased has no owner,
  and a check finds that.

### RefinementProofs

- `ShapeKept`: a refinement exists only of a run that is over (`Chain`), what was read under the
  row's lock still holds at the commit (`Unwritten`).
- `PlacementKept`: a message is in one place: with its handler, deferred, claimed, or in the runs
  of one family; of a family one run may still reply.  A reply is counted where the run speaks, and
  a crash that hands the run back pays for the next.
- `RepliesArePaid`: `RepliesPaid`, from the above.
- `ConversationKept`: `SpeaksInTurn`, every step until the first crash is a step of `Conversation`
  or a stutter.  Accepting maps to the commit of the run or of the deferral, and the answer of a run
  to replying to all it carries.
- `NothingLost`: `NothingIsDropped`, without hypotheses: `Listened`, a deferred message's run has
  not passed its claim, holds unless its event was noted.

### OutboxProofs

- `TypeCorrect`.
- `AtLeastOnceSafety`: every step is a step of `Delivery` or a stutter.  Inductive: `CompletionInv`.
- `ClaimsSurvive`: `ClaimSurvivesCall`.  Inductive: `SureInv`, with the fact that stalls are never
  undone.

### AsyncWritesProofs

- `CustodyKept`: a job is in at most one channel, and one in hand is leased and in one hand only:
  leases are never compared, and the claim of queued rows alone keeps the writers apart.
- `SettledIsTrue`: `AttemptsBounded`, `EffectsPaid`, `SettledTruly`.  `Accounts` relates attempts,
  effects and failures of a job, with the one that is in hand counted in advance.
- `LossesPaid`: `LossBounded`, by the cardinality of the lost jobs and of a channel: a crash loses
  at most a buffer.
- `CostsPaid`: `CostsArePaid`, the conjunction a run checks.

### WorkflowProofs

- `WalkKept`: the rows of nodes and run, the phases of a batch, the timers and the place of the
  executor agree (`Walk`).
- `SuspendedRunWaits`: `WaitsForSomething`.
- `AnswersArePaid`, `AttemptsArePaid`, `RepetitionIsPaid`: `RepetitionPaid`.  Again accounts:
  timers that have fired and are not used up (`Fired`), and beginnings owed (`Owed`), each bought by
  the event that makes a workflow begin again.
- `RoutedKept`: a node is executed along matching edges only.
- `RestIsSkipped`: `SkipsTheRest`.  Every node that was executed hangs from `Start` by a path of
  done nodes (`Paths`), and success finds no queued or pending node left on one.
- `GraphIsTraversed`: `TraversesGraph`, the executor implements `Traversal` until a timer fires
  again.  A node is shown done when its row is, and the routes of a batch when they are written.

### SchedulerProofs, without hypotheses

- `ShapeKept`, `FanoutIsComplete`: `FanoutComplete`.
- `AskedIsFired`: `AskedFires`.  Inductive: `AskedKept`, the time asked for is the row's and that of
  each claimed copy, or one of the two exceptions was noted.
- `TimesAreKept`: claims and fires of a job nobody moved lie on its grid.
- `CountIsKept`: `CountTells`, the time of a counted job is a function of its count, for the row and
  for each copy in hand; so every fire has a count of its own, and there are no more than
  `repeat_count`.
- `CourseIsKept`: until a lease lapses, a claimed row is leased, unchanged and in one scheduler's
  hands (`Undisturbed`), so all times before the row's are fired.
- `CourseIsRun`: `RunsItsCourse`, from the last three.

### ServiceProofs

The parts of `QuotasHold`, `AnswersArePaidFor`, `RulesEnforced`, `CallsBounded`, `AnswersAreWhole` and
`ToolsAreSound`, and these as they are checked.

- `QuotaShapeKept`.
- `BackgroundIsBounded`: `BackgroundWithinLimit`.  Inductive is a hereditary form, `Bounded`: of
  *every* non-empty set of unfinished background runs one was created under a limit that admits
  them all; the advisory lock makes the count a creation rests on the whole set.
- `StartsAreBounded`: `StartsWithinLimit`, in the same way, without a lock: a run is leased, and so
  counted by others, before it counts.
- `AnswersArePaid`: `AnswersAreCharged` of `ModelCalls`, with `CallsFit`: a call in hand is in no
  other hand, and has succeeded when its answer is there, so nobody marks it failed before its
  usage is written (the ledger takes succeeded calls only).
- `UsageOvershoots`: `OvershootBounded`.  Inductive: `OvershootCounted`, which counts in advance.  What a
  scope was charged, and the most that those may charge who have passed its check and not charged
  yet (`MayCharge`), stay below the limit the last passed check saw plus one largest call of each
  chat: a check moves a chat among these, a charge takes it out and puts its amount on the ledger.
  It rests on a block of lemmas about `MapThenSumSet`: `SumAdds` (an element counts with its amount,
  more elements for more) and `SumOfSame`.  Induction over data needs no operator parameter when
  it is put for a set of numbers, `OneByOne`: a set with 0 and with each successor of its members
  holds all of `Nat`, since a least number outside would be the successor of one inside (`WFMin`).
- `DecisionsAreRecent`: `DecisionsRecent`.  Inductive: `Recent`.  What a lookup has read was in
  force since the last tick or the lookup knows that it was torn, and a cache entry of age *n* holds
  a rule that was in force *n* ticks ago or later.  Between the two statements of a lookup what
  carries the argument is that an edit of one row alone leaves either the user's row absent or the
  baseline as it was.
- `EffectsAreOnce`: `EffectsOnce`.  Inductive: `EffectsPaid` with `LoopFits`.  The effects a call took, and the
  workers that may still take it (`OpenTo`: it is left of a batch that does not remember it, or the
  worker is the current one and no row answers it), are together at most one plus what `struck` and
  `overtaken` count: an effect takes its worker out, a death between effect and result or an
  overtaking pays for the worker of the next life.
- `BudgetIsKept`: `BudgetKept`.  Inductive: `WithinBudget`.  Rows and what the current batch still plans are
  together within the budget and the batch's `extra`; `TurnIsTaken` and `TurnIsPassed` say what a plan
  is after its next call.
- `StreamsAreWhole`: `AnswerIsWhole`.  Inductive: `StreamFits`, what was sent is shown, dropped as an
  event or in the chunk, and the partial calls are the indexes sent.  The answer has the indexes below
  their number; if one is at or above it, then by counting one below is missing; `FallbackFits`, every candidate before the present one
  was asked once or twice, those to come not at all.
- `MCPCallsAreKept`: `MCPKept`, from which `AnswersAreOwn` (`AnswerIsOwn`, `SlotsHold`,
  `EffectsOfAttempts`, `RecordsTell`) and `ServerCallsAreCounted` (`CountersTell`,
  `WaitsForSilence`) follow.  A kept process has one reader, with the last number given out, and what
  is in the pipe under that number is its own (`ReaderFits`); what others left behind has lower
  numbers (`ProcessFits`).  That failures are paid for is not inductive by itself: a process that died
  makes one reader fail at once and one writer later, and a context that ended makes a request fail
  that is not sent yet.  `FailuresArePaid` adds these debts (`DeadOnes`, `FailingReaders`, `TooLate`)
  to the failures counted, and bounds the sum by two for a death, one for each garbled or refused
  exchange and one for each context that ended.
- `PoliciesAreKept`: `PackRulesFit`, rules are finitely many rows with an age, and `PolicyRunFits`: a
  denial on record, not of the prompt, decides the point where it is recorded, a decision to deny is on record, and
  what matched is recorded.  From it `DenialsAreFinal` (`DenialsStop`, `ReasonIsFirst`,
  `PassedIsRecorded`) and `EqualVersionsDecideAlike` (`EqualPacksDecideAlike`): in a pack without repeated
  keys a key tells its rule, so equal sets of keys with equal contents match alike, and of what
  matches the strongest does not depend on the order.
- `SelectionsAreKept`: `SelectionFits`, each phase of a selection with what its decision is by then; from it
  `SelectionsAreSound` (`NoToolsForAReason`, `ForcedIsSure`, `NoConflictsShown`).  What is shown is made by
  folds over a ranking, so it rests on two lemmas: `OrderExists`, finitely many tools can be put in
  the order of their scores, and `FoldExists`, a fold over a sequence is a function on the sets of indexes
  gone through, each value from the one before (`PieceByPiece`); with it a fact about the first *n*
  elements is an induction over *n*, by `OneByOne`.
- `NamesAreKept`: `NamesFit`; from it `NamesAreUnambiguous` (`SameToolMeant`, `AliasesAreUnambiguous`).
  `BindingsFit`, by the same lemma about folds: of the tools listed so far a name is bound to the only
  one that claims it, and marked ambiguous when two do, whatever the order of servers and listings.  So
  a name resolves alike in any two sets of answering servers that both have its tool, and to another
  tool only if the name was configured for a server's tool that is gone and names that other tool, too.
- `CallsAreBounded`, `ChargesAreKept`, `AnswersComeWhole`, `RulesAreEnforced`, `QuotasAreHeld`,
  `ToolsStaySound`: `CallsBounded`, `AnswersArePaidFor`, `AnswersAreWhole`, `RulesEnforced`, `QuotasHold` and
  `ToolsAreSound` of `Services`.  A behaviour of `Services` stays with its part (`PartStays`), and is one of
  the part's specification.

### BackgroundProofs

The parts of `DelegationsHonoured`, `RecommendationsSound`, `BackgroundSound`, `ProfileSound` and
`DispatchSound`, and these as they are checked.

- `ParentHears`: `ParentIsTold`, without hypotheses.  Inductive: `HandsFit`.  The worker of a child
  speaks after the run has ended and the delegation says how, and has not spoken before.
- `DelegatesOnce`: `DelegatedOnce`.  Inductive: `Delegated`.  The children of a handle are at most the
  deaths of the parent, and one more once its mention is passed; without a death the handles reached
  are those wanted among the mentions passed.
- `RecommendedOnce`: `OneRecommendation`.  Inductive: `OwedIsPaidFor`.  What is shown, and what a run, the
  jobs that can be claimed and the workers that hold one may still show, are together at most one
  plus the times the run was taken up again and leases lapsed.
- `ShownIsOnRecord`: `ShownIsRecorded`, with `ShownFits`: a worker that has spoken has not recorded it
  only while it is in the steps between.
- `EvaluationsAreKept`: `EvaluationKept`; from it `CorrectionsAreFew` (`RepairsBounded`: corrections sent,
  and what those who hold the run may still send, are within what was asked), `EvaluatedOnSuspicion`,
  `RunningIsHeld` (a running row has a holder, or is among those `left`) and `RecordedCorrectionsHappened`.
- `MonitorsAreKept`: `MonitorKept`, with `PatternsCountOnce`: a session is counted up to `monitored`, and
  the copy a monitor claimed is no newer than the row, so that a late completion writes what was
  true; and `FactsAreKept`: while nobody else consolidates, the facts a monitor has listed are the
  profile's, and of equal ones one stays.
- `SharedJobsAreKept`: `SharedKept`.  A pass knows what it has dealt with (`PassFits`), and a courier what
  it has sent (`CourierFits`); a delivery that exists keeps its users, a message is never taken back,
  and while nobody changed the job's action, passes, deliveries and messages are of it
  (`SwitchFits`).  From it `FiresWriteOnce` and `FiresAreCarriedOut`.
- `ProfilesAreKept`: `ProfilesFit`.  What a tool's call is about to embed is what the row says while it is
  unedited (`EmbeddingsFit`); an offer is a use on record, a mark under way or one that was lost
  (`UsesFit`); a stored row has a place in the order of updates (`OrderIsKept`).  From it
  `ProfilesAreTrue` (`EmbeddingIsOfContent`, `UsageIsTrue`) and `BestRowsAreShown` (`BestAreShown`).  The
  latter rests on `RowsAreRanked`, scores with uses and recency after them are a strict order, and
  on `BestAreFirst`: in a finite strict order the elements with fewer than *n* ahead are exactly *n*,
  or all, and nothing left out is ahead of one of them.
- `SentOnce`, `WhatGeneratesEnds`, `CancellationHolds`: `OneIntentPerTarget`, `GenerationEnds`,
  `CancelledStays`, over `TargetsFit`: a target that is still generated or processed has no intent,
  so the lock under which it leaves `processing` lets one scheduler through.
- `DeliveredIsDelivered`: `DeliveredMeansAll`.  Inductive: `ReportsFit` with `CreationGoes`.  Nothing is sent before
  every target has its row, and what has no run yet generates, so a broadcast whose creation is
  under way or was given up has a target that is not delivered.
- `DelegationsAreHonoured`, `RecommendationsAreSound`, `BackgroundIsSound`, `ProfileIsSound`,
  `DispatchIsSound`: `DelegationsHonoured`, `RecommendationsSound`, `BackgroundSound`, `ProfileSound` and
  `DispatchSound` of `Services`.

### Only model-checked

- Liveness, which rests on fairness and `ENABLED`: `QueuedRunSettles`, `AtLeastOnce`, `JobsSettle`,
  `RunEnds`, `FailureReachesRun`, `DueJobFires`, the fair half of `RepliedUnlessDisturbed`.

All eleven properties of `Services` are theorems.

## 5. Where code and expectation part

Each was reproduced in a model, by a violation run or as an exception named in a property.

Violation runs: the claim race; follow-ups dropped by denied runs; async-write leases that nothing
recovers; a workflow with two questions side by side, executed and recovered for ever.

Exceptions in properties:

- A cancellation after the last `ensureRunnable` does not stop the final message
  (`RunLifecycle!EmitAnswer`).  One between the claim and `SetRunState(running)` is undone by it and
  leaves an executing row without a lease, which recovery does not match; hence `NoOrphan` is
  checked without cancellations.  The completion, failure or suspension writes overwrite a
  cancelled row too.  What holds of ended runs with all of these is `EndedIsLeft`.
- A resume handler that read `awaiting_user` writes `queued` without looking again: a second one
  requeues a run that is being executed (`Exclusion` assumes one in flight), and one may bring a
  cancelled run back.
- A retried submission of one key, in flight beside the first, may become a run as well as a
  deferral.  `MCRefinement` submits each message once.
- A defer transaction that outlasts the window, and a cancellation, question or failure of the run
  a message was deferred to, leave the message without a reader (`DeferredHasListener`).
- A death between claiming deferred messages, suppressing the draft and creating the refinement run
  loses the messages or the draft (`ClaimedIsCarried`, `DraftIsRefined`).
- A merge begins with the first parent that routes to it: `parentsSatisfied` counts activated edges
  only, so `Traversal!Visit` asks for one that reached the node, not for all.
- A suspension writes `awaiting_user`, and a timer `queued`, over a cancelled run.  A timer that
  fires before its node waits is lost to that node, or restarts an ended workflow (`early`); one
  fired twice reopens a finished node (`refire`).
- A worker that dies inside a node leaves it `running`, a state the next execution has no case for:
  the workflow fails as stalled.
- A completion of a fire ends the lease and writes the next time over whatever the row has become.
  When a lease lapses under a scheduler at work, both count the fire, and a reminder with
  `repeat_count` ends early (`RunsItsCourse` says nothing of missed times after a lapse).  A user's
  move of a reminder that a scheduler has in hand is overwritten, and the reminder perhaps switched
  off (`AskedFires`).
- An error for one job leaves the rest of its batch leased for a minute, when they all become due
  together again: a job that fails every time (a session that is gone, a quota that stays full) can
  keep its batch-mates from firing for as long as it does.  `DueJobFires` assumes finitely many
  errors.

- Two processes with one owner string (the default without `HOSTNAME`) renew, and pass checks for,
  each other's leases; `FenceHolds` and its proof take distinct owners.

Of the parts of `Services`, as exceptions named in a property or as behaviour of the model:

- Quotas and usage.  A `CreateBackgroundRun` needs a second connection while it holds one; as many of
  them at once as the pool has connections wait for each other.  Side calls through
  `ChatWithFallback` are not checked against usage.
- Policies.  `policyContext` (`worker.go:3568`) puts every tool it does not know into the workflow's
  name, so conditions on `tool_name` never see the tools of MCP servers.  A new version of a pack
  has no assignments, so switching to it enforces nothing.  An error reading a run's pins falls back
  to all assigned packs.  Only `deny` stops a run, and not where the prompt is made: its rules'
  denials are recorded (`policy.go:133`) and the prompt is sent (`DenialsStop`).  A pack assigned in two scopes is recorded twice.
- Access rules.  Rules of two edits may be read half and half, and kept for thirty seconds.
- Delegations.  A child that is cancelled before it is claimed, refused at its start, or whose
  worker dies after the completion leaves the parent untold (`worker.go:1245`); a parent that is
  executed again delegates again.
- Tools.  `max_tool_calls_per_run` (`docs/configuration.md:448`) bounds the loop.  Nodes of a workflow
  record their calls under the same run (`executor.go:730`, `executor.go:756` and the cases after them)
  without asking for the budget, so a run has more rows than it (`BudgetKept`), and without looking
  for earlier results, so that an effect of the loop is repeated by a node, and by a node that is
  executed again.  A worker whose lease lapsed inside a batch executes the rest of it beside its
  successor: nothing between two calls checks the lease, and the successor's plan knows only the
  results that were there when it was made (`EffectsOnce`).  A run without tools (a greeting, a reminder) executes tool calls the model makes anyway
  (`worker.go:837`).  The last iteration of the loop may end with an empty answer.  A failed call
  that may not be repeated is replayed as a result.  A forced tool survives the failure of the
  hybrid mode's classifier; a router's choices are not checked for conflicts.
- Streams.  A stream that breaks off is taken as complete.  Of tool calls whose indexes skip one,
  `finishStreamToolCalls` (`worker.go:1706`) takes the indexes below their number only, and those at or
  above it are lost without a word (`AnswerIsWhole`).
- MCP.  `max_retries` without a `retry_delay` retries nothing.  A kept process lives in the context,
  and with the identity, of the caller who started it; a discovery's two seconds end it.  A read
  ignores its caller's deadline, so a silent server blocks everybody.  Slots are per manager, and
  each use of a configuration makes one.  Of an event stream only the first event is read, so that
  a notification is taken as an empty result.  A success whose context has ended is not recorded.
- Session monitor.  Two consolidations that overlap may delete both copies of a fact
  (`monitor.go:435`).  A duplicate is deleted even if the update of the row it repeats failed.  A
  completion ignores the lease.
- Tool evaluator.  `ClaimToolEvaluations` takes queued rows only, and a row may be left running: by a
  crash; by a request whose caller goes away, as the failure is written with the same ended context
  (`toolevaluator/service.go:118`); and by an error of that write, which is discarded (`service.go:100`
  for the loops).  It waits for a request by hand (`RunningIsInHand`).  A request may correct once more than the loops did.  A profile's
  `enabled: "yes"` counts in SQL and not in Go, which skips the row.  A confidence of 0 is replaced
  by the deterministic one.
- Recommendations.  A lease that lapses sends twice; an error after the message marks a job failed
  that was sent.
- Memory.  An edit by the API keeps the old embedding; rows it creates have none.
  `userProfileContext` shadows `summary` (`worker.go:4272`), so it never ranks by it.
- Broadcasts.  Two receipts that overlap miss each other, and the broadcast is never delivered.  A
  late scheduler's error overwrites a target that was sent.  Targets that a cancellation finds in
  creation are generated and sent.  A crash during creation leaves targets generating for ever.
- Shared jobs.  When the run fails, the delivery stays pending.  A fire repeated with another
  selection keeps the first one's subscribers.  An edit of `fanout_action` during a fire may
  write to a user in both ways.  A late scheduler overwrites completed with failed.

## 6. Not modelled

Workflow manifests, knowledge ingestion, artifacts, sessions and transfers, agent configuration and
versions, observability, retention, introspection and the evaluation command line: they compute
data, read, or write single rows, without a protocol.  Prompts, scoring functions, the texts of
summaries and vector arithmetic are left out of the modules above.  What a model, a judge or a tool
answers is a choice.

Simplifications: `Refinement` has one pipeline and a crash hands its run back at once.  `Workflow`
has one executor at a time, its `Answer` (context, model, final message, completion) and the three
writes of `ResumeAwaitingUser` are single steps, and a second workflow run of the same run begins
only when no timer of the first is left.  Quota counts at submission are an open choice, as a run
that is refused leaves no row.  In `Scheduler` the subscribers of a shared
job do not change, a user's update always sets a time, and its bounds check and write are one step.  In `Broadcasts` the users' sessions do not change, and in
`SharedRuns` a run is a row that is completed or failed once.

## 7. Plan

Activation of agent versions, and liveness of the leased queues.
