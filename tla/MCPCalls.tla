------------------------------ MODULE MCPCalls ------------------------------
(***************************************************************************)
(* Calls of MCP servers (internal/mcp).  A managed client bounds the calls *)
(* of its server, counts them, and repeats a tool call that failed.  Below *)
(* it a request goes over HTTP, to a process started for it, or to a       *)
(* process that is kept: one exchange at a time, answers told apart by     *)
(* their number, and the process bound to the context of the caller that   *)
(* started it.                                                             *)
(***************************************************************************)
EXTENDS Naturals, Sequences, FiniteSets, SequencesExt

CONSTANTS
  ToolCallers,
  Managers,     \* of the process, or made for one use
  RegisteredIn, \* managers that have the server
  Transports,   \* "persistent", "stdio", "sse"
  ServerLimits, \* MaxConcurrent of a server, 0 is no bound
  MaxRetries, RetryDelay,
  Bodies,       \* lines an event stream may have
  MaxTrouble    \* bound: what goes wrong in a behaviour

VARIABLES
  spec,       \* of the server: [transport, maxConcurrent]
  caller,     \* [phase, op, manager, attempt, id, result]
  over,       \* callers whose context has ended
  mcpSession, \* manager -> its kept process
  nextID,     \* manager -> number of the next request
  mcpStatus,  \* [calls, failures] of the server, in all managers
  mcpEffects, \* caller -> how often the server did what was asked
  record,     \* caller -> state of its mcp_calls row
  mcpTrouble  \* [spent, deaths, garbled, refused, silent]

mcpVars == <<spec, caller, over, mcpSession, nextID, mcpStatus, mcpEffects, record, mcpTrouble>>

NoSession == [alive |-> FALSE, opener |-> "none", out |-> <<>>]
Caller == [phase |-> "idle", op |-> "none", manager |-> "none", attempt |-> 0, id |-> 0, result |-> "none"]
Garbage == [id |-> 0, result |-> "garbage"]

MCPInit ==
  /\ spec \in [transport : Transports, maxConcurrent : ServerLimits]
  /\ caller = [c \in ToolCallers |-> Caller]
  /\ over = {}
  /\ mcpSession = [m \in Managers |-> NoSession]
  /\ nextID = [m \in Managers |-> 2]
  /\ mcpStatus = [calls |-> 0, failures |-> 0]
  /\ mcpEffects = [c \in ToolCallers |-> 0]
  /\ record = [c \in ToolCallers |-> "none"]
  /\ mcpTrouble = [spent |-> 0, deaths |-> 0, garbled |-> 0, refused |-> 0, silent |-> 0]

ServerTrouble(kind) ==
  /\ mcpTrouble.spent < MaxTrouble
  /\ mcpTrouble' = [mcpTrouble EXCEPT !.spent = @ + 1, ![kind] = @ + 1]

-----------------------------------------------------------------------------
(* The managed client *)

\* A version's configuration makes a manager of its own for each use, with the
\* servers of the process under other names.
MCPManagerForRun == Managers

\* A server is asked through the manager, if it is registered there.
Asks(c, op, m) ==
  caller' = [caller EXCEPT ![c] =
    [Caller EXCEPT !.op = op, !.manager = m,
       !.phase = IF m \in RegisteredIn THEN "waiting" ELSE "done",
       !.result = IF m \in RegisteredIn THEN "none" ELSE "error"]]

StartMCPCall(c) == record' = [record EXCEPT ![c] = "running"]

\* A tool call looks for its server before it is recorded, a workflow's node for
\* resources or prompts afterwards; the admin's requests and the discovery of tools
\* are not recorded.
CallTool(c) ==
  /\ caller[c].phase = "idle"
  /\ \E m \in MCPManagerForRun :
       /\ Asks(c, "call", m)
       /\ IF m \in RegisteredIn THEN StartMCPCall(c) ELSE UNCHANGED record
  /\ UNCHANGED <<spec, over, mcpSession, nextID, mcpStatus, mcpEffects, mcpTrouble>>

ExecuteMCPNode(c) ==
  /\ caller[c].phase = "idle"
  /\ \E m \in MCPManagerForRun : Asks(c, "read", m)
  /\ StartMCPCall(c)
  /\ UNCHANGED <<spec, over, mcpSession, nextID, mcpStatus, mcpEffects, mcpTrouble>>

ReadUnrecorded(c) ==
  /\ caller[c].phase = "idle"
  /\ \E m \in MCPManagerForRun : Asks(c, "read", m)
  /\ UNCHANGED <<spec, over, mcpSession, nextID, mcpStatus, mcpEffects, record, mcpTrouble>>

\* A failure is recorded whatever became of the context, a success only if it lasts:
\* what was done is else an error to the run, and its row stays open.
CompleteMCPCall(c) ==
  /\ caller[c].phase = "done" /\ record[c] = "running"
  /\ \/ /\ caller[c].result = "error" \/ c \notin over
        /\ record' = [record EXCEPT ![c] = IF caller[c].result = "error" THEN "failed" ELSE "succeeded"]
        /\ caller' = [caller EXCEPT ![c].phase = "closed"] /\ UNCHANGED mcpTrouble
     \/ /\ IF c \in over /\ caller[c].result # "error" THEN UNCHANGED mcpTrouble ELSE ServerTrouble("refused")
        /\ caller' = [caller EXCEPT ![c].phase = "lost"]
        /\ UNCHANGED record
  /\ UNCHANGED <<spec, over, mcpSession, nextID, mcpStatus, mcpEffects>>

InUse(m) == {c \in ToolCallers : caller[c].manager = m
                             /\ caller[c].phase \in {"attempt", "ready", "reading", "backoff"}}

\* One slot of the server's for a request, its retries included.
Acquire(c) ==
  /\ caller[c].phase = "waiting"
  /\ (spec.maxConcurrent = 0 \/ Cardinality(InUse(caller[c].manager)) < spec.maxConcurrent)
  /\ caller' = [caller EXCEPT ![c].phase = "attempt"]
  /\ UNCHANGED <<spec, over, mcpSession, nextID, mcpStatus, mcpEffects, record, mcpTrouble>>

Attempt(c) ==
  /\ caller[c].phase = "attempt"
  /\ mcpStatus' = [mcpStatus EXCEPT !.calls = @ + 1]
  /\ caller' = [caller EXCEPT ![c].phase = "ready", ![c].attempt = @ + 1]
  /\ UNCHANGED <<spec, over, mcpSession, nextID, mcpEffects, mcpTrouble, record>>

\* A tool call that failed is repeated, if there is a delay to wait for and its
\* context lets it wait.
Failed(c) ==
  /\ mcpStatus' = [mcpStatus EXCEPT !.failures = @ + 1]
  /\ caller' = [caller EXCEPT
       ![c].phase = IF caller[c].op = "call" /\ caller[c].attempt <= MaxRetries /\ RetryDelay > 0 /\ c \notin over
                    THEN "backoff" ELSE "done",
       ![c].result = "error"]

Succeeded(c, result) ==
  /\ caller' = [caller EXCEPT ![c].phase = "done", ![c].result = result]
  /\ UNCHANGED mcpStatus

RetryLater(c) ==
  /\ caller[c].phase = "backoff"
  /\ caller' = [caller EXCEPT ![c].phase = "attempt"]
  /\ UNCHANGED <<spec, over, mcpSession, nextID, mcpStatus, mcpEffects, record, mcpTrouble>>

\* A context ends, of a call or after it: a slot or a delay is waited for no
\* longer, a process that was started under it is killed.
Killed(c) == [m \in Managers |-> IF mcpSession[m].opener = c THEN [mcpSession[m] EXCEPT !.alive = FALSE] ELSE mcpSession[m]]
ContextEnds(c) ==
  /\ caller[c].phase # "idle" /\ c \notin over /\ over' = over \cup {c}
  /\ mcpSession' = Killed(c)
  /\ mcpTrouble' = [mcpTrouble EXCEPT !.deaths = @ + Cardinality({m \in Managers : mcpSession[m].alive /\ mcpSession[m].opener = c})]
  /\ caller' = IF caller[c].phase \in {"waiting", "backoff"}
               THEN [caller EXCEPT ![c].phase = "done", ![c].result = "error"] ELSE caller
  /\ UNCHANGED <<spec, nextID, mcpStatus, mcpEffects, record>>

-----------------------------------------------------------------------------
(* The process that is kept *)

\* callMu is held from before the session is looked at until the answer.
Exchanging(m) == \E c \in ToolCallers : caller[c].manager = m /\ caller[c].phase = "reading"

\* A process is bound to the context of who starts it, and has its identity.
Started(c) == [alive |-> TRUE, opener |-> c, out |-> <<>>]

\* The first caller starts the process that all use.
EnsureSession(c) ==
  LET m == caller[c].manager IN
  /\ spec.transport = "persistent" /\ caller[c].phase = "ready" /\ ~Exchanging(m)
  /\ mcpSession[m] = NoSession
  /\ \/ /\ c \notin over
        /\ mcpSession' = [mcpSession EXCEPT ![m] = Started(c)]
        /\ nextID' = [nextID EXCEPT ![m] = 2]
        /\ UNCHANGED <<caller, mcpStatus, mcpTrouble>>
     \/ /\ IF c \in over THEN UNCHANGED mcpTrouble ELSE ServerTrouble("refused")
        /\ Failed(c)
        /\ UNCHANGED <<mcpSession, nextID>>
  /\ UNCHANGED <<spec, over, mcpEffects, record>>

\* What the server does with a request: it answers, refuses, says something else
\* before it answers, never answers, or dies before it begins.
Request(c) ==
  LET m == caller[c].manager
      n == nextID[m]
      answer == [id |-> n, result |-> c] IN
  /\ spec.transport = "persistent" /\ caller[c].phase = "ready" /\ ~Exchanging(m)
  /\ mcpSession[m].alive
  /\ nextID' = [nextID EXCEPT ![m] = n + 1]
  /\ caller' = [caller EXCEPT ![c].phase = "reading", ![c].id = n]
  /\ \/ /\ mcpSession' = [mcpSession EXCEPT ![m].out = Append(@, answer)]
        /\ mcpEffects' = [mcpEffects EXCEPT ![c] = @ + 1] /\ UNCHANGED mcpTrouble
     \/ /\ mcpSession' = [mcpSession EXCEPT ![m].out = Append(@, [answer EXCEPT !.result = "refused"])]
        /\ UNCHANGED mcpEffects /\ ServerTrouble("refused")
     \/ /\ mcpSession' = [mcpSession EXCEPT ![m].out = @ \o <<Garbage, answer>>]
        /\ mcpEffects' = [mcpEffects EXCEPT ![c] = @ + 1] /\ ServerTrouble("garbled")
     \/ /\ UNCHANGED mcpSession /\ mcpEffects' = [mcpEffects EXCEPT ![c] = @ + 1] /\ ServerTrouble("silent")
     \/ /\ mcpSession' = [mcpSession EXCEPT ![m].alive = FALSE] /\ UNCHANGED mcpEffects /\ ServerTrouble("deaths")
  /\ UNCHANGED <<spec, over, mcpStatus, record>>

\* A dead process is noticed by writing to it.
RequestWriteFails(c) ==
  LET m == caller[c].manager IN
  /\ spec.transport = "persistent" /\ caller[c].phase = "ready" /\ ~Exchanging(m)
  /\ mcpSession[m] # NoSession /\ ~mcpSession[m].alive
  /\ mcpSession' = [mcpSession EXCEPT ![m] = NoSession]
  /\ Failed(c)
  /\ UNCHANGED <<spec, over, nextID, mcpEffects, mcpTrouble, record>>

\* Variant: the first message that is an answer is taken.
IDMatchesAny(msg, id) == msg.id # 0

JSONRPCIDMatches(msg, id) == msg.id = id

\* Another answer is skipped; a line that is none, a refusal and the end of the
\* process are errors.  A tool call leaves the process as it is, anything else
\* closes it.
ReadResult(c) ==
  LET m == caller[c].manager
      out == mcpSession[m].out
      msg == Head(out) IN
  /\ caller[c].phase = "reading"
  /\ \/ /\ out # <<>> /\ JSONRPCIDMatches(msg, caller[c].id) /\ msg.result \in ToolCallers
        /\ Succeeded(c, msg.result)
        /\ mcpSession' = [mcpSession EXCEPT ![m].out = Tail(@)]
     \/ /\ out # <<>> /\ msg # Garbage /\ ~JSONRPCIDMatches(msg, caller[c].id)
        /\ mcpSession' = [mcpSession EXCEPT ![m].out = Tail(@)]
        /\ UNCHANGED <<caller, mcpStatus>>
     \/ /\ \/ out = <<>> /\ ~mcpSession[m].alive
           \/ out # <<>> /\ msg = Garbage
           \/ out # <<>> /\ JSONRPCIDMatches(msg, caller[c].id) /\ msg.result = "refused"
        /\ Failed(c)
        /\ mcpSession' = [mcpSession EXCEPT ![m] =
             IF caller[c].op = "read" THEN NoSession
             ELSE IF out = <<>> THEN @ ELSE [@ EXCEPT !.out = Tail(out)]]
  /\ UNCHANGED <<spec, over, nextID, mcpEffects, mcpTrouble, record>>

-----------------------------------------------------------------------------
(* A process for a request, and HTTP *)

\* The lines of the first event: to the empty line after data, or to "[DONE]".
FirstEvent(body) ==
  {i \in DOMAIN body : body[i] \in {"answer", "notice"}
     /\ \A j \in 1..(i - 1) : /\ body[j] # "done"
                              /\ body[j] = "empty" => \A k \in 1..(j - 1) : body[k] \notin {"answer", "notice"}}

\* One value in it is decoded, into an empty result if it is not an answer; two are
\* not JSON, and neither is none.
ReadSSEData(body, c) ==
  LET data == FirstEvent(body) IN
  IF Cardinality(data) # 1 THEN "error"
  ELSE IF \A i \in data : body[i] = "answer" THEN c ELSE "nothing"

HTTPCall(c) ==
  /\ spec.transport = "sse" /\ caller[c].phase = "ready"
  /\ \/ /\ c \notin over
        /\ \E body \in Bodies :
             IF ReadSSEData(body, c) = "error" THEN Failed(c) ELSE Succeeded(c, ReadSSEData(body, c))
        /\ mcpEffects' = [mcpEffects EXCEPT ![c] = @ + 1] /\ UNCHANGED mcpTrouble
     \/ /\ IF c \in over THEN UNCHANGED mcpTrouble ELSE ServerTrouble("refused")
        /\ \E did \in 0..1 : mcpEffects' = [mcpEffects EXCEPT ![c] = @ + did]
        /\ Failed(c)
  /\ UNCHANGED <<spec, over, mcpSession, nextID, record>>

\* Started, asked and killed; its output is read for one answer.
StdioCall(c) ==
  /\ spec.transport = "stdio" /\ caller[c].phase = "ready"
  /\ \/ /\ c \notin over /\ Succeeded(c, c)
        /\ mcpEffects' = [mcpEffects EXCEPT ![c] = @ + 1] /\ UNCHANGED mcpTrouble
     \/ /\ IF c \in over THEN UNCHANGED mcpTrouble ELSE ServerTrouble("garbled")
        /\ \E did \in 0..1 : mcpEffects' = [mcpEffects EXCEPT ![c] = @ + did]
        /\ Failed(c)
  /\ UNCHANGED <<spec, over, mcpSession, nextID, record>>

MCPNext == \E c \in ToolCallers :
  \/ CallTool(c) \/ ExecuteMCPNode(c) \/ ReadUnrecorded(c) \/ CompleteMCPCall(c) \/ Acquire(c) \/ Attempt(c) \/ RetryLater(c) \/ ContextEnds(c)
  \/ EnsureSession(c) \/ Request(c) \/ RequestWriteFails(c) \/ ReadResult(c)
  \/ HTTPCall(c) \/ StdioCall(c)

-----------------------------------------------------------------------------
(* Properties *)

\* An answer is the answer to one's own request, although a failed exchange leaves
\* its answer in the pipe for the next to find.
AnswerIsOwn == \A c \in ToolCallers : caller[c].result \in {"none", "error", "nothing", c}

\* The bound of a server holds for all its requests, in each manager.
SlotsHold == spec.maxConcurrent # 0 => \A m \in Managers : Cardinality(InUse(m)) <= spec.maxConcurrent

\* An effect is of an attempt: it is repeated only by a call that is, and a success
\* had one.
EffectsOfAttempts ==
  \A c \in ToolCallers :
    /\ mcpEffects[c] <= caller[c].attempt
    /\ caller[c].attempt <= (IF caller[c].op = "call" /\ RetryDelay > 0 THEN MaxRetries + 1 ELSE 1)
    /\ caller[c].result = c => mcpEffects[c] > 0

\* A row tells how its call ended, for the server and for the run; it stays open only
\* where the context ended or the database failed, whatever the server did.
RecordsTell ==
  \A c \in ToolCallers :
    /\ record[c] = "succeeded" => caller[c].result \in {c, "nothing"} /\ mcpEffects[c] > 0
    /\ record[c] = "failed" => caller[c].result = "error"
    /\ caller[c].phase = "lost" => record[c] = "running" /\ (c \in over \/ mcpTrouble.refused > 0)
    /\ caller[c].phase = "closed" => record[c] # "running"

\* The counters tell attempts and failures; and a death of the process makes at
\* most two attempts fail: one that reads its end, and one that writes to it.
Pending == Cardinality({c \in ToolCallers : caller[c].phase \in {"ready", "reading"}})
CountersTell ==
  /\ mcpStatus.failures + Cardinality({c \in ToolCallers : caller[c].result \in ToolCallers \cup {"nothing"}}) + Pending
       = mcpStatus.calls
  /\ spec.transport = "persistent" =>
       mcpStatus.failures <= 2 * mcpTrouble.deaths + mcpTrouble.garbled + mcpTrouble.refused + Cardinality(over)

\* Who waits for an answer that will not come waits for a server that is silent, and
\* holds up the others.
WaitsForSilence ==
  \A c \in ToolCallers :
    caller[c].phase = "reading" /\ mcpSession[caller[c].manager].alive
    /\ (\A i \in DOMAIN mcpSession[caller[c].manager].out : mcpSession[caller[c].manager].out[i].id # caller[c].id)
      => mcpTrouble.silent > 0
=============================================================================
