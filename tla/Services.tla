------------------------------ MODULE Services ------------------------------
(***************************************************************************)
(* Small protocols and decisions beside the run queue.  They share no      *)
(* state, and "part" says which of them a behaviour is of.                 *)
(***************************************************************************)
EXTENDS RunQuota, ModelCalls, ModelStream, AccessRules, Delegations, ToolLoop, ToolSelection,
  ToolNames, SessionMonitor, Recommendations, UserContext, Broadcasts, ToolEvaluations,
  SharedRuns, MCPCalls, Policies

VARIABLE part

allVars ==
  <<part, quotaVars, modelVars, streamVars, accessVars, delegationVars, toolVars, selectionVars, nameVars,
    monitorVars, recommendationVars, userVars, broadcastVars, evaluationVars, sharedVars, mcpVars, policyVars>>

-----------------------------------------------------------------------------
\* A step of one part; the others never begin.
Of(p) ==
  /\ part = p /\ part' = p
  /\ p # "quota" => UNCHANGED quotaVars
  /\ p # "chats" => UNCHANGED modelVars
  /\ p # "stream" => UNCHANGED streamVars
  /\ p # "access" => UNCHANGED accessVars
  /\ p # "delegations" => UNCHANGED delegationVars
  /\ p # "toolloop" => UNCHANGED toolVars
  /\ p # "selection" => UNCHANGED selectionVars
  /\ p # "names" => UNCHANGED nameVars
  /\ p # "monitor" => UNCHANGED monitorVars
  /\ p # "recommend" => UNCHANGED recommendationVars
  /\ p # "user" => UNCHANGED userVars
  /\ p # "broadcast" => UNCHANGED broadcastVars
  /\ p # "evaluate" => UNCHANGED evaluationVars
  /\ p # "shared" => UNCHANGED sharedVars
  /\ p # "mcp" => UNCHANGED mcpVars
  /\ p # "policies" => UNCHANGED policyVars

QuotaBegins ==
  IF part = "quota" THEN QuotaInit
  ELSE quotaRow = 0 /\ jobState = 0 /\ jobMode = 0 /\ call = 0 /\ start = 0 /\ startedUnder = 0 /\
       createdUnder = 0
ChatsBegins ==
  IF part = "chats" THEN ModelInit
  ELSE usageRow = 0 /\ callState = 0 /\ ledger = 0 /\ chat = 0 /\ lastSeen = 0 /\ returned = 0
StreamBegins ==
  IF part = "stream" THEN StreamInit
  ELSE stream = 0 /\ sent = 0 /\ fallback = 0
AccessBegins ==
  IF part = "access" THEN AccessInit
  ELSE accessKind = 0 /\ rules = 0 /\ accessCache = 0 /\ reader = 0 /\ editing = 0 /\
       inForce = 0 /\ decided = 0
DelegationsBegins ==
  IF part = "delegations" THEN DelegationInit
  ELSE parent = 0 /\ childState = 0 /\ delegation = 0 /\ hand = 0 /\ told = 0 /\ disturbed = 0 /\
       faults = 0
ToolloopBegins ==
  IF part = "toolloop" THEN ToolInit
  ELSE loop = 0 /\ calling = 0 /\ rows = 0 /\ effects = 0 /\ struck = 0 /\ overtaken = 0 /\ taken = 0
SelectionBegins ==
  IF part = "selection" THEN SelectionInit
  ELSE config = 0 /\ message = 0 /\ metadata = 0 /\ decision = 0 /\ selection = 0
NamesBegins ==
  IF part = "names" THEN NamesInit
  ELSE answering = 0 /\ allowed = 0 /\ offered = 0 /\ picked = 0 /\ resolved = 0
MonitorBegins ==
  IF part = "monitor" THEN MonitorInit
  ELSE session = 0 /\ profile = 0 /\ monitor = 0 /\ known = 0 /\ overlapped = 0
RecommendBegins ==
  IF part = "recommend" THEN RecommendationInit
  ELSE catalog = 0 /\ blocked = 0 /\ run = 0 /\ decisions = 0 /\ jobs = 0 /\ worker = 0 /\
       shown = 0 /\ trouble = 0
UserBegins ==
  IF part = "user" THEN UserContextInit
  ELSE profileRows = 0 /\ order = 0 /\ embedder = 0 /\ marks = 0 /\ profileHistory = 0
BroadcastBegins ==
  IF part = "broadcast" THEN BroadcastsInit
  ELSE mode = 0 /\ targets = 0 /\ creator = 0 /\ status = 0 /\ target = 0 /\ generationRun = 0 /\
       runState = 0 /\ intents = 0 /\ intent = 0 /\ claimed = 0 /\ aged = 0 /\ open = 0 /\
       reported = 0 /\ canceller = 0 /\ spent = 0
EvaluateBegins ==
  IF part = "evaluate" THEN EvaluationsInit
  ELSE runHistory = 0 /\ runProfile = 0 /\ evaluationRow = 0 /\ evaluator = 0 /\ repairs = 0 /\
       asked = 0 /\ evaluationTrouble = 0
SharedBegins ==
  IF part = "shared" THEN SharedInit
  ELSE job = 0 /\ subs = 0 /\ pass = 0 /\ runs = 0 /\ deliveries = 0 /\ sharedIntents = 0 /\
       fires = 0 /\ courier = 0 /\ sharedSpent = 0
McpBegins ==
  IF part = "mcp" THEN MCPInit
  ELSE spec = 0 /\ caller = 0 /\ over = 0 /\ mcpSession = 0 /\ nextID = 0 /\ mcpStatus = 0 /\
       mcpEffects = 0 /\ record = 0 /\ mcpTrouble = 0
PoliciesBegins ==
  IF part = "policies" THEN PoliciesInit
  ELSE packs = 0 /\ packRules = 0 /\ assigned = 0 /\ policyRun = 0 /\ evals = 0 /\ edits = 0

Parts ==
  {"quota", "chats", "stream", "access", "delegations", "toolloop", "selection", "names", "monitor",
    "recommend", "user", "broadcast", "evaluate", "shared", "mcp", "policies"}

Init ==
  /\ part \in Parts
  /\ QuotaBegins
  /\ ChatsBegins
  /\ StreamBegins
  /\ AccessBegins
  /\ DelegationsBegins
  /\ ToolloopBegins
  /\ SelectionBegins
  /\ NamesBegins
  /\ MonitorBegins
  /\ RecommendBegins
  /\ UserBegins
  /\ BroadcastBegins
  /\ EvaluateBegins
  /\ SharedBegins
  /\ McpBegins
  /\ PoliciesBegins

Next ==
  \/ Of("quota") /\ QuotaNext
  \/ Of("chats") /\ ModelNext
  \/ Of("stream") /\ StreamNext
  \/ Of("access") /\ AccessNext
  \/ Of("delegations") /\ DelegationNext
  \/ Of("toolloop") /\ ToolNext
  \/ Of("selection") /\ SelectionNext
  \/ Of("names") /\ NamesNext
  \/ Of("monitor") /\ MonitorNext
  \/ Of("recommend") /\ RecommendationNext
  \/ Of("user") /\ UserContextNext
  \/ Of("broadcast") /\ BroadcastsNext
  \/ Of("evaluate") /\ EvaluationsNext
  \/ Of("shared") /\ SharedNext
  \/ Of("mcp") /\ MCPNext
  \/ Of("policies") /\ PoliciesNext

Spec == Init /\ [][Next]_allVars

-----------------------------------------------------------------------------
(* What the theorems about the parts suppose of their constants *)

\* What administrators write are integers (AgentInstanceRuntimeLimits).
UsageConfigured ==
  /\ IsFiniteSet(Jobs)
  /\ \A s \in {"customer", "agent"} : \A limits \in QuotaRows[s] : \A k \in DOMAIN limits : limits[k] \in Int

\* A message has each handle once (mentionedAgentHandles keeps what it has seen).
MentionsOnce ==
  /\ Mentions \in Seq(Handles) /\ "none" \notin Handles /\ MaxMentions \in Int
  /\ \A i, j \in DOMAIN Mentions : Mentions[i] = Mentions[j] => i = j

\* What the model answers are sequences of calls; of a version's limits zero is none.
LoopConfigured ==
  /\ \A reply \in Replies : reply \in Seq(Calls)
  /\ Version.maxToolCallsPerRun \in Nat /\ Interruptions \in Nat

\* The statuses a receiver may report (NormalizeOutboundIntentStatus); runs have
\* names of their own.
BroadcastConfigured ==
  /\ Reports \subseteq {"sent_to_nexus", "delivered", "failed", "cancelled"}
  /\ {"error", "crash", "stall", "cancel"} \subseteq Faults
  /\ GenerationRuns \cap {None, "begin", "targets", "runs", "done"} = {}

\* Sizes are numbers, and a piece is not empty.
StreamConfigured == FlushBytes \in Nat \ {0} /\ MaxEvents \in Nat /\ Candidates \in Nat

\* No item and no worker is called "none"; workers are finitely many.
RecommendationConfigured == IsFiniteSet(Workers) /\ NoItem \notin Items /\ NoItem \notin Workers

\* Loops and requests are finitely many, and no run is called "none".
EvaluationConfigured == IsFiniteSet(Loops \cup Requests) /\ "none" \notin EvaluatedRuns

\* There are finitely many wordings, and messages are counted by numbers.
MonitorConfigured == IsFiniteSet(Texts) /\ \A s \in UserSessions : DOMAIN Said[s] \subseteq Nat

\* Subscriptions are of agents, and no agent is called as a phase of a pass is.
SharedConfigured ==
  /\ MaxFires \in Nat /\ First \subseteq [Users -> Agents]
  /\ Agents \cap {"idle", "select", "create", "complete"} = {}

\* Callers and managers are finitely many, no caller is called as an answer may be, and
\* bounds are numbers.
MCPConfigured ==
  /\ IsFiniteSet(ToolCallers) /\ IsFiniteSet(Managers)
  /\ ToolCallers \cap {"none", "error", "nothing", "refused", "garbage"} = {}
  /\ ServerLimits \subseteq Nat /\ MaxRetries \in Nat /\ RetryDelay \in Nat

\* The rules of the first pack are counted.
PoliciesConfigured == DOMAIN FirstRules \subseteq Nat /\ IsFiniteSet(DOMAIN FirstRules)

\* Chats are counted, what they charge is bounded, and a row limits by numbers.
CallsConfigured ==
  /\ IsFiniteSet(Chats) /\ \A w \in Chats : ScopesOf[w] \in Seq(Scopes)
  /\ \A s \in Scopes : \A row \in UsageRows[s] : \A k \in DOMAIN row : row[k] \in Int
  /\ Amounts \subseteq Nat /\ \E m \in Amounts : \A a \in Amounts : a <= m

\* Rows are counted, and what stands for none is no content of a row.
ProfilesConfigured ==
  /\ IsFiniteSet(Ids) /\ NoContent \notin Contents
  /\ OfferedMemories \in Nat /\ CandidateLimit \in Nat /\ MaxUses \in Nat

\* There are tools to select from (selectToolDefinitions), as names they are in an
\* order, and what ranks them is numbers.
SelectionConfigured ==
  /\ IsFiniteSet(Tools) /\ Tools # {} /\ Tools \subseteq Int
  /\ \A e \in Evidence : e.tokens \in Nat
  /\ Similarities \subseteq Int
  /\ \A labels \in Labels : \A t \in DOMAIN labels : labels[t] \in Int
  /\ \A r \in RouterReplies : r.names \in Seq(Int)

\* The name of a server's tool holds a hash: it is a name of no other tool, and a
\* provider takes it.  An alias that is configured twice is refused (toolAliasesForRun).
NamesConfigured ==
  /\ IsFiniteSet(McpTools) /\ Servers \in Seq(STRING)
  /\ \A t, u \in McpTools : t # u => t.canonical \notin NamesOf(u)
  /\ \A t \in McpTools :
       /\ t.canonical \notin RegisteredTools /\ SafeName[t.canonical] = t.canonical
       /\ \A n \in RegisteredTools : SafeName[n] # t.canonical
  /\ \A m, n \in DOMAIN Configured : Configured[m] = Configured[n] => m = n

ASSUME ServicesAssumption ==
  /\ UsageConfigured
  /\ CacheTTL \in Nat \ {0}
  /\ MentionsOnce
  /\ LoopConfigured
  /\ BroadcastConfigured
  /\ StreamConfigured
  /\ RecommendationConfigured
  /\ EvaluationConfigured
  /\ MonitorConfigured
  /\ SharedConfigured
  /\ MCPConfigured
  /\ PoliciesConfigured
  /\ CallsConfigured
  /\ ProfilesConfigured
  /\ SelectionConfigured
  /\ NamesConfigured

-----------------------------------------------------------------------------
(* Properties *)

\* Counted quotas hold up to what their counting can miss.  Workers lease first and
\* count afterwards, without a lock: however many start runs of an agent instance at
\* once, and however its limits change meanwhile, the runs in execution are never
\* more than a limit one of them started under.  The advisory lock makes the
\* background quota exact.  Checks and charges of concurrent chats interleave, but
\* past the limit its last passed check saw, a scope is charged at most one call of
\* each chat.
QuotasHold ==
  /\ part = "quota" => StartsWithinLimit /\ BackgroundWithinLimit
  /\ part = "chats" => OvershootBounded

\* An answer the agent loop acts on has been charged: the order of the two
\* writes after a call matters, since the ledger takes succeeded calls only.
AnswersArePaidFor == part = "chats" => AnswersAreCharged

\* What comes back from a provider's stream or a tool server is what was said, and
\* to the caller who asked.  Nothing of a streamed answer is lost between the
\* provider and the loop, whatever the sizes of its pieces, but tool calls when the
\* provider skipped an index, and a fallback gives up only after every candidate
\* failed.  An MCP answer is one's own, slots and
\* retries are bounded, and the counters tell what went wrong.
AnswersAreWhole ==
  /\ part = "stream" => AnswerIsWhole
  /\ part = "mcp" =>
       AnswerIsOwn /\ SlotsHold /\ EffectsOfAttempts /\ RecordsTell /\ CountersTell /\ WaitsForSilence

\* Rules are in force when they should be.  A decision is by an access rule that was
\* in force within the life of a cache entry, whatever edits of this and of other
\* processes raced the lookup, unless both rows were edited between its two
\* statements.  A policy's denial stops the run where it is recorded, unless its rule
\* is one of the prompt's, whose denials are recorded and stop nothing; a decision
\* is the strongest of what matched, and packs that do not differ decide alike.
RulesEnforced ==
  /\ part = "access" => DecisionsRecent
  /\ part = "policies" => DenialsStop /\ ReasonIsFirst /\ PassedIsRecorded /\ EqualPacksDecideAlike

\* The parent's session hears of every child exactly once, and what it hears is
\* what the delegation's row says and how the run ended, whatever race of
\* completion and cancellation, unless a fault named in the module struck it;
\* and a handle is delegated to again only by a parent that is executed again.
DelegationsHonoured == part = "delegations" => ParentIsTold /\ DelegatedOnce

\* However often the model repeats a call and the run is taken up again, a call
\* that may not be repeated takes effect once through the loop, unless a worker died
\* between its effect and its result or was overtaken with the call in its batch;
\* and the calls of all its lives stay within its budget, up to those that nodes of
\* workflows and overtaken workers record while a batch is executed.
CallsBounded == part = "toolloop" => EffectsOnce /\ BudgetKept

\* What the model is offered as tools is sound.  A model call that fails takes no
\* tool away; a tool is forced on the model only if the decision is sure of it; a
\* tool is not shown beside a better one that rules it out; the tool that is
\* executed is the one that was offered under the name the model used, though
\* servers come and go in between; and no alias is of two tools.
ToolsAreSound ==
  /\ part = "selection" => NoToolsForAReason /\ ForcedIsSure /\ NoConflictsShown
  /\ part = "names" => SameToolMeant /\ AliasesAreUnambiguous

\* What works on conversations afterwards does so once and loses nothing, up to the
\* faults named.  The monitor counts each message once, though claims lapse and
\* monitors complete in either order, and consolidation loses nothing the profile
\* knew unless two overlap.  Corrections of the tool evaluator are bounded by what
\* what was asked, only suspicion is looked into, and rows tell the truth of who works,
\* but those a death or a lost write left behind, and of what was sent.
BackgroundSound ==
  /\ part = "monitor" => PatternCountsOnce /\ FactsKept
  /\ part = "evaluate" => RepairsBounded /\ UnaskedIsSuspicious /\ RunningIsInHand /\ RecordedRepairHappened

\* A message gets one recommendation, in its answer or after it, unless the run is
\* taken up again or a job's lease lapses; and what is shown is on record unless an
\* item was deleted.
RecommendationsSound == part = "recommend" => OneRecommendation /\ ShownIsRecorded

\* A row is found by what it says unless it was edited; usage is counted truly up
\* to marks that failed; and what is shown is what is most relevant.
ProfileSound == part = "user" => EmbeddingIsOfContent /\ UsageIsTrue /\ BestAreShown

\* One occasion writes to a user once and is recorded as it went.  A target of a
\* broadcast is sent to once, the broadcast is delivered when its targets are, what
\* generates will end, and a cancellation leaves nothing queued that it found.  A
\* fire of a shared job writes to a user once, what is called completed was sent,
\* what was recorded is under way, and a run had its say.
DispatchSound ==
  /\ part = "broadcast" => OneIntentPerTarget /\ DeliveredMeansAll /\ GenerationEnds /\ CancelledStays
  /\ part = "shared" => OncePerFire /\ CompletedIsSent /\ RecordedIsUnderWay /\ SaidByARun

=============================================================================
