SPECIFICATION Spec
CONSTANTS
  \* run quotas
  Jobs = {"j1", "j2"}
  Callers = {"c1", "c2"}
  QuotaRows <- MCQuotaRows
  Conns = 3
  \* model usage
  Chats = {"w1", "w2"}
  CallIds = {"k1", "k2", "k3"}
  ScopesOf <- MCScopesOf
  UsageRows <- MCUsageRows
  ModelRefs <- MCModelRefs
  RegisteredModels = {"m1"}
  Amounts = {2}
  \* streams: text beyond the last event, three tool calls, two candidates
  FlushBytes = 2
  MaxEvents = 2
  MaxContent = 7
  MaxIndex = 2
  Candidates = 2
  \* access rules
  Rules <- MCRules
  Targets <- MCTargets
  Readers = {"r1"}
  CacheTTL = 2
  \* delegations
  Mentions <- MCMentions
  MaxMentions = 3
  Delegable = {"one", "two", "late"}
  Children = {1, 2}
  FaultLimits <- DelegationFaults
  \* the agent loop
  Replies <- ModelReplies
  Offered <- OfferedCalls
  Version <- LoopVersion
  Accessible = {"remember", "search", "duraclaw.ask_user", "duraclaw.run_workflow"}
  DefaultMaxIterations = 2
  ForceToolUse = TRUE
  NodeCalls <- CallsOfNodes
  MaxNodeCalls = 1
  Interruptions = 1
  \* tool selection
  Tools <- ToolNumbers
  Metadata <- ToolEntries
  Evidence <- MCEvidence
  RouterReplies <- MCRouterReplies
  Similarities = {0, 30}
  Labels <- MCLabels
  MaxTools = 2
  Threshold = 650
  \* names of tools
  Servers <- MCServers
  McpTools <- McpListing
  RegisteredTools <- RegistryNames
  SafeName <- SafeNames
  Configured <- ConfiguredNames
  \* the session monitor
  UserSessions = {"s1"}
  Monitors = {"m1", "m2"}
  ByHand = "hand"
  Said <- SaidInSession
  Texts <- MCTexts
  Named = {"nickname"}
  OneOff = {"link"}
  MessageLimit = 2
  CompactionThreshold = 2
  MaxRows = 2
  \* recommendations: an item, two workers, one interruption of each kind
  Items = {"i1"}
  SponsoredItems = {}
  AllowSponsored = FALSE
  MaxCandidates = 1
  Workers = {"w1", "w2"}
  MaxTroubles = 1
  \* what is remembered of a user
  Ids = {"u1", "u2"}
  Contents <- TwoContents
  Conditions = {"any", "winter"}
  OfferedMemories = 1
  CandidateLimit = 2
  MaxUses = 1
  EditBudget = 1
  \* broadcasts
  Sessions <- Inboxes
  Selections <- MCSelections
  Blocked <- BlockedInboxes
  Modes = {"direct", "agent_per_instance", "per_user"}
  Schedulers = {"m1", "m2"}
  Reports = {"sent_to_nexus", "delivered", "failed"}
  Faults = {"error", "crash", "stall", "cancel"}
  Budget = 2
  \* evaluations of runs
  EvaluatedRuns = {"e1"}
  Histories <- MCHistories
  Profiles <- MCProfiles
  Global = FALSE
  RepairMode = "safe"
  ConfidenceThreshold = 75
  Verdicts <- MCVerdicts
  Loops = {"v1", "v2"}
  Requests = {"admin"}
  EvaluationFaults = 2
  \* shared jobs by durable runs
  Users = {"ann", "bob"}
  Agents = {"a1", "a2"}
  First <- SomeAgents
  JobSchedulers = {"s1", "s2"}
  External = TRUE
  MaxFires = 1
  SharedBudget = 2
  \* calls of MCP servers
  ToolCallers = {"c1", "c2"}
  Managers = {"process", "run"}
  RegisteredIn = {"run"}
  Transports = {"persistent", "stdio", "sse"}
  ServerLimits = {1, 2}
  MaxRetries = 1
  RetryDelay = 1
  Bodies <- MCBodies
  MaxTrouble = 2
  \* policies
  Packs = {"v1", "v2"}
  FirstPack = "v1"
  Drafts <- MCDrafts
  FirstRules <- MCFirstRules
  Points <- MCPoints
  BuiltIn = {"echo"}
  Likes <- MCLikes
  BlockedTerms = {{}, {"flagged"}}
  MaxEdits = 2
INVARIANTS QuotasHold AnswersArePaidFor AnswersAreWhole RulesEnforced DelegationsHonoured CallsBounded ToolsAreSound BackgroundSound RecommendationsSound ProfileSound DispatchSound
CHECK_DEADLOCK FALSE
