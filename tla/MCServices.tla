----------------------------- MODULE MCServices -----------------------------
(* A small instance of each of the services. *)
EXTENDS Services

-----------------------------------------------------------------------------
(* Run quotas: one active and one queued run for the customer, lifted and
   replaced by one background run for the agent instance. *)

CustomerQuota == [k \in {"active_runs", "queued_runs"} |-> 1]
AgentQuota    == [k \in {"active_runs", "background_runs"} |-> IF k = "active_runs" THEN 0 ELSE 1]
MCQuotaRows   == [customer |-> {CustomerQuota}, agent |-> {AgentQuota}]

-----------------------------------------------------------------------------
(* Model usage: two chats, one of a user with a monthly limit, under the
   customer's daily one; three calls; a fallback that is not registered. *)

MCScopesOf == [w \in {"w1", "w2"} |-> IF w = "w1" THEN <<"customer", "user">> ELSE <<"customer">>]
DailyTwo   == [k \in {"daily"} |-> 2]
MonthlyTwo == [k \in {"monthly"} |-> 2]
MCUsageRows == [s \in {"customer", "user"} |-> IF s = "user" THEN {MonthlyTwo} ELSE {DailyTwo}]
MCModelRefs == <<"m1", "m2", "m1">>

-----------------------------------------------------------------------------
(* Access rules: one name denied by identity, one by handle, one allowed; a
   lookup in one process, edits in it and elsewhere. *)

MCRules == {[allowed |-> {}, denied |-> {"one"}], [allowed |-> {"second"}, denied |-> {}]}
MCTargets == {[id |-> "one", handle |-> "first"], [id |-> "two", handle |-> "second"]}

-----------------------------------------------------------------------------
(* Delegations: three mentions, of which one is not delegable and one is beyond
   the limit; one fault of each kind. *)

MCMentions == <<"self", "one", "two", "late">>
DelegationFaults == [crash |-> 1, refusal |-> 1, error |-> 1, cancel |-> 1, followup |-> 1]

-----------------------------------------------------------------------------
(* The agent loop: a tool with an effect, which a node of a workflow calls too,
   one of an MCP server, one that asks the user, one that is not offered; the run
   is taken up again once. *)

Call(name, kind) == [name |-> name, kind |-> kind, workflow |-> "onboarding"]
Remember == Call("remember", "effect")
Search   == Call("search", "mcp")
Ask      == Call("duraclaw.ask_user", "ask")
WorkflowCall == Call("duraclaw.run_workflow", "workflow")
Secret   == Call("secret", "retryable")
ModelReplies ==
  {<<Remember, Remember>>, <<WorkflowCall, Search>>, <<Remember, Ask>>, <<Secret>>}
OfferedCalls == {Remember, Search, Ask, WorkflowCall}
CallsOfNodes == {Remember}
LoopVersion ==
  [maxIterations |-> 0, maxToolCallsPerRun |-> 3, interleaveToolCalls |-> FALSE, allowedTools |-> {},
   disabledTools |-> {"secret"}, allowedWorkflows |-> {"onboarding"}, disabledWorkflows |-> {}]

-----------------------------------------------------------------------------
(* Tool selection: three tools, of which the first rules out the third and the
   entry of the second is not determined. *)

ToolNumbers == 1..3
Entry(effect, conflicts) == [sideEffect |-> effect, conflicts |-> conflicts]
ToolEntries == <<{Entry("write", {3})}, {Entry("write", {}), Entry("read", {})}, {Entry("read", {})}>>
Hint(words, aim, phrase) == [tokens |-> words, intent |-> aim, phrase |-> phrase]
MCEvidence == {Hint(1, "same", "none"), Hint(1, "part", "trigger"), Hint(2, "none", "negative")}
MCRouterReplies ==
  {[names |-> n, confidence |-> c, force |-> f] : n \in {<<>>, <<9, 2>>, <<3, 3, 1>>}, c \in {0, 500}, f \in BOOLEAN}
MCLabels ==
  {[l \in 0..3 |-> 0], [l \in 0..3 |-> IF l = 0 THEN 900 ELSE 0], [l \in 0..3 |-> IF l > 1 THEN 900 ELSE 400]}

-----------------------------------------------------------------------------
(* Names of tools: two servers whose names differ in a sign the aliases lose, and
   a tool configured under the name another would have. *)

MCServers == <<"a-b", "a_b">>
Mcp(server, tool, canonical, alias) ==
  [kind |-> "mcp", server |-> server, tool |-> tool, canonical |-> canonical, alias |-> alias,
   readable |-> server \o "." \o tool]
McpListing ==
  {Mcp("a-b", "find", "mcp__a_b__find__1", "mcp__a_b__find"), Mcp("a_b", "find", "mcp__a_b__find__2", "mcp__a_b__find"),
   Mcp("a_b", "echo", "mcp__a_b__echo__3", "mcp__a_b__echo")}
RegistryNames == {"echo", "duraclaw.ask_user"}
SafeNames == [n \in RegistryNames \cup {t.canonical : t \in McpListing} |->
                IF n = "duraclaw.ask_user" THEN "duraclaw_ask_user" ELSE n]
ConfiguredNames == "mcp__a_b__echo__3" :> "shout" @@ "mcp__a_b__find__2" :> "echo"

-----------------------------------------------------------------------------
(* The session monitor: a session whose user says two things, two monitors and a
   request by hand. *)

SaidInSession == [s1 |-> <<"nickname", "link">>]
Wording(fact, kind, n) == [fact |-> fact, kind |-> kind, wording |-> n]
MCTexts == {Wording("nickname", "preference", 1), Wording("nickname", "preference", 2), Wording("link", "memory", 1)}

-----------------------------------------------------------------------------
(* What is remembered of a user: two rows, of which a prompt shows one. *)

TwoContents == {[topic |-> "food", words |-> "tea"], [topic |-> "food", words |-> "rice"]}

-----------------------------------------------------------------------------
(* A broadcast to two of three sessions: of one user or of two, one of them blocked or
   none. *)

Inbox(u, a, t) == [user |-> u, agent |-> a, at |-> t]
Inboxes == {Inbox("ann", "a1", 1), Inbox("ann", "a2", 2), Inbox("bob", "a2", 1)}
MCSelections ==
  {[all |-> TRUE, agent |-> "none", users |-> {}],
   [all |-> FALSE, agent |-> "a1", users |-> {"bob"}],
   [all |-> FALSE, agent |-> "a1", users |-> {}]}
BlockedInboxes == {Inbox("ann", "a1", 1)}

-----------------------------------------------------------------------------
(* Evaluations of one run by two loops and a request. *)

Past(selected, called, failed, events) ==
  [selected |-> selected, called |-> called, failed |-> failed, events |-> events]
MCHistories ==
  {Past(80, FALSE, FALSE, {}), Past(0, FALSE, FALSE, {"required_missing"}),
   Past(0, TRUE, TRUE, {}), Past(60, FALSE, FALSE, {"suppressed"}), Past(60, FALSE, FALSE, {})}
MCProfiles ==
  {[enabled |-> e, repair |-> "absent"] : e \in {"true", "yes", "no"}} \cup {[enabled |-> "true", repair |-> "record_only"]}
MCVerdicts ==
  {[category |-> "false_success_claim", confidence |-> 0, safe |-> TRUE],
   [category |-> "clarification_needed", confidence |-> 95, safe |-> TRUE]}

-----------------------------------------------------------------------------
(* A shared job of two subscribers and two agents, fired by two schedulers. *)

SomeAgents == {("ann" :> "a1" @@ "bob" :> a) : a \in {"a1", "a2"}}

-----------------------------------------------------------------------------
(* Two callers of one MCP server, which takes one or both at a time. *)

MCBodies ==
  {<<"comment", "answer", "empty", "notice">>, <<"notice", "empty", "answer", "done">>, <<"answer", "notice", "done">>}

-----------------------------------------------------------------------------
(* A pack of three rules and a version of it, two edits while a run passes three points,
   of which one is its prompt. *)

PolicyConditions ==
  [always |-> [op |-> "none"], flagged |-> [op |-> "contains", key |-> "content", value |-> "flagged"],
   tool |-> [op |-> "equals", key |-> "tool_name", value |-> "srv.tool"],
   unflagged |-> [op |-> "not", of |-> {[op |-> "contains", key |-> "content", value |-> "flagged"]}]]
PolicyRule(type, point, action, condition) ==
  [type |-> type, mode |-> point, priority |-> 0, action |-> action, condition |-> PolicyConditions[condition]]
MCDrafts == {PolicyRule("t1", "pre_run", "deny", "flagged"), PolicyRule("t2", "prompt", "deny", "flagged")}
MCFirstRules ==
  <<PolicyRule("t1", "pre_run", "modify", "always"), PolicyRule("t2", "pre_run", "modify", "flagged"),
    PolicyRule("t1", "pre_tool", "deny", "tool")>>
MCPoints ==
  <<[mode |-> "pre_run", subject |-> "", content |-> "flagged"],
    [mode |-> "prompt", subject |-> "", content |-> "flagged"],
    [mode |-> "pre_tool", subject |-> "srv.tool", content |-> ""]>>
MCLikes == {<<"contains", "flagged", "flagged">>}

=============================================================================
