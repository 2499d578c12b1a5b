---------------------------- MODULE AccessRules ----------------------------
(***************************************************************************)
(* Who may use which tool, which tool of an MCP server, and delegate to    *)
(* which agent.  Three tables and three caches of one shape: a rule of the *)
(* user replaces the agent instance's baseline, rows are read statement by *)
(* statement, and what was read is kept for thirty seconds in the memory   *)
(* of one process.  An edit empties the cache of the process that makes it *)
(* and of no other.                                                        *)
(***************************************************************************)
EXTENDS Naturals, Sequences

CONSTANTS
  Rules,   \* the rules an administrator may write: allowed and denied names
  Targets, \* tools or agents, each with the names it goes by
  Readers, \* lookups in the process whose cache is modelled
  CacheTTL \* ticks an entry lives

VARIABLES
  accessKind,  \* which of the three tables a behaviour is about
  rules,       \* the user's row and the baseline: a sequence of none or one
  accessCache, \* the entry, with the ticks it has left
  reader,      \* where each lookup is
  editing,     \* an edit of this process has not emptied the cache yet
  inForce,     \* by age in ticks, the rules that have been in force (history)
  decided      \* the last decision: what was granted, and if its rows were torn

accessVars == <<accessKind, rules, accessCache, reader, editing, inForce, decided>>

AccessKinds == {"tool", "mcp", "delegation"}
NoRule      == [allowed |-> {}, denied |-> {}]
NoEntry     == [rule |-> NoRule, left |-> 0, torn |-> FALSE]
NotReading  == [phase |-> "idle"]

-----------------------------------------------------------------------------
(* Decisions *)

\* A denied name wins; an empty list of allowed names allows the rest.
ToolAllowed(rule, tool) ==
  tool.id \notin rule.denied /\ (rule.allowed = {} \/ tool.id \in rule.allowed)

MCPToolAllowed(rule, tool) ==
  tool.id \notin rule.denied /\ (rule.allowed = {} \/ tool.id \in rule.allowed)

\* An agent goes by its identity and by its handle.
AgentDelegationAllowed(rule, agent) ==
  /\ {agent.id, agent.handle} \cap rule.denied = {}
  /\ rule.allowed = {} \/ {agent.id, agent.handle} \cap rule.allowed # {}

Granted(rule) ==
  {t \in Targets : CASE accessKind = "tool" -> ToolAllowed(rule, t)
                     [] accessKind = "mcp" -> MCPToolAllowed(rule, t)
                     [] accessKind = "delegation" -> AgentDelegationAllowed(rule, t)}

\* The user's row if there is one, whatever the baseline says.
Effective(rows) ==
  IF rows["user"] # <<>> THEN rows["user"][1]
  ELSE IF rows["base"] # <<>> THEN rows["base"][1] ELSE NoRule

AccessInit ==
  /\ accessKind \in AccessKinds
  /\ rules = [s \in {"user", "base"} |-> <<>>]
  /\ accessCache = NoEntry
  /\ reader = [r \in Readers |-> NotReading]
  /\ editing = FALSE
  /\ inForce = [age \in 0..(CacheTTL - 1) |-> {NoRule}]
  /\ decided = [granted |-> Granted(NoRule), torn |-> FALSE]

-----------------------------------------------------------------------------
(* Edits *)

EditRules(kind, scope, row) ==
  /\ accessKind = kind /\ rules[scope] # row
  /\ rules' = [rules EXCEPT ![scope] = row]
  /\ inForce' = [inForce EXCEPT ![0] = @ \cup {Effective(rules')}]
  /\ reader' = [r \in Readers |->
       IF reader[r].phase = "base" THEN [reader[r] EXCEPT !.edits = @ \cup {scope}] ELSE reader[r]]
  /\ editing' \in {editing, TRUE}   \* by another process, or by this one
  /\ UNCHANGED <<accessKind, accessCache, decided>>

UpsertToolAccessRule(s)            == \E r \in Rules : EditRules("tool", s, <<r>>)
UpsertMCPToolAccessRule(s)         == \E r \in Rules : EditRules("mcp", s, <<r>>)
UpsertAgentDelegationAccessRule(s) == \E r \in Rules : EditRules("delegation", s, <<r>>)
DeleteToolAccessRule(s)            == EditRules("tool", s, <<>>)
DeleteMCPToolAccessRule(s)         == EditRules("mcp", s, <<>>)
DeleteAgentDelegationAccessRule(s) == EditRules("delegation", s, <<>>)

\* After the statement has committed, and before the request returns.
Invalidate(kind) ==
  /\ accessKind = kind /\ editing
  /\ accessCache' = NoEntry /\ editing' = FALSE
  /\ UNCHANGED <<accessKind, rules, reader, inForce, decided>>

InvalidateToolAccess            == Invalidate("tool")
InvalidateMCPToolAccess         == Invalidate("mcp")
InvalidateAgentDelegationAccess == Invalidate("delegation")

-----------------------------------------------------------------------------
(* Lookups *)

Decide(rule, torn) == decided' = [granted |-> Granted(rule), torn |-> torn]

UseCache(r) ==
  /\ reader[r].phase = "idle" /\ accessCache.left > 0
  /\ Decide(accessCache.rule, accessCache.torn)
  /\ UNCHANGED <<accessKind, rules, accessCache, reader, editing, inForce>>

\* No live entry: the user's row is read, and if it is there it is all.
ReadUserRule(r) ==
  /\ reader[r].phase = "idle" /\ accessCache.left = 0
  /\ reader' = [reader EXCEPT ![r] =
       IF rules["user"] # <<>> THEN [phase |-> "read", rule |-> rules["user"][1], torn |-> FALSE]
       ELSE [phase |-> "base", edits |-> {}]]
  /\ UNCHANGED <<accessKind, rules, accessCache, editing, inForce, decided>>

\* The baseline is read by a second statement: if both rows changed in between,
\* what was read need never have been in force.
ReadBaseRule(r) ==
  /\ reader[r].phase = "base"
  /\ reader' = [reader EXCEPT ![r] =
       [phase |-> "read", rule |-> Effective([rules EXCEPT !["user"] = <<>>]),
        torn |-> reader[r].edits = {"user", "base"}]]
  /\ UNCHANGED <<accessKind, rules, accessCache, editing, inForce, decided>>

\* What was read is stored, over whatever the cache has become, and returned.
StoreAccess(r) ==
  /\ reader[r].phase = "read"
  /\ accessCache' = [rule |-> reader[r].rule, left |-> CacheTTL, torn |-> reader[r].torn]
  /\ Decide(reader[r].rule, reader[r].torn)
  /\ reader' = [reader EXCEPT ![r] = NotReading]
  /\ UNCHANGED <<accessKind, rules, editing, inForce>>

Lookup(kind, r) ==
  accessKind = kind /\ (UseCache(r) \/ ReadUserRule(r) \/ ReadBaseRule(r) \/ StoreAccess(r))

EffectiveToolAccess(r)            == Lookup("tool", r)
EffectiveMCPToolAccess(r)         == Lookup("mcp", r)
EffectiveAgentDelegationAccess(r) == Lookup("delegation", r)

\* Ticks are long beside the statements of a lookup.
AccessTick ==
  /\ \A r \in Readers : reader[r].phase = "idle"
  /\ accessCache' = [accessCache EXCEPT !.left = IF @ > 0 THEN @ - 1 ELSE 0]
  /\ inForce' = [age \in DOMAIN inForce |->
                   IF age = 0 THEN {Effective(rules)} ELSE inForce[age - 1]]
  /\ decided' = [granted |-> Granted(Effective(rules)), torn |-> FALSE]
  /\ UNCHANGED <<accessKind, rules, reader, editing>>

AccessNext ==
  \/ \E s \in {"user", "base"} :
       \/ UpsertToolAccessRule(s) \/ DeleteToolAccessRule(s)
       \/ UpsertMCPToolAccessRule(s) \/ DeleteMCPToolAccessRule(s)
       \/ UpsertAgentDelegationAccessRule(s) \/ DeleteAgentDelegationAccessRule(s)
  \/ InvalidateToolAccess \/ InvalidateMCPToolAccess \/ InvalidateAgentDelegationAccess
  \/ \E r \in Readers : \/ EffectiveToolAccess(r) \/ EffectiveMCPToolAccess(r)
                         \/ EffectiveAgentDelegationAccess(r)
  \/ AccessTick

-----------------------------------------------------------------------------
(* Properties *)

\* A decision is by a rule that was in force within the life of a cache entry,
\* whatever edits of this and of other processes raced the lookup, unless both
\* rows were edited between its two statements: then it may be by a
\* combination that never was, kept for as long.
DecisionsRecent ==
  decided.torn \/ \E age \in DOMAIN inForce : \E rule \in inForce[age] :
                     decided.granted = Granted(rule)
=============================================================================
