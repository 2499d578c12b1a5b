----------------------------- MODULE ToolNames -----------------------------
(***************************************************************************)
(* A tool has a name of its own and one the model sees.  The names are     *)
(* worked out twice: when the tools are offered, and when a call of the    *)
(* model is executed, from what the MCP servers say they have at the time. *)
(***************************************************************************)
EXTENDS Naturals, Sequences, FiniteSets, SequencesExt, TLC

CONSTANTS
  Servers,         \* the names of the servers, in the order they are asked
  McpTools,        \* their tools: server, tool, name with a hash, and two aliases
  RegisteredTools, \* names in the registry, and of the internal tools
  SafeName,        \* SafeName[n]: n if a provider takes it, or its default alias
  Configured       \* tool_aliases of the version: a function on some names

VARIABLES
  answering, \* servers that are up and answer a listing in two seconds
  allowed,   \* names the version and the access rules allow
  offered,   \* the names the model sees, and the tools they stand for
  picked,    \* the name in the model's call
  resolved   \* what the call comes to

nameVars == <<answering, allowed, offered, picked, resolved>>

ToolOf(name) == [kind |-> "registry", name |-> name]
Nothing == [kind |-> "none"]

NamesInit ==
  /\ answering = {Servers[i] : i \in DOMAIN Servers}
  /\ allowed \in {RegisteredTools, {}}
  /\ offered = <<>>
  /\ picked = "nothing"
  /\ resolved = Nothing

-----------------------------------------------------------------------------
(* Bindings *)

NoBindings == [bound |-> <<>>, ambiguous |-> {}]

Bound(bound, name, t) == [n \in DOMAIN bound \cup {name} |-> IF n = name THEN t ELSE bound[n]]

\* An alias that two tools share, or that a tool of the registry has for a name,
\* is nobody's.
AddMCPBindingAlias(b, alias, t) ==
  IF alias = t.canonical \/ alias \in RegisteredTools \/ alias \in b.ambiguous THEN b
  ELSE IF alias \notin DOMAIN b.bound THEN [b EXCEPT !.bound = Bound(@, alias, t)]
  ELSE IF b.bound[alias] = t THEN b
  ELSE [bound |-> [n \in DOMAIN b.bound \ {alias} |-> b.bound[n]], ambiguous |-> b.ambiguous \cup {alias}]

Bind(b, t) ==
  LET own == [b EXCEPT !.bound = Bound(@, t.canonical, t)]
  IN AddMCPBindingAlias(AddMCPBindingAlias(own, t.alias, t), t.readable, t)

\* The tools of the servers, server by server, in the order each lists them.
McpToolBindings(servers) ==
  FoldLeft(LAMBDA b, s : IF s \in servers THEN FoldLeft(Bind, b, SetToSeq({t \in McpTools : t.server = s})) ELSE b,
           NoBindings, Servers)

\* Names of definitions: the registry's, unless forbidden, and the servers'.
VisibleToolDefinitions(servers) ==
  {n \in RegisteredTools : n \in allowed} \cup {t.canonical : t \in {u \in McpTools : u.server \in servers}}

-----------------------------------------------------------------------------
(* Aliases for the provider *)

ProviderName(n) == IF n \in DOMAIN Configured THEN Configured[n] ELSE SafeName[n]

\* Two definitions with one name for the provider are an error of the run.
AliasesConflict(names) ==
  \E m, n \in names : m # n /\ ProviderName(m) = ProviderName(n)

AppliedToolAliases(names) ==
  [p \in {ProviderName(n) : n \in names} |-> CHOOSE n \in names : ProviderName(n) = p]

\* What a name for the provider is a name of: itself, if it is no alias.
OriginalName(p, names) ==
  IF p \in {ProviderName(n) : n \in names} THEN AppliedToolAliases(names)[p] ELSE p

-----------------------------------------------------------------------------

\* Some of the visible tools are selected, and shown under their aliases.
OfferTools ==
  /\ offered = <<>>
  /\ \E names \in SUBSET VisibleToolDefinitions(answering) \ {{}} :
       IF AliasesConflict(names) THEN resolved' = [kind |-> "error"] /\ UNCHANGED offered
       ELSE /\ offered' = [p \in DOMAIN AppliedToolAliases(names) |->
                 LET n == AppliedToolAliases(names)[p]
                     b == McpToolBindings(answering).bound
                 IN IF n \in DOMAIN b THEN b[n] ELSE ToolOf(n)]
            /\ UNCHANGED resolved
  /\ UNCHANGED <<answering, allowed, picked>>

\* A call of a tool that was not offered is suppressed.
ModelPicks ==
  /\ offered # <<>> /\ picked = "nothing"
  /\ picked' \in DOMAIN offered
  /\ UNCHANGED <<answering, allowed, offered, resolved>>

\* A server goes, or comes back.
ServerTurns(s) ==
  /\ resolved = Nothing
  /\ answering' = IF s \in answering THEN answering \ {s} ELSE answering \cup {s}
  /\ UNCHANGED <<allowed, offered, picked, resolved>>

\* The names again, of all that is visible by now: a conflict that the selection
\* hid fails the batch.
ExecuteCall ==
  /\ picked # "nothing" /\ resolved = Nothing
  /\ LET names == VisibleToolDefinitions(answering)
         b == McpToolBindings(answering).bound
         n == OriginalName(picked, names)
     IN resolved' = IF AliasesConflict(names) THEN [kind |-> "error"]
                    ELSE IF n \in DOMAIN b THEN b[n]
                    ELSE IF n \in allowed THEN ToolOf(n) ELSE [kind |-> "error"]
  /\ UNCHANGED <<answering, allowed, offered, picked>>

NamesNext == OfferTools \/ ModelPicks \/ ExecuteCall \/ \E i \in DOMAIN Servers : ServerTurns(Servers[i])

-----------------------------------------------------------------------------
(* Properties *)

NamesOf(t) == {t.canonical, t.alias, t.readable}

\* A name configured for one tool that is a name of another, too.
ConfiguredTwice(p) ==
  \E n \in DOMAIN Configured :
    /\ Configured[n] = p
    /\ \/ \E m \in RegisteredTools \ {n} : p \in {m, SafeName[m]}
       \/ \E t \in McpTools : t.canonical # n /\ p \in NamesOf(t)

\* The tool that is executed is the one that was offered under the name, though
\* servers come and go in between; or there is an error.  Except for a server's tool
\* under a name that is configured and another tool's, too: the selection can hide
\* the conflict, and once the server is gone the name means the other tool.
SameToolMeant ==
  picked # "nothing" /\ resolved \notin {Nothing, [kind |-> "error"]} =>
    resolved = offered[picked] \/ (offered[picked] \in McpTools /\ ConfiguredTwice(picked))

\* A name that is not a tool's own is bound only if it is an alias of that one
\* tool, whatever order the servers answer in.
AliasesAreUnambiguous ==
  LET b == McpToolBindings(answering).bound
      up == {t \in McpTools : t.server \in answering}
  IN \A n \in DOMAIN b :
       /\ n \in NamesOf(b[n])
       /\ \A t \in up : n \in NamesOf(t) => t = b[n]
=============================================================================
