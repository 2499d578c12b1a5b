----------------------------- MODULE ModelCalls -----------------------------
(***************************************************************************)
(* Model calls and what they cost.  Before each candidate of a chat the    *)
(* worker sums the ledger of the customer, of the agent instance and of    *)
(* the user against their limits, one statement after the other; after a   *)
(* call that succeeded it writes the usage to the ledger.  Nothing locks   *)
(* the check against the calls of other workers.  Tokens and cost are      *)
(* accounted alike: one amount stands for both.                            *)
(***************************************************************************)
EXTENDS RuntimeLimits, Sequences, FiniteSetsExt

CONSTANTS
  Chats,            \* workers that may be in a model turn
  CallIds,          \* model_calls identities
  ScopesOf,         \* the scopes of a chat, in the order they are checked
  UsageRows,        \* the limit rows an administrator may write, per scope
  ModelRefs,        \* the configured references: the primary, then the fallbacks
  RegisteredModels, \* the references whose provider is registered
  Amounts           \* what one call may use

VARIABLES
  usageRow,  \* each scope's limits
  callState, \* model_calls.state
  ledger,    \* the rows of model_usage_ledger, by call
  chat,      \* where each worker is in its chat
  lastSeen,  \* per scope, the limits its last passed check saw (history)
  returned   \* calls whose answer the agent loop got (history)

modelVars == <<usageRow, callState, ledger, chat, lastSeen, returned>>

Scopes == UNION {{ScopesOf[w][i] : i \in DOMAIN ScopesOf[w]} : w \in Chats}
NoChat == [phase |-> "idle"]

\* Identities of calls that are not in use: which one a call gets is no matter.
FreshCalls == {c \in CallIds : callState[c] = "absent"}

\* The references without their repetitions, in order.
ResolveCandidates ==
  LET first == {i \in DOMAIN ModelRefs : \A h \in 1..(i - 1) : ModelRefs[h] # ModelRefs[i]}
  IN  [n \in 1..Cardinality(first) |->
         ModelRefs[CHOOSE i \in first : Cardinality({h \in first : h <= i}) = n]]

ModelInit ==
  /\ usageRow = [s \in Scopes |-> NoRow]
  /\ callState = [c \in CallIds |-> "absent"]
  /\ ledger = [c \in {} |-> [scopes |-> {}, amount |-> 0, periods |-> {}]]
  /\ chat = [w \in Chats |-> NoChat]
  /\ lastSeen = [s \in Scopes |-> DefaultRuntimeLimits]
  /\ returned = {}

-----------------------------------------------------------------------------
(* The ledger *)

\* The rows of a scope that were written since the period began.
ModelUsageSum(scope, period) ==
  MapThenSumSet(LAMBDA c : ledger[c].amount,
                {c \in DOMAIN ledger : scope \in ledger[c].scopes /\ period \in ledger[c].periods})

UsageLimits(scope) == ApplyRuntimeLimits(DefaultRuntimeLimits, usageRow[scope])

ReachesUsage(scope) ==
  \E p \in UsageKinds : UsageLimits(scope)[p] > 0 /\ ModelUsageSum(scope, p) >= UsageLimits(scope)[p]

\* Midnight, which may begin a week or a month too.
PeriodBegins(periods) ==
  /\ "daily" \in periods
  /\ ledger' = [c \in DOMAIN ledger |-> [ledger[c] EXCEPT !.periods = @ \ periods]]
  /\ UNCHANGED <<usageRow, callState, chat, lastSeen, returned>>

UpsertRuntimeLimits(scope) ==
  /\ \E row \in UsageRows[scope] :
       ValidUserRow(row) /\ usageRow' = [usageRow EXCEPT ![scope] = row]
  /\ UNCHANGED <<callState, ledger, chat, lastSeen, returned>>

-----------------------------------------------------------------------------
(* A chat *)

AtScope(cand, scope) == [phase |-> "quota", cand |-> cand, scope |-> scope]
ChatBecomes(w, next) == chat' = [chat EXCEPT ![w] = next]

BeginChat(w) ==
  /\ chat[w].phase = "idle" /\ FreshCalls # {}
  /\ ChatBecomes(w, AtScope(1, 1))
  /\ UNCHANGED <<usageRow, callState, ledger, lastSeen, returned>>

\* One scope at a time; a scope whose limit is reached ends the chat.
EnforceModelUsageQuota(w) ==
  /\ chat[w].phase = "quota"
  /\ LET scope == ScopesOf[w][chat[w].scope]
         last == chat[w].scope = Len(ScopesOf[w])
     IN  IF ReachesUsage(scope)
         THEN ChatBecomes(w, NoChat) /\ UNCHANGED lastSeen
         ELSE /\ ChatBecomes(w, IF last THEN [phase |-> "start", cand |-> chat[w].cand]
                                ELSE AtScope(chat[w].cand, chat[w].scope + 1))
              /\ lastSeen' = [lastSeen EXCEPT ![scope] = UsageLimits(scope)]
  /\ UNCHANGED <<usageRow, callState, ledger, returned>>

StartModelCall(w) ==
  /\ chat[w].phase = "start" /\ FreshCalls # {}
  /\ LET c == CHOOSE c \in FreshCalls : TRUE
     IN  /\ callState' = [callState EXCEPT ![c] = "running"]
         /\ ChatBecomes(w, [phase |-> "calling", cand |-> chat[w].cand, call |-> c])
  /\ UNCHANGED <<usageRow, ledger, lastSeen, returned>>

\* Variant: the usage is written before the call is marked succeeded.
CallAnswersUnmarked(w) ==
  /\ chat[w].phase = "calling"
  /\ ResolveCandidates[chat[w].cand] \in RegisteredModels
  /\ \E a \in Amounts : ChatBecomes(w, [phase |-> "answered", call |-> chat[w].call, amount |-> a])
  /\ UNCHANGED <<usageRow, callState, ledger, lastSeen, returned>>

CallAnswers(w) ==
  /\ chat[w].phase = "calling"
  /\ ResolveCandidates[chat[w].cand] \in RegisteredModels
  /\ callState' = [callState EXCEPT ![chat[w].call] = "succeeded"]
  /\ \E a \in Amounts : ChatBecomes(w, [phase |-> "answered", call |-> chat[w].call, amount |-> a])
  /\ UNCHANGED <<usageRow, ledger, lastSeen, returned>>

\* INSERT ... SELECT: without a succeeded call there is nothing to insert, and
\* no error either.
RecordModelUsage(w) ==
  /\ chat[w].phase = "answered"
  /\ LET c == chat[w].call
         row == [scopes |-> {ScopesOf[w][i] : i \in DOMAIN ScopesOf[w]},
                 amount |-> chat[w].amount, periods |-> UsageKinds]
     IN  /\ ledger' = IF callState[c] = "succeeded"
                      THEN [d \in DOMAIN ledger \cup {c} |-> IF d = c THEN row ELSE ledger[d]]
                      ELSE ledger
         /\ returned' = returned \cup {c}
  /\ ChatBecomes(w, NoChat)
  /\ UNCHANGED <<usageRow, callState, lastSeen>>

\* An error, or a provider that is not registered: the next candidate, after its
\* own quota check, unless this was the last or the context has ended.
CallFails(w) ==
  /\ chat[w].phase = "calling"
  /\ callState' = [callState EXCEPT ![chat[w].call] = "failed"]
  /\ \/ ChatBecomes(w, NoChat)
     \/ /\ chat[w].cand < Len(ResolveCandidates)
        /\ FreshCalls # {}
        /\ ChatBecomes(w, AtScope(chat[w].cand + 1, 1))
  /\ UNCHANGED <<usageRow, ledger, lastSeen, returned>>

\* The process dies: its call stays as it is, and unpaid.
CrashInChat(w) ==
  /\ chat[w].phase # "idle"
  /\ ChatBecomes(w, NoChat)
  /\ UNCHANGED <<usageRow, callState, ledger, lastSeen, returned>>

ModelNext ==
  \/ \E periods \in SUBSET UsageKinds : PeriodBegins(periods)
  \/ \E s \in Scopes : UpsertRuntimeLimits(s)
  \/ \E w \in Chats :
       \/ BeginChat(w) \/ EnforceModelUsageQuota(w) \/ StartModelCall(w) \/ CallAnswers(w)
       \/ RecordModelUsage(w) \/ CallFails(w) \/ CrashInChat(w)

-----------------------------------------------------------------------------
(* Properties *)

\* An answer the agent loop acts on has been charged: the order of the two
\* writes after a call matters, since the ledger takes succeeded calls only.
AnswersAreCharged == returned \subseteq DOMAIN ledger

\* Checks and charges of concurrent chats interleave, but the overshoot is
\* bounded: past the limit its last passed check saw, a scope is charged at most
\* one call of each chat.
OvershootBounded ==
  \A s \in Scopes, p \in UsageKinds :
    lastSeen[s][p] > 0 =>
      ModelUsageSum(s, p) < lastSeen[s][p] + Cardinality(Chats) * Max(Amounts)
=============================================================================
