---------------------------- MODULE ServiceProofs ----------------------------
(***************************************************************************)
(* Theorems about what a run is answered by and held to: quotas, charges,  *)
(* access rules, policies, tools, streams and MCP servers, each by its own *)
(* specification, for all values of its constants; and from them           *)
(* properties of Services.                                                 *)
(***************************************************************************)
EXTENDS Services, TLAPS, FiniteSetTheorems, WellFoundedInduction

-----------------------------------------------------------------------------
(* Run quotas and model usage *)

QuotaSpec == QuotaInit /\ [][QuotaNext]_quotaVars

LimitRow == [Kinds -> Nat]
CallRecords ==
  [phase : {"idle"}] \cup [phase : {"begun", "locked", "insert"}, job : Jobs]
  \cup [phase : {"queued", "active", "counting"}, job : Jobs, limits : LimitRow]

\* Types; a start belongs to a leased run, and a run that was not created has
\* the default mode.
QuotaShape ==
  /\ \A s \in {"customer", "agent"} : \A k \in DOMAIN quotaRow[s] : quotaRow[s][k] \in Nat
  /\ jobState \in [Jobs -> {"absent", "ended"} \cup Unfinished]
  /\ jobMode \in [Jobs -> {"foreground", "background"}]
  /\ call \in [Callers -> CallRecords]
  /\ start \in [Jobs -> [phase : {"none", "reading", "counting", "passed"}, limit : Nat]]
  /\ startedUnder \in [Jobs -> Nat] /\ createdUnder \in [Jobs -> Nat]
  /\ \A j \in Jobs : start[j].phase # "none" => jobState[j] = "leased"
  /\ \A j \in Jobs : jobState[j] = "absent" => jobMode[j] = "foreground"

\* A bound on a set of runs that is left to each of its subsets, so that runs may
\* leave it: the latest to enter was let in when the others were there.
Bounded(S, limit) == \A R \in (SUBSET S) \ {{}} : \E j \in R : limit[j] = 0 \/ Cardinality(R) <= limit[j]

Background == {j \in Jobs : jobMode[j] = "background" /\ jobState[j] \in Unfinished}

CreationsBounded == Bounded(Background, createdUnder)
StartsBounded    == Bounded(RunsExecuting, startedUnder)

-----------------------------------------------------------------------------
\* A smaller set is bounded too.
LEMMA BoundShrinks ==
  ASSUME NEW S, NEW T \in SUBSET S, NEW limit, Bounded(S, limit)
  PROVE  Bounded(T, limit)
BY DEF Bounded

\* A run enters that counted the others: what is bounded stays so.
LEMMA BoundGrows ==
  ASSUME IsFiniteSet(Jobs), NEW S \in SUBSET Jobs, NEW T \in SUBSET Jobs, NEW j \in Jobs, j \notin S,
         NEW limit \in [Jobs -> Nat], NEW other \in [Jobs -> Nat], Bounded(S, limit),
         T \subseteq S \cup {j},
         \A i \in Jobs \ {j} : other[i] = limit[i],
         other[j] = 0 \/ Cardinality(S) + 1 <= other[j]
  PROVE  Bounded(T, other)
<1> SUFFICES ASSUME NEW R \in (SUBSET T) \ {{}}
             PROVE  \E i \in R : other[i] = 0 \/ Cardinality(R) <= other[i]
  BY DEF Bounded
<1>1. CASE j \notin R
  <2>1. R \in (SUBSET S) \ {{}}
    BY <1>1
  <2>2. PICK i \in R : limit[i] = 0 \/ Cardinality(R) <= limit[i]
    BY <2>1 DEF Bounded
  <2>3. i \in Jobs \ {j}
    BY <1>1
  <2> QED BY <2>2, <2>3
<1>2. CASE j \in R
  <2>1. IsFiniteSet(S) /\ Cardinality(S \cup {j}) = Cardinality(S) + 1 /\ IsFiniteSet(S \cup {j})
    BY FS_Subset, FS_AddElement
  <2>2. R \in SUBSET (S \cup {j})
    OBVIOUS
  <2>3. Cardinality(R) <= Cardinality(S \cup {j}) /\ IsFiniteSet(R)
    BY <2>1, <2>2, FS_Subset
  <2>4. Cardinality(R) \in Nat /\ Cardinality(S) \in Nat
    BY <2>1, <2>3, FS_CardinalityType
  <2>5. other[j] \in Nat
    OBVIOUS
  <2> QED BY <1>2, <2>1, <2>3, <2>4, <2>5
<1> QED BY <1>1, <1>2

\* The limits that hold are natural numbers.
LEMMA LimitsFit ==
  ASSUME QuotaShape
  PROVE  LimitsNow \in LimitRow
BY DEF QuotaShape, LimitsNow, EffectiveRuntimeLimits, ApplyRuntimeLimits, DefaultRuntimeLimits, LimitRow

\* Types.
THEOREM QuotaShapeKept ==
  ASSUME UsageConfigured
  PROVE  QuotaSpec => []QuotaShape
<1>1. QuotaInit => QuotaShape
  BY DEF QuotaInit, QuotaShape, NoRow, IdleCaller, NotStarting, Unfinished, Active, CallRecords
<1>2. QuotaShape /\ [QuotaNext]_quotaVars => QuotaShape'
  <2> SUFFICES ASSUME QuotaShape, [QuotaNext]_quotaVars PROVE QuotaShape'
    OBVIOUS
  <2>1. CASE UpsertCustomerRuntimeLimits \/ UpsertAgentInstanceRuntimeLimits
    <3>1. PICK s \in {"customer", "agent"} : \E row \in QuotaRows[s] :
            ValidRow(row) /\ quotaRow' = [quotaRow EXCEPT ![s] = row]
      BY <2>1 DEF UpsertCustomerRuntimeLimits, UpsertAgentInstanceRuntimeLimits
    <3>2. PICK row \in QuotaRows[s] : ValidRow(row) /\ quotaRow' = [quotaRow EXCEPT ![s] = row]
      BY <3>1
    <3>3. \A k \in DOMAIN row : row[k] \in Nat
      BY <3>2 DEF UsageConfigured, ValidRow
    <3>4. \A t \in {"customer", "agent"} : \A k \in DOMAIN quotaRow'[t] : quotaRow'[t][k] \in Nat
      BY <3>2, <3>3 DEF QuotaShape
    <3>5. UNCHANGED <<jobState, jobMode, call, start, startedUnder, createdUnder>>
      BY <2>1 DEF UpsertCustomerRuntimeLimits, UpsertAgentInstanceRuntimeLimits
    <3> QED BY <3>4, <3>5 DEF QuotaShape
  <2>2. ASSUME NEW c \in Callers, CallerStep(c) PROVE QuotaShape'
    <3>1. CASE SubmitReadsLimits(c) \/ SubmitCountsQueued(c) \/ SubmitCountsActive(c)
               \/ BackgroundBegins(c) \/ BackgroundLocks(c) \/ BackgroundReadsLimits(c)
      <4>1. \E next \in CallRecords : CallBecomes(c, next)
        BY <3>1, LimitsFit, SMTT(30)
        DEF QuotaShape, SubmitReadsLimits, SubmitCountsQueued, SubmitCountsActive, BackgroundBegins,
            BackgroundLocks, BackgroundReadsLimits, CallBecomes, CallRecords, IdleCaller
      <4>2. KeepRuns
        BY <3>1 DEF SubmitReadsLimits, SubmitCountsQueued, SubmitCountsActive, BackgroundBegins,
                    BackgroundLocks, BackgroundReadsLimits
      <4> QED BY <4>1, <4>2 DEF QuotaShape, KeepRuns, CallBecomes
    <3>2. CASE SubmitInserts(c)
      <4>1. call[c].job \in Jobs /\ CallBecomes(c, IdleCaller) /\ IdleCaller \in CallRecords
        BY <3>2 DEF QuotaShape, SubmitInserts, CallRecords, IdleCaller
      <4>2. /\ jobState' = [jobState EXCEPT ![call[c].job] = IF @ = "absent" THEN "queued" ELSE @]
            /\ UNCHANGED <<quotaRow, jobMode, start, startedUnder, createdUnder>>
        BY <3>2 DEF SubmitInserts
      <4> QED BY <4>1, <4>2 DEF QuotaShape, CallBecomes, Unfinished
    <3>3. CASE BackgroundCommits(c)
      <4>1. call[c].job \in Jobs /\ call[c].limits \in LimitRow /\ CallBecomes(c, IdleCaller) /\ IdleCaller \in CallRecords
        BY <3>3 DEF QuotaShape, BackgroundCommits, CallRecords, IdleCaller
      <4>2. call[c].limits["background_runs"] \in Nat
        BY <4>1 DEF LimitRow, Kinds, RunKinds
      <4>3. \/ UNCHANGED <<jobState, jobMode, createdUnder>>
            \/ /\ jobState' = [jobState EXCEPT ![call[c].job] = "queued"]
               /\ jobState[call[c].job] = "absent"
               /\ jobMode' = [jobMode EXCEPT ![call[c].job] = "background"]
               /\ createdUnder' = [createdUnder EXCEPT ![call[c].job] = call[c].limits["background_runs"]]
        BY <3>3 DEF BackgroundCommits
      <4>4. UNCHANGED <<quotaRow, start, startedUnder>>
        BY <3>3 DEF BackgroundCommits
      <4> QED BY ZenonT(60), <4>1, <4>2, <4>3, <4>4 DEF QuotaShape, CallBecomes, Unfinished
    <3> QED BY <2>2, <3>1, <3>2, <3>3 DEF CallerStep
  <2>3. ASSUME NEW j \in Jobs,
               \/ ClaimRun(j) \/ StartReadsLimits(j) \/ EnforceRunStartQuota(j)
               \/ BeginProcess(j) \/ AwaitUser(j) \/ FinishRun(j) \/ Requeue(j)
        PROVE  QuotaShape'
    <3>1. LimitsNow["active_runs"] \in Nat
      BY LimitsFit DEF LimitRow, Kinds, RunKinds
    <3> QED BY <2>3, <3>1, SMTT(30)
        DEF QuotaShape, ClaimRun, StartReadsLimits, EnforceRunStartQuota, BeginProcess, AwaitUser,
            FinishRun, Requeue, KeepCalls, NotStarting, Unfinished, Active
  <2>4. CASE UNCHANGED quotaVars
    BY <2>4 DEF QuotaShape, quotaVars
  <2> QED BY <2>1, <2>2, <2>3, <2>4 DEF QuotaNext
<1> QED BY <1>1, <1>2, PTL DEF QuotaSpec

\* The advisory lock makes the background quota exact: of the unfinished
\* background runs, one was created under a limit that admits them all.
THEOREM BackgroundIsBounded ==
  ASSUME UsageConfigured
  PROVE  QuotaSpec => []BackgroundWithinLimit
<1>1. QuotaInit => CreationsBounded
  BY DEF QuotaInit, CreationsBounded, Bounded, Background
<1>2. QuotaShape /\ CreationsBounded /\ [QuotaNext]_quotaVars => CreationsBounded'
  <2> SUFFICES ASSUME QuotaShape, Bounded(Background, createdUnder), [QuotaNext]_quotaVars
               PROVE  Bounded(Background', createdUnder')
    BY DEF CreationsBounded
  <2>1. CASE Background' \subseteq Background /\ UNCHANGED createdUnder
    BY <2>1, BoundShrinks
  <2>2. ASSUME NEW c \in Callers, BackgroundCommits(c) PROVE Bounded(Background', createdUnder')
    <3>1. PICK j \in Jobs : j = call[c].job
      BY <2>2 DEF QuotaShape, BackgroundCommits, CallRecords
    <3>2. PICK n \in Nat : n = call[c].limits["background_runs"]
      BY <2>2 DEF QuotaShape, BackgroundCommits, CallRecords, LimitRow, Kinds, RunKinds
    <3>3. CASE UNCHANGED <<jobState, jobMode, createdUnder>>
      BY <2>1, <3>3 DEF Background
    <3>4. ASSUME ~Reached(n, BackgroundCount), jobState[j] = "absent",
                 jobState' = [jobState EXCEPT ![j] = "queued"],
                 jobMode' = [jobMode EXCEPT ![j] = "background"],
                 createdUnder' = [createdUnder EXCEPT ![j] = n]
          PROVE  Bounded(Background', createdUnder')
      <4>1. /\ Background \in SUBSET Jobs /\ Background' \in SUBSET Jobs /\ j \notin Background
            /\ Background' \subseteq Background \cup {j}
        BY <3>4 DEF Background, QuotaShape, Unfinished, Active
      <4>2. Cardinality(Background) \in Nat
        BY <4>1, FS_Subset, FS_CardinalityType DEF UsageConfigured
      <4>3. n = 0 \/ Cardinality(Background) + 1 <= n
        BY <3>4, <4>2 DEF Reached, BackgroundCount, Background
      <4>4. /\ createdUnder \in [Jobs -> Nat] /\ createdUnder' \in [Jobs -> Nat] /\ createdUnder'[j] = n
            /\ \A i \in Jobs \ {j} : createdUnder'[i] = createdUnder[i]
        BY <3>4 DEF QuotaShape
      <4> QED BY <4>1, <4>3, <4>4, BoundGrows DEF UsageConfigured
    <3> QED BY <2>2, <3>1, <3>2, <3>3, <3>4 DEF BackgroundCommits
  <2>3. ASSUME NEW c \in Callers, CallerStep(c), ~BackgroundCommits(c)
        PROVE  Background' \subseteq Background /\ UNCHANGED createdUnder
    <3>1. CASE SubmitInserts(c)
      <4>1. call[c].job \in Jobs
        BY <3>1 DEF QuotaShape, SubmitInserts, CallRecords
      <4> QED BY <3>1, <4>1 DEF QuotaShape, SubmitInserts, Background
    <3> QED BY <2>3, <3>1 DEF CallerStep, SubmitReadsLimits, SubmitCountsQueued, SubmitCountsActive,
               BackgroundBegins, BackgroundLocks, BackgroundReadsLimits, KeepRuns, Background
  <2>4. ASSUME NEW j \in Jobs,
               \/ ClaimRun(j) \/ StartReadsLimits(j) \/ EnforceRunStartQuota(j)
               \/ BeginProcess(j) \/ AwaitUser(j) \/ FinishRun(j) \/ Requeue(j)
        PROVE  Background' \subseteq Background /\ UNCHANGED createdUnder
    BY <2>4 DEF QuotaShape, ClaimRun, StartReadsLimits, EnforceRunStartQuota, BeginProcess, AwaitUser,
                FinishRun, Requeue, KeepCalls, Background, Unfinished, Active
  <2>5. CASE UpsertCustomerRuntimeLimits \/ UpsertAgentInstanceRuntimeLimits \/ UNCHANGED quotaVars
    BY <2>1, <2>5 DEF UpsertCustomerRuntimeLimits, UpsertAgentInstanceRuntimeLimits, quotaVars, Background
  <2> QED BY <2>1, <2>2, <2>3, <2>4, <2>5 DEF QuotaNext
<1>3. CreationsBounded => BackgroundWithinLimit
  BY DEF CreationsBounded, Bounded, Background, BackgroundWithinLimit
<1>4. QuotaSpec => []QuotaShape
  BY QuotaShapeKept
<1> QED BY <1>1, <1>2, <1>3, <1>4, PTL DEF QuotaSpec

\* Leasing first and counting afterwards needs no lock: of the runs in execution,
\* one was started under a limit that admits them all.
THEOREM StartsAreBounded ==
  ASSUME UsageConfigured
  PROVE  QuotaSpec => []StartsWithinLimit
<1>1. QuotaInit => StartsBounded
  BY DEF QuotaInit, StartsBounded, Bounded, RunsExecuting, NotStarting
<1>2. QuotaShape /\ StartsBounded /\ [QuotaNext]_quotaVars => StartsBounded'
  <2> SUFFICES ASSUME QuotaShape, Bounded(RunsExecuting, startedUnder), [QuotaNext]_quotaVars
               PROVE  Bounded(RunsExecuting', startedUnder')
    BY DEF StartsBounded
  <2>1. CASE RunsExecuting' \subseteq RunsExecuting /\ UNCHANGED startedUnder
    BY <2>1, BoundShrinks
  <2>2. ASSUME NEW j \in Jobs, EnforceRunStartQuota(j), start'[j].phase = "passed"
        PROVE  Bounded(RunsExecuting', startedUnder')
    <3>1. PICK n \in Nat : n = start[j].limit
      BY DEF QuotaShape
    <3>2. /\ start[j].phase = "counting" /\ jobState[j] = "leased" /\ UNCHANGED jobState
          /\ ~(n > 0 /\ OtherActive(j) + 1 > n)
          /\ start' = [start EXCEPT ![j].phase = "passed"]
          /\ startedUnder' = [startedUnder EXCEPT ![j] = n]
      BY <2>2, <3>1 DEF EnforceRunStartQuota, QuotaShape, NotStarting
    <3>3. /\ RunsExecuting \in SUBSET Jobs /\ RunsExecuting' \in SUBSET Jobs /\ j \notin RunsExecuting
          /\ RunsExecuting' \subseteq RunsExecuting \cup {j}
      BY <3>2 DEF RunsExecuting, QuotaShape
    <3>4. RunsExecuting \in SUBSET {i \in Jobs \ {j} : jobState[i] \in Active}
      BY <3>3 DEF RunsExecuting, QuotaShape, Active
    <3>5. /\ Cardinality(RunsExecuting) \in Nat /\ OtherActive(j) \in Nat
          /\ Cardinality(RunsExecuting) <= OtherActive(j)
      <4>1. IsFiniteSet({i \in Jobs \ {j} : jobState[i] \in Active})
        BY FS_Subset DEF UsageConfigured
      <4> QED BY <3>4, <4>1, FS_Subset, FS_CardinalityType DEF OtherActive
    <3>6. n = 0 \/ Cardinality(RunsExecuting) + 1 <= n
      BY <3>2, <3>5
    <3>7. /\ startedUnder \in [Jobs -> Nat] /\ startedUnder' \in [Jobs -> Nat] /\ startedUnder'[j] = n
          /\ \A i \in Jobs \ {j} : startedUnder'[i] = startedUnder[i]
      BY <3>2 DEF QuotaShape
    <3> QED BY <3>3, <3>6, <3>7, BoundGrows DEF UsageConfigured
  <2>3. ASSUME NEW j \in Jobs,
               \/ ClaimRun(j) \/ StartReadsLimits(j) \/ (EnforceRunStartQuota(j) /\ start'[j].phase # "passed")
               \/ BeginProcess(j) \/ AwaitUser(j) \/ FinishRun(j) \/ Requeue(j)
        PROVE  RunsExecuting' \subseteq RunsExecuting /\ UNCHANGED startedUnder
    BY <2>3, SMTT(30)
    DEF QuotaShape, ClaimRun, StartReadsLimits, EnforceRunStartQuota, BeginProcess, AwaitUser,
        FinishRun, Requeue, KeepCalls, NotStarting, RunsExecuting, Unfinished, Active
  <2>4. ASSUME NEW c \in Callers, CallerStep(c)
        PROVE  RunsExecuting' \subseteq RunsExecuting /\ UNCHANGED startedUnder
    <3>1. /\ UNCHANGED <<start, startedUnder>>
          /\ \/ UNCHANGED jobState
             \/ \E j \in Jobs : jobState[j] = "absent" /\ jobState' = [jobState EXCEPT ![j] = "queued"]
      <4>1. CASE SubmitInserts(c)
        <5>1. call[c].job \in Jobs
          BY <4>1 DEF QuotaShape, SubmitInserts, CallRecords
        <5>2. jobState[call[c].job] # "absent" => UNCHANGED jobState
          BY <4>1, <5>1 DEF QuotaShape, SubmitInserts
        <5> QED BY <4>1, <5>1, <5>2 DEF SubmitInserts
      <4>2. CASE BackgroundCommits(c)
        <5>1. call[c].job \in Jobs
          BY <4>2 DEF QuotaShape, BackgroundCommits, CallRecords
        <5> QED BY <4>2, <5>1 DEF BackgroundCommits
      <4> QED BY <2>4, <4>1, <4>2
          DEF CallerStep, SubmitReadsLimits, SubmitCountsQueued, SubmitCountsActive,
              BackgroundBegins, BackgroundLocks, BackgroundReadsLimits, KeepRuns
    <3> QED BY <3>1 DEF QuotaShape, RunsExecuting
  <2>5. CASE UpsertCustomerRuntimeLimits \/ UpsertAgentInstanceRuntimeLimits \/ UNCHANGED quotaVars
    BY <2>1, <2>5 DEF UpsertCustomerRuntimeLimits, UpsertAgentInstanceRuntimeLimits, quotaVars, RunsExecuting
  <2> QED BY <2>1, <2>2, <2>3, <2>4, <2>5 DEF QuotaNext
<1>3. StartsBounded => StartsWithinLimit
  BY DEF StartsBounded, Bounded, RunsExecuting, StartsWithinLimit
<1>4. QuotaSpec => []QuotaShape
  BY QuotaShapeKept
<1> QED BY <1>1, <1>2, <1>3, <1>4, PTL DEF QuotaSpec

-----------------------------------------------------------------------------
(* The ledger of model usage *)

ModelSpec == ModelInit /\ [][ModelNext]_modelVars

ChatRecords ==
  [phase : {"idle"}] \cup [phase : {"quota"}, cand : Nat, scope : Nat] \cup [phase : {"start"}, cand : Nat]
  \cup [phase : {"calling"}, cand : Nat, call : CallIds] \cup [phase : {"answered"}, call : CallIds, amount : Amounts]

InCall(w) == chat[w].phase \in {"calling", "answered"}

\* A call belongs to one chat, is running while the provider works on it and has
\* succeeded when its answer is there: so nobody marks it failed before the usage
\* is written.
CallsFit ==
  /\ callState \in [CallIds -> {"absent", "running", "succeeded", "failed"}]
  /\ chat \in [Chats -> ChatRecords]
  /\ \A w \in Chats : InCall(w) =>
       /\ callState[chat[w].call] = (IF chat[w].phase = "calling" THEN "running" ELSE "succeeded")
       /\ \A v \in Chats \ {w} : InCall(v) => chat[v].call # chat[w].call

\* It stays so, whatever the chats do, crash or meet.
LEMMA CallsAreKept == ModelSpec => []CallsFit
<1>1. ModelInit => CallsFit
  BY DEF ModelInit, CallsFit, NoChat, InCall, ChatRecords
<1>2. CallsFit /\ [ModelNext]_modelVars => CallsFit'
  <2> SUFFICES ASSUME CallsFit, [ModelNext]_modelVars PROVE CallsFit'
    OBVIOUS
  <2>1. ASSUME NEW w \in Chats, NEW next \in ChatRecords, ChatBecomes(w, next), UNCHANGED callState,
               next.phase \notin {"calling", "answered"}
        PROVE  CallsFit'
    <3>1. chat' \in [Chats -> ChatRecords] /\ ~InCall(w)' /\ \A v \in Chats \ {w} : chat'[v] = chat[v]
      BY <2>1 DEF CallsFit, ChatBecomes, InCall
    <3> QED BY <2>1, <3>1 DEF CallsFit, InCall
  <2>2. ASSUME NEW w \in Chats, BeginChat(w) \/ EnforceModelUsageQuota(w) \/ CrashInChat(w) PROVE CallsFit'
    <3>1. UNCHANGED callState
      BY <2>2 DEF BeginChat, EnforceModelUsageQuota, CrashInChat
    <3>2. chat[w] \in ChatRecords
      BY DEF CallsFit
    <3>3. \E next \in ChatRecords : ChatBecomes(w, next) /\ next.phase \notin {"calling", "answered"}
      BY <2>2, <3>2 DEF BeginChat, EnforceModelUsageQuota, CrashInChat, AtScope, NoChat, ChatRecords
    <3> QED BY <2>1, <3>1, <3>3
  <2>3. ASSUME NEW w \in Chats, StartModelCall(w) PROVE CallsFit'
    <3>1. PICK c \in CallIds : /\ callState[c] = "absent" /\ callState' = [callState EXCEPT ![c] = "running"]
                             /\ chat' = [chat EXCEPT ![w] = [phase |-> "calling", cand |-> chat[w].cand, call |-> c]]
      BY <2>3 DEF StartModelCall, FreshCalls, ChatBecomes
    <3>2. chat[w].cand \in Nat
      BY <2>3 DEF CallsFit, StartModelCall, ChatRecords
    <3>3. /\ chat' \in [Chats -> ChatRecords] /\ chat'[w].phase = "calling" /\ chat'[w].call = c
          /\ \A v \in Chats \ {w} : chat'[v] = chat[v]
      BY <3>1, <3>2 DEF CallsFit, ChatRecords
    <3>4. \A v \in Chats : InCall(v) => chat[v].call # c
      BY <3>1 DEF CallsFit
    <3>5. \A v \in Chats \ {w} : InCall(v)' <=> InCall(v)
      BY <3>3 DEF InCall
    <3>6. \A d \in CallIds \ {c} : callState'[d] = callState[d]
      BY <3>1 DEF CallsFit
    <3>7. \A v \in Chats \ {w} : InCall(v) => chat[v].call \in CallIds
      BY DEF CallsFit, InCall, ChatRecords
    <3>8. callState' \in [CallIds -> {"absent", "running", "succeeded", "failed"}] /\ callState'[c] = "running"
      BY <3>1 DEF CallsFit
    <3> QED BY <3>3, <3>4, <3>5, <3>6, <3>7, <3>8 DEF CallsFit
  <2>4. ASSUME NEW w \in Chats, CallAnswers(w) \/ CallFails(w) PROVE CallsFit'
    <3>1. PICK c \in CallIds : c = chat[w].call /\ InCall(w) /\ chat[w].phase = "calling"
      BY <2>4 DEF CallsFit, CallAnswers, CallFails, InCall, ChatRecords
    <3>2. PICK next \in ChatRecords :
            /\ ChatBecomes(w, next) /\ next.phase # "calling"
            /\ next.phase = "answered" =>
                 next.call = c /\ callState' = [callState EXCEPT ![c] = "succeeded"]
      <4>1. CASE CallAnswers(w)
        <5>1. PICK a \in Amounts : ChatBecomes(w, [phase |-> "answered", call |-> c, amount |-> a])
          BY <3>1, <4>1 DEF CallAnswers
        <5> QED BY <3>1, <4>1, <5>1 DEF CallAnswers, ChatRecords
      <4>2. CASE CallFails(w)
        <5>1. chat[w].cand \in Nat
          BY <3>1 DEF CallsFit, ChatRecords
        <5> QED BY <4>2, <5>1 DEF CallFails, NoChat, AtScope, ChatRecords
      <4> QED BY <2>4, <4>1, <4>2
    <3>3. /\ callState' \in [CallIds -> {"absent", "running", "succeeded", "failed"}]
          /\ \A d \in CallIds \ {c} : callState'[d] = callState[d]
      BY <2>4, <3>1 DEF CallsFit, CallAnswers, CallFails
    <3>4. /\ chat' \in [Chats -> ChatRecords] /\ chat'[w] = next
          /\ \A v \in Chats \ {w} : chat'[v] = chat[v]
      BY <3>2 DEF CallsFit, ChatBecomes
    <3>5. \A v \in Chats \ {w} : InCall(v) => chat[v].call \in CallIds \ {c}
      BY <3>1 DEF CallsFit, InCall, ChatRecords
    <3>6. \A v \in Chats \ {w} : InCall(v)' <=> InCall(v)
      BY <3>4 DEF InCall
    <3>7. InCall(w)' => chat'[w].phase = "answered" /\ chat'[w].call = c /\ callState'[c] = "succeeded"
      BY <3>2, <3>4 DEF CallsFit, InCall
    <3> QED BY <3>3, <3>4, <3>5, <3>6, <3>7 DEF CallsFit
  <2>5. ASSUME NEW w \in Chats, RecordModelUsage(w) PROVE CallsFit'
    BY <2>1, <2>5 DEF RecordModelUsage, NoChat, ChatRecords
  <2>6. ASSUME UNCHANGED <<callState, chat>> PROVE CallsFit'
    BY <2>6 DEF CallsFit, InCall
  <2>7. ASSUME \/ UNCHANGED modelVars \/ \E periods \in SUBSET UsageKinds : PeriodBegins(periods)
               \/ \E s \in Scopes : UpsertRuntimeLimits(s)
        PROVE  UNCHANGED <<callState, chat>>
    BY <2>7 DEF modelVars, PeriodBegins, UpsertRuntimeLimits
  <2> QED BY <2>2, <2>3, <2>4, <2>5, <2>6, <2>7 DEF ModelNext
<1> QED BY <1>1, <1>2, PTL DEF ModelSpec

\* An answer the agent loop acts on has been charged to the ledger, whatever the
\* other chats, crashes and failures of candidates do between the call and the
\* ledger (recordModelUsage takes succeeded calls only).
THEOREM AnswersArePaid == ModelSpec => []AnswersAreCharged
<1>1. ModelInit => AnswersAreCharged
  BY DEF ModelInit, AnswersAreCharged
<1>2. CallsFit /\ AnswersAreCharged /\ [ModelNext]_modelVars => AnswersAreCharged'
  <2> SUFFICES ASSUME CallsFit, AnswersAreCharged, [ModelNext]_modelVars PROVE AnswersAreCharged'
    OBVIOUS
  <2>1. ASSUME NEW w \in Chats, RecordModelUsage(w) PROVE AnswersAreCharged'
    <3>1. callState[chat[w].call] = "succeeded"
      BY <2>1 DEF RecordModelUsage, CallsFit, InCall
    <3> QED BY <2>1, <3>1 DEF RecordModelUsage, AnswersAreCharged
  <2>2. ASSUME NEW w \in Chats,
               \/ BeginChat(w) \/ EnforceModelUsageQuota(w) \/ StartModelCall(w) \/ CallAnswers(w)
               \/ CallFails(w) \/ CrashInChat(w)
        PROVE  UNCHANGED <<ledger, returned>>
    BY <2>2 DEF BeginChat, EnforceModelUsageQuota, StartModelCall, CallAnswers, CallFails, CrashInChat
  <2>3. ASSUME NEW periods \in SUBSET UsageKinds, PeriodBegins(periods)
        PROVE  DOMAIN ledger' = DOMAIN ledger /\ UNCHANGED returned
    BY <2>3 DEF PeriodBegins
  <2>4. ASSUME UNCHANGED modelVars \/ \E s \in Scopes : UpsertRuntimeLimits(s)
        PROVE  UNCHANGED <<ledger, returned>>
    BY <2>4 DEF modelVars, UpsertRuntimeLimits
  <2> QED BY <2>1, <2>2, <2>3, <2>4 DEF ModelNext, AnswersAreCharged
<1> QED BY <1>1, <1>2, CallsAreKept, PTL DEF ModelSpec

-----------------------------------------------------------------------------
(* Sums *)

\* Numbers one by one: induction for a set of numbers.
LEMMA OneByOne ==
  ASSUME NEW G, 0 \in G, \A n \in Nat : n \in G => n + 1 \in G
  PROVE  Nat \subseteq G
<1> DEFINE rest == {n \in Nat : n \notin G}
<1>1. IsWellFoundedOn(OpToRel(<, Nat), Nat)
  BY NatLessThanWellFounded
<1> SUFFICES ASSUME rest # {} PROVE FALSE
  OBVIOUS
<1>2. PICK n \in rest : \A m \in rest : ~ (<<m, n>> \in OpToRel(<, Nat))
  BY <1>1, WFMin
<1>3. n # 0 /\ n \in Nat
  OBVIOUS
<1>4. n - 1 \in Nat /\ n - 1 < n
  BY <1>3
<1>5. n - 1 \in G
  BY <1>2, <1>4 DEF OpToRel
<1> QED
  BY <1>4, <1>5

\* What MapThenSumSet builds for the rows of a ledger.
Picked(s) == CHOOSE x \in s : TRUE
Summing(L, S, g) ==
  g = [s \in SUBSET S |-> IF s = {} THEN 0 ELSE L[Picked(s)].amount + g[s \ {Picked(s)}]]
SumOf(L, S) == MapThenSumSet(LAMBDA c : L[c].amount, S)

\* One less, and less than before.
LEMMA OneLess ==
  ASSUME NEW S, IsFiniteSet(S), NEW s, s \subseteq S
  PROVE  /\ IsFiniteSet(s) /\ Cardinality(s) \in Nat
         /\ s # {} => Picked(s) \in s
         /\ \A x \in s : /\ IsFiniteSet(s \ {x}) /\ s \ {x} \subseteq S
                         /\ Cardinality(s \ {x}) \in Nat /\ Cardinality(s) = Cardinality(s \ {x}) + 1
BY FS_Subset, FS_CardinalityType, FS_RemoveElement DEF Picked

\* There is such a function.
LEMMA SumExists ==
  ASSUME NEW L, NEW S, IsFiniteSet(S)
  PROVE  \E g : Summing(L, S, g)
<1> DEFINE sums(n, g) ==
      /\ g = [s \in SUBSET S |-> g[s]]
      /\ \A s \in SUBSET S : Cardinality(s) <= n =>
           g[s] = IF s = {} THEN 0 ELSE L[Picked(s)].amount + g[s \ {Picked(s)}]
<1> DEFINE G == {n \in Nat : \E g : sums(n, g)}
<1>1. 0 \in G
  <2> DEFINE g == [s \in SUBSET S |-> 0]
  <2>1. \A s \in SUBSET S : Cardinality(s) <= 0 => s = {}
    BY OneLess, FS_EmptySet
  <2>2. sums(0, g)
    BY <2>1
  <2> QED
    BY <2>2
<1>2. ASSUME NEW n \in Nat, n \in G PROVE n + 1 \in G
  <2>1. PICK g : sums(n, g)
    BY <1>2
  <2> DEFINE h == [s \in SUBSET S |-> IF Cardinality(s) <= n THEN g[s]
                                        ELSE L[Picked(s)].amount + g[s \ {Picked(s)}]]
  <2>2. ASSUME NEW s \in SUBSET S, Cardinality(s) <= n + 1
        PROVE  h[s] = IF s = {} THEN 0 ELSE L[Picked(s)].amount + h[s \ {Picked(s)}]
    <3>1. CASE s = {}
      <4>1. Cardinality(s) <= n
        BY <3>1, FS_EmptySet
      <4>2. g[s] = 0
        BY <2>1, <3>1, <4>1
      <4> QED
        BY <3>1, <4>1, <4>2
    <3>2. CASE s # {}
      <4>1. /\ s \ {Picked(s)} \in SUBSET S /\ Cardinality(s \ {Picked(s)}) <= n
        BY <2>2, <3>2, OneLess
      <4>2. h[s \ {Picked(s)}] = g[s \ {Picked(s)}]
        BY <4>1
      <4>3. h[s] = L[Picked(s)].amount + g[s \ {Picked(s)}]
        BY <2>1, <3>2
      <4> QED
        BY <3>2, <4>2, <4>3
    <3> QED
      BY <3>1, <3>2
  <2>3. sums(n + 1, h)
    BY <2>2
  <2> HIDE DEF h
  <2> HIDE DEF sums
  <2>4. \E f : sums(n + 1, f)
    BY <2>3
  <2> QED
    BY ONLY <2>4, n \in Nat
<1> HIDE DEF G
<1>3. Cardinality(S) \in G
  BY <1>1, <1>2, OneByOne, FS_CardinalityType
<1>4. PICK g : sums(Cardinality(S), g)
  BY <1>3 DEF G
<1>5. \A s \in SUBSET S : Cardinality(s) <= Cardinality(S)
  BY FS_Subset
<1>6. \A s \in SUBSET S : g[s] = IF s = {} THEN 0 ELSE L[Picked(s)].amount + g[s \ {Picked(s)}]
  BY <1>4, <1>5
<1> QED
  BY <1>4, <1>6 DEF Summing

\* And but one value for rows of the same amounts.
LEMMA SumsAgree ==
  ASSUME NEW L, NEW S, NEW g, Summing(L, S, g), NEW M, NEW T, NEW h, Summing(M, T, h),
         NEW A, A \subseteq S, A \subseteq T, IsFiniteSet(A), \A c \in A : L[c].amount = M[c].amount
  PROVE  g[A] = h[A]
<1> DEFINE G == {n \in Nat : \A s \in SUBSET A : Cardinality(s) <= n => g[s] = h[s]}
<1>0. \A s \in SUBSET A :
         /\ g[s] = IF s = {} THEN 0 ELSE L[Picked(s)].amount + g[s \ {Picked(s)}]
         /\ h[s] = IF s = {} THEN 0 ELSE M[Picked(s)].amount + h[s \ {Picked(s)}]
  <2>1. \A s \in SUBSET A : s \in SUBSET S /\ s \in SUBSET T
    OBVIOUS
  <2>2. \A s \in SUBSET S : g[s] = IF s = {} THEN 0 ELSE L[Picked(s)].amount + g[s \ {Picked(s)}]
    BY DEF Summing
  <2>3. \A s \in SUBSET T : h[s] = IF s = {} THEN 0 ELSE M[Picked(s)].amount + h[s \ {Picked(s)}]
    BY DEF Summing
  <2> QED
    BY <2>1, <2>2, <2>3
<1>1. 0 \in G
  <2>1. \A s \in SUBSET A : Cardinality(s) <= 0 => s = {}
    BY OneLess, FS_EmptySet
  <2> QED
    BY <1>0, <2>1
<1>2. ASSUME NEW n \in Nat, n \in G PROVE n + 1 \in G
  <2>1. ASSUME NEW s \in SUBSET A, Cardinality(s) <= n + 1 PROVE g[s] = h[s]
    <3>1. CASE s = {}
      BY <1>0, <3>1
    <3>2. CASE s # {}
      <4>1. /\ s \ {Picked(s)} \in SUBSET A /\ Cardinality(s \ {Picked(s)}) <= n /\ Picked(s) \in A
        BY <2>1, <3>2, OneLess
      <4>2. g[s \ {Picked(s)}] = h[s \ {Picked(s)}] /\ L[Picked(s)].amount = M[Picked(s)].amount
        BY <1>2, <4>1
      <4> QED
        BY <1>0, <3>2, <4>2
    <3> QED
      BY <3>1, <3>2
  <2> QED
    BY <2>1
<1> HIDE DEF G
<1>3. Cardinality(A) \in G
  BY <1>1, <1>2, OneByOne, FS_CardinalityType
<1> QED
  BY <1>3, FS_CardinalityType DEF G

\* The sum of a set is the value of any such function.
LEMMA SumIsOf ==
  ASSUME NEW L, NEW S, IsFiniteSet(S), NEW g, Summing(L, S, g), NEW A, A \subseteq S
  PROVE  SumOf(L, A) = g[A]
<1> DEFINE own == CHOOSE iter : iter = [s \in SUBSET A |-> IF s = {} THEN 0 ELSE L[CHOOSE x \in s : TRUE].amount
                                                                  + iter[s \ {CHOOSE x \in s : TRUE}]]
<1>1. SumOf(L, A) = own[A]
  BY DEF SumOf, MapThenSumSet, MapThenFoldSet
<1>2. IsFiniteSet(A)
  BY FS_Subset
<1>3. own = CHOOSE iter : Summing(L, A, iter)
  BY DEF Summing, Picked
<1> HIDE DEF own
<1>4. Summing(L, A, own)
  BY <1>2, <1>3, SumExists
<1>5. own[A] = g[A]
  BY <1>2, <1>4, SumsAgree
<1> QED
  BY <1>1, <1>5

\* Sums are numbers, an element counts with its amount, and more elements count for more.
LEMMA SumAdds ==
  ASSUME NEW L, NEW S, IsFiniteSet(S), \A c \in S : L[c].amount \in Nat
  PROVE  /\ SumOf(L, {}) = 0 /\ SumOf(L, S) \in Nat
         /\ \A c \in S : SumOf(L, S) = L[c].amount + SumOf(L, S \ {c})
         /\ \A A \in SUBSET S : SumOf(L, A) \in Nat /\ SumOf(L, A) <= SumOf(L, S)
<1>1. PICK g : Summing(L, S, g)
  BY SumExists
<1>2. \A s \in SUBSET S : SumOf(L, s) = g[s]
  BY <1>1, SumIsOf
<1>3. \A s \in SUBSET S : g[s] = IF s = {} THEN 0 ELSE L[Picked(s)].amount + g[s \ {Picked(s)}]
  BY <1>1 DEF Summing
<1> DEFINE adds(s) == g[s] \in Nat /\ \A c \in s : g[s] = L[c].amount + g[s \ {c}]
<1> DEFINE G == {n \in Nat : \A s \in SUBSET S : Cardinality(s) <= n => adds(s)}
<1>0. adds({})
  BY <1>3
<1>4. 0 \in G
  <2>1. \A s \in SUBSET S : Cardinality(s) <= 0 => s = {}
    BY OneLess, FS_EmptySet
  <2> QED
    BY <1>0, <2>1
<1>5. ASSUME NEW n \in Nat, n \in G PROVE n + 1 \in G
  <2>1. ASSUME NEW s \in SUBSET S, Cardinality(s) <= n + 1, s # {} PROVE adds(s)
    <3> DEFINE x == Picked(s)
    <3>1. x \in s /\ s \ {x} \in SUBSET S /\ Cardinality(s \ {x}) <= n
      BY <2>1, OneLess
    <3>2. g[s] = L[x].amount + g[s \ {x}] /\ adds(s \ {x}) /\ L[x].amount \in Nat
      BY <1>3, <1>5, <2>1, <3>1
    <3> HIDE DEF x
    <3>3. ASSUME NEW c \in s, c # x PROVE g[s] = L[c].amount + g[s \ {c}]
      <4>1. /\ c \in s \ {x} /\ x \in s \ {c} /\ (s \ {x}) \ {c} = (s \ {c}) \ {x}
            /\ s \ {c} \in SUBSET S /\ (s \ {x}) \ {c} \in SUBSET S
        BY <3>1, <3>3
      <4>2. Cardinality(s \ {c}) <= n
        BY <2>1, OneLess
      <4>3. adds(s \ {c})
        BY <1>5, <4>1, <4>2
      <4>4. /\ g[s \ {x}] = L[c].amount + g[(s \ {x}) \ {c}]
            /\ g[s \ {c}] = L[x].amount + g[(s \ {x}) \ {c}]
        BY <3>2, <4>1, <4>3
      <4>5. Cardinality((s \ {x}) \ {c}) <= n
        <5>1. Cardinality(s \ {x}) \in Nat /\ Cardinality((s \ {x}) \ {c}) \in Nat
          BY <3>1, <4>1, OneLess
        <5>2. Cardinality(s \ {x}) = Cardinality((s \ {x}) \ {c}) + 1
          BY <3>1, <4>1, OneLess
        <5> QED
          BY <3>1, <5>1, <5>2
      <4>6. g[(s \ {x}) \ {c}] \in Nat
        BY <1>5, <4>1, <4>5
      <4>7. L[c].amount \in Nat
        BY <2>1
      <4> QED
        BY <3>2, <4>4, <4>6, <4>7
    <3>4. g[s] \in Nat
      BY <3>2
    <3> QED
      BY <3>2, <3>3, <3>4
  <2>2. \A s \in SUBSET S : Cardinality(s) <= n + 1 => adds(s)
    BY <1>0, <2>1
  <2> QED
    BY ONLY <2>2, n \in Nat
<1> HIDE DEF G
<1>6. Nat \subseteq G
  BY <1>4, <1>5, OneByOne
<1>7. \A s \in SUBSET S : adds(s)
  BY SMTT(60), <1>6, OneLess DEF G
<1> DEFINE grows(s) == \A A \in SUBSET s : g[A] <= g[s]
<1> DEFINE H == {n \in Nat : \A s \in SUBSET S : Cardinality(s) <= n => grows(s)}
<1>8. 0 \in H
  <2>1. \A s \in SUBSET S : Cardinality(s) <= 0 => s = {}
    BY OneLess, FS_EmptySet
  <2>2. g[{}] = 0
    BY <1>3
  <2> QED
    BY <2>1, <2>2
<1>9. ASSUME NEW n \in Nat, n \in H PROVE n + 1 \in H
  <2>1. ASSUME NEW s \in SUBSET S, Cardinality(s) <= n + 1, NEW A \in SUBSET s, A # s PROVE g[A] <= g[s]
    <3>1. PICK x \in s : x \notin A
      BY <2>1
    <3>2. s \ {x} \in SUBSET S /\ Cardinality(s \ {x}) <= n /\ A \in SUBSET (s \ {x})
      BY <2>1, <3>1, OneLess
    <3>3. g[A] <= g[s \ {x}]
      BY <1>9, <3>2
    <3>4. g[s] = L[x].amount + g[s \ {x}] /\ L[x].amount \in Nat
      BY <1>7
    <3>5. g[A] \in Nat /\ g[s \ {x}] \in Nat
      BY <1>7, <3>2
    <3> QED
      BY <3>3, <3>4, <3>5
  <2>2. \A s \in SUBSET S : g[s] <= g[s]
    BY <1>7
  <2> QED
    BY <2>1, <2>2
<1> HIDE DEF H
<1>10. Nat \subseteq H
  BY <1>8, <1>9, OneByOne
<1>11. grows(S)
  BY <1>10, OneLess DEF H
<1>12. SumOf(L, {}) = 0
  BY <1>2, <1>3
<1>13. \A c \in S : SumOf(L, S) = L[c].amount + SumOf(L, S \ {c})
  BY SMTT(60), <1>2, <1>7
<1> QED
  BY <1>2, <1>7, <1>11, <1>12, <1>13

\* Rows of the same amounts have the same sum.
LEMMA SumOfSame ==
  ASSUME NEW L, NEW M, NEW S, IsFiniteSet(S), \A c \in S : L[c].amount = M[c].amount
  PROVE  SumOf(L, S) = SumOf(M, S)
<1>1. PICK g : Summing(L, S, g)
  BY SumExists
<1>2. PICK h : Summing(M, S, h)
  BY SumExists
<1>3. g[S] = h[S]
  BY <1>1, <1>2, SumsAgree
<1> QED
  BY <1>1, <1>2, <1>3, SumIsOf

-----------------------------------------------------------------------------
(* Charges past a limit *)

\* Chats that have passed the check of a scope and may charge it without another.
MayCharge(s) ==
  {w \in Chats :
     \/ chat[w].phase \in {"start", "calling", "answered"} /\ \E i \in DOMAIN ScopesOf[w] : ScopesOf[w][i] = s
     \/ chat[w].phase = "quota" /\ \E i \in DOMAIN ScopesOf[w] : i < chat[w].scope /\ ScopesOf[w][i] = s}

ChargedTo(s, p) == {c \in DOMAIN ledger : s \in ledger[c].scopes /\ p \in ledger[c].periods}

\* The charges to come are counted in advance: what is on the ledger, and the most that
\* those may charge who have passed the check, stay within what all may charge together.
ChargesCounted(s, p) ==
  lastSeen[s][p] > 0 =>
    ModelUsageSum(s, p) + Cardinality(MayCharge(s)) * Max(Amounts) < lastSeen[s][p] + Cardinality(Chats) * Max(Amounts)

\* Rows are rows of an amount, limits are numbers.
IsUsage(row) == row = [scopes |-> row.scopes, amount |-> row.amount, periods |-> row.periods] /\ row.amount \in Nat
LedgerFits ==
  /\ IsFiniteSet(DOMAIN ledger) /\ \A c \in DOMAIN ledger : IsUsage(ledger[c])
  /\ usageRow = [s \in Scopes |-> usageRow[s]] /\ \A s \in Scopes : \A k \in DOMAIN usageRow[s] : usageRow[s][k] \in Int
  /\ lastSeen \in [Scopes -> [Kinds -> Int]]

OvershootCounted == \A s \in Scopes, p \in UsageKinds : ChargesCounted(s, p)

\* The largest amount is one that is at least each.
LEMMA MaxAmount == ASSUME CallsConfigured PROVE Max(Amounts) \in Nat /\ \A a \in Amounts : a <= Max(Amounts)
<1>1. PICK m \in Amounts : \A a \in Amounts : a <= m
  BY DEF CallsConfigured
<1>2. m \in Amounts /\ \A a \in Amounts : m >= a
  BY <1>1 DEF CallsConfigured
<1>3. Max(Amounts) \in Amounts /\ \A a \in Amounts : Max(Amounts) >= a
  BY <1>2 DEF Max
<1> QED
  BY <1>3 DEF CallsConfigured

\* Of chats there are finitely many.
LEMMA ChargersAreFew ==
  ASSUME CallsConfigured, NEW s
  PROVE  /\ IsFiniteSet(MayCharge(s)) /\ Cardinality(MayCharge(s)) \in Nat /\ Cardinality(Chats) \in Nat
         /\ Cardinality(MayCharge(s)) <= Cardinality(Chats)
BY FS_Subset, FS_CardinalityType DEF CallsConfigured, MayCharge

\* More of a kind are worth more.
LEMMA MoreIsMore ==
  ASSUME NEW a \in Nat, NEW b \in Nat, NEW m \in Nat, a <= b
  PROVE  a * m <= b * m /\ a * m \in Nat /\ (a + 1) * m = a * m + m
<1>1. b - a \in Nat /\ b = a + (b - a)
  OBVIOUS
<1>2. (b - a) * m \in Nat /\ a * m \in Nat
  BY <1>1
<1>3. b * m = a * m + (b - a) * m
  BY <1>1
<1> QED
  BY <1>2, <1>3

\* What is charged to a scope is the sum of its rows, now and after a step.
SumsAreUsage == \A s, p : ModelUsageSum(s, p) = SumOf(ledger, ChargedTo(s, p))
LEMMA UsageIsASum == SumsAreUsage
BY DEF SumsAreUsage, ModelUsageSum, SumOf, ChargedTo

\* So it is after a step.
LEMMA UsageStaysASum == SumsAreUsage'
BY UsageIsASum, PTL

\* A sum of finitely many.
LEMMA UsageIsANumber ==
  ASSUME LedgerFits, NEW s, NEW p
  PROVE  /\ ModelUsageSum(s, p) = SumOf(ledger, ChargedTo(s, p)) /\ IsFiniteSet(ChargedTo(s, p))
         /\ ModelUsageSum(s, p) \in Nat /\ \A c \in ChargedTo(s, p) : ledger[c].amount \in Nat
<1>1. ModelUsageSum(s, p) = SumOf(ledger, ChargedTo(s, p))
  BY UsageIsASum DEF SumsAreUsage
<1>2. IsFiniteSet(ChargedTo(s, p)) /\ \A c \in ChargedTo(s, p) : ledger[c].amount \in Nat
  BY FS_Subset DEF LedgerFits, IsUsage, ChargedTo
<1> QED
  BY <1>1, <1>2, SumAdds

\* The same after a step.
LEMMA UsageStaysANumber ==
  ASSUME LedgerFits', NEW s, NEW p
  PROVE  /\ ModelUsageSum(s, p)' = SumOf(ledger', ChargedTo(s, p)') /\ IsFiniteSet(ChargedTo(s, p)')
         /\ ModelUsageSum(s, p)' \in Nat /\ \A c \in ChargedTo(s, p)' : ledger'[c].amount \in Nat
<1>1. ModelUsageSum(s, p)' = SumOf(ledger', ChargedTo(s, p)')
  BY UsageStaysASum DEF SumsAreUsage
<1>2. IsFiniteSet(ChargedTo(s, p)') /\ \A c \in ChargedTo(s, p)' : ledger'[c].amount \in Nat
  BY FS_Subset DEF LedgerFits, IsUsage, ChargedTo
<1> QED
  BY <1>1, <1>2, SumAdds

\* A ledger that stays has the sums it had.
LEMMA UsageStays ==
  ASSUME LedgerFits, ledger' = ledger, NEW s, NEW p
  PROVE  ModelUsageSum(s, p)' <= ModelUsageSum(s, p) /\ ModelUsageSum(s, p)' = ModelUsageSum(s, p)
<1>1. ChargedTo(s, p)' = ChargedTo(s, p)
  BY DEF ChargedTo
<1>2. ModelUsageSum(s, p)' = ModelUsageSum(s, p)
  BY <1>1, UsageIsASum, UsageStaysASum DEF SumsAreUsage
<1> QED
  BY <1>2, UsageIsANumber

\* Where nothing is charged and nobody passes the check, the count stays.
LEMMA CountStays ==
  ASSUME CallsConfigured, LedgerFits, LedgerFits', NEW s \in Scopes, NEW p \in UsageKinds, ChargesCounted(s, p),
         MayCharge(s)' \subseteq MayCharge(s), lastSeen'[s][p] = lastSeen[s][p],
         ModelUsageSum(s, p)' <= ModelUsageSum(s, p)
  PROVE  ChargesCounted(s, p)'
<1> DEFINE a == Cardinality(MayCharge(s)')
<1> DEFINE b == Cardinality(MayCharge(s))
<1> DEFINE c == Cardinality(Chats)
<1> DEFINE m == Max(Amounts)
<1> DEFINE old == ModelUsageSum(s, p)
<1> DEFINE new == ModelUsageSum(s, p)'
<1>1. a \in Nat /\ b \in Nat /\ c \in Nat /\ m \in Nat /\ a <= b
  BY ChargersAreFew, MaxAmount, FS_Subset, FS_CardinalityType
<1>2. a * m <= b * m /\ a * m \in Nat /\ b * m \in Nat /\ c * m \in Nat
  BY <1>1, MoreIsMore
<1>3. old \in Nat /\ new \in Nat /\ new <= old
  BY UsageIsANumber, UsageStaysANumber
<1>4. lastSeen[s][p] \in Int /\ lastSeen'[s][p] = lastSeen[s][p]
  BY DEF LedgerFits, Kinds
<1>5. lastSeen[s][p] > 0 => old + b * m < lastSeen[s][p] + c * m
  BY DEF ChargesCounted
<1>6. lastSeen'[s][p] > 0 => new + a * m < lastSeen'[s][p] + c * m
  BY ONLY <1>2, <1>3, <1>4, <1>5
<1> QED
  BY <1>6 DEF ChargesCounted

\* The check counts what has been charged so far.
LEMMA CheckCounts ==
  ASSUME CallsConfigured, LedgerFits, CallsFit, OvershootCounted, NEW w \in Chats, EnforceModelUsageQuota(w)
  PROVE  LedgerFits' /\ OvershootCounted'
<1> DEFINE scope == ScopesOf[w][chat[w].scope]
<1>1. /\ usageRow' = usageRow /\ ledger' = ledger /\ chat[w].phase = "quota"
  BY DEF EnforceModelUsageQuota
<1>2. chat \in [Chats -> ChatRecords] /\ chat[w].scope \in Nat /\ chat[w].cand \in Nat
  <2>1. chat \in [Chats -> ChatRecords]
    BY DEF CallsFit
  <2> QED
    BY <1>1, <2>1 DEF ChatRecords
<1>3. CASE chat' = [chat EXCEPT ![w] = NoChat] /\ lastSeen' = lastSeen
  <2>1. LedgerFits'
    BY <1>1, <1>3 DEF LedgerFits
  <2>2. ASSUME NEW s \in Scopes, NEW p \in UsageKinds PROVE ChargesCounted(s, p)'
    <3>1. MayCharge(s)' \subseteq MayCharge(s)
      BY <1>2, <1>3 DEF MayCharge, NoChat
    <3>2. ModelUsageSum(s, p)' <= ModelUsageSum(s, p)
      BY <1>1, UsageStays
    <3> QED
      BY <1>3, <2>1, <3>1, <3>2, CountStays DEF OvershootCounted
  <2> QED
    BY <2>1, <2>2 DEF OvershootCounted
<1>4. CASE /\ ~ReachesUsage(scope)
           /\ lastSeen' = [lastSeen EXCEPT ![scope] = UsageLimits(scope)]
           /\ chat' = [chat EXCEPT ![w] = IF chat[w].scope = Len(ScopesOf[w]) THEN [phase |-> "start", cand |-> chat[w].cand]
                                           ELSE AtScope(chat[w].cand, chat[w].scope + 1)]
  <2>1. UsageLimits(scope) \in [Kinds -> Int] \/ scope \notin Scopes
    BY DEF LedgerFits, UsageLimits, ApplyRuntimeLimits, DefaultRuntimeLimits
  <2>2. LedgerFits'
    BY <1>1, <1>4, <2>1 DEF LedgerFits
  <2>3. ASSUME NEW s \in Scopes, NEW p \in UsageKinds PROVE ChargesCounted(s, p)'
    <3>1. CASE s = scope
      <4>1. lastSeen'[s][p] = UsageLimits(scope)[p] /\ lastSeen'[s][p] \in Int
        BY SMTT(60), <1>4, <2>1, <3>1 DEF LedgerFits, Kinds
      <4>2. lastSeen'[s][p] > 0 => ~(ModelUsageSum(s, p) >= lastSeen'[s][p])
        BY <1>4, <3>1, <4>1 DEF ReachesUsage
      <4>3. ModelUsageSum(s, p) \in Nat /\ ModelUsageSum(s, p)' = ModelUsageSum(s, p)
        BY <1>1, UsageIsANumber, UsageStays
      <4>4. /\ Cardinality(MayCharge(s)') \in Nat /\ Cardinality(Chats) \in Nat
            /\ Cardinality(MayCharge(s)') <= Cardinality(Chats) /\ Max(Amounts) \in Nat
        <5>1. MayCharge(s)' \subseteq Chats /\ IsFiniteSet(Chats)
          BY DEF MayCharge, CallsConfigured
        <5> QED
          BY <5>1, MaxAmount, FS_Subset, FS_CardinalityType
      <4>5. /\ Cardinality(MayCharge(s)') * Max(Amounts) <= Cardinality(Chats) * Max(Amounts)
            /\ Cardinality(MayCharge(s)') * Max(Amounts) \in Nat /\ Cardinality(Chats) * Max(Amounts) \in Nat
        BY <4>4, MoreIsMore
      <4>6. lastSeen'[s][p] > 0 =>
              ModelUsageSum(s, p)' + Cardinality(MayCharge(s)') * Max(Amounts)
                < lastSeen'[s][p] + Cardinality(Chats) * Max(Amounts)
        BY ONLY <4>1, <4>2, <4>3, <4>5
      <4> QED
        BY <4>6 DEF ChargesCounted
    <3>2. CASE s # scope
      <4>1. lastSeen'[s][p] = lastSeen[s][p]
        BY <1>4, <3>2 DEF LedgerFits
      <4>2. DOMAIN ScopesOf[w] = 1..Len(ScopesOf[w]) /\ Len(ScopesOf[w]) \in Nat
        BY DEF CallsConfigured
      <4>3. MayCharge(s)' \subseteq MayCharge(s)
        <5>1. ASSUME NEW v \in MayCharge(s)' PROVE v \in MayCharge(s)
          <6>1. CASE v # w
            BY <1>2, <1>4, <5>1, <6>1 DEF MayCharge
          <6>2. CASE v = w
            <7>1. \E i \in DOMAIN ScopesOf[w] : i < chat[w].scope + 1 /\ ScopesOf[w][i] = s
              <8>1. CASE chat[w].scope = Len(ScopesOf[w])
                BY <1>2, <1>4, <4>2, <5>1, <6>2, <8>1 DEF MayCharge
              <8>2. CASE chat[w].scope # Len(ScopesOf[w])
                BY <1>2, <1>4, <5>1, <6>2, <8>2 DEF MayCharge, AtScope
              <8> QED
                BY <8>1, <8>2
            <7>2. \E i \in DOMAIN ScopesOf[w] : i < chat[w].scope /\ ScopesOf[w][i] = s
              BY <1>2, <3>2, <4>2, <7>1
            <7> QED
              BY <1>1, <6>2, <7>2 DEF MayCharge
          <6> QED
            BY <6>1, <6>2
        <5> QED
          BY <5>1
      <4>4. ModelUsageSum(s, p)' <= ModelUsageSum(s, p)
        BY <1>1, UsageStays
      <4> QED
        BY <2>2, <4>1, <4>3, <4>4, CountStays DEF OvershootCounted
    <3> QED
      BY <3>1, <3>2
  <2> QED
    BY <2>2, <2>3 DEF OvershootCounted
<1> QED
  BY <1>3, <1>4 DEF EnforceModelUsageQuota, ChatBecomes

\* A charge is one of the chats that have passed.
LEMMA ChargeIsCounted ==
  ASSUME CallsConfigured, LedgerFits, CallsFit, OvershootCounted, NEW w \in Chats, RecordModelUsage(w)
  PROVE  LedgerFits' /\ OvershootCounted'
<1> DEFINE c == chat[w].call
<1> DEFINE amount == chat[w].amount
<1> DEFINE row == [scopes |-> {ScopesOf[w][i] : i \in DOMAIN ScopesOf[w]}, amount |-> amount, periods |-> UsageKinds]
<1>1. /\ chat[w].phase = "answered" /\ usageRow' = usageRow /\ lastSeen' = lastSeen
      /\ chat' = [chat EXCEPT ![w] = NoChat]
      /\ ledger' = ledger \/ ledger' = [d \in DOMAIN ledger \cup {c} |-> IF d = c THEN row ELSE ledger[d]]
  BY DEF RecordModelUsage, ChatBecomes
<1>2. chat \in [Chats -> ChatRecords] /\ amount \in Nat /\ amount <= Max(Amounts)
  <2>1. chat \in [Chats -> ChatRecords]
    BY DEF CallsFit
  <2>2. amount \in Amounts
    BY <1>1, <2>1 DEF ChatRecords
  <2> QED
    BY <2>1, <2>2, MaxAmount DEF CallsConfigured
<1>3. /\ amount \in Nat => IsUsage(row)
      /\ row.amount = amount /\ row.scopes = {ScopesOf[w][i] : i \in DOMAIN ScopesOf[w]}
  BY DEF IsUsage
<1> HIDE DEF row, amount, c
<1>4. CASE ledger' = ledger
  <2>1. LedgerFits'
    BY <1>1, <1>4 DEF LedgerFits
  <2>2. ASSUME NEW s \in Scopes, NEW p \in UsageKinds PROVE ChargesCounted(s, p)'
    <3>1. MayCharge(s)' \subseteq MayCharge(s)
      BY <1>1, <1>2 DEF MayCharge, NoChat
    <3>2. ModelUsageSum(s, p)' <= ModelUsageSum(s, p)
      BY <1>4, UsageStays
    <3> QED
      BY <1>1, <2>1, <3>1, <3>2, CountStays DEF OvershootCounted
  <2> QED
    BY <2>1, <2>2 DEF OvershootCounted
<1>5. CASE ledger' = [d \in DOMAIN ledger \cup {c} |-> IF d = c THEN row ELSE ledger[d]]
  <2>1. /\ DOMAIN ledger' = DOMAIN ledger \cup {c} /\ ledger'[c] = row
        /\ \A d \in DOMAIN ledger' : d # c => d \in DOMAIN ledger /\ ledger'[d] = ledger[d]
    BY <1>5
  <2>2. LedgerFits'
    <3>1. IsFiniteSet(DOMAIN ledger')
      BY <2>1, FS_AddElement DEF LedgerFits
    <3>2. \A d \in DOMAIN ledger' : IsUsage(ledger'[d])
      BY <1>2, <1>3, <2>1 DEF LedgerFits
    <3> QED
      BY <1>1, <3>1, <3>2 DEF LedgerFits, IsUsage
  <2>3. ASSUME NEW s \in Scopes, NEW p \in UsageKinds PROVE ChargesCounted(s, p)'
    <3> DEFINE old == ChargedTo(s, p)
    <3> DEFINE new == ChargedTo(s, p)'
    <3>1. IsFiniteSet(old) /\ IsFiniteSet(new) /\ ModelUsageSum(s, p) = SumOf(ledger, old) /\ ModelUsageSum(s, p)' = SumOf(ledger', new)
      BY <2>2, UsageIsANumber, UsageStaysANumber
    <3>2. /\ \A d \in old : ledger[d].amount \in Nat
          /\ \A d \in new : ledger'[d].amount \in Nat
      BY <2>2 DEF LedgerFits, IsUsage, ChargedTo
    <3>3. \A d \in new : d # c => d \in old /\ ledger'[d] = ledger[d]
      BY <2>1 DEF ChargedTo
    <3> DEFINE others == new \ {c}
    <3>4. others \subseteq old /\ IsFiniteSet(others) /\ \A d \in others : ledger'[d].amount = ledger[d].amount
      BY <3>1, <3>3, FS_Subset
    <3>5. SumOf(ledger', others) = SumOf(ledger, others)
      BY <3>4, SumOfSame
    <3>6. SumOf(ledger, others) <= SumOf(ledger, old) /\ SumOf(ledger, others) \in Nat /\ SumOf(ledger, old) \in Nat
      BY <3>1, <3>2, <3>4, SumAdds
    <3>7. CASE c \in new
      <4>1. SumOf(ledger', new) = amount + SumOf(ledger', others)
        BY <1>3, <2>1, <3>1, <3>2, <3>7, SumAdds
      <4>2. w \in MayCharge(s)
        <5>1. s \in row.scopes
          BY <2>1, <3>7 DEF ChargedTo
        <5> QED
          BY <1>1, <1>3, <5>1 DEF MayCharge
      <4>3. w \notin MayCharge(s)' /\ MayCharge(s)' \subseteq MayCharge(s)
        BY <1>1, <1>2 DEF MayCharge, NoChat
      <4> DEFINE a == Cardinality(MayCharge(s)')
      <4> DEFINE b == Cardinality(MayCharge(s))
      <4> DEFINE m == Max(Amounts)
      <4>4. a \in Nat /\ b \in Nat /\ a + 1 <= b /\ m \in Nat
        <5>1. MayCharge(s)' \subseteq MayCharge(s) \ {w} /\ IsFiniteSet(MayCharge(s)) /\ b \in Nat
          BY <4>3, ChargersAreFew
        <5>2. Cardinality(MayCharge(s) \ {w}) = b - 1 /\ IsFiniteSet(MayCharge(s) \ {w})
          BY <4>2, <5>1, FS_RemoveElement
        <5> QED
          BY <5>1, <5>2, FS_Subset, FS_CardinalityType, MaxAmount
      <4>5. a * m + m <= b * m /\ a * m \in Nat /\ b * m \in Nat
        BY <4>4, MoreIsMore
      <4>6. Cardinality(Chats) * m \in Nat
        BY <4>4, ChargersAreFew
      <4>7. lastSeen[s][p] > 0 => SumOf(ledger, old) + b * m < lastSeen[s][p] + Cardinality(Chats) * m
        BY <3>1 DEF OvershootCounted, ChargesCounted
      <4>8. lastSeen[s][p] \in Int
        BY DEF LedgerFits, Kinds
      <4>9. lastSeen[s][p] > 0 => SumOf(ledger', new) + a * m < lastSeen[s][p] + Cardinality(Chats) * m
        <5>1. \A e, am, bm, cm, m0, n, o, l : 
                /\ e \in Nat /\ am \in Nat /\ bm \in Nat /\ cm \in Nat /\ m0 \in Nat /\ n \in Nat /\ o \in Nat /\ l \in Int
                /\ e <= m0 /\ am + m0 <= bm /\ n <= o /\ o + bm < l + cm
                => e + n + am < l + cm
          OBVIOUS
        <5> HIDE DEF a, b, m, others, old, new
        <5>2. SumOf(ledger', new) = amount + SumOf(ledger, others)
          BY <3>5, <4>1
        <5> QED
          BY ONLY <1>2, <3>6, <4>4, <4>5, <4>6, <4>7, <4>8, <5>1, <5>2 DEF m
      <4> QED
        BY <1>1, <3>1, <4>9 DEF ChargesCounted
    <3>8. CASE c \notin new
      <4>1. others = new
        BY <3>8
      <4>2. ModelUsageSum(s, p)' <= ModelUsageSum(s, p)
        BY <3>1, <3>5, <3>6, <4>1
      <4>3. MayCharge(s)' \subseteq MayCharge(s)
        BY <1>1, <1>2 DEF MayCharge, NoChat
      <4> QED
        BY <1>1, <2>2, <4>2, <4>3, CountStays DEF OvershootCounted
    <3> QED
      BY <3>7, <3>8
  <2> QED
    BY <2>2, <2>3 DEF OvershootCounted
<1> QED
  BY <1>1, <1>4, <1>5

\* Past the limit its last passed check saw, a scope is charged at most one call of each
\* chat, for any chats, scopes, limits and amounts: checks and charges are not one step.
THEOREM UsageOvershoots ==
  ASSUME CallsConfigured
  PROVE  ModelSpec => []OvershootBounded
<1>1. ModelInit => LedgerFits /\ OvershootCounted
  <2> SUFFICES ASSUME ModelInit PROVE LedgerFits /\ OvershootCounted
    OBVIOUS
  <2>1. DOMAIN ledger = {} /\ lastSeen = [s \in Scopes |-> DefaultRuntimeLimits] /\ usageRow = [s \in Scopes |-> NoRow]
    BY DEF ModelInit
  <2>2. LedgerFits
    BY <2>1, FS_EmptySet DEF LedgerFits, NoRow, DefaultRuntimeLimits
  <2>3. \A s \in Scopes, p \in UsageKinds : lastSeen[s][p] = 0
    BY <2>1 DEF DefaultRuntimeLimits, Kinds
  <2> QED
    BY <2>2, <2>3 DEF OvershootCounted, ChargesCounted
<1>2. CallsFit /\ LedgerFits /\ OvershootCounted /\ [ModelNext]_modelVars => LedgerFits' /\ OvershootCounted'
  <2> SUFFICES ASSUME CallsFit, LedgerFits, OvershootCounted, [ModelNext]_modelVars PROVE LedgerFits' /\ OvershootCounted'
    OBVIOUS
  <2>1. ASSUME UNCHANGED <<usageRow, ledger, lastSeen>>, NEW w \in Chats, NEW next, chat' = [chat EXCEPT ![w] = next],
               \/ next.phase = "idle"
               \/ (next.phase = "quota" /\ next.scope = 1)
               \/ (next.phase \in {"calling", "answered"} /\ chat[w].phase \in {"start", "calling"})
        PROVE  LedgerFits' /\ OvershootCounted'
    <3>1. LedgerFits'
      BY <2>1 DEF LedgerFits
    <3>2. \A v \in Chats : DOMAIN ScopesOf[v] \subseteq Nat \ {0}
      BY DEF CallsConfigured
    <3>3. chat \in [Chats -> ChatRecords]
      BY DEF CallsFit
    <3>4. \A s : MayCharge(s)' \subseteq MayCharge(s)
      <4>1. ASSUME NEW s, NEW v \in MayCharge(s)', v # w PROVE v \in MayCharge(s)
        BY <2>1, <3>3, <4>1 DEF MayCharge
      <4>2. chat'[w] = next
        BY <2>1, <3>3
      <4>3. ASSUME NEW s, w \in MayCharge(s)' PROVE w \in MayCharge(s)
        <5>1. next.phase # "idle" /\ ~(next.phase = "quota" /\ next.scope = 1)
          BY <3>2, <4>2, <4>3 DEF MayCharge
        <5> QED
          BY <2>1, <4>2, <4>3, <5>1 DEF MayCharge
      <4> QED
        BY <4>1, <4>3
    <3>5. ASSUME NEW s \in Scopes, NEW p \in UsageKinds PROVE ModelUsageSum(s, p)' <= ModelUsageSum(s, p)
      BY <2>1, UsageStays
    <3> QED
      BY <2>1, <3>1, <3>4, <3>5, CountStays DEF OvershootCounted
  <2>2. ASSUME UNCHANGED <<chat, lastSeen>>, LedgerFits',
               \A s \in Scopes, p \in UsageKinds : ModelUsageSum(s, p)' <= ModelUsageSum(s, p)
        PROVE  OvershootCounted'
    <3>1. \A s : MayCharge(s)' \subseteq MayCharge(s)
      BY <2>2 DEF MayCharge
    <3> QED
      BY <2>2, <3>1, CountStays DEF OvershootCounted
  <2>3. ASSUME NEW periods \in SUBSET UsageKinds, PeriodBegins(periods) PROVE LedgerFits' /\ OvershootCounted'
    <3>1. /\ ledger' = [c \in DOMAIN ledger |-> [ledger[c] EXCEPT !.periods = ledger[c].periods \ periods]]
          /\ UNCHANGED <<usageRow, chat, lastSeen>>
      BY <2>3 DEF PeriodBegins
    <3>2. ASSUME NEW c \in DOMAIN ledger
          PROVE  /\ IsUsage(ledger'[c]) /\ ledger'[c].amount = ledger[c].amount
                 /\ ledger'[c].scopes = ledger[c].scopes /\ ledger'[c].periods \subseteq ledger[c].periods
      <4>1. IsUsage(ledger[c])
        BY DEF LedgerFits
      <4>2. PICK r : r = ledger[c]
        OBVIOUS
      <4>3. ledger'[c] = [r EXCEPT !.periods = r.periods \ periods]
        BY <3>1, <4>2
      <4>4. r = [scopes |-> r.scopes, amount |-> r.amount, periods |-> r.periods] /\ r.amount \in Nat
        BY <4>1, <4>2 DEF IsUsage
      <4>5. ledger'[c] = [scopes |-> r.scopes, amount |-> r.amount, periods |-> r.periods \ periods]
        BY ONLY <4>3, <4>4
      <4> QED
        BY <4>2, <4>4, <4>5 DEF IsUsage
    <3>3. DOMAIN ledger' = DOMAIN ledger
      BY <3>1
    <3>4. LedgerFits'
      <4>1. \A c \in DOMAIN ledger' : IsUsage(ledger'[c])
        BY <3>2, <3>3
      <4>2. IsFiniteSet(DOMAIN ledger')
        BY <3>3 DEF LedgerFits
      <4> QED
        BY <3>1, <4>1, <4>2 DEF LedgerFits, IsUsage
    <3>5. ASSUME NEW s \in Scopes, NEW p \in UsageKinds PROVE ModelUsageSum(s, p)' <= ModelUsageSum(s, p)
      <4> DEFINE old == ChargedTo(s, p)
      <4> DEFINE new == ChargedTo(s, p)'
      <4>1. new \subseteq old
        BY <3>2, <3>3 DEF ChargedTo
      <4>2. \A c \in new : ledger'[c].amount = ledger[c].amount
        BY <3>2, <3>3 DEF ChargedTo
      <4>3. /\ IsFiniteSet(new) /\ IsFiniteSet(old) /\ \A c \in old : ledger[c].amount \in Nat
            /\ ModelUsageSum(s, p)' = SumOf(ledger', new) /\ ModelUsageSum(s, p) = SumOf(ledger, old)
        BY <3>4, UsageIsANumber, UsageStaysANumber
      <4> HIDE DEF new, old
      <4>4. SumOf(ledger', new) = SumOf(ledger, new)
        BY <4>2, <4>3, SumOfSame
      <4>5. SumOf(ledger, new) <= SumOf(ledger, old)
        BY <4>1, <4>3, SumAdds
      <4> QED
        BY <4>3, <4>4, <4>5
    <3> QED
      BY <2>2, <3>1, <3>4, <3>5
  <2>4. ASSUME NEW s \in Scopes, UpsertRuntimeLimits(s) PROVE LedgerFits' /\ OvershootCounted'
    <3>1. PICK row \in UsageRows[s] : usageRow' = [usageRow EXCEPT ![s] = row]
      BY <2>4 DEF UpsertRuntimeLimits
    <3>2. \A k \in DOMAIN row : row[k] \in Int
      BY <3>1 DEF CallsConfigured
    <3>3. UNCHANGED <<ledger, chat, lastSeen>>
      BY <2>4 DEF UpsertRuntimeLimits
    <3>4. LedgerFits'
      BY <3>1, <3>2, <3>3 DEF LedgerFits
    <3>5. ASSUME NEW q \in Scopes, NEW p \in UsageKinds PROVE ModelUsageSum(q, p)' <= ModelUsageSum(q, p)
      BY <3>3, UsageStays
    <3> QED
      BY <2>2, <3>3, <3>4, <3>5
  <2>5. ASSUME NEW w \in Chats, BeginChat(w) \/ StartModelCall(w) \/ CallAnswers(w) \/ CallFails(w) \/ CrashInChat(w)
        PROVE  LedgerFits' /\ OvershootCounted'
    <3>1. UNCHANGED <<usageRow, ledger, lastSeen>>
      BY <2>5 DEF BeginChat, StartModelCall, CallAnswers, CallFails, CrashInChat
    <3> DEFINE Begins(next) == \/ next.phase = "idle"
                              \/ (next.phase = "quota" /\ next.scope = 1)
                              \/ (next.phase \in {"calling", "answered"} /\ chat[w].phase \in {"start", "calling"})
    <3>2. ASSUME NEW next, chat' = [chat EXCEPT ![w] = next], Begins(next) PROVE LedgerFits' /\ OvershootCounted'
      BY <2>1, <3>1, <3>2
    <3>3. CASE ChatBecomes(w, NoChat)
      <4>1. Begins(NoChat)
        <5>1. NoChat.phase = "idle"
          BY DEF NoChat
        <5> QED
          BY <5>1
      <4> QED
        BY <3>2, <3>3, <4>1 DEF ChatBecomes
    <3>4. CASE \E c : ChatBecomes(w, AtScope(c, 1))
      <4>1. PICK c : ChatBecomes(w, AtScope(c, 1))
        BY <3>4
      <4>2. Begins(AtScope(c, 1))
        <5>1. AtScope(c, 1).phase = "quota" /\ AtScope(c, 1).scope = 1
          BY DEF AtScope
        <5> QED
          BY <5>1
      <4> QED
        BY <3>2, <4>1, <4>2 DEF ChatBecomes
    <3>5. CASE StartModelCall(w)
      <4>1. PICK c : ChatBecomes(w, [phase |-> "calling", cand |-> chat[w].cand, call |-> c]) /\ chat[w].phase = "start"
        BY <3>5 DEF StartModelCall
      <4>2. Begins([phase |-> "calling", cand |-> chat[w].cand, call |-> c])
        BY <4>1
      <4> QED
        BY <3>2, <4>1, <4>2 DEF ChatBecomes
    <3>6. CASE CallAnswers(w)
      <4>1. PICK a : ChatBecomes(w, [phase |-> "answered", call |-> chat[w].call, amount |-> a]) /\ chat[w].phase = "calling"
        BY <3>6 DEF CallAnswers
      <4>2. Begins([phase |-> "answered", call |-> chat[w].call, amount |-> a])
        BY <4>1
      <4> QED
        BY <3>2, <4>1, <4>2 DEF ChatBecomes
    <3> QED
      BY <2>5, <3>3, <3>4, <3>5, <3>6 DEF BeginChat, CallFails, CrashInChat
  <2>6. CASE UNCHANGED modelVars
    <3>1. LedgerFits'
      BY <2>6 DEF modelVars, LedgerFits
    <3>2. ASSUME NEW s \in Scopes, NEW p \in UsageKinds PROVE ModelUsageSum(s, p)' <= ModelUsageSum(s, p)
      BY <2>6, UsageStays DEF modelVars
    <3> QED
      BY <2>2, <2>6, <3>1, <3>2 DEF modelVars
  <2> QED
    BY <2>3, <2>4, <2>5, <2>6, CheckCounts, ChargeIsCounted DEF ModelNext
<1>3. LedgerFits /\ OvershootCounted => OvershootBounded
  <2> SUFFICES ASSUME LedgerFits, OvershootCounted, NEW s \in Scopes, NEW p \in UsageKinds, lastSeen[s][p] > 0
               PROVE  ModelUsageSum(s, p) < lastSeen[s][p] + Cardinality(Chats) * Max(Amounts)
    BY DEF OvershootBounded
  <2>1. ModelUsageSum(s, p) + Cardinality(MayCharge(s)) * Max(Amounts) < lastSeen[s][p] + Cardinality(Chats) * Max(Amounts)
    BY DEF OvershootCounted, ChargesCounted
  <2>2. Cardinality(MayCharge(s)) * Max(Amounts) \in Nat /\ Cardinality(Chats) * Max(Amounts) \in Nat
    BY ChargersAreFew, MaxAmount, MoreIsMore
  <2>3. ModelUsageSum(s, p) \in Nat /\ lastSeen[s][p] \in Int
    BY UsageIsANumber DEF LedgerFits, Kinds
  <2> QED
    BY ONLY <2>1, <2>2, <2>3
<1> QED
  BY <1>1, <1>2, <1>3, CallsAreKept, PTL DEF ModelSpec

-----------------------------------------------------------------------------
(* Access rules *)

AccessSpec == AccessInit /\ [][AccessNext]_accessVars

\* The baseline alone, which a lookup reads by its second statement.
Baseline == Effective([rules EXCEPT !["user"] = <<>>])

\* What a lookup read was in force since the last tick, or the lookup knows that
\* it was torn.  Between its statements the user's row is not there and the
\* baseline was in force, unless it was edited since.
ReadInForce(r) ==
  /\ reader[r].phase \in {"idle", "base", "read"}
  /\ reader[r].phase = "read" /\ ~reader[r].torn => reader[r].rule \in inForce[0]
  /\ reader[r].phase = "base" =>
       /\ reader[r].edits \subseteq {"user", "base"}
       /\ "user" \notin reader[r].edits => rules["user"] = <<>>
       /\ "base" \notin reader[r].edits => Baseline \in inForce[0]

\* What the cache keeps was in force when it was stored.
Recent ==
  /\ DOMAIN rules = {"user", "base"}
  /\ DOMAIN reader = Readers
  /\ DOMAIN inForce = 0..(CacheTTL - 1)
  /\ accessCache.left \in 0..CacheTTL
  /\ Effective(rules) \in inForce[0]
  /\ accessCache.left > 0 /\ ~accessCache.torn =>
       \E age \in DOMAIN inForce :
         age <= CacheTTL - accessCache.left /\ accessCache.rule \in inForce[age]
  /\ \A r \in Readers : ReadInForce(r)
  /\ DecisionsRecent

\* What was decided stays recent until the next tick.
LEMMA StaysRecent ==
  ASSUME DecisionsRecent, accessKind' = accessKind, decided' = decided, DOMAIN inForce' = DOMAIN inForce,
         \A age \in DOMAIN inForce : inForce[age] \subseteq inForce'[age]
  PROVE  DecisionsRecent'
<1>1. CASE decided.torn
  BY <1>1 DEF DecisionsRecent
<1>2. CASE ~decided.torn
  <2>1. PICK age \in DOMAIN inForce : \E rule \in inForce[age] : decided.granted = Granted(rule)
    BY <1>2 DEF DecisionsRecent
  <2>2. PICK rule \in inForce[age] : decided.granted = Granted(rule)
    BY <2>1
  <2>3. decided'.granted = Granted(rule)'
    BY <2>2 DEF Granted
  <2> QED
    BY <2>1, <2>2, <2>3 DEF DecisionsRecent
<1> QED
  BY <1>1, <1>2

\* A decision by a rule that was in force is recent.
LEMMA DecidedRecently ==
  ASSUME NEW rule, NEW torn, Decide(rule, torn), accessKind' = accessKind,
         torn \/ \E age \in DOMAIN inForce' : rule \in inForce'[age]
  PROVE  DecisionsRecent'
<1>1. decided'.torn = torn /\ decided'.granted = Granted(rule)'
  BY DEF Decide, Granted
<1> QED
  BY <1>1 DEF DecisionsRecent

\* A decision is by a rule that was in force within the life of a cache entry,
\* unless both rows were edited between the two statements of the lookup.
THEOREM DecisionsAreRecent ==
  ASSUME CacheTTL \in Nat \ {0}
  PROVE  AccessSpec => []DecisionsRecent
<1> USE DEF AccessKinds, NoEntry, NotReading
<1>1. AccessInit => Recent
  <2> SUFFICES ASSUME AccessInit PROVE Recent
    OBVIOUS
  <2>1. Effective(rules) = NoRule /\ inForce[0] = {NoRule}
    BY DEF AccessInit, Effective
  <2>2. DecisionsRecent
    BY SMTT(60), <2>1 DEF AccessInit, DecisionsRecent
  <2> QED
    BY <2>1, <2>2 DEF AccessInit, Recent, ReadInForce
<1>2. Recent /\ [AccessNext]_accessVars => Recent'
  <2> SUFFICES ASSUME Recent, [AccessNext]_accessVars PROVE Recent'
    OBVIOUS
  <2> USE DEF Recent, ReadInForce
  <2>1. ASSUME NEW k, NEW s \in {"user", "base"}, NEW row, EditRules(k, s, row) PROVE Recent'
    <3>1. /\ DOMAIN rules' = {"user", "base"} /\ DOMAIN reader' = Readers
          /\ DOMAIN inForce' = 0..(CacheTTL - 1)
          /\ inForce'[0] = inForce[0] \cup {Effective(rules')}
          /\ \A age \in DOMAIN inForce : inForce[age] \subseteq inForce'[age]
      BY <2>1 DEF EditRules
    <3>2. accessCache' = accessCache /\ decided' = decided /\ accessKind' = accessKind
      BY <2>1 DEF EditRules
    <3>3. DecisionsRecent'
      BY <3>1, <3>2, StaysRecent
    <3>4. ASSUME NEW r \in Readers
          PROVE  ReadInForce(r)'
      <4>1. CASE reader[r].phase # "base"
        BY <2>1, <3>1, <4>1 DEF EditRules
      <4>2. CASE reader[r].phase = "base"
        <5>1. reader'[r].phase = "base" /\ reader'[r].edits = reader[r].edits \cup {s}
          BY <2>1, <4>2 DEF EditRules
        <5>2. s = "user" => Baseline' = Baseline
          BY <2>1 DEF EditRules, Baseline, Effective
        <5>3. s = "base" => rules'["user"] = rules["user"]
          BY <2>1 DEF EditRules
        <5> QED
          BY <3>1, <4>2, <5>1, <5>2, <5>3
      <4> QED
        BY <4>1, <4>2
    <3> QED
      BY <3>1, <3>2, <3>3, <3>4
  <2>2. ASSUME NEW k, Invalidate(k) PROVE Recent'
    <3>1. DecisionsRecent'
      BY <2>2, StaysRecent DEF Invalidate
    <3>2. accessCache'.left = 0 /\ UNCHANGED <<rules, reader, inForce>>
      BY <2>2 DEF Invalidate
    <3>3. accessCache'.left \in 0..CacheTTL
      BY <3>2
    <3>4. Effective(rules') \in inForce'[0]
      BY <3>2
    <3>5. accessCache'.left > 0 /\ ~accessCache'.torn => FALSE
      BY <3>2
    <3>6. \A r \in Readers : ReadInForce(r)'
      BY <3>2 DEF Baseline
    <3> QED
      BY <3>1, <3>2, <3>3, <3>4, <3>5, <3>6
  <2>3. ASSUME NEW r \in Readers, UseCache(r) PROVE Recent'
    <3>1. DecisionsRecent'
      BY <2>3, DecidedRecently DEF UseCache
    <3> QED
      BY <2>3, <3>1 DEF UseCache, Baseline
  <2>4. ASSUME NEW r \in Readers, ReadUserRule(r) PROVE Recent'
    <3>1. rules["user"] # <<>> => Effective(rules) = rules["user"][1]
      BY DEF Effective
    <3>2. rules["user"] = <<>> => Baseline = Effective(rules)
      BY DEF Effective, Baseline
    <3>3. DecisionsRecent'
      BY <2>4, StaysRecent DEF ReadUserRule
    <3>4. reader'[r].phase \in {"base", "read"} /\ \A q \in Readers \ {r} : reader'[q] = reader[q]
      BY <2>4 DEF ReadUserRule
    <3> QED
      BY ZenonT(60), <2>4, <3>1, <3>2, <3>3, <3>4 DEF ReadUserRule, Baseline
  <2>5. ASSUME NEW r \in Readers, ReadBaseRule(r) PROVE Recent'
    <3>1. rules["user"] = <<>> => Baseline = Effective(rules)
      BY DEF Effective, Baseline
    <3>2. reader[r].edits = {"user", "base"} \/ Baseline \in inForce[0]
      BY <2>5, <3>1 DEF ReadBaseRule
    <3>3. DecisionsRecent'
      BY <2>5, StaysRecent DEF ReadBaseRule
    <3>4. /\ reader'[r].phase = "read" /\ reader'[r].rule = Baseline
          /\ reader'[r].torn = (reader[r].edits = {"user", "base"})
          /\ \A q \in Readers \ {r} : reader'[q] = reader[q]
      BY <2>5 DEF ReadBaseRule, Baseline
    <3> QED
      BY <2>5, <3>2, <3>3, <3>4 DEF ReadBaseRule, Baseline
  <2>6. ASSUME NEW r \in Readers, StoreAccess(r) PROVE Recent'
    <3>1. reader[r].torn \/ reader[r].rule \in inForce[0]
      BY <2>6 DEF StoreAccess
    <3>2. DecisionsRecent'
      BY <2>6, <3>1, DecidedRecently DEF StoreAccess
    <3>3. /\ accessCache'.rule = reader[r].rule /\ accessCache'.torn = reader[r].torn
          /\ accessCache'.left = CacheTTL /\ UNCHANGED <<rules, inForce>>
      BY <2>6 DEF StoreAccess
    <3>4. /\ DOMAIN reader' = Readers /\ reader'[r].phase = "idle"
          /\ \A q \in Readers \ {r} : reader'[q] = reader[q]
      BY <2>6 DEF StoreAccess
    <3>5. 0 \in DOMAIN inForce /\ 0 <= CacheTTL - CacheTTL
      OBVIOUS
    <3>6. ~accessCache'.torn =>
            \E age \in DOMAIN inForce' :
              age <= CacheTTL - accessCache'.left /\ accessCache'.rule \in inForce'[age]
      BY <3>1, <3>3, <3>5
    <3>7. ASSUME NEW q \in Readers
          PROVE  ReadInForce(q)'
      BY <3>3, <3>4 DEF Baseline
    <3> QED
      BY <3>2, <3>3, <3>4, <3>6, <3>7
  <2>7. CASE AccessTick
    <3>1. /\ DOMAIN inForce' = 0..(CacheTTL - 1)
          /\ inForce'[0] = {Effective(rules)}
          /\ \A age \in DOMAIN inForce : age # 0 => inForce'[age] = inForce[age - 1]
      BY <2>7 DEF AccessTick
    <3>2. UNCHANGED <<rules, reader, accessKind>>
      BY <2>7 DEF AccessTick
    <3>3. /\ accessCache'.left = (IF accessCache.left > 0 THEN accessCache.left - 1 ELSE 0)
          /\ accessCache'.rule = accessCache.rule /\ accessCache'.torn = accessCache.torn
      BY <2>7 DEF AccessTick
    <3>4. ASSUME accessCache'.left > 0, ~accessCache'.torn
          PROVE  \E age \in DOMAIN inForce' :
                   age <= CacheTTL - accessCache'.left /\ accessCache'.rule \in inForce'[age]
      <4>1. PICK age \in DOMAIN inForce :
              age <= CacheTTL - accessCache.left /\ accessCache.rule \in inForce[age]
        BY <3>3, <3>4
      <4>2. /\ age + 1 \in DOMAIN inForce /\ inForce'[age + 1] = inForce[age]
            /\ age + 1 <= CacheTTL - accessCache'.left
        BY SMTT(60), <3>1, <3>3, <3>4, <4>1
      <4> QED
        BY <3>1, <3>3, <4>1, <4>2
    <3>5. DecisionsRecent'
      BY <2>7, <3>1, <3>2 DEF AccessTick, DecisionsRecent, Granted
    <3>6. \A r \in Readers : reader[r].phase = "idle"
      BY <2>7 DEF AccessTick
    <3> QED
      BY <3>1, <3>2, <3>3, <3>4, <3>5, <3>6
  <2>8. CASE UNCHANGED accessVars
    BY ZenonT(60), <2>8 DEF accessVars, DecisionsRecent, Granted, Baseline
  <2> QED
    BY <2>1, <2>2, <2>3, <2>4, <2>5, <2>6, <2>7, <2>8
       DEF AccessNext, UpsertToolAccessRule, UpsertMCPToolAccessRule,
           UpsertAgentDelegationAccessRule, DeleteToolAccessRule, DeleteMCPToolAccessRule,
           DeleteAgentDelegationAccessRule, InvalidateToolAccess, InvalidateMCPToolAccess,
           InvalidateAgentDelegationAccess, EffectiveToolAccess, EffectiveMCPToolAccess,
           EffectiveAgentDelegationAccess, Lookup
<1>3. Recent => DecisionsRecent
  BY DEF Recent
<1> QED
  BY <1>1, <1>2, <1>3, PTL DEF AccessSpec

-----------------------------------------------------------------------------
(* The tool loop *)

LoopSpec == ToolInit /\ [][ToolNext]_toolVars

Busy   == {"plan", "execute", "graph"}
Phases == Busy \cup {"model", "failing", "asking", "answered", "stopped"}

LoopRow ==
  [phase : Phases, first : {"model", "graph"}, iteration : Nat, defs : BOOLEAN, blocked : BOOLEAN,
   executed : BOOLEAN, reply : Seq(Calls), todo : SUBSET Nat, memo : SUBSET AnyCall, extra : Nat]
CallingRow == [at : Nat, row : Nat, stage : {"none", "recorded", "effected"}]
ToolRow ==
  [call : AnyCall, by : {"loop", "node", "overtaken"}, life : Lives, extra : Nat, done : BOOLEAN]

\* A batch is of the reply; in a workflow that a call began, that call is the next.
BatchFits(l) ==
  /\ l.todo \subseteq DOMAIN l.reply
  /\ l.phase \notin Busy => l.todo = {}
  /\ l.phase = "graph" => \A i \in l.todo : (\A j \in l.todo : i <= j) => l.reply[i].kind = "workflow"

\* A call in progress is the next of its batch, no row answers it, and it has a row.
InProgress(n) ==
  /\ loop[n].phase = "execute" /\ calling[n].at \in loop[n].todo
  /\ \A j \in loop[n].todo : calling[n].at <= j
  /\ Called(n) \notin loop[n].memo
  /\ calling[n].row \in DOMAIN rows /\ rows[calling[n].row].call = Called(n)

LoopTyped ==
  /\ loop \in [Lives -> LoopRow] /\ calling \in [Lives -> CallingRow] /\ rows \in Seq(ToolRow)
  /\ effects \in [EffectCalls -> Nat] /\ struck \in [EffectCalls -> Nat] /\ overtaken \in [EffectCalls -> Nat]
  /\ taken \in 0..Interruptions

LoopFits ==
  /\ LoopTyped
  /\ \A n \in Lives : BatchFits(loop[n])
  /\ \A n \in Lives : IF calling[n].stage = "none" THEN calling[n] = NoCall ELSE InProgress(n)
  /\ \A n \in Lives : n > Current => loop[n].phase = "stopped"

\* What of a worker's place says which calls it has still to make.
Batch(l) == <<l.phase, l.reply, l.todo, l.memo>>

-----------------------------------------------------------------------------
\* Steps of a worker that calls nothing meanwhile.
Quiet(n, l) ==
  /\ calling[n] = NoCall /\ loop[n].phase # "stopped"
  /\ Moves(n, l) /\ l \in LoopRow /\ BatchFits(l)
  /\ UNCHANGED <<calling, rows, Counts>>

BatchBegins(n, l) == n = Current /\ loop[n].phase = "model" /\ l.phase = "plan"

BatchIsPlanned(n, l) ==
  /\ loop[n].phase = "plan" /\ l.phase = "execute"
  /\ l.reply = loop[n].reply /\ l.todo = loop[n].todo
  /\ l.memo = CompletedNonRetryableToolCalls /\ l.extra = 0
  /\ MaxToolCalls > 0 => Len(rows) + Cardinality(Planned(l.reply, l.todo, l.memo)) <= MaxToolCalls

TurnPasses(n, l) ==
  /\ loop[n].phase \in {"execute", "graph"} /\ l.phase \in {"execute", "graph"}
  /\ l.reply = loop[n].reply /\ l.memo = loop[n].memo /\ l.extra = loop[n].extra
  /\ \/ l.todo = loop[n].todo
     \/ \E i \in loop[n].todo :
          /\ \A j \in loop[n].todo : i <= j
          /\ loop[n].reply[i].kind = "effect" => loop[n].reply[i] \in loop[n].memo
          /\ l.todo = loop[n].todo \ {i}

QuietStep(n) ==
  \E l : Quiet(n, l) /\ (l.todo = {} \/ BatchBegins(n, l) \/ BatchIsPlanned(n, l) \/ TurnPasses(n, l))

\* A worker that begins has no batch.
LEMMA FreshFits ==
  ASSUME NEW b \in BOOLEAN, NEW first \in {"model", "graph"}
  PROVE  /\ Fresh(b, first) \in LoopRow /\ BatchFits(Fresh(b, first))
         /\ Fresh(b, first).todo = {}
<1>1. <<>> \in Seq(Calls)
  OBVIOUS
<1> QED
  BY <1>1 DEF Fresh, LoopRow, BatchFits, Phases, Busy

\* One that is through with the loop keeps none.
LEMMA LeavesFits ==
  ASSUME NEW l \in LoopRow, NEW phase \in Phases \ Busy
  PROVE  /\ Leaves(l, phase) \in LoopRow /\ BatchFits(Leaves(l, phase))
         /\ Leaves(l, phase).todo = {} /\ Leaves(l, phase).phase = phase
<1>1. PICK fresh \in LoopRow : fresh = Fresh(l.blocked, l.first) /\ fresh.todo = {}
  BY FreshFits DEF LoopRow
<1>2. Leaves(l, phase) = [fresh EXCEPT !.phase = phase]
  BY <1>1 DEF Leaves
<1>3. /\ Leaves(l, phase) \in LoopRow
      /\ Leaves(l, phase).todo = {} /\ Leaves(l, phase).phase = phase
  BY <1>1, <1>2 DEF LoopRow
<1> QED
  BY <1>3 DEF BatchFits, Busy

\* Nor does one at the next iteration.
LEMMA NextIterationFits ==
  ASSUME NEW l \in LoopRow, l.todo = {}
  PROVE  /\ NextIteration(l) \in LoopRow /\ BatchFits(NextIteration(l))
         /\ NextIteration(l).todo = {}
<1>1. CASE l.iteration = MaxIterations
  BY <1>1, LeavesFits DEF NextIteration, Phases, Busy
<1>2. CASE l.iteration # MaxIterations
  <2>1. NextIteration(l) = [l EXCEPT !.phase = "model", !.iteration = l.iteration + 1, !.reply = <<>>, !.memo = {}]
    BY <1>2 DEF NextIteration
  <2>2. <<>> \in Seq(Calls) /\ l.iteration + 1 \in Nat
    BY DEF LoopRow
  <2>3. NextIteration(l) \in LoopRow /\ NextIteration(l).todo = {} /\ NextIteration(l).phase = "model"
    BY <2>1, <2>2 DEF LoopRow, Phases
  <2> QED
    BY <2>3 DEF BatchFits, Busy
<1> QED
  BY <1>1, <1>2

\* A worker in the loop.
LEMMA WorkerFits ==
  ASSUME LoopFits, NEW n \in Lives
  PROVE  /\ loop[n] \in LoopRow /\ BatchFits(loop[n])
         /\ calling[n] \in CallingRow
         /\ loop[n].phase # "execute" => calling[n] = NoCall
  BY DEF LoopFits, LoopTyped, InProgress

\* Steps after which the worker has no batch.
LEMMA LeavingSteps ==
  ASSUME LoopFits, NEW n \in Lives,
         ModelAnswers(n) \/ CallsSuppressed(n, TRUE) \/ CallsSuppressed(n, FALSE) \/ ModelFails(n)
           \/ LeaseIsLost(n) \/ RunCompletes(n) \/ ToolRefused(n) \/ RunFails(n) \/ AskUser(n)
           \/ BatchCompletes(n)
  PROVE  QuietStep(n)
<1>1. calling[n] = NoCall /\ loop[n].phase # "stopped" /\ UNCHANGED <<calling, rows, Counts>>
  BY WorkerFits DEF ModelAnswers, CallsSuppressed, ModelFails, LeaseIsLost, RunCompletes, ToolRefused,
     RunFails, AskUser, BatchCompletes, InModel, Executing, LoopFits, InProgress
<1>2. SUFFICES ASSUME TRUE PROVE \E l : Moves(n, l) /\ l \in LoopRow /\ BatchFits(l) /\ l.todo = {}
  BY <1>1 DEF QuietStep, Quiet
<1>3. loop[n] \in LoopRow /\ BatchFits(loop[n])
  BY WorkerFits
<1>4. ASSUME NEW phase \in Phases \ Busy, LoopBecomes(n, phase)
      PROVE  \E l : Moves(n, l) /\ l \in LoopRow /\ BatchFits(l) /\ l.todo = {}
  BY <1>3, <1>4, LeavesFits DEF LoopBecomes
<1>5. ASSUME NEW l \in LoopRow, l.todo = {}, Moves(n, NextIteration(l))
      PROVE  \E k : Moves(n, k) /\ k \in LoopRow /\ BatchFits(k) /\ k.todo = {}
  BY <1>5, NextIterationFits
<1>6. CASE ModelFails(n) \/ LeaseIsLost(n) \/ RunCompletes(n) \/ ToolRefused(n) \/ RunFails(n) \/ AskUser(n)
  BY <1>4, <1>6 DEF ModelFails, LeaseIsLost, RunCompletes, ToolRefused, RunFails, AskUser, Phases, Busy
<1>7. CASE ModelAnswers(n) \/ CallsSuppressed(n, TRUE) \/ CallsSuppressed(n, FALSE)
  <2>1. loop[n].todo = {}
    BY <1>3, <1>7 DEF BatchFits, ModelAnswers, CallsSuppressed, InModel, Busy
  <2>2. [loop[n] EXCEPT !.defs = FALSE] \in LoopRow /\ [loop[n] EXCEPT !.defs = FALSE].todo = {}
    BY <1>3, <2>1 DEF LoopRow
  <2>3. \/ Moves(n, NextIteration(loop[n])) \/ Moves(n, NextIteration([loop[n] EXCEPT !.defs = FALSE]))
        \/ LoopBecomes(n, "answered")
    BY <1>7 DEF ModelAnswers, CallsSuppressed, LoopBecomes
  <2>4. "answered" \in Phases \ Busy
    BY DEF Phases, Busy
  <2> QED
    BY <1>3, <1>4, <1>5, <2>1, <2>2, <2>3, <2>4
<1>8. CASE BatchCompletes(n)
  <2>1. loop[n].todo = {}
    BY <1>8 DEF BatchCompletes
  <2>2. [loop[n] EXCEPT !.executed = TRUE] \in LoopRow /\ [loop[n] EXCEPT !.executed = TRUE].todo = {}
    BY <1>3, <2>1 DEF LoopRow
  <2>3. Moves(n, NextIteration([loop[n] EXCEPT !.executed = TRUE])) \/ LoopBecomes(n, "stopped")
    BY <1>8 DEF BatchCompletes, LoopBecomes
  <2>4. "stopped" \in Phases \ Busy
    BY DEF Phases, Busy
  <2> QED
    BY <1>4, <1>5, <2>2, <2>3, <2>4
<1> QED
  BY <1>6, <1>7, <1>8

\* The model answers with calls.
LEMMA CallingSteps ==
  ASSUME LoopConfigured, LoopFits, NEW n \in Lives, ModelCalls(n)
  PROVE  QuietStep(n)
<1>1. PICK reply \in Replies :
        Moves(n, [loop[n] EXCEPT !.phase = "plan", !.reply = reply, !.todo = ToolCallsForExecution(loop[n], reply)])
  BY DEF ModelCalls
<1>2. PICK todo : todo = ToolCallsForExecution(loop[n], reply)
  OBVIOUS
<1>3. PICK l : l = [loop[n] EXCEPT !.phase = "plan", !.reply = reply, !.todo = todo]
  OBVIOUS
<1>4. reply \in Seq(Calls) /\ todo \subseteq DOMAIN reply /\ todo \in SUBSET Nat
  BY <1>2 DEF LoopConfigured, ToolCallsForExecution
<1>5. l \in LoopRow /\ l.phase = "plan" /\ l.todo = todo /\ l.reply = reply
  BY <1>3, <1>4, WorkerFits DEF LoopRow, Phases, Busy
<1>6. BatchFits(l)
  BY <1>4, <1>5 DEF BatchFits, Busy
<1>7. Moves(n, l)
  BY <1>1, <1>2, <1>3
<1> QED
  BY <1>5, <1>6, <1>7, WorkerFits DEF QuietStep, Quiet, BatchBegins, ModelCalls, InModel

\* What has a result is a call of a row.
LEMMA ResultsAreCalls ==
  ASSUME LoopFits PROVE CompletedNonRetryableToolCalls \in SUBSET AnyCall
<1>1. \A i \in DOMAIN rows : rows[i] \in ToolRow
  BY DEF LoopFits, LoopTyped
<1> QED
  BY <1>1 DEF CompletedNonRetryableToolCalls, ToolRow

\* What is planned of a batch is finite.
LEMMA PlansAreFinite ==
  ASSUME NEW l \in LoopRow, NEW todo \in SUBSET DOMAIN l.reply, NEW memo
  PROVE  /\ IsFiniteSet(Planned(l.reply, todo, memo))
         /\ Cardinality(Planned(l.reply, todo, memo)) \in Nat
<1>1. PICK n \in Nat : n = Len(l.reply) /\ DOMAIN l.reply = 1..n
  BY DEF LoopRow
<1>2. PICK plan : plan = Planned(l.reply, todo, memo) /\ plan \subseteq 1..n
  BY <1>1 DEF Planned
<1>3. IsFiniteSet(plan)
  <2>1. IsFiniteSet(1..n)
    BY FS_Interval
  <2> QED
    BY <1>2, <2>1, FS_Subset
<1> QED
  BY <1>2, <1>3, FS_CardinalityType

\* The batch is planned, or is more than the budget allows.
LEMMA PlanningSteps ==
  ASSUME LoopConfigured, LoopFits, NEW n \in Lives, PlanBatch(n)
  PROVE  QuietStep(n)
<1>1. calling[n] = NoCall /\ loop[n] \in LoopRow /\ BatchFits(loop[n]) /\ loop[n].phase = "plan"
  BY WorkerFits DEF PlanBatch
<1>2. CASE LoopBecomes(n, "stopped")
  BY <1>1, <1>2, LeavesFits DEF LoopBecomes, QuietStep, Quiet, PlanBatch, Phases, Busy
<1>3. CASE ~LoopBecomes(n, "stopped")
  <2>1. PICK memo : memo = CompletedNonRetryableToolCalls /\ memo \in SUBSET AnyCall
    BY ResultsAreCalls
  <2>2. PICK l : l = [loop[n] EXCEPT !.phase = "execute", !.memo = memo, !.extra = 0]
    OBVIOUS
  <2>3. /\ l \in LoopRow /\ l.phase = "execute" /\ l.todo = loop[n].todo /\ l.reply = loop[n].reply
        /\ l.memo = memo /\ l.extra = 0
    BY <1>1, <2>1, <2>2 DEF LoopRow, Phases, Busy
  <2>4. BatchFits(l)
    BY <1>1, <2>3 DEF BatchFits, Busy
  <2>5. /\ ~(MaxToolCalls > 0 /\ Len(rows) + Cardinality(Planned(loop[n].reply, loop[n].todo, memo)) > MaxToolCalls)
        /\ Moves(n, l)
    BY <1>3, <2>1, <2>2 DEF PlanBatch, ToolExecutionCount, PlannedToolExecutions
  <2>6. /\ Len(rows) \in Nat /\ MaxToolCalls \in Nat
        /\ Cardinality(Planned(loop[n].reply, loop[n].todo, memo)) \in Nat
    <3>1. Len(rows) \in Nat /\ MaxToolCalls \in Nat
      BY DEF LoopFits, LoopTyped, LoopConfigured, MaxToolCalls
    <3>2. loop[n].todo \in SUBSET DOMAIN loop[n].reply
      BY <1>1 DEF BatchFits
    <3> QED
      BY <1>1, <3>1, <3>2, PlansAreFinite
  <2>7. BatchIsPlanned(n, l)
    BY <1>1, <2>1, <2>3, <2>5, <2>6 DEF BatchIsPlanned
  <2> QED
    BY <1>1, <2>3, <2>4, <2>5, <2>7 DEF QuietStep, Quiet, PlanBatch
<1> QED
  BY <1>2, <1>3

\* A call is answered from its row, or is of a workflow.
LEMMA PassingSteps ==
  ASSUME LoopFits, NEW n \in Lives, ReuseResult(n) \/ RunWorkflow(n) \/ WorkflowReturns(n)
  PROVE  QuietStep(n)
<1>1. /\ calling[n] = NoCall /\ loop[n] \in LoopRow /\ BatchFits(loop[n])
      /\ loop[n].phase \in {"execute", "graph"} /\ UNCHANGED <<calling, rows, Counts>>
  BY WorkerFits DEF ReuseResult, RunWorkflow, WorkflowReturns, Executing
<1>2. loop[n].todo \in SUBSET Nat /\ loop[n].reply \in Seq(Calls)
  BY <1>1 DEF LoopRow
<1>3. ASSUME NEW i \in loop[n].todo, \A j \in loop[n].todo : i <= j,
             loop[n].reply[i].kind = "effect" => loop[n].reply[i] \in loop[n].memo,
             NEW l \in LoopRow, Batch(l) = <<"execute", loop[n].reply, loop[n].todo \ {i}, loop[n].memo>>,
             l.extra = loop[n].extra, Moves(n, l)
      PROVE  QuietStep(n)
  <2>1. BatchFits(l)
    BY <1>1, <1>3 DEF BatchFits, Batch, Busy
  <2>2. TurnPasses(n, l)
    BY <1>1, <1>3 DEF TurnPasses, Batch
  <2> QED
    BY <1>1, <1>3, <2>1, <2>2 DEF QuietStep, Quiet
<1>4. ASSUME ReuseResult(n) PROVE QuietStep(n)
  <2>1. PICK i \in loop[n].todo :
          /\ Executing(n, i, {"effect"}) /\ loop[n].reply[i] \in loop[n].memo /\ Moves(n, Advance(loop[n], i))
    BY <1>4 DEF ReuseResult
  <2>2. PICK l : l = Advance(loop[n], i)
    OBVIOUS
  <2>3. l \in LoopRow /\ Batch(l) = <<"execute", loop[n].reply, loop[n].todo \ {i}, loop[n].memo>> /\ l.extra = loop[n].extra
    BY <1>1, <2>1, <2>2 DEF Advance, Batch, Executing, LoopRow
  <2> QED
    BY <1>3, <2>1, <2>2, <2>3 DEF Executing
<1>5. ASSUME RunWorkflow(n) PROVE QuietStep(n)
  <2>1. PICK i \in loop[n].todo : Executing(n, i, {"workflow"})
    BY <1>5 DEF RunWorkflow
  <2>2. PICK l : l = [loop[n] EXCEPT !.phase = "graph"]
    OBVIOUS
  <2>3. l \in LoopRow /\ Batch(l) = <<"graph", loop[n].reply, loop[n].todo, loop[n].memo>> /\ l.extra = loop[n].extra
    BY <1>1, <2>2 DEF Batch, LoopRow, Phases, Busy
  <2>4. \A k \in loop[n].todo : (\A j \in loop[n].todo : k <= j) => k = i
    <3>1. i \in Nat /\ (\A j \in loop[n].todo : i <= j) /\ \A k \in loop[n].todo : k \in Nat
      BY <1>2, <2>1 DEF Executing
    <3> QED
      BY ONLY <3>1
  <2>5. BatchFits(l)
    BY <1>1, <2>1, <2>3, <2>4 DEF BatchFits, Batch, Executing, Busy
  <2>6. TurnPasses(n, l)
    BY <1>1, <2>3 DEF TurnPasses, Batch
  <2> QED
    BY <1>1, <1>5, <2>2, <2>3, <2>5, <2>6 DEF QuietStep, Quiet, RunWorkflow
<1>6. ASSUME WorkflowReturns(n) PROVE QuietStep(n)
  <2>1. loop[n].phase = "graph"
    BY <1>6 DEF WorkflowReturns
  <2>2. CASE LoopBecomes(n, "asking") \/ LoopBecomes(n, "failing")
    BY <1>1, <2>1, <2>2, LeavesFits DEF LoopBecomes, QuietStep, Quiet, Phases, Busy
  <2>3. CASE loop[n].todo = {} /\ Moves(n, [loop[n] EXCEPT !.phase = "model"])
    <3>1. PICK l : l = [loop[n] EXCEPT !.phase = "model"]
      OBVIOUS
    <3>2. l \in LoopRow /\ l.todo = {} /\ l.phase = "model"
      BY <1>1, <2>3, <3>1 DEF LoopRow, Phases
    <3>3. BatchFits(l)
      BY <3>2 DEF BatchFits
    <3> QED
      BY <1>1, <2>1, <2>3, <3>1, <3>2, <3>3 DEF QuietStep, Quiet
  <2>4. ASSUME NEW i \in loop[n].todo, \A j \in loop[n].todo : i <= j,
               Moves(n, [Advance(loop[n], i) EXCEPT !.phase = "execute"])
        PROVE  QuietStep(n)
    <3>1. PICK l : l = [Advance(loop[n], i) EXCEPT !.phase = "execute"]
      OBVIOUS
    <3>2. l \in LoopRow /\ Batch(l) = <<"execute", loop[n].reply, loop[n].todo \ {i}, loop[n].memo>> /\ l.extra = loop[n].extra
      BY <1>1, <3>1 DEF Advance, Batch, LoopRow, Phases, Busy
    <3>3. loop[n].reply[i].kind = "workflow"
      BY <1>1, <2>1, <2>4 DEF BatchFits
    <3> QED
      BY <1>3, <2>4, <3>1, <3>2, <3>3
  <2> QED
    BY <1>6, <2>2, <2>3, <2>4 DEF WorkflowReturns
<1> QED
  BY <1>4, <1>5, <1>6

\* Every step is of one worker, quiet or of a call, or begins a life.
LEMMA LoopSteps ==
  ASSUME LoopConfigured, LoopFits, [ToolNext]_toolVars
  PROVE  \/ \E n \in Lives : QuietStep(n)
         \/ \E n \in Lives : \E kinds : StartCall(n, kinds) \/ Effect(n, kinds) \/ CompleteCall(n, kinds)
         \/ \E n \in Lives : StartNodeCall(n) \/ CompleteNodeCall(n)
         \/ TakeUpAgain \/ Overtake \/ UNCHANGED toolVars
<1>1. ASSUME NEW n \in Lives,
             ModelAnswers(n) \/ CallsSuppressed(n, TRUE) \/ CallsSuppressed(n, FALSE) \/ ModelCalls(n)
               \/ ModelFails(n) \/ LeaseIsLost(n) \/ RunCompletes(n) \/ PlanBatch(n) \/ ToolRefused(n)
               \/ ReuseResult(n) \/ RunFails(n) \/ AskUser(n) \/ BatchCompletes(n)
               \/ RunWorkflow(n) \/ WorkflowReturns(n)
      PROVE  QuietStep(n)
  BY <1>1, LeavingSteps, CallingSteps, PlanningSteps, PassingSteps
<1>2. ASSUME NEW n \in Lives,
             StartToolCall(n) \/ StartServerCall(n) \/ Execute(n) \/ CallServerTool(n)
               \/ CompleteToolCall(n) \/ CompleteServerCall(n)
      PROVE  \E kinds : StartCall(n, kinds) \/ Effect(n, kinds) \/ CompleteCall(n, kinds)
  BY <1>2 DEF StartToolCall, StartServerCall, Execute, CallServerTool, CompleteToolCall, CompleteServerCall
<1> QED
  BY <1>1, <1>2 DEF ToolNext

\* A row is added at the end.
LEMMA RowIsAdded ==
  ASSUME NEW S, NEW q \in Seq(S), NEW e \in S
  PROVE  /\ Append(q, e) \in Seq(S) /\ Len(Append(q, e)) = Len(q) + 1
         /\ DOMAIN Append(q, e) = 1..(Len(q) + 1) /\ DOMAIN q = 1..Len(q) /\ Len(q) \in Nat
         /\ \A i \in DOMAIN q : Append(q, e)[i] = q[i]
         /\ Append(q, e)[Len(q) + 1] = e
  OBVIOUS

\* A row is added for a call: the others stay, the workers too, and what comes from
\* elsewhere is counted.
LEMMA CallIsRecorded ==
  ASSUME LoopConfigured, LoopFits, UNCHANGED taken, NEW n \in Lives, NEW c \in AnyCall,
         NEW by \in {"loop", "node", "overtaken"}, RowAdded(n, c, by)
  PROVE  /\ loop' \in [Lives -> LoopRow]
         /\ \A m \in Lives : Batch(loop'[m]) = Batch(loop[m])
         /\ loop'[Current].extra = IF by = "loop" THEN loop[Current].extra ELSE loop[Current].extra + 1
         /\ rows' \in Seq(ToolRow) /\ Len(rows') = Len(rows) + 1
         /\ DOMAIN rows' = 1..(Len(rows) + 1) /\ DOMAIN rows = 1..Len(rows) /\ Len(rows) \in Nat
         /\ \A i \in DOMAIN rows : rows'[i] = rows[i]
         /\ rows'[Len(rows) + 1] = [call |-> c, by |-> by, life |-> n, extra |-> loop[n].extra, done |-> FALSE]
<1>1. PICK new : new = [call |-> c, by |-> by, life |-> n, extra |-> loop[n].extra, done |-> FALSE]
  OBVIOUS
<1>2. loop[n].extra \in Nat
  BY WorkerFits DEF LoopRow
<1>3. new \in ToolRow
  BY <1>1, <1>2 DEF ToolRow
<1>4. rows' = Append(rows, new) /\ rows \in Seq(ToolRow)
  BY <1>1 DEF RowAdded, LoopFits, LoopTyped
<1>5. Current \in Lives /\ loop \in [Lives -> LoopRow]
  BY DEF LoopFits, LoopTyped, LoopConfigured, Current, Lives
<1>6. /\ loop' \in [Lives -> LoopRow]
      /\ \A m \in Lives : Batch(loop'[m]) = Batch(loop[m])
      /\ loop'[Current].extra = IF by = "loop" THEN loop[Current].extra ELSE loop[Current].extra + 1
  <2>1. CASE by = "loop"
    BY <1>5, <2>1 DEF RowAdded
  <2>2. CASE by # "loop"
    <3>1. PICK cur \in Lives : cur = Current
      BY <1>5
    <3>2. loop' = [loop EXCEPT ![cur] = [loop[cur] EXCEPT !.extra = loop[cur].extra + 1]]
      BY <2>2, <3>1 DEF RowAdded
    <3>3. PICK old, l : old = loop[cur] /\ l = [old EXCEPT !.extra = old.extra + 1] /\ old \in LoopRow
      BY <1>5
    <3>4. /\ l \in LoopRow /\ l.extra = old.extra + 1
          /\ l.phase = old.phase /\ l.reply = old.reply /\ l.todo = old.todo /\ l.memo = old.memo
      BY <3>3 DEF LoopRow
    <3>5. Batch(l) = Batch(old)
      BY <3>4 DEF Batch
    <3>6. loop' = [loop EXCEPT ![cur] = l]
      BY <3>2, <3>3
    <3> QED
      BY <1>5, <2>2, <3>1, <3>3, <3>4, <3>5, <3>6
  <2> QED
    BY <2>1, <2>2
<1> QED
  BY <1>1, <1>3, <1>4, <1>6, RowIsAdded

\* A row is given its result.
LEMMA ResultIsStored ==
  ASSUME LoopFits, NEW r \in DOMAIN rows, rows' = [rows EXCEPT ![r].done = TRUE]
  PROVE  /\ rows' \in Seq(ToolRow) /\ DOMAIN rows' = DOMAIN rows /\ Len(rows') = Len(rows)
         /\ \A i \in DOMAIN rows : /\ rows'[i].call = rows[i].call /\ rows'[i].by = rows[i].by
                                   /\ rows'[i].extra = rows[i].extra
                                   /\ rows'[i].done <=> rows[i].done \/ i = r
<1>1. rows \in Seq(ToolRow) /\ \A i \in DOMAIN rows : rows[i] \in ToolRow
  BY DEF LoopFits, LoopTyped
<1>2. [rows[r] EXCEPT !.done = TRUE] \in ToolRow
  BY <1>1 DEF ToolRow
<1>3. rows' = [rows EXCEPT ![r] = [rows[r] EXCEPT !.done = TRUE]]
  OBVIOUS
<1>4. rows' \in Seq(ToolRow) /\ DOMAIN rows' = DOMAIN rows /\ Len(rows') = Len(rows)
  BY <1>1, <1>2, <1>3
<1>5. \A i \in DOMAIN rows : i # r => rows'[i] = rows[i]
  BY <1>3
<1>6. /\ rows'[r].call = rows[r].call /\ rows'[r].by = rows[r].by /\ rows'[r].extra = rows[r].extra
      /\ rows'[r].done
  BY <1>1, <1>3 DEF ToolRow
<1> QED
  BY <1>4, <1>5, <1>6

\* A call goes on while its worker's batch and its row are left alone.
LEMMA CallGoesOn ==
  ASSUME NEW n \in Lives, InProgress(n), calling'[n] = calling[n], Batch(loop'[n]) = Batch(loop[n]),
         \A i \in DOMAIN rows : i \in DOMAIN rows' /\ rows'[i].call = rows[i].call
  PROVE  InProgress(n)'
  BY DEF InProgress, Batch, Called

\* A batch that stays fits.
LEMMA BatchStays ==
  ASSUME NEW l, NEW k, Batch(l) = Batch(k), BatchFits(k)
  PROVE  BatchFits(l)
  BY DEF BatchFits, Batch

\* The call in progress.
LEMMA CalledIsCall ==
  ASSUME LoopFits, NEW n \in Lives, calling[n].stage # "none"
  PROVE  /\ InProgress(n) /\ Called(n) \in Calls /\ calling[n].at \in Nat /\ n <= Current
         /\ calling[n].row \in DOMAIN rows
<1>1. InProgress(n) /\ calling[n].at \in DOMAIN loop[n].reply /\ loop[n].reply \in Seq(Calls)
  <2>1. InProgress(n)
    BY DEF LoopFits
  <2>2. calling[n].at \in loop[n].todo
    BY <2>1 DEF InProgress
  <2> QED
    BY <2>1, <2>2, WorkerFits DEF LoopRow, BatchFits
<1>2. n <= Current
  BY <1>1 DEF LoopFits, LoopTyped, InProgress, Current, Lives
<1> QED
  BY <1>1, <1>2, WorkerFits DEF Called, InProgress, CallingRow

\* With the result the batch goes on, and remembers it if it may not be repeated, or
\* the run fails.
LEMMA CompletingSteps ==
  ASSUME LoopFits, NEW n \in Lives, NEW kinds, CompleteCall(n, kinds)
  PROVE  \E l \in LoopRow :
           /\ Moves(n, l) /\ BatchFits(l)
           /\ \/ l.todo = {}
              \/ /\ Batch(l) = <<"execute", loop[n].reply, loop[n].todo \ {calling[n].at},
                                 loop[n].memo \cup {c \in {Called(n)} : c.kind = "effect"}>>
                 /\ l.extra = loop[n].extra
<1>1. loop[n] \in LoopRow /\ BatchFits(loop[n]) /\ loop[n].phase = "execute" /\ Called(n) \in AnyCall
  BY WorkerFits, CalledIsCall DEF CompleteCall, InProgress, AnyCall
<1>2. CASE LoopBecomes(n, "failing")
  BY <1>1, <1>2, LeavesFits DEF LoopBecomes, Phases, Busy
<1>3. CASE ~LoopBecomes(n, "failing")
  <2>1. PICK memo, todo : /\ memo = loop[n].memo \cup {c \in {Called(n)} : c.kind = "effect"}
                          /\ todo = loop[n].todo \ {calling[n].at}
    OBVIOUS
  <2>2. PICK l : l = [loop[n] EXCEPT !.todo = todo, !.memo = memo]
    OBVIOUS
  <2>3. memo \in SUBSET AnyCall /\ todo \subseteq loop[n].todo
    BY <1>1, <2>1 DEF LoopRow
  <2>4. Moves(n, l)
    <3>1. Moves(n, [Advance(loop[n], calling[n].at) EXCEPT !.memo = @ \cup {c \in {Called(n)} : c.kind = "effect"}])
      BY <1>3 DEF CompleteCall
    <3>2. [Advance(loop[n], calling[n].at) EXCEPT !.memo = @ \cup {c \in {Called(n)} : c.kind = "effect"}] = l
      BY <1>1, <2>1, <2>2 DEF Advance, LoopRow
    <3> QED
      BY <3>1, <3>2
  <2>5. /\ l \in LoopRow /\ l.phase = "execute" /\ l.todo = todo /\ l.reply = loop[n].reply
        /\ l.memo = memo /\ l.extra = loop[n].extra
    BY <1>1, <2>2, <2>3 DEF LoopRow
  <2>6. BatchFits(l)
    BY <1>1, <2>3, <2>5 DEF BatchFits, Busy
  <2> QED
    BY <2>1, <2>4, <2>5, <2>6 DEF Batch
<1> QED
  BY <1>2, <1>3

\* A life begins, without a batch, beside the last, which is over or overtaken.
LEMMA LifeBegins ==
  ASSUME LoopConfigured, LoopFits, NEW old \in LoopRow, NewLife(old)
  PROVE  \E cur \in Lives, next \in Lives, fresh \in LoopRow :
           /\ cur = Current /\ next = Current + 1 /\ next = Current' /\ cur # next
           /\ BatchFits(fresh) /\ fresh.todo = {}
           /\ loop' = [loop EXCEPT ![cur] = old, ![next] = fresh]
<1>1. PICK cur \in Lives, next \in Lives : cur = Current /\ next = Current + 1 /\ next = Current' /\ cur # next
  BY DEF NewLife, Current, Lives, LoopFits, LoopTyped, LoopConfigured
<1>2. PICK fresh \in LoopRow : fresh = Fresh(old.blocked, old.first) /\ BatchFits(fresh) /\ fresh.todo = {}
  BY FreshFits DEF LoopRow
<1> QED
  BY <1>1, <1>2 DEF NewLife

\* The loop fits in every state.
LEMMA LoopKept ==
  ASSUME LoopConfigured
  PROVE  LoopSpec => []LoopFits
<1>1. ToolInit => LoopFits
  <2> SUFFICES ASSUME ToolInit PROVE LoopFits
    OBVIOUS
  <2>1. PICK b \in BOOLEAN, first \in {"model", "graph"} :
          loop = [n \in Lives |-> IF n = 1 THEN Fresh(b, first) ELSE NotBegun]
    BY DEF ToolInit
  <2>3. NotBegun \in LoopRow /\ BatchFits(NotBegun) /\ NotBegun.phase = "stopped"
    <3>1. PICK l \in LoopRow : l = Fresh(FALSE, "model") /\ l.todo = {}
      BY FreshFits
    <3>2. NotBegun = [l EXCEPT !.phase = "stopped"]
      BY <3>1 DEF NotBegun
    <3>3. NotBegun \in LoopRow /\ NotBegun.phase = "stopped" /\ NotBegun.todo = {}
      BY <3>1, <3>2 DEF LoopRow, Phases
    <3> QED
      BY <3>3 DEF BatchFits
  <2>4. loop \in [Lives -> LoopRow] /\ \A n \in Lives : BatchFits(loop[n]) /\ (n > 1 => loop[n].phase = "stopped")
    BY <2>1, <2>3, FreshFits
  <2>5. calling \in [Lives -> CallingRow] /\ \A n \in Lives : calling[n] = NoCall
    BY DEF ToolInit, CallingRow, NoCall
  <2>6. /\ rows \in Seq(ToolRow) /\ taken = 0 /\ Interruptions \in Nat
        /\ effects \in [EffectCalls -> Nat] /\ struck \in [EffectCalls -> Nat] /\ overtaken \in [EffectCalls -> Nat]
    BY DEF ToolInit, LoopConfigured
  <2> QED
    BY <2>4, <2>5, <2>6 DEF LoopFits, LoopTyped, NoCall, Current
<1>2. LoopFits /\ [ToolNext]_toolVars => LoopFits'
  <2> SUFFICES ASSUME LoopFits, [ToolNext]_toolVars PROVE LoopFits'
    OBVIOUS
  <2>0. /\ loop \in [Lives -> LoopRow] /\ calling \in [Lives -> CallingRow]
        /\ \A n \in Lives : BatchFits(loop[n])
        /\ Current \in Lives /\ taken \in 0..Interruptions /\ Interruptions \in Nat
    BY DEF LoopFits, LoopTyped, Current, Lives, LoopConfigured
  <2>1. ASSUME NEW n \in Lives, QuietStep(n) PROVE LoopFits'
    <3>1. PICK l : Quiet(n, l)
      BY <2>1 DEF QuietStep
    <3>2. /\ loop' = [loop EXCEPT ![n] = l] /\ l \in LoopRow /\ BatchFits(l) /\ calling[n] = NoCall
          /\ UNCHANGED <<calling, rows, effects, struck, overtaken, taken>>
      BY <3>1 DEF Quiet, Moves, Counts
    <3>3. n <= Current
      BY <2>0, <3>1 DEF Quiet, LoopFits, Current, Lives
    <3>4. LoopTyped' /\ \A m \in Lives : BatchFits(loop'[m])
      BY <2>0, <3>2 DEF LoopFits, LoopTyped
    <3>5. \A m \in Lives : m > Current' => loop'[m].phase = "stopped"
      BY <2>0, <3>2, <3>3 DEF LoopFits, Current, Lives
    <3>6. ASSUME NEW m \in Lives
          PROVE  IF calling'[m].stage = "none" THEN calling'[m] = NoCall ELSE InProgress(m)'
      <4>1. CASE m = n
        BY <3>2, <4>1 DEF NoCall
      <4>2. CASE m # n
        BY <2>0, <3>2, <4>2, CallGoesOn DEF LoopFits
      <4> QED
        BY <4>1, <4>2
    <3> QED
      BY <3>4, <3>5, <3>6 DEF LoopFits
  <2>2. ASSUME NEW n \in Lives, NEW kinds, StartCall(n, kinds) PROVE LoopFits'
    <3>1. PICK i \in loop[n].todo, by \in {"loop", "node", "overtaken"} :
            /\ Executing(n, i, kinds) /\ loop[n].reply[i] \notin loop[n].memo
            /\ RowAdded(n, loop[n].reply[i], by)
            /\ calling' = [calling EXCEPT ![n] = [at |-> i, row |-> Len(rows) + 1, stage |-> "recorded"]]
            /\ UNCHANGED <<effects, struck, overtaken, taken>>
      BY <2>2 DEF StartCall, Counts
    <3>2. i \in Nat /\ loop[n].reply[i] \in Calls /\ loop[n].reply[i] \in AnyCall
      BY WorkerFits DEF LoopRow, BatchFits, AnyCall
    <3>3. /\ loop' \in [Lives -> LoopRow]
          /\ \A m \in Lives : Batch(loop'[m]) = Batch(loop[m])
          /\ rows' \in Seq(ToolRow)
          /\ DOMAIN rows' = 1..(Len(rows) + 1) /\ DOMAIN rows = 1..Len(rows) /\ Len(rows) \in Nat
          /\ \A j \in DOMAIN rows : rows'[j] = rows[j]
          /\ rows'[Len(rows) + 1].call = loop[n].reply[i]
      <4>1. PICK c \in AnyCall : c = loop[n].reply[i] /\ RowAdded(n, c, by)
        BY <3>1, <3>2
      <4>2. UNCHANGED taken
        BY <3>1
      <4>3. rows'[Len(rows) + 1] = [call |-> c, by |-> by, life |-> n, extra |-> loop[n].extra, done |-> FALSE]
        BY <4>1, <4>2, CallIsRecorded
      <4>4. rows'[Len(rows) + 1].call = c
        BY <4>3
      <4>5. /\ loop' \in [Lives -> LoopRow]
            /\ \A m \in Lives : Batch(loop'[m]) = Batch(loop[m])
            /\ rows' \in Seq(ToolRow)
            /\ DOMAIN rows' = 1..(Len(rows) + 1) /\ DOMAIN rows = 1..Len(rows) /\ Len(rows) \in Nat
            /\ \A j \in DOMAIN rows : rows'[j] = rows[j]
        BY <4>1, <4>2, CallIsRecorded
      <4> QED
        BY <4>1, <4>4, <4>5
    <3>4. calling' \in [Lives -> CallingRow] /\ calling'[n] = [at |-> i, row |-> Len(rows) + 1, stage |-> "recorded"]
      BY <2>0, <3>1, <3>2, <3>3 DEF CallingRow
    <3>5. LoopTyped'
      BY <3>1, <3>3, <3>4 DEF LoopFits, LoopTyped
    <3>6. \A m \in Lives : BatchFits(loop'[m]) /\ (m > Current' => loop'[m].phase = "stopped")
      <4>1. \A m \in Lives : BatchFits(loop'[m]) /\ loop'[m].phase = loop[m].phase
        BY <2>0, <3>3, BatchStays DEF Batch
      <4> QED
        BY <3>1, <4>1 DEF LoopFits, Current
    <3>7. ASSUME NEW m \in Lives
          PROVE  IF calling'[m].stage = "none" THEN calling'[m] = NoCall ELSE InProgress(m)'
      <4>1. CASE m = n
        <5>1. Batch(loop'[n]) = Batch(loop[n])
          BY <3>3
        <5> QED
          BY <3>1, <3>3, <3>4, <4>1, <5>1 DEF InProgress, Called, Executing, Batch
      <4>2. CASE m # n
        <5>1. calling'[m] = calling[m] /\ \A j \in DOMAIN rows : j \in DOMAIN rows' /\ rows'[j].call = rows[j].call
          BY <2>0, <3>1, <3>3, <4>2
        <5> QED
          BY <3>3, <5>1, CallGoesOn DEF LoopFits
      <4> QED
        BY <4>1, <4>2
    <3> QED
      BY <3>5, <3>6, <3>7 DEF LoopFits
  <2>3. ASSUME NEW n \in Lives, NEW kinds, Effect(n, kinds) PROVE LoopFits'
    <3>1. /\ calling[n].stage = "recorded" /\ calling' = [calling EXCEPT ![n] = [calling[n] EXCEPT !.stage = "effected"]]
          /\ effects' = Once(effects, {Called(n)}) /\ UNCHANGED <<loop, rows, struck, overtaken, taken>>
      BY <2>3 DEF Effect
    <3>2. /\ [calling[n] EXCEPT !.stage = "effected"] \in CallingRow
          /\ [calling[n] EXCEPT !.stage = "effected"].at = calling[n].at
          /\ [calling[n] EXCEPT !.stage = "effected"].row = calling[n].row
          /\ [calling[n] EXCEPT !.stage = "effected"].stage = "effected"
      BY <2>0 DEF CallingRow
    <3>3. effects' \in [EffectCalls -> Nat]
      BY <3>1 DEF Once, LoopFits, LoopTyped
    <3>4. LoopTyped'
      BY <2>0, <3>1, <3>2, <3>3 DEF LoopFits, LoopTyped
    <3>5. ASSUME NEW m \in Lives
          PROVE  IF calling'[m].stage = "none" THEN calling'[m] = NoCall ELSE InProgress(m)'
      <4>1. CASE m = n
        <5>1. InProgress(n)
          BY <3>1, CalledIsCall
        <5> QED
          BY <2>0, <3>1, <3>2, <4>1, <5>1 DEF InProgress, Called
      <4>2. CASE m # n
        BY <2>0, <3>1, <4>2, CallGoesOn DEF LoopFits
      <4> QED
        BY <4>1, <4>2
    <3> QED
      BY <3>1, <3>4, <3>5 DEF LoopFits, Current
  <2>4. ASSUME NEW n \in Lives, NEW kinds, CompleteCall(n, kinds) PROVE LoopFits'
    <3>1. /\ calling[n].stage = "effected" /\ calling' = [calling EXCEPT ![n] = NoCall]
          /\ rows' = [rows EXCEPT ![calling[n].row].done = TRUE] /\ UNCHANGED <<effects, struck, overtaken, taken>>
      BY <2>4 DEF CompleteCall, Counts
    <3>2. /\ InProgress(n) /\ Called(n) \in Calls /\ calling[n].row \in DOMAIN rows /\ n <= Current
          /\ Called(n) \in AnyCall
      BY <3>1, CalledIsCall DEF AnyCall
    <3>3. PICK l \in LoopRow : Moves(n, l) /\ BatchFits(l)
      BY <2>4, CompletingSteps
    <3>4. rows' \in Seq(ToolRow) /\ \A j \in DOMAIN rows : j \in DOMAIN rows' /\ rows'[j].call = rows[j].call
      BY <3>1, <3>2, ResultIsStored
    <3>5. NoCall \in CallingRow
      BY DEF NoCall, CallingRow
    <3>6. LoopTyped' /\ \A m \in Lives : BatchFits(loop'[m])
      BY <2>0, <3>1, <3>3, <3>4, <3>5 DEF LoopFits, LoopTyped, Moves
    <3>7. \A m \in Lives : m > Current' => loop'[m].phase = "stopped"
      BY <2>0, <3>1, <3>2, <3>3 DEF LoopFits, Current, Lives, Moves
    <3>8. ASSUME NEW m \in Lives
          PROVE  IF calling'[m].stage = "none" THEN calling'[m] = NoCall ELSE InProgress(m)'
      <4>1. CASE m = n
        BY <2>0, <3>1, <4>1 DEF NoCall
      <4>2. CASE m # n
        BY <2>0, <3>1, <3>3, <3>4, <4>2, CallGoesOn DEF LoopFits, Moves
      <4> QED
        BY <4>1, <4>2
    <3> QED
      BY <3>6, <3>7, <3>8 DEF LoopFits
  <2>5. ASSUME NEW n \in Lives, StartNodeCall(n) \/ CompleteNodeCall(n) PROVE LoopFits'
    <3>1. UNCHANGED <<calling, effects, struck, overtaken, taken>>
      BY <2>5 DEF StartNodeCall, CompleteNodeCall, Counts
    <3>2. /\ loop' \in [Lives -> LoopRow] /\ \A m \in Lives : Batch(loop'[m]) = Batch(loop[m])
          /\ rows' \in Seq(ToolRow)
          /\ \A j \in DOMAIN rows : j \in DOMAIN rows' /\ rows'[j].call = rows[j].call
      <4>1. CASE StartNodeCall(n)
        <5>1. PICK c \in AnyCall : RowAdded(n, c, "node")
          BY <4>1 DEF StartNodeCall, AnyCall
        <5>2. /\ loop' \in [Lives -> LoopRow] /\ \A m \in Lives : Batch(loop'[m]) = Batch(loop[m])
              /\ rows' \in Seq(ToolRow) /\ Len(rows) \in Nat
              /\ DOMAIN rows' = 1..(Len(rows) + 1) /\ DOMAIN rows = 1..Len(rows)
              /\ \A j \in DOMAIN rows : rows'[j] = rows[j]
          BY <3>1, <5>1, CallIsRecorded
        <5> QED
          BY <5>2
      <4>2. CASE CompleteNodeCall(n)
        <5>1. PICK r \in DOMAIN rows : rows' = [rows EXCEPT ![r].done = TRUE]
          BY <4>2 DEF CompleteNodeCall, NodeRows
        <5> QED
          BY <2>0, <4>2, <5>1, ResultIsStored DEF CompleteNodeCall
      <4> QED
        BY <2>5, <4>1, <4>2
    <3>3. LoopTyped'
      BY <3>1, <3>2 DEF LoopFits, LoopTyped
    <3>4. \A m \in Lives : BatchFits(loop'[m]) /\ (m > Current' => loop'[m].phase = "stopped")
      <4>1. \A m \in Lives : BatchFits(loop'[m]) /\ loop'[m].phase = loop[m].phase
        BY <2>0, <3>2, BatchStays DEF Batch
      <4> QED
        BY <3>1, <4>1 DEF LoopFits, Current
    <3>5. \A m \in Lives : IF calling'[m].stage = "none" THEN calling'[m] = NoCall ELSE InProgress(m)'
      BY <3>1, <3>2, CallGoesOn DEF LoopFits
    <3> QED
      BY <3>3, <3>4, <3>5 DEF LoopFits
  <2>6. CASE TakeUpAgain \/ Overtake
    <3>1. PICK old \in LoopRow :
            /\ NewLife(old) /\ BatchFits(old)
            /\ \/ calling' = [calling EXCEPT ![Current] = NoCall]
               \/ calling' = calling /\ old = loop[Current]
      <4>1. CASE TakeUpAgain
        <5>1. "stopped" \in Phases \ Busy
          BY DEF Phases, Busy
        <5> QED
          BY <2>0, <4>1, <5>1, LeavesFits DEF TakeUpAgain
      <4>2. CASE Overtake
        BY <2>0, <4>2 DEF Overtake
      <4> QED
        BY <2>6, <4>1, <4>2
    <3>2. taken < Interruptions /\ taken' = taken + 1 /\ UNCHANGED <<rows, effects>>
      BY <3>1 DEF NewLife
    <3>3. PICK cur \in Lives, next \in Lives, fresh \in LoopRow :
            /\ cur = Current /\ next = Current + 1 /\ next = Current' /\ cur # next
            /\ BatchFits(fresh) /\ loop' = [loop EXCEPT ![cur] = old, ![next] = fresh]
      BY <3>1, LifeBegins
    <3>6. loop' \in [Lives -> LoopRow] /\ \A m \in Lives : BatchFits(loop'[m])
      BY <2>0, <3>1, <3>3
    <3>7. \A m \in Lives : m > Current' => loop'[m].phase = "stopped"
      BY <2>0, <3>2, <3>3 DEF LoopFits, Current, Lives
    <3>8. calling' \in [Lives -> CallingRow]
      BY <2>0, <3>1 DEF NoCall, CallingRow
    <3>9. struck' \in [EffectCalls -> Nat] /\ overtaken' \in [EffectCalls -> Nat]
      <4>1. \A count \in [EffectCalls -> Nat] : \A S : Once(count, S) \in [EffectCalls -> Nat]
        BY DEF Once
      <4>2. struck \in [EffectCalls -> Nat] /\ overtaken \in [EffectCalls -> Nat]
        BY DEF LoopFits, LoopTyped
      <4> QED
        BY <2>6, <4>1, <4>2 DEF TakeUpAgain, Overtake
    <3>10. LoopTyped'
      <4>1. taken' \in 0..Interruptions
        BY <2>0, <3>2
      <4> QED
        BY <3>2, <3>6, <3>8, <3>9, <4>1 DEF LoopFits, LoopTyped
    <3>11. ASSUME NEW m \in Lives
           PROVE  IF calling'[m].stage = "none" THEN calling'[m] = NoCall ELSE InProgress(m)'
      <4>1. CASE calling'[m] = NoCall
        BY <4>1 DEF NoCall
      <4>2. CASE calling'[m] # NoCall
        <5>1. calling'[m] = calling[m]
          BY <2>0, <3>1, <4>2
        <5>2. InProgress(m) /\ m <= Current
          BY <4>2, <5>1, CalledIsCall DEF LoopFits
        <5>3. loop'[m] = loop[m]
          <6>1. m # next /\ next \in Nat
            BY <3>3, <5>2 DEF Current, Lives, LoopFits, LoopTyped
          <6>2. m = cur => old = loop[cur]
            BY <2>0, <3>1, <3>3, <4>2
          <6> QED
            BY <2>0, <3>3, <6>1, <6>2
        <5> QED
          BY <3>2, <5>1, <5>2, <5>3, CallGoesOn DEF LoopFits
      <4> QED
        BY <4>1, <4>2
    <3> QED
      BY <3>6, <3>7, <3>10, <3>11 DEF LoopFits
  <2>7. CASE UNCHANGED toolVars
    BY <2>7 DEF toolVars, LoopFits, LoopTyped, InProgress, Called, Current
  <2> QED
    BY <2>1, <2>2, <2>3, <2>4, <2>5, <2>6, <2>7, LoopSteps
<1> QED
  BY <1>1, <1>2, PTL DEF LoopSpec

-----------------------------------------------------------------------------
Answered(c) == \E i \in DOMAIN rows : rows[i].call = c /\ rows[i].done

\* A worker has taken the effect and not stored the result; it has the call still to
\* make; it may yet take the effect.
InFlight(n, c) == calling[n].stage = "effected" /\ Called(n) = c
StillToCall(n, c) ==
  /\ \E j \in loop[n].todo : loop[n].reply[j] = c
  /\ IF loop[n].phase = "plan" THEN ~Answered(c) ELSE c \notin loop[n].memo
Open(n, c) == ~InFlight(n, c) /\ (StillToCall(n, c) \/ (n = Current /\ ~Answered(c)))

OpenTo(c) == {n \in Lives : Open(n, c)}

\* Effects taken, and those that may be taken by a worker each, are paid for.
EffectsPaid ==
  \A c \in EffectCalls : effects[c] + Cardinality(OpenTo(c)) <= 1 + struck[c] + overtaken[c]

\* Sets of lives are counted.
LEMMA LivesCounted ==
  ASSUME LoopConfigured, NEW T \in SUBSET Lives, NEW S \in SUBSET Lives
  PROVE  /\ Cardinality(S) \in Nat /\ Cardinality(T) \in Nat
         /\ S \subseteq T => Cardinality(S) <= Cardinality(T)
         /\ \A n \in T : S \subseteq T \ {n} => Cardinality(S) + 1 <= Cardinality(T)
         /\ \A m : S \subseteq T \cup {m} => Cardinality(S) <= Cardinality(T) + 1
         /\ \A n \in T : \A m : S \subseteq (T \ {n}) \cup {m} => Cardinality(S) <= Cardinality(T)
<1>1. IsFiniteSet(Lives)
  <2>1. IsFiniteSet(1..(Interruptions + 1))
    BY FS_Interval DEF LoopConfigured
  <2> QED
    BY <2>1 DEF Lives
<1>2. \A R \in SUBSET Lives : IsFiniteSet(R) /\ Cardinality(R) \in Nat
  BY <1>1, FS_Subset, FS_CardinalityType
<1>3. \A R \in SUBSET Lives : \A Q \in SUBSET R : Cardinality(Q) <= Cardinality(R)
  BY <1>2, FS_Subset
<1>4. ASSUME NEW n \in T
      PROVE  IsFiniteSet(T \ {n}) /\ Cardinality(T \ {n}) = Cardinality(T) - 1
  BY <1>2, FS_RemoveElement
<1>5. ASSUME NEW R, IsFiniteSet(R), NEW m, S \subseteq R \cup {m}
      PROVE  Cardinality(S) <= Cardinality(R) + 1
  <2>1. /\ IsFiniteSet(R \cup {m}) /\ Cardinality(R) \in Nat
        /\ Cardinality(R \cup {m}) = IF m \in R THEN Cardinality(R) ELSE Cardinality(R) + 1
    BY <1>5, FS_AddElement, FS_CardinalityType
  <2>2. Cardinality(S) <= Cardinality(R \cup {m})
    BY <1>5, <2>1, FS_Subset
  <2> QED
    BY <1>2, <2>1, <2>2
<1>6. ASSUME NEW n \in T, S \subseteq T \ {n} PROVE Cardinality(S) + 1 <= Cardinality(T)
  <2>1. Cardinality(S) <= Cardinality(T \ {n})
    BY <1>4, <1>6, FS_Subset
  <2> QED
    BY <1>2, <1>4, <2>1
<1>7. ASSUME NEW n \in T, NEW m, S \subseteq (T \ {n}) \cup {m} PROVE Cardinality(S) <= Cardinality(T)
  <2>1. Cardinality(S) <= Cardinality(T \ {n}) + 1
    BY <1>4, <1>5, <1>7
  <2> QED
    BY <1>2, <1>4, <2>1
<1> QED
  BY <1>2, <1>3, <1>5, <1>6, <1>7

\* Steps without an effect that open a call to no one.
LEMMA EffectsStay ==
  ASSUME LoopConfigured, LoopFits, EffectsPaid, UNCHANGED <<effects, struck, overtaken>>,
         \A c \in EffectCalls, n \in Lives : Open(n, c)' => Open(n, c)
  PROVE  EffectsPaid'
<1> SUFFICES ASSUME NEW c \in EffectCalls
             PROVE  effects'[c] + Cardinality(OpenTo(c)') <= 1 + struck'[c] + overtaken'[c]
  BY DEF EffectsPaid
<1>0. OpenTo(c)' \subseteq OpenTo(c) /\ OpenTo(c) \subseteq Lives
  BY DEF OpenTo
<1>1. PICK T, S : T = OpenTo(c) /\ S = OpenTo(c)' /\ T \in SUBSET Lives /\ S \in SUBSET Lives /\ S \subseteq T
  BY <1>0
<1>2. Cardinality(S) <= Cardinality(T) /\ Cardinality(S) \in Nat /\ Cardinality(T) \in Nat
  BY <1>1, LivesCounted
<1>3. effects[c] \in Nat /\ struck[c] \in Nat /\ overtaken[c] \in Nat
  BY DEF LoopFits, LoopTyped
<1> QED
  BY <1>1, <1>2, <1>3 DEF EffectsPaid

\* A call that may not be repeated takes effect once, however often the model repeats
\* it and the run is taken up again, up to deaths between an effect and its result
\* and to workers that were overtaken with the call in their batch.
THEOREM EffectsAreOnce ==
  ASSUME LoopConfigured
  PROVE  LoopSpec => []EffectsOnce
<1>1. ToolInit => EffectsPaid
  <2> SUFFICES ASSUME ToolInit, NEW c \in EffectCalls
               PROVE  effects[c] + Cardinality(OpenTo(c)) <= 1 + struck[c] + overtaken[c]
    BY DEF EffectsPaid
  <2>1. PICK b \in BOOLEAN, first \in {"model", "graph"} :
          loop = [n \in Lives |-> IF n = 1 THEN Fresh(b, first) ELSE NotBegun]
    BY DEF ToolInit
  <2>2. \A n \in Lives : loop[n].todo = {}
    BY <2>1 DEF Fresh, NotBegun
  <2>3. effects[c] = 0 /\ struck[c] = 0 /\ overtaken[c] = 0
    BY DEF ToolInit
  <2>4. OpenTo(c) \subseteq {} \cup {Current}
    BY <2>2 DEF OpenTo, Open, StillToCall
  <2>5. {} \in SUBSET Lives /\ OpenTo(c) \in SUBSET Lives
    BY DEF OpenTo
  <2>6. Cardinality({}) = 0
    BY FS_EmptySet
  <2>7. Cardinality(OpenTo(c)) <= 1 /\ Cardinality(OpenTo(c)) \in Nat
    BY <2>4, <2>5, <2>6, LivesCounted
  <2> QED
    BY <2>3, <2>7
<1>2. LoopFits /\ EffectsPaid /\ [ToolNext]_toolVars => EffectsPaid'
  <2> SUFFICES ASSUME LoopFits, EffectsPaid, [ToolNext]_toolVars PROVE EffectsPaid'
    OBVIOUS
  <2>0. /\ loop \in [Lives -> LoopRow] /\ calling \in [Lives -> CallingRow]
        /\ \A c \in EffectCalls : effects[c] \in Nat /\ struck[c] \in Nat /\ overtaken[c] \in Nat
        /\ effects \in [EffectCalls -> Nat] /\ struck \in [EffectCalls -> Nat] /\ overtaken \in [EffectCalls -> Nat]
    BY DEF LoopFits, LoopTyped
  <2>1. ASSUME NEW n \in Lives, QuietStep(n) PROVE EffectsPaid'
    <3>1. PICK l : /\ Quiet(n, l)
                   /\ l.todo = {} \/ BatchBegins(n, l) \/ BatchIsPlanned(n, l) \/ TurnPasses(n, l)
      BY <2>1 DEF QuietStep
    <3>2. /\ loop' = [loop EXCEPT ![n] = l] /\ l \in LoopRow /\ calling[n] = NoCall
          /\ UNCHANGED <<calling, rows, effects, struck, overtaken, taken>>
      BY <3>1 DEF Quiet, Moves, Counts
    <3>3. ASSUME NEW c \in EffectCalls, NEW m \in Lives, Open(m, c)' PROVE Open(m, c)
      <4>1. CASE m # n
        <5>1. loop'[m] = loop[m] /\ calling' = calling /\ rows' = rows /\ Current' = Current
          BY <2>0, <3>2, <4>1 DEF Current
        <5> QED
          BY <3>3, <5>1 DEF Open, InFlight, Called, StillToCall, Answered
      <4>2. CASE m = n
        <5>1. loop'[n] = l
          BY <2>0, <3>2
        <5>2. ~InFlight(n, c)
          BY <3>2 DEF InFlight, NoCall
        <5>3. CASE n = Current /\ ~Answered(c)
          BY <4>2, <5>2, <5>3 DEF Open
        <5>4. CASE ~(n = Current /\ ~Answered(c))
          <6>1. StillToCall(n, c)'
            BY <3>2, <3>3, <4>2, <5>4 DEF Open, Answered, Current
          <6>2. /\ \E j \in l.todo : l.reply[j] = c
                /\ IF l.phase = "plan" THEN ~Answered(c) ELSE c \notin l.memo
            BY <3>2, <5>1, <6>1 DEF StillToCall, Answered
          <6>3. BatchIsPlanned(n, l) \/ TurnPasses(n, l)
            BY <3>1, <5>4, <6>2 DEF BatchBegins
          <6>4. c \in CompletedNonRetryableToolCalls <=> Answered(c)
            BY DEF EffectCalls, CompletedNonRetryableToolCalls, Answered
          <6>5. StillToCall(n, c)
            BY <6>2, <6>3, <6>4 DEF StillToCall, BatchIsPlanned, TurnPasses
          <6> QED
            BY <4>2, <5>2, <6>5 DEF Open
        <5> QED
          BY <5>3, <5>4
      <4> QED
        BY <4>1, <4>2
    <3> QED
      BY <3>2, <3>3, EffectsStay
  <2>2. ASSUME NEW n \in Lives, NEW kinds, StartCall(n, kinds) PROVE EffectsPaid'
    <3>1. PICK c \in AnyCall, i \in loop[n].todo, by \in {"loop", "node", "overtaken"} :
            /\ RowAdded(n, c, by) /\ calling[n] = NoCall
            /\ calling' = [calling EXCEPT ![n] = [at |-> i, row |-> Len(rows) + 1, stage |-> "recorded"]]
            /\ UNCHANGED <<effects, struck, overtaken, taken>>
      <4>1. PICK i \in loop[n].todo :
              /\ RowAdded(n, loop[n].reply[i], IF n = Current THEN "loop" ELSE "overtaken") /\ calling[n] = NoCall
              /\ calling' = [calling EXCEPT ![n] = [at |-> i, row |-> Len(rows) + 1, stage |-> "recorded"]]
              /\ UNCHANGED <<effects, struck, overtaken, taken>>
        BY <2>2 DEF StartCall, Counts, Executing
      <4>2. loop[n].reply[i] \in AnyCall
        BY WorkerFits DEF LoopRow, BatchFits, AnyCall
      <4>3. PICK by \in {"loop", "node", "overtaken"} : RowAdded(n, loop[n].reply[i], by)
        <5>1. (IF n = Current THEN "loop" ELSE "overtaken") \in {"loop", "node", "overtaken"}
          OBVIOUS
        <5> QED
          BY ONLY <4>1, <5>1
      <4> QED
        BY <4>1, <4>2, <4>3
    <3>2. /\ \A m \in Lives : Batch(loop'[m]) = Batch(loop[m])
          /\ DOMAIN rows' = 1..(Len(rows) + 1) /\ DOMAIN rows = 1..Len(rows) /\ Len(rows) \in Nat
          /\ \A j \in DOMAIN rows : rows'[j] = rows[j]
          /\ rows'[Len(rows) + 1] = [call |-> c, by |-> by, life |-> n, extra |-> loop[n].extra, done |-> FALSE]
      BY <3>1, CallIsRecorded
    <3>3. \A d : Answered(d)' <=> Answered(d)
      <4>1. ~rows'[Len(rows) + 1].done
        BY <3>2
      <4> QED
        BY <3>2, <4>1 DEF Answered
    <3>4. ASSUME NEW d \in EffectCalls, NEW m \in Lives, Open(m, d)' PROVE Open(m, d)
      <4>1. ~InFlight(m, d)
        <5>1. CASE m = n
          BY <3>1, <5>1 DEF InFlight, NoCall
        <5>2. CASE m # n
          BY <2>0, <3>1, <3>2, <3>4, <5>2 DEF Open, InFlight, Called, Batch
        <5> QED
          BY <5>1, <5>2
      <4>2. Batch(loop'[m]) = Batch(loop[m]) /\ Current' = Current
        BY <3>1, <3>2 DEF Current
      <4> QED
        BY <3>3, <3>4, <4>1, <4>2 DEF Open, StillToCall, Batch
    <3> QED
      BY <3>1, <3>4, EffectsStay
  <2>3. ASSUME NEW n \in Lives, NEW kinds, Effect(n, kinds) PROVE EffectsPaid'
    <3>1. /\ calling[n].stage = "recorded" /\ calling' = [calling EXCEPT ![n] = [calling[n] EXCEPT !.stage = "effected"]]
          /\ effects' = Once(effects, {Called(n)}) /\ UNCHANGED <<loop, rows, struck, overtaken, taken>>
      BY <2>3 DEF Effect
    <3>2. /\ calling'[n].at = calling[n].at /\ calling'[n].stage = "effected"
          /\ \A m \in Lives : m # n => calling'[m] = calling[m]
      BY <2>0, <3>1 DEF CallingRow
    <3>3. InProgress(n)
      BY <3>1, CalledIsCall
    <3>4. ASSUME NEW c \in EffectCalls, NEW m \in Lives, Open(m, c)'
          PROVE  Open(m, c) /\ (c = Called(n) => m # n)
      <4>1. Called(m)' = Called(m)
        BY <3>1, <3>2 DEF Called
      <4>2. Current' = Current /\ (Answered(c)' <=> Answered(c)) /\ (StillToCall(m, c)' <=> StillToCall(m, c))
        BY <3>1 DEF Current, Answered, StillToCall
      <4>3. ~InFlight(m, c)
        BY <3>1, <3>2, <3>4, <4>1 DEF Open, InFlight
      <4> QED
        BY <3>2, <3>4, <4>1, <4>2, <4>3 DEF Open, InFlight
    <3>5. Called(n) \in EffectCalls => Open(n, Called(n))
      BY <3>1, <3>3 DEF Open, InFlight, StillToCall, InProgress, Called
    <3> SUFFICES ASSUME NEW c \in EffectCalls
                 PROVE  effects'[c] + Cardinality(OpenTo(c)') <= 1 + struck'[c] + overtaken'[c]
      BY DEF EffectsPaid
    <3>6. PICK T, S : T = OpenTo(c) /\ S = OpenTo(c)' /\ T \in SUBSET Lives /\ S \in SUBSET Lives
      BY DEF OpenTo
    <3>7. CASE c = Called(n)
      <4>1. n \in T /\ S \subseteq T \ {n}
        BY <3>4, <3>5, <3>6, <3>7 DEF OpenTo
      <4>2. Cardinality(S) + 1 <= Cardinality(T) /\ Cardinality(S) \in Nat /\ Cardinality(T) \in Nat
        BY <3>6, <4>1, LivesCounted
      <4>3. effects'[c] = effects[c] + 1
        BY <3>1, <3>7 DEF Once
      <4> QED
        BY <2>0, <3>1, <3>6, <4>2, <4>3 DEF EffectsPaid
    <3>8. CASE c # Called(n)
      <4>1. S \subseteq T
        BY <3>4, <3>6 DEF OpenTo
      <4>2. Cardinality(S) <= Cardinality(T) /\ Cardinality(S) \in Nat /\ Cardinality(T) \in Nat
        BY <3>6, <4>1, LivesCounted
      <4>3. effects'[c] = effects[c]
        BY <3>1, <3>8 DEF Once
      <4> QED
        BY <2>0, <3>1, <3>6, <4>2, <4>3 DEF EffectsPaid
    <3> QED
      BY <3>7, <3>8
  <2>4. ASSUME NEW n \in Lives, NEW kinds, CompleteCall(n, kinds) PROVE EffectsPaid'
    <3>1. /\ calling[n].stage = "effected" /\ calling' = [calling EXCEPT ![n] = NoCall]
          /\ rows' = [rows EXCEPT ![calling[n].row].done = TRUE] /\ UNCHANGED <<effects, struck, overtaken, taken>>
      BY <2>4 DEF CompleteCall, Counts
    <3>2. InProgress(n)
      BY <3>1, CalledIsCall
    <3>3. PICK l \in LoopRow :
            /\ Moves(n, l)
            /\ \/ l.todo = {}
               \/ Batch(l) = <<"execute", loop[n].reply, loop[n].todo \ {calling[n].at},
                               loop[n].memo \cup {c \in {Called(n)} : c.kind = "effect"}>>
      BY <2>4, CompletingSteps
    <3>4. \A c : Answered(c)' <=> Answered(c) \/ c = Called(n)
      <4>1. calling[n].row \in DOMAIN rows /\ rows[calling[n].row].call = Called(n)
        BY <3>2 DEF InProgress
      <4>2. /\ DOMAIN rows' = DOMAIN rows
            /\ \A i \in DOMAIN rows : /\ rows'[i].call = rows[i].call
                                      /\ rows'[i].done <=> rows[i].done \/ i = calling[n].row
        BY <3>1, <4>1, ResultIsStored
      <4> QED
        BY <4>1, <4>2 DEF Answered
    <3>5. ASSUME NEW c \in EffectCalls, NEW m \in Lives, Open(m, c)' PROVE Open(m, c)
      <4>1. CASE m # n
        <5>1. loop'[m] = loop[m] /\ calling'[m] = calling[m] /\ Current' = Current
          BY <2>0, <3>1, <3>3, <4>1 DEF Moves, Current
        <5> QED
          BY <3>4, <3>5, <5>1 DEF Open, InFlight, Called, StillToCall
      <4>2. CASE m = n
        <5>1. loop'[n] = l /\ Current' = Current
          BY <2>0, <3>1, <3>3 DEF Moves, Current
        <5>2. c # Called(n)
          <6>1. SUFFICES ASSUME c = Called(n) PROVE FALSE
            OBVIOUS
          <6>2. Answered(c)'
            BY <3>4, <6>1
          <6>3. StillToCall(n, c)'
            BY <3>5, <4>2, <6>2 DEF Open
          <6>4. /\ \E j \in l.todo : l.reply[j] = c
                /\ l.phase # "plan" => c \notin l.memo
                /\ l.phase # "plan"
            BY <5>1, <6>2, <6>3 DEF StillToCall
          <6>5. c \in l.memo
            <7>1. c.kind = "effect"
              BY DEF EffectCalls
            <7> QED
              BY <3>3, <6>1, <6>4, <7>1 DEF Batch
          <6> QED
            BY <6>4, <6>5
        <5>3. ~InFlight(n, c)
          BY <5>2 DEF InFlight
        <5>4. CASE n = Current /\ ~Answered(c)
          BY <4>2, <5>3, <5>4 DEF Open
        <5>5. CASE ~(n = Current /\ ~Answered(c))
          <6>1. StillToCall(n, c)'
            BY <3>4, <3>5, <4>2, <5>1, <5>2, <5>5 DEF Open
          <6>2. /\ \E j \in l.todo : l.reply[j] = c
                /\ l.phase # "plan" => c \notin l.memo
            BY <5>1, <6>1 DEF StillToCall
          <6>3. /\ l.phase = "execute" /\ l.reply = loop[n].reply /\ l.todo \subseteq loop[n].todo
                /\ loop[n].memo \subseteq l.memo
            BY <3>3, <6>2 DEF Batch
          <6>4. StillToCall(n, c)
            BY <3>2, <6>2, <6>3 DEF StillToCall, InProgress
          <6> QED
            BY <4>2, <5>3, <6>4 DEF Open
        <5> QED
          BY <5>4, <5>5
      <4> QED
        BY <4>1, <4>2
    <3> QED
      BY <3>1, <3>5, EffectsStay
  <2>5. ASSUME NEW n \in Lives, StartNodeCall(n) \/ CompleteNodeCall(n) PROVE EffectsPaid'
    <3>1. UNCHANGED <<calling, effects, struck, overtaken, taken>>
      BY <2>5 DEF StartNodeCall, CompleteNodeCall, Counts
    <3>2. /\ \A m \in Lives : Batch(loop'[m]) = Batch(loop[m])
          /\ \A c : Answered(c) => Answered(c)'
      <4>1. CASE StartNodeCall(n)
        <5>1. PICK c \in AnyCall : RowAdded(n, c, "node")
          BY <4>1 DEF StartNodeCall, AnyCall
        <5>2. /\ \A m \in Lives : Batch(loop'[m]) = Batch(loop[m])
              /\ DOMAIN rows' = 1..(Len(rows) + 1) /\ DOMAIN rows = 1..Len(rows) /\ Len(rows) \in Nat
              /\ \A j \in DOMAIN rows : rows'[j] = rows[j]
          BY <3>1, <5>1, CallIsRecorded
        <5> QED
          BY <5>2 DEF Answered
      <4>2. CASE CompleteNodeCall(n)
        <5>1. PICK r \in DOMAIN rows : rows' = [rows EXCEPT ![r].done = TRUE] /\ loop' = loop
          BY <4>2 DEF CompleteNodeCall, NodeRows
        <5>2. /\ DOMAIN rows' = DOMAIN rows
              /\ \A i \in DOMAIN rows : rows'[i].call = rows[i].call /\ (rows[i].done => rows'[i].done)
          BY <5>1, ResultIsStored
        <5> QED
          BY <5>1, <5>2 DEF Answered
      <4> QED
        BY <2>5, <4>1, <4>2
    <3>3. ASSUME NEW c \in EffectCalls, NEW m \in Lives, Open(m, c)' PROVE Open(m, c)
      <4>1. Batch(loop'[m]) = Batch(loop[m]) /\ Current' = Current /\ calling' = calling
        BY <3>1, <3>2 DEF Current
      <4>2. loop'[m].phase = loop[m].phase /\ loop'[m].reply = loop[m].reply /\ loop'[m].todo = loop[m].todo
             /\ loop'[m].memo = loop[m].memo
        BY <4>1 DEF Batch
      <4> QED
        BY <3>2, <3>3, <4>1, <4>2 DEF Open, InFlight, Called, StillToCall
    <3> QED
      BY <3>1, <3>3, EffectsStay
  <2>6. ASSUME NEW old \in LoopRow, NewLife(old),
               \/ old.todo = {} /\ calling' = [calling EXCEPT ![Current] = NoCall]
               \/ old = loop[Current] /\ calling' = calling
        PROVE  \A c \in EffectCalls :
                 /\ OpenTo(c)' \subseteq OpenTo(c) \cup {Current'}
                 /\ ~InFlight(Current, c) /\ (old.todo = {} \/ ~StillToCall(Current, c)) =>
                      \/ OpenTo(c)' \subseteq OpenTo(c)
                      \/ /\ Current \in OpenTo(c)
                         /\ OpenTo(c)' \subseteq (OpenTo(c) \ {Current}) \cup {Current'}
    <3>1. PICK cur \in Lives, next \in Lives, fresh \in LoopRow :
            /\ cur = Current /\ next = Current + 1 /\ next = Current' /\ cur # next
            /\ fresh.todo = {} /\ loop' = [loop EXCEPT ![cur] = old, ![next] = fresh]
      BY <2>6, LifeBegins
    <3>2. /\ \A m \in Lives \ {cur, next} : loop'[m] = loop[m]
          /\ loop'[cur] = old /\ loop'[next] = fresh
          /\ \A m \in Lives \ {cur} : calling'[m] = calling[m]
      BY <2>0, <2>6, <3>1
    <3>3. rows' = rows
      BY <2>6 DEF NewLife
    <3> SUFFICES ASSUME NEW c \in EffectCalls
                 PROVE  /\ OpenTo(c)' \subseteq OpenTo(c) \cup {next}
                        /\ ~InFlight(cur, c) /\ (old.todo = {} \/ ~StillToCall(cur, c)) =>
                             \/ OpenTo(c)' \subseteq OpenTo(c)
                             \/ cur \in OpenTo(c) /\ OpenTo(c)' \subseteq (OpenTo(c) \ {cur}) \cup {next}
      BY <3>1
    <3>4. Answered(c)' <=> Answered(c)
      BY <3>3 DEF Answered
    <3>5. ASSUME NEW m \in Lives \ {cur, next}, Open(m, c)' PROVE Open(m, c)
      BY <3>1, <3>2, <3>4, <3>5 DEF Open, InFlight, Called, StillToCall
    <3>6. Open(cur, c)' => Open(cur, c) /\ StillToCall(cur, c) /\ old.todo # {}
      <4> SUFFICES ASSUME Open(cur, c)' PROVE Open(cur, c) /\ StillToCall(cur, c) /\ old.todo # {}
        OBVIOUS
      <4>1. StillToCall(cur, c)' /\ ~InFlight(cur, c)'
        BY <3>1 DEF Open
      <4>2. old.todo # {}
        BY <3>2, <4>1 DEF StillToCall
      <4>3. loop'[cur] = loop[cur] /\ calling' = calling
        BY <2>6, <3>1, <3>2, <4>2
      <4> QED
        BY <3>4, <4>1, <4>2, <4>3 DEF Open, InFlight, Called, StillToCall
    <3>7. Open(next, c)' => ~Answered(c)
      BY <3>2, <3>1, <3>4 DEF Open, StillToCall
    <3>8. ~Answered(c) /\ ~InFlight(cur, c) => Open(cur, c)
      BY <3>1 DEF Open
    <3>9. OpenTo(c)' \subseteq OpenTo(c) \cup {next}
      BY <3>5, <3>6 DEF OpenTo
    <3>10. ASSUME ~InFlight(cur, c), old.todo = {} \/ ~StillToCall(cur, c)
           PROVE  \/ OpenTo(c)' \subseteq OpenTo(c)
                  \/ cur \in OpenTo(c) /\ OpenTo(c)' \subseteq (OpenTo(c) \ {cur}) \cup {next}
      <4>1. ~Open(cur, c)'
        BY <3>6, <3>10
      <4>2. CASE Answered(c)
        BY <3>5, <3>7, <4>1, <4>2 DEF OpenTo
      <4>3. CASE ~Answered(c)
        BY <3>5, <3>8, <3>10, <4>1, <4>3 DEF OpenTo
      <4> QED
        BY <4>2, <4>3
    <3> QED
      BY <3>9, <3>10
  <2>7. ASSUME NEW old \in LoopRow, NewLife(old),
               \/ old.todo = {} /\ calling' = [calling EXCEPT ![Current] = NoCall]
               \/ old = loop[Current] /\ calling' = calling,
               \A c \in EffectCalls :
                 /\ struck'[c] \in Nat /\ overtaken'[c] \in Nat
                 /\ struck[c] + overtaken[c] <= struck'[c] + overtaken'[c]
                 /\ InFlight(Current, c) \/ (old.todo # {} /\ StillToCall(Current, c)) =>
                      struck[c] + overtaken[c] + 1 <= struck'[c] + overtaken'[c]
        PROVE  EffectsPaid'
    <3> SUFFICES ASSUME NEW c \in EffectCalls
                 PROVE  effects'[c] + Cardinality(OpenTo(c)') <= 1 + struck'[c] + overtaken'[c]
      BY DEF EffectsPaid
    <3>1. PICK T, S : T = OpenTo(c) /\ S = OpenTo(c)' /\ T \in SUBSET Lives /\ S \in SUBSET Lives
      BY ZenonT(60) DEF OpenTo
    <3>2. PICK cur, next : cur = Current /\ next = Current'
      OBVIOUS
    <3>3. /\ S \subseteq T \cup {next}
          /\ \/ InFlight(cur, c) \/ (old.todo # {} /\ StillToCall(cur, c))
             \/ S \subseteq T
             \/ cur \in T /\ S \subseteq (T \ {cur}) \cup {next}
      BY <2>6, <2>7, <3>1, <3>2
    <3>4. /\ Cardinality(S) \in Nat /\ Cardinality(T) \in Nat
          /\ Cardinality(S) <= Cardinality(T) + 1
          /\ \/ InFlight(cur, c) \/ (old.todo # {} /\ StillToCall(cur, c))
             \/ Cardinality(S) <= Cardinality(T)
      BY <3>1, <3>3, LivesCounted
    <3>5. effects'[c] = effects[c]
      BY <2>7 DEF NewLife
    <3>6. effects[c] + Cardinality(T) <= 1 + struck[c] + overtaken[c]
      BY <3>1 DEF EffectsPaid
    <3>7. effects[c] \in Nat /\ struck[c] \in Nat /\ overtaken[c] \in Nat
      BY <2>0
    <3> QED
      BY <2>7, <3>1, <3>2, <3>4, <3>5, <3>6, <3>7
  <2>8. CASE TakeUpAgain
    <3>1. PICK old \in LoopRow : /\ NewLife(old) /\ old.todo = {}
                                 /\ calling' = [calling EXCEPT ![Current] = NoCall]
      <4>1. "stopped" \in Phases \ Busy /\ loop[Current] \in LoopRow
        BY <2>0 DEF Phases, Busy, TakeUpAgain, NewLife, Current, Lives, LoopFits, LoopTyped, LoopConfigured
      <4> QED
        BY <2>8, <4>1, LeavesFits DEF TakeUpAgain
    <3>2. /\ overtaken' = overtaken
          /\ struck' = Once(struck, IF calling[Current].stage = "effected" THEN {Called(Current)} ELSE {})
      BY <2>8 DEF TakeUpAgain
    <3>3. ASSUME NEW c \in EffectCalls
          PROVE  /\ struck'[c] \in Nat /\ overtaken'[c] \in Nat
                 /\ struck[c] + overtaken[c] <= struck'[c] + overtaken'[c]
                 /\ InFlight(Current, c) \/ (old.todo # {} /\ StillToCall(Current, c)) =>
                      struck[c] + overtaken[c] + 1 <= struck'[c] + overtaken'[c]
      <4>1. struck'[c] = IF InFlight(Current, c) THEN struck[c] + 1 ELSE struck[c]
        BY <3>2 DEF Once, InFlight
      <4> QED
        BY <2>0, <3>1, <3>2, <4>1
    <3> QED
      BY <2>7, <3>1, <3>3
  <2>9. CASE Overtake
    <3>1. NewLife(loop[Current]) /\ calling' = calling /\ Current \in Lives
      BY <2>9 DEF Overtake, NewLife, Current, Lives, LoopFits, LoopTyped, LoopConfigured
    <3>2. struck' = struck /\ overtaken' = Once(overtaken, BatchOf(loop[Current]))
      BY <2>9 DEF Overtake
    <3>3. ASSUME NEW c \in EffectCalls
          PROVE  /\ struck'[c] \in Nat /\ overtaken'[c] \in Nat
                 /\ struck[c] + overtaken[c] <= struck'[c] + overtaken'[c]
                 /\ InFlight(Current, c) \/ (loop[Current].todo # {} /\ StillToCall(Current, c)) =>
                      struck[c] + overtaken[c] + 1 <= struck'[c] + overtaken'[c]
      <4>1. InFlight(Current, c) \/ StillToCall(Current, c) => c \in BatchOf(loop[Current])
        <5>1. ASSUME StillToCall(Current, c) PROVE c \in BatchOf(loop[Current])
          BY <2>0, <3>1, <5>1, WorkerFits DEF StillToCall, BatchOf, BatchFits, Busy
        <5>2. ASSUME InFlight(Current, c) PROVE c \in BatchOf(loop[Current])
          <6>1. InProgress(Current)
            BY <3>1, <5>2, CalledIsCall DEF InFlight
          <6> QED
            BY <5>2, <6>1 DEF InProgress, InFlight, Called, BatchOf
        <5> QED
          BY <5>1, <5>2
      <4>2. overtaken'[c] = IF c \in BatchOf(loop[Current]) THEN overtaken[c] + 1 ELSE overtaken[c]
        BY <3>2 DEF Once
      <4> QED
        BY <2>0, <3>2, <4>1, <4>2
    <3>4. loop[Current] \in LoopRow
      BY <2>0, <3>1
    <3> QED
      BY <2>7, <3>1, <3>3, <3>4
  <2>10. CASE UNCHANGED toolVars
    BY <2>10 DEF toolVars, EffectsPaid, OpenTo, Open, InFlight, Called, StillToCall, Answered, Current
  <2> QED
    BY <2>1, <2>2, <2>3, <2>4, <2>5, <2>8, <2>9, <2>10, LoopSteps
<1>3. LoopFits /\ EffectsPaid => EffectsOnce
  <2> SUFFICES ASSUME LoopFits, EffectsPaid, NEW c \in EffectCalls
               PROVE  effects[c] <= 1 + struck[c] + overtaken[c]
    BY DEF EffectsOnce
  <2>1. PICK S : S = OpenTo(c) /\ S \in SUBSET Lives
    BY DEF OpenTo
  <2>2. Cardinality(S) \in Nat
    BY <2>1, LivesCounted
  <2>3. effects[c] \in Nat /\ struck[c] \in Nat /\ overtaken[c] \in Nat
    BY DEF LoopFits, LoopTyped
  <2> QED
    BY <2>1, <2>2, <2>3 DEF EffectsPaid
<1> QED
  BY <1>1, <1>2, <1>3, LoopKept, PTL DEF LoopSpec

-----------------------------------------------------------------------------
\* A batch remembers the call if it may not be repeated.
Remembered(memo, c) == memo \cup {d \in {c} : d.kind = "effect"}

\* A call without a result is of the plan; the rest is planned without it.
LEMMA TurnIsTaken ==
  ASSUME NEW reply, NEW todo \in SUBSET Nat, NEW memo, NEW i \in todo, \A j \in todo : i <= j,
         reply[i] \notin memo
  PROVE  /\ i \in Planned(reply, todo, memo)
         /\ Planned(reply, todo \ {i}, Remembered(memo, reply[i])) = Planned(reply, todo, memo) \ {i}
<1>1. \A k \in todo : ~(k < i) /\ (k # i => i < k)
  OBVIOUS
<1>2. i \in Planned(reply, todo, memo)
  BY <1>1 DEF Planned
<1>3. ASSUME NEW k \in todo \ {i}, reply[k].kind = "effect"
      PROVE  reply[k] \in Remembered(memo, reply[i])
                            \cup {reply[j] : j \in {n \in todo \ {i} : n < k}}
               <=> reply[k] \in memo \cup {reply[j] : j \in {n \in todo : n < k}}
  BY <1>1, <1>3 DEF Remembered
<1> QED
  BY <1>2, <1>3 DEF Planned

\* A call with a result is not of the plan, and one that may be repeated does not
\* bear on the others.
LEMMA TurnIsPassed ==
  ASSUME NEW reply, NEW todo \in SUBSET Nat, NEW memo, NEW i \in todo, \A j \in todo : i <= j,
         reply[i].kind = "effect" => reply[i] \in memo
  PROVE  Planned(reply, todo \ {i}, memo)
           \in {Planned(reply, todo, memo), Planned(reply, todo, memo) \ {i}}
<1>1. \A k \in todo : ~(k < i) /\ (k # i => i < k)
  <2>1. i \in Nat /\ \A k \in todo : k \in Nat /\ i <= k
    OBVIOUS
  <2> QED
    BY ONLY <2>1
<1>2. ASSUME NEW k \in todo \ {i}, reply[k].kind = "effect"
      PROVE  reply[k] \in memo \cup {reply[j] : j \in {n \in todo \ {i} : n < k}}
               <=> reply[k] \in memo \cup {reply[j] : j \in {n \in todo : n < k}}
  BY <1>1, <1>2
<1> QED
  BY <1>2 DEF Planned

\* What is planned and not started: of a batch in which a call is in progress, what
\* is left after it.
Rest(n) ==
  IF calling[n].stage = "none" THEN Planned(loop[n].reply, loop[n].todo, loop[n].memo)
  ELSE Planned(loop[n].reply, loop[n].todo \ {calling[n].at}, Remembered(loop[n].memo, Called(n)))

\* The rows stay within the budget with all that is planned, up to those from elsewhere.
PlanFits(n) ==
  MaxToolCalls > 0 /\ loop[n].phase \in {"execute", "graph"} /\ loop[n].todo # {} =>
    Len(rows) + Cardinality(Rest(n)) <= MaxToolCalls + loop[n].extra

WithinBudget == BudgetKept /\ PlanFits(Current)

\* What is left of a batch is finite.
LEMMA RestIsFinite ==
  ASSUME LoopFits, NEW n \in Lives
  PROVE  IsFiniteSet(Rest(n)) /\ Cardinality(Rest(n)) \in Nat
<1>1. loop[n] \in LoopRow /\ loop[n].todo \in SUBSET DOMAIN loop[n].reply
  BY WorkerFits DEF BatchFits
<1>2. loop[n].todo \ {calling[n].at} \in SUBSET DOMAIN loop[n].reply
  BY <1>1
<1> QED
  BY <1>1, <1>2, PlansAreFinite DEF Rest

\* The same is left of a batch while its worker and its call stay.
LEMMA RestStays ==
  ASSUME NEW n \in Lives, Batch(loop'[n]) = Batch(loop[n]), calling'[n].stage = calling[n].stage,
         calling'[n].at = calling[n].at
  PROVE  Rest(n)' = Rest(n)
<1>1. loop'[n].reply = loop[n].reply /\ loop'[n].todo = loop[n].todo /\ loop'[n].memo = loop[n].memo
  BY DEF Batch
<1> QED
  BY <1>1 DEF Rest, Called

\* So does the plan, if rows are added that come from elsewhere.
LEMMA PlanStays ==
  ASSUME LoopConfigured, LoopFits, WithinBudget, NEW n \in Lives, PlanFits(n),
         Batch(loop'[n]) = Batch(loop[n]), Rest(n)' = Rest(n),
         NEW more \in Nat, Len(rows') = Len(rows) + more, loop'[n].extra = loop[n].extra + more
  PROVE  PlanFits(n)'
<1>1. Cardinality(Rest(n)) \in Nat /\ Len(rows) \in Nat /\ MaxToolCalls \in Nat /\ loop[n].extra \in Nat
  BY RestIsFinite DEF LoopFits, LoopTyped, LoopConfigured, MaxToolCalls, LoopRow
<1>2. loop'[n].phase = loop[n].phase /\ loop'[n].todo = loop[n].todo
  BY DEF Batch
<1> QED
  BY <1>1, <1>2 DEF PlanFits, MaxToolCalls

\* The rows there are stay within the budget.
LEMMA RowsStayWithin ==
  ASSUME BudgetKept, DOMAIN rows' = DOMAIN rows,
         \A i \in DOMAIN rows : rows'[i].by = rows[i].by /\ rows'[i].extra = rows[i].extra
  PROVE  BudgetKept'
  BY DEF BudgetKept, MaxToolCalls

\* The turn of one passes, and no more is left of the batch.
LEMMA PassingKeepsPlan ==
  ASSUME LoopConfigured, LoopFits, NEW n \in Lives, PlanFits(n), NEW l \in LoopRow,
         calling[n] = NoCall, calling' = calling, rows' = rows, loop'[n] = l, TurnPasses(n, l)
  PROVE  PlanFits(n)'
<1>1. /\ Rest(n) = Planned(loop[n].reply, loop[n].todo, loop[n].memo)
      /\ Rest(n)' = Planned(loop[n].reply, l.todo, loop[n].memo)
  BY DEF Rest, TurnPasses, NoCall, Planned
<1>2. PICK i : Rest(n)' \in {Rest(n), Rest(n) \ {i}}
  <2>1. CASE l.todo = loop[n].todo
    BY <1>1, <2>1
  <2>2. CASE \E i \in loop[n].todo :
               /\ \A j \in loop[n].todo : i <= j
               /\ loop[n].reply[i].kind = "effect" => loop[n].reply[i] \in loop[n].memo
               /\ l.todo = loop[n].todo \ {i}
    <3>1. PICK reply, todo, memo : reply = loop[n].reply /\ todo = loop[n].todo /\ memo = loop[n].memo
      OBVIOUS
    <3>2. PICK i \in todo : /\ \A j \in todo : i <= j
                            /\ reply[i].kind = "effect" => reply[i] \in memo
                            /\ l.todo = todo \ {i}
      BY <2>2, <3>1
    <3>3. todo \in SUBSET Nat
      BY <3>1, WorkerFits DEF LoopRow
    <3>4. Planned(reply, todo \ {i}, memo) \in {Planned(reply, todo, memo), Planned(reply, todo, memo) \ {i}}
      BY ONLY <3>2, <3>3, TurnIsPassed
    <3> QED
      BY <1>1, <3>1, <3>2, <3>4
  <2> QED
    BY <2>1, <2>2 DEF TurnPasses
<1>3. PICK rest, less : rest = Rest(n) /\ less = Rest(n)' /\ less \in {rest, rest \ {i}}
  BY <1>2
<1>4. Cardinality(less) <= Cardinality(rest) /\ Cardinality(less) \in Nat /\ Cardinality(rest) \in Nat
  <2>1. IsFiniteSet(rest) /\ less \in SUBSET rest
    BY <1>3, RestIsFinite
  <2> QED
    BY <2>1, FS_Subset, FS_CardinalityType
<1>5. Len(rows) \in Nat /\ MaxToolCalls \in Nat /\ loop[n].extra \in Nat
  BY DEF LoopFits, LoopTyped, LoopConfigured, MaxToolCalls, LoopRow
<1>6. loop[n].todo # {} \/ l.todo = {}
  BY DEF TurnPasses
<1> QED
  BY <1>3, <1>4, <1>5, <1>6 DEF PlanFits, TurnPasses, MaxToolCalls

\* The next of the batch is planned, and is planned no more when it has its row.
LEMMA StartingTakesTurn ==
  ASSUME LoopFits, NEW n \in Lives, NEW i \in loop[n].todo, \A j \in loop[n].todo : i <= j,
         loop[n].reply[i] \notin loop[n].memo, calling[n] = NoCall,
         calling'[n] = [at |-> i, row |-> Len(rows) + 1, stage |-> "recorded"], Batch(loop'[n]) = Batch(loop[n])
  PROVE  /\ Cardinality(Rest(n)) \in Nat /\ Cardinality(Rest(n)') \in Nat
         /\ Cardinality(Rest(n)') + 1 = Cardinality(Rest(n))
<1>1. PICK reply, todo, memo : reply = loop[n].reply /\ todo = loop[n].todo /\ memo = loop[n].memo
  OBVIOUS
<1>2. todo \in SUBSET Nat
  BY <1>1, WorkerFits DEF LoopRow
<1>3. reply = loop'[n].reply /\ todo = loop'[n].todo /\ memo = loop'[n].memo
  BY <1>1 DEF Batch
<1>4. /\ Rest(n) = Planned(reply, todo, memo)
      /\ Rest(n)' = Planned(reply, todo \ {i}, Remembered(memo, reply[i]))
  <2>1. calling[n].stage = "none" /\ calling'[n].stage = "recorded" /\ calling'[n].at = i
    BY DEF NoCall
  <2>2. Rest(n) = Planned(reply, todo, memo)
    BY <1>1, <2>1 DEF Rest
  <2>3. Rest(n)' = Planned(loop'[n].reply, loop'[n].todo \ {i}, Remembered(loop'[n].memo, loop'[n].reply[i]))
    BY <2>1 DEF Rest, Called, Planned, Remembered
  <2> QED
    BY ONLY <1>3, <2>2, <2>3
<1>5. i \in todo /\ (\A j \in todo : i <= j) /\ reply[i] \notin memo
  BY <1>1
<1>6. /\ i \in Planned(reply, todo, memo)
      /\ Planned(reply, todo \ {i}, Remembered(memo, reply[i])) = Planned(reply, todo, memo) \ {i}
  BY ONLY ZenonT(60), <1>2, <1>5, TurnIsTaken
<1>7. PICK rest, less : rest = Rest(n) /\ less = Rest(n)' /\ i \in rest /\ less = rest \ {i}
  BY <1>4, <1>6
<1>8. IsFiniteSet(rest) /\ Cardinality(rest) \in Nat
  BY <1>7, RestIsFinite
<1>9. IsFiniteSet(less) /\ Cardinality(less) = Cardinality(rest) - 1
  BY ZenonT(60), <1>7, <1>8, FS_RemoveElement
<1> QED
  BY <1>7, <1>8, <1>9, FS_CardinalityType

\* The budget of calls holds for the run and not for each of its lives, up to the
\* calls of nodes and of overtaken workers that came while a batch was executed.
THEOREM BudgetIsKept ==
  ASSUME LoopConfigured
  PROVE  LoopSpec => []BudgetKept
<1>1. ToolInit => WithinBudget
  <2> SUFFICES ASSUME ToolInit PROVE WithinBudget
    OBVIOUS
  <2>1. PICK b \in BOOLEAN, first \in {"model", "graph"} :
          loop = [n \in Lives |-> IF n = 1 THEN Fresh(b, first) ELSE NotBegun]
    BY DEF ToolInit
  <2>2. loop[1].todo = {} /\ Current = 1 /\ rows = <<>>
    BY <2>1 DEF ToolInit, Fresh, Lives, LoopConfigured, Current
  <2> QED
    BY <2>2 DEF WithinBudget, BudgetKept, PlanFits
<1>2. LoopFits /\ WithinBudget /\ [ToolNext]_toolVars => WithinBudget'
  <2> SUFFICES ASSUME LoopFits, WithinBudget, [ToolNext]_toolVars PROVE WithinBudget'
    OBVIOUS
  <2>0. /\ loop \in [Lives -> LoopRow] /\ calling \in [Lives -> CallingRow]
        /\ BudgetKept /\ PlanFits(Current)
        /\ Len(rows) \in Nat /\ MaxToolCalls \in Nat /\ rows \in Seq(ToolRow)
    BY DEF LoopFits, LoopTyped, LoopConfigured, MaxToolCalls, WithinBudget
  <2>a. PICK cur \in Lives : cur = Current /\ PlanFits(cur)
    BY <2>0 DEF Current, Lives, LoopFits, LoopTyped, LoopConfigured
  <2>b. loop[cur].extra \in Nat
    BY <2>0 DEF LoopRow
  <2>1. ASSUME NEW n \in Lives, QuietStep(n) PROVE WithinBudget'
    <3>1. PICK l : /\ Quiet(n, l)
                   /\ l.todo = {} \/ BatchBegins(n, l) \/ BatchIsPlanned(n, l) \/ TurnPasses(n, l)
      BY <2>1 DEF QuietStep
    <3>2. /\ loop' = [loop EXCEPT ![n] = l] /\ l \in LoopRow /\ calling[n] = NoCall
          /\ UNCHANGED <<calling, rows>> /\ Current' = Current
      BY <3>1 DEF Quiet, Moves, Counts, Current
    <3>3. BudgetKept'
      BY <2>0, <3>2, RowsStayWithin
    <3>4. PlanFits(cur)'
      <4>1. CASE n # cur
        <5>1. loop'[cur] = loop[cur] /\ calling' = calling
          BY <2>0, <3>2, <4>1
        <5>2. Rest(cur)' = Rest(cur)
          BY <5>1, RestStays
        <5> QED
          BY <2>a, <3>2, <5>1, <5>2 DEF PlanFits, MaxToolCalls
      <4>2. CASE n = cur
        <5>1. loop'[cur] = l
          BY <2>0, <3>2, <4>2
        <5>2. CASE l.todo = {} \/ BatchBegins(n, l)
          BY <5>1, <5>2 DEF PlanFits, BatchBegins
        <5>3. CASE BatchIsPlanned(n, l)
          <6>1. Rest(cur)' = Planned(l.reply, l.todo, l.memo)
            BY <3>2, <4>2, <5>1 DEF Rest, NoCall, Planned
          <6> QED
            BY <2>0, <3>2, <5>1, <5>3, <6>1 DEF PlanFits, BatchIsPlanned, MaxToolCalls
        <5>4. CASE TurnPasses(n, l)
          BY <2>a, <3>2, <4>2, <5>1, <5>4, PassingKeepsPlan
        <5> QED
          BY <3>1, <5>2, <5>3, <5>4
      <4> QED
        BY <4>1, <4>2
    <3> QED
      BY <2>a, <3>2, <3>3, <3>4 DEF WithinBudget
  <2>2. ASSUME NEW n \in Lives, NEW kinds, StartCall(n, kinds) PROVE WithinBudget'
    <3>1. PICK i \in loop[n].todo, by \in {"loop", "node", "overtaken"} :
            /\ Executing(n, i, kinds) /\ loop[n].reply[i] \notin loop[n].memo
            /\ RowAdded(n, loop[n].reply[i], by) /\ (by = "loop" <=> n = cur)
            /\ calling' = [calling EXCEPT ![n] = [at |-> i, row |-> Len(rows) + 1, stage |-> "recorded"]]
            /\ taken' = taken
      BY <2>2, <2>a DEF StartCall, Counts
    <3>2. PICK c \in AnyCall : c = loop[n].reply[i] /\ RowAdded(n, c, by)
      BY <3>1, WorkerFits DEF LoopRow, BatchFits, AnyCall
    <3>3. /\ \A m \in Lives : Batch(loop'[m]) = Batch(loop[m])
          /\ loop'[Current].extra = IF by = "loop" THEN loop[Current].extra ELSE loop[Current].extra + 1
          /\ Len(rows') = Len(rows) + 1
          /\ DOMAIN rows' = 1..(Len(rows) + 1) /\ DOMAIN rows = 1..Len(rows)
          /\ \A j \in DOMAIN rows : rows'[j] = rows[j]
      BY <3>1, <3>2, CallIsRecorded
    <3>4. rows'[Len(rows) + 1] = [call |-> c, by |-> by, life |-> n, extra |-> loop[n].extra, done |-> FALSE]
      BY <3>1, <3>2, CallIsRecorded
    <3>5. rows'[Len(rows) + 1].by = by /\ rows'[Len(rows) + 1].extra = loop[n].extra
      BY <3>4
    <3>6. CASE n # cur
      <4>1. calling'[cur] = calling[cur] /\ loop'[cur].extra = loop[cur].extra + 1
        BY <2>0, <2>a, <3>1, <3>3, <3>6
      <4>2. PlanFits(cur)'
        <5>1. Rest(cur)' = Rest(cur)
          BY <3>3, <4>1, RestStays
        <5> QED
          BY <2>a, <3>3, <4>1, <5>1, PlanStays
      <4>3. BudgetKept'
        BY <2>0, <3>1, <3>3, <3>5, <3>6 DEF BudgetKept, MaxToolCalls
      <4> QED
        BY <2>a, <3>1, <4>2, <4>3 DEF WithinBudget, Current
    <3>7. CASE n = cur
      <4>1. loop'[cur].extra = loop[cur].extra
        BY <2>a, <3>1, <3>3, <3>7
      <4>2. /\ Cardinality(Rest(cur)) \in Nat /\ Cardinality(Rest(cur)') \in Nat
            /\ Cardinality(Rest(cur)') + 1 = Cardinality(Rest(cur))
        <5>1. /\ calling[n] = NoCall /\ calling'[n] = [at |-> i, row |-> Len(rows) + 1, stage |-> "recorded"]
              /\ Batch(loop'[n]) = Batch(loop[n]) /\ \A j \in loop[n].todo : i <= j
          BY <2>0, <3>1, <3>3 DEF Executing
        <5> QED
          BY <3>1, <3>7, <5>1, StartingTakesTurn
      <4>3. MaxToolCalls > 0 => Len(rows) + Cardinality(Rest(cur)) <= MaxToolCalls + loop[cur].extra
        BY <2>a, <3>1, <3>7 DEF PlanFits, Executing
      <4>4. PlanFits(cur)'
        BY <2>0, <2>b, <3>3, <4>1, <4>2, <4>3 DEF PlanFits, MaxToolCalls
      <4>5. BudgetKept'
        <5>1. MaxToolCalls > 0 => Len(rows) + 1 <= MaxToolCalls + loop[cur].extra
          BY <2>0, <2>b, <4>2, <4>3
        <5> QED
          BY <2>0, <3>3, <3>5, <3>7, <5>1 DEF BudgetKept, MaxToolCalls
      <4> QED
        BY <2>a, <3>1, <4>4, <4>5 DEF WithinBudget, Current
    <3> QED
      BY <3>6, <3>7
  <2>3. ASSUME NEW n \in Lives, NEW kinds, Effect(n, kinds) PROVE WithinBudget'
    <3>1. /\ calling[n].stage = "recorded" /\ calling' = [calling EXCEPT ![n] = [calling[n] EXCEPT !.stage = "effected"]]
          /\ UNCHANGED <<loop, rows, taken>>
      BY <2>3 DEF Effect
    <3>2. Rest(cur)' = Rest(cur)
      <4>1. CASE n = cur
        <5>1. calling'[n].at = calling[n].at /\ calling'[n].stage = "effected"
          BY <2>0, <3>1 DEF CallingRow
        <5>2. Called(n)' = Called(n)
          BY <3>1, <5>1 DEF Called
        <5> QED
          BY <3>1, <4>1, <5>1, <5>2 DEF Rest
      <4>2. CASE n # cur
        BY <2>0, <3>1, <4>2, RestStays
      <4> QED
        BY <4>1, <4>2
    <3>3. PlanFits(cur)'
      BY <2>a, <3>1, <3>2 DEF PlanFits, MaxToolCalls
    <3>4. BudgetKept'
      BY <2>0, <3>1, RowsStayWithin
    <3> QED
      BY <2>a, <3>1, <3>3, <3>4 DEF WithinBudget, Current
  <2>4. ASSUME NEW n \in Lives, NEW kinds, CompleteCall(n, kinds) PROVE WithinBudget'
    <3>1. /\ calling[n].stage = "effected" /\ calling' = [calling EXCEPT ![n] = NoCall]
          /\ rows' = [rows EXCEPT ![calling[n].row].done = TRUE] /\ taken' = taken
      BY <2>4 DEF CompleteCall, Counts
    <3>2. InProgress(n) /\ calling[n].row \in DOMAIN rows
      BY <3>1, CalledIsCall
    <3>3. PICK l \in LoopRow :
            /\ Moves(n, l)
            /\ \/ l.todo = {}
               \/ /\ Batch(l) = <<"execute", loop[n].reply, loop[n].todo \ {calling[n].at},
                                  loop[n].memo \cup {c \in {Called(n)} : c.kind = "effect"}>>
                  /\ l.extra = loop[n].extra
      BY <2>4, CompletingSteps
    <3>4. /\ DOMAIN rows' = DOMAIN rows /\ Len(rows') = Len(rows)
          /\ \A i \in DOMAIN rows : rows'[i].by = rows[i].by /\ rows'[i].extra = rows[i].extra
      BY <3>1, <3>2, ResultIsStored
    <3>5. BudgetKept'
      BY <2>0, <3>4, RowsStayWithin
    <3>6. PlanFits(cur)'
      <4>1. CASE n # cur
        <5>1. loop'[cur] = loop[cur] /\ calling'[cur] = calling[cur]
          BY <2>0, <3>1, <3>3, <4>1 DEF Moves
        <5>2. Rest(cur)' = Rest(cur)
          BY <5>1, RestStays
        <5> QED
          BY <2>a, <3>4, <5>1, <5>2 DEF PlanFits, MaxToolCalls
      <4>2. CASE n = cur /\ l.todo = {}
        BY <2>0, <3>3, <4>2 DEF PlanFits, Moves
      <4>3. CASE n = cur /\ l.todo # {}
        <5>1. /\ loop'[n] = l /\ l.phase = "execute" /\ l.reply = loop[n].reply
              /\ l.todo = loop[n].todo \ {calling[n].at} /\ l.extra = loop[n].extra
              /\ l.memo = Remembered(loop[n].memo, Called(n))
          BY <2>0, <3>3, <4>3 DEF Moves, Batch, Remembered
        <5>2. calling'[n] = NoCall
          BY <2>0, <3>1
        <5>3. Rest(n)' = Rest(n)
          <6>1. Rest(n) = Planned(loop[n].reply, loop[n].todo \ {calling[n].at}, Remembered(loop[n].memo, Called(n)))
            BY <3>1 DEF Rest
          <6>2. Rest(n)' = Planned(l.reply, l.todo, l.memo)
            BY <5>1, <5>2 DEF Rest, NoCall, Planned
          <6> QED
            BY ONLY <5>1, <6>1, <6>2
        <5> QED
          BY <2>a, <3>2, <3>4, <4>3, <5>1, <5>3 DEF PlanFits, InProgress, MaxToolCalls
      <4> QED
        BY <4>1, <4>2, <4>3
    <3> QED
      BY <2>a, <3>1, <3>5, <3>6 DEF WithinBudget, Current
  <2>5. ASSUME NEW n \in Lives, StartNodeCall(n) PROVE WithinBudget'
    <3>1. PICK c \in AnyCall : RowAdded(n, c, "node") /\ calling' = calling /\ taken' = taken
      BY <2>5 DEF StartNodeCall, AnyCall, Counts
    <3>2. /\ \A m \in Lives : Batch(loop'[m]) = Batch(loop[m])
          /\ loop'[Current].extra = loop[Current].extra + 1
          /\ Len(rows') = Len(rows) + 1
          /\ DOMAIN rows' = 1..(Len(rows) + 1) /\ DOMAIN rows = 1..Len(rows)
          /\ \A j \in DOMAIN rows : rows'[j] = rows[j]
      BY <3>1, CallIsRecorded
    <3>3. rows'[Len(rows) + 1] = [call |-> c, by |-> "node", life |-> n, extra |-> loop[n].extra, done |-> FALSE]
      BY <3>1, CallIsRecorded
    <3>4. rows'[Len(rows) + 1].by = "node"
      BY <3>3
    <3>5. PlanFits(cur)'
      <4>1. Rest(cur)' = Rest(cur)
        BY <3>1, <3>2, RestStays
      <4> QED
        BY <2>a, <3>2, <4>1, PlanStays
    <3>6. BudgetKept'
      BY <2>0, <3>2, <3>4 DEF BudgetKept, MaxToolCalls
    <3> QED
      BY <2>a, <3>1, <3>5, <3>6 DEF WithinBudget, Current
  <2>6. ASSUME NEW n \in Lives, CompleteNodeCall(n) PROVE WithinBudget'
    <3>1. PICK r \in DOMAIN rows : /\ rows' = [rows EXCEPT ![r].done = TRUE]
                                   /\ loop' = loop /\ calling' = calling /\ taken' = taken
      BY <2>6 DEF CompleteNodeCall, NodeRows, Counts
    <3>2. /\ DOMAIN rows' = DOMAIN rows /\ Len(rows') = Len(rows)
          /\ \A i \in DOMAIN rows : rows'[i].by = rows[i].by /\ rows'[i].extra = rows[i].extra
      BY <3>1, ResultIsStored
    <3>3. BudgetKept'
      BY <2>0, <3>2, RowsStayWithin
    <3>4. Rest(cur)' = Rest(cur)
      BY <3>1, RestStays
    <3> QED
      BY <2>a, <3>1, <3>2, <3>3, <3>4 DEF WithinBudget, PlanFits, Current, MaxToolCalls
  <2>7. CASE TakeUpAgain \/ Overtake
    <3>1. PICK old \in LoopRow : NewLife(old)
      <4>1. "stopped" \in Phases \ Busy /\ loop[Current] \in LoopRow
        BY <2>0, <2>a DEF Phases, Busy
      <4> QED
        BY <2>7, <4>1, LeavesFits DEF TakeUpAgain, Overtake
    <3>2. PICK next \in Lives : next = Current' /\ loop'[next].todo = {}
      BY <2>0, <3>1, LifeBegins
    <3>3. PlanFits(next)'
      BY <3>2 DEF PlanFits
    <3>4. rows' = rows
      BY <3>1 DEF NewLife
    <3>5. BudgetKept'
      BY <2>0, <3>4, RowsStayWithin
    <3> QED
      BY <3>2, <3>3, <3>5 DEF WithinBudget
  <2>8. CASE UNCHANGED toolVars
    <3>1. UNCHANGED <<loop, calling, rows, taken>>
      BY <2>8 DEF toolVars
    <3>2. Rest(cur)' = Rest(cur)
      BY <3>1, RestStays
    <3>3. BudgetKept'
      BY <2>0, <3>1, RowsStayWithin
    <3> QED
      BY <2>a, <3>1, <3>2, <3>3 DEF WithinBudget, PlanFits, Current, MaxToolCalls
  <2> QED
    BY <2>1, <2>2, <2>3, <2>4, <2>5, <2>6, <2>7, <2>8, LoopSteps
<1>3. WithinBudget => BudgetKept
  BY DEF WithinBudget
<1> QED
  BY <1>1, <1>2, <1>3, LoopKept, PTL DEF LoopSpec

-----------------------------------------------------------------------------
(* Streams of the model and the candidates of a fallback *)

StreamSpec == StreamInit /\ [][StreamNext]_streamVars

StreamRow ==
  [phase : {"idle", "reading", "answered", "failed"}, content : Nat, chunk : Nat, events : Nat, shown : Nat,
   dropped : Nat, partials : SUBSET Nat, calls : SUBSET Nat]

\* What was sent is read: shown, dropped or in the chunk; calls are finitely many, and
\* the answer has those that FinishStreamToolCalls finds.
StreamFits ==
  /\ stream \in StreamRow /\ sent \in [content : Nat, calls : SUBSET Nat]
  /\ stream.content = sent.content
  /\ stream.shown + stream.dropped + stream.chunk = sent.content
  /\ stream.partials = sent.calls
  /\ IsFiniteSet(sent.calls)
  /\ stream.phase = "idle" => sent.content = 0 /\ sent.calls = {}
  /\ stream.phase = "answered" => stream.chunk = 0 /\ stream.calls = FinishStreamToolCalls(sent.calls)

\* Candidates that were given up were asked once or twice, those to come not at all.
FallbackFits ==
  /\ fallback \in [cand : Nat, tries : [1..Candidates -> Nat], outcome : {"none", "answer", "cancelled", "failed"}]
  /\ \A i \in 1..Candidates :
       /\ i < fallback.cand => fallback.tries[i] \in 1..2
       /\ i = fallback.cand => fallback.tries[i] \in 0..2
       /\ i = fallback.cand /\ fallback.outcome = "none" => fallback.tries[i] < 2
       /\ i > fallback.cand => fallback.tries[i] = 0
  /\ fallback.outcome = "failed" => \A i \in 1..Candidates : fallback.tries[i] \in 1..2

\* A call that is not found comes after an index that is not there: calls up to an
\* index, without a gap, are more than the index says.
LEMMA LostPastGaps ==
  ASSUME NEW C \in SUBSET Nat, IsFiniteSet(C), NEW i \in C \ FinishStreamToolCalls(C)
  PROVE  \E skipped \in 0..(i - 1) : skipped \notin C
<1> SUFFICES ASSUME \A k \in 0..(i - 1) : k \in C
             PROVE  FALSE
  OBVIOUS
<1>1. i \in Nat /\ 0..i \subseteq C
  OBVIOUS
<1>2. Cardinality(0..i) = i + 1
  BY <1>1, FS_Interval
<1>3. Cardinality(0..i) <= Cardinality(C) /\ Cardinality(C) \in Nat
  BY <1>1, FS_Subset, FS_CardinalityType
<1>4. i \in 0..(Cardinality(C) - 1)
  BY <1>1, <1>2, <1>3
<1> QED
  BY <1>4 DEF FinishStreamToolCalls

\* An event takes the chunk, which is shown or counted as dropped.
LEMMA EmitKeeps ==
  ASSUME NEW s \in StreamRow, MaxEvents \in Nat
  PROVE  /\ Emit(s) \in StreamRow
         /\ Emit(s).phase = s.phase /\ Emit(s).content = s.content /\ Emit(s).partials = s.partials
         /\ Emit(s).chunk = 0
         /\ Emit(s).shown + Emit(s).dropped = s.shown + s.dropped + s.chunk
<1>1. CASE s.events < MaxEvents
  <2>1. Emit(s) = [phase |-> s.phase, content |-> s.content, chunk |-> 0, events |-> s.events + 1,
                   shown |-> s.shown + s.chunk, dropped |-> s.dropped, partials |-> s.partials, calls |-> s.calls]
    BY <1>1 DEF Emit, StreamRow
  <2> QED
    BY <2>1 DEF StreamRow
<1>2. CASE ~(s.events < MaxEvents)
  <2>1. Emit(s) = [phase |-> s.phase, content |-> s.content, chunk |-> 0, events |-> s.events,
                   shown |-> s.shown, dropped |-> s.dropped + s.chunk, partials |-> s.partials, calls |-> s.calls]
    BY <1>2 DEF Emit, StreamRow
  <2> QED
    BY <2>1 DEF StreamRow
<1> QED
  BY <1>1, <1>2

\* Nothing of a streamed answer is lost between the provider and the loop, whatever the
\* sizes of its pieces and wherever events are flushed or dropped, but tool calls past
\* an index that the provider skipped; a fallback gives up only after every candidate
\* failed.
THEOREM StreamsAreWhole ==
  ASSUME StreamConfigured
  PROVE  StreamSpec => []AnswerIsWhole
<1> USE DEF StreamConfigured
<1>1. StreamInit => StreamFits /\ FallbackFits
  <2> SUFFICES ASSUME StreamInit PROVE StreamFits /\ FallbackFits
    OBVIOUS
  <2>1. sent.calls = {} /\ IsFiniteSet({})
    BY FS_EmptySet DEF StreamInit
  <2>2. stream \in StreamRow
    BY DEF StreamInit, NoStream, StreamRow
  <2> QED
    BY <2>1, <2>2 DEF StreamInit, NoStream, StreamFits, FallbackFits
<1>2. StreamFits /\ [StreamNext]_streamVars => StreamFits'
  <2> SUFFICES ASSUME StreamFits, [StreamNext]_streamVars PROVE StreamFits'
    OBVIOUS
  <2>1. CASE ChatStream
    BY <2>1 DEF ChatStream, StreamFits, NoStream, StreamRow
  <2>2. CASE ContentDelta
    <3>1. PICK n \in 1..(FlushBytes + 1) :
            /\ stream.phase = "reading" /\ sent' = [sent EXCEPT !.content = @ + n]
            /\ LET s == [stream EXCEPT !.content = @ + n, !.chunk = @ + n]
               IN  stream' = IF s.chunk >= FlushBytes THEN Emit(s) ELSE s
      BY <2>2 DEF ContentDelta
    <3>2. PICK s : s = [stream EXCEPT !.content = @ + n, !.chunk = @ + n]
      OBVIOUS
    <3>3. /\ s \in StreamRow /\ s.phase = "reading" /\ s.content = stream.content + n
          /\ s.chunk = stream.chunk + n /\ s.partials = stream.partials
          /\ s.shown = stream.shown /\ s.dropped = stream.dropped
      <4>1. stream \in StreamRow /\ n \in Nat
        BY DEF StreamFits
      <4>2. s = [phase |-> stream.phase, content |-> stream.content + n, chunk |-> stream.chunk + n,
                 events |-> stream.events, shown |-> stream.shown, dropped |-> stream.dropped,
                 partials |-> stream.partials, calls |-> stream.calls]
        BY <3>2, <4>1 DEF StreamRow
      <4> QED
        BY <3>1, <4>1, <4>2 DEF StreamRow
    <3>4. stream' = Emit(s) \/ stream' = s
      BY <3>1, <3>2
    <3>5. /\ stream' \in StreamRow /\ stream'.phase = "reading" /\ stream'.content = s.content
          /\ stream'.partials = s.partials
          /\ stream'.shown + stream'.dropped + stream'.chunk = s.shown + s.dropped + s.chunk
      <4>1. CASE stream' = s
        BY <3>3, <4>1
      <4>2. CASE stream' = Emit(s)
        BY <3>3, <4>2, EmitKeeps DEF StreamRow
      <4> QED
        BY <3>4, <4>1, <4>2
    <3>6. sent' \in [content : Nat, calls : SUBSET Nat] /\ sent'.content = sent.content + n /\ sent'.calls = sent.calls
      BY <3>1 DEF StreamFits
    <3>7. /\ stream.content \in Nat /\ stream.shown \in Nat /\ stream.dropped \in Nat /\ stream.chunk \in Nat
          /\ sent.content \in Nat /\ n \in Nat
      BY DEF StreamFits, StreamRow
    <3>8. stream'.content = sent'.content /\ stream'.shown + stream'.dropped + stream'.chunk = sent'.content
      BY <3>3, <3>5, <3>6, <3>7 DEF StreamFits
    <3>9. stream'.partials = sent'.calls /\ IsFiniteSet(sent'.calls)
      BY <3>3, <3>5, <3>6 DEF StreamFits
    <3> QED
      BY <3>5, <3>6, <3>8, <3>9 DEF StreamFits
  <2>3. CASE ToolCallDelta
    <3>3. PICK i \in 0..MaxIndex :
            /\ sent' = [sent EXCEPT !.calls = @ \cup {i}]
            /\ stream' = [stream EXCEPT !.partials = @ \cup {i}]
      BY <2>3 DEF ToolCallDelta
    <3>4. stream.phase = "reading"
      BY <2>3 DEF ToolCallDelta
    <3>5. i \in Nat /\ IsFiniteSet(sent.calls \cup {i})
      BY FS_AddElement DEF StreamFits
    <3>6. /\ stream' \in StreamRow /\ sent' \in [content : Nat, calls : SUBSET Nat]
          /\ stream'.partials = sent'.calls /\ sent'.calls = sent.calls \cup {i}
          /\ sent'.content = sent.content /\ stream'.phase = "reading"
          /\ stream'.content = stream.content /\ stream'.chunk = stream.chunk
          /\ stream'.shown = stream.shown /\ stream'.dropped = stream.dropped
      BY <3>3, <3>4, <3>5 DEF StreamFits, StreamRow
    <3> QED
      BY <3>5, <3>6 DEF StreamFits
  <2>4. CASE StreamEnds
    <3>1. PICK s : /\ s = IF stream.chunk > 0 THEN Emit(stream) ELSE stream
                   /\ stream' = [s EXCEPT !.phase = "answered", !.calls = FinishStreamToolCalls(s.partials)]
      BY <2>4 DEF StreamEnds
    <3>2. /\ s \in StreamRow /\ s.content = stream.content /\ s.partials = stream.partials /\ s.chunk = 0
          /\ s.shown + s.dropped = stream.shown + stream.dropped + stream.chunk
      <4>1. /\ stream \in StreamRow /\ stream.chunk \in Nat /\ stream.shown \in Nat /\ stream.dropped \in Nat
            /\ MaxEvents \in Nat
        BY DEF StreamFits, StreamRow
      <4>2. CASE stream.chunk > 0
        <5>1. s = Emit(stream)
          BY <3>1, <4>2
        <5> QED
          BY ONLY <4>1, <5>1, EmitKeeps
      <4>3. CASE ~(stream.chunk > 0)
        BY ONLY <3>1, <4>1, <4>3
      <4> QED
        BY <4>2, <4>3
    <3>3. FinishStreamToolCalls(s.partials) = FinishStreamToolCalls(sent.calls)
      BY <3>2 DEF StreamFits
    <3>4. /\ stream' \in StreamRow /\ stream'.phase = "answered"
          /\ stream'.calls = FinishStreamToolCalls(sent.calls)
          /\ stream'.content = s.content /\ stream'.partials = s.partials /\ stream'.chunk = 0
          /\ stream'.shown = s.shown /\ stream'.dropped = s.dropped
      <4>1. PICK found : found = FinishStreamToolCalls(sent.calls)
        OBVIOUS
      <4>2. found \in SUBSET Nat
        BY <4>1 DEF FinishStreamToolCalls, StreamFits
      <4>3. stream' = [s EXCEPT !.phase = "answered", !.calls = found]
        BY <3>1, <3>3, <4>1
      <4> QED
        BY ONLY <3>2, <4>1, <4>2, <4>3 DEF StreamRow
    <3>5. sent' = sent
      BY <2>4 DEF StreamEnds
    <3> QED
      BY <3>2, <3>4, <3>5 DEF StreamFits, StreamRow
  <2>5. CASE StreamCancelled
    BY <2>5 DEF StreamCancelled, StreamFits, StreamRow
  <2>6. CASE FallbackBegins \/ ExecuteFallback \/ UNCHANGED streamVars
    BY <2>6 DEF FallbackBegins, ExecuteFallback, streamVars, StreamFits
  <2> QED
    BY <2>1, <2>2, <2>3, <2>4, <2>5, <2>6 DEF StreamNext
<1>3. FallbackFits /\ [StreamNext]_streamVars => FallbackFits'
  <2> SUFFICES ASSUME FallbackFits, [StreamNext]_streamVars PROVE FallbackFits'
    OBVIOUS
  <2>1. CASE FallbackBegins
    BY <2>1 DEF FallbackBegins, FallbackFits
  <2>2. CASE ExecuteFallback
    <3>a. PICK c \in Nat : c = fallback.cand
      BY DEF FallbackFits
    <3>b. PICK tries : tries = [fallback.tries EXCEPT ![c] = @ + 1]
      OBVIOUS
    <3>1. /\ c > 0 /\ fallback.outcome = "none" /\ fallback'.tries = tries
          /\ fallback' \in [cand : {c, c + 1}, tries : {tries}, outcome : {"none", "answer", "cancelled", "failed"}]
          /\ \/ fallback'.cand = c /\ fallback'.outcome \in {"answer", "cancelled"}
             \/ fallback'.cand = c /\ fallback'.outcome = "none" /\ fallback.tries[c] = 0
             \/ fallback'.cand = c + 1 /\ fallback'.outcome = "none" /\ c < Candidates
             \/ fallback'.cand = c /\ fallback'.outcome = "failed" /\ c >= Candidates
      BY <2>2, <3>a, <3>b DEF ExecuteFallback, FallbackFits
    <3>2. tries \in [1..Candidates -> Nat]
      <4>1. fallback.tries \in [1..Candidates -> Nat]
        BY DEF FallbackFits
      <4>a. PICK old \in [1..Candidates -> Nat] : old = fallback.tries
        BY <4>1
      <4>2. tries = [i \in 1..Candidates |-> IF i = c THEN old[c] + 1 ELSE old[i]]
        BY <3>b, <4>a
      <4> QED
        BY <4>2
    <3>3. \A i \in 1..Candidates :
            /\ i < c => tries[i] \in 1..2
            /\ i = c => tries[i] \in 1..2 /\ tries[i] = fallback.tries[i] + 1
            /\ i > c => tries[i] = 0
      BY <3>a, <3>b, <3>1 DEF FallbackFits
    <3>4. /\ fallback'.cand \in Nat /\ fallback'.tries \in [1..Candidates -> Nat]
          /\ fallback'.outcome \in {"none", "answer", "cancelled", "failed"}
      BY <3>1, <3>2
    <3>5. fallback' \in [cand : Nat, tries : [1..Candidates -> Nat], outcome : {"none", "answer", "cancelled", "failed"}]
      BY <3>1, <3>2
    <3>6. ASSUME NEW i \in 1..Candidates
          PROVE  /\ i < fallback'.cand => tries[i] \in 1..2
                 /\ i = fallback'.cand => tries[i] \in 0..2
                 /\ i = fallback'.cand /\ fallback'.outcome = "none" => tries[i] < 2
                 /\ i > fallback'.cand => tries[i] = 0
      BY <3>1, <3>3
    <3>7. fallback'.outcome = "failed" => \A i \in 1..Candidates : tries[i] \in 1..2
      BY <3>1, <3>3
    <3> QED
      BY <3>1, <3>5, <3>6, <3>7 DEF FallbackFits
  <2>3. CASE UNCHANGED fallback
    BY <2>3 DEF FallbackFits
  <2> QED
    BY <2>1, <2>2, <2>3
    DEF StreamNext, streamVars, ChatStream, ContentDelta, ToolCallDelta, StreamEnds, StreamCancelled
<1>4. StreamFits /\ FallbackFits => AnswerIsWhole
  <2> SUFFICES ASSUME StreamFits, FallbackFits PROVE AnswerIsWhole
    OBVIOUS
  <2>1. sent.calls \in SUBSET Nat /\ FinishStreamToolCalls(sent.calls) \subseteq sent.calls
    BY DEF StreamFits, FinishStreamToolCalls
  <2>2. \A i \in sent.calls \ FinishStreamToolCalls(sent.calls) : \E skipped \in 0..(i - 1) : skipped \notin sent.calls
    BY <2>1, LostPastGaps DEF StreamFits
  <2> QED
    BY <2>1, <2>2 DEF StreamFits, FallbackFits, AnswerIsWhole, StreamRow
<1> QED
  BY <1>1, <1>2, <1>3, <1>4, PTL DEF StreamSpec

-----------------------------------------------------------------------------
(* Calls of MCP servers *)

MCPSpec == MCPInit /\ [][MCPNext]_mcpVars

CallerRow ==
  [phase : {"idle", "waiting", "attempt", "ready", "reading", "backoff", "done", "closed", "lost"},
   op : {"none", "call", "read"}, manager : Managers \cup {"none"}, attempt : Nat, id : Nat,
   result : ToolCallers \cup {"none", "error", "nothing"}]
Line == [id : Nat, result : ToolCallers \cup {"refused", "garbage"}]
SessionState == [alive : BOOLEAN, opener : ToolCallers \cup {"none"}, out : Seq(Line)]
ServerTroubles == [spent : Nat, deaths : Nat, garbled : Nat, refused : Nat, silent : Nat]

MCPTypes ==
  /\ spec \in [transport : Transports, maxConcurrent : ServerLimits]
  /\ caller \in [ToolCallers -> CallerRow] /\ over \in SUBSET ToolCallers
  /\ mcpSession \in [Managers -> SessionState] /\ nextID \in [Managers -> Nat]
  /\ mcpStatus \in [calls : Nat, failures : Nat]
  /\ mcpEffects \in [ToolCallers -> Nat]
  /\ record \in [ToolCallers -> {"none", "running", "failed", "succeeded"}]
  /\ mcpTrouble \in ServerTroubles

\* Attempts a request may have.
AttemptsOf(op) == IF op = "call" /\ RetryDelay > 0 THEN MaxRetries + 1 ELSE 1

\* A call's phase, result, attempts, effects and row agree; a context that has ended
\* waits for nothing.
CallFits(c) ==
  /\ caller[c].phase = "idle" => caller[c] = Caller /\ record[c] = "none" /\ mcpEffects[c] = 0
  /\ caller[c].phase # "idle" => caller[c].manager \in Managers /\ caller[c].op \in {"call", "read"}
  /\ caller[c].result \in {"none", "error", "nothing", c}
  /\ caller[c].phase \in {"done", "closed", "lost"} => caller[c].result # "none"
  /\ caller[c].phase \notin {"done", "closed", "lost"} => caller[c].result \in {"none", "error"}
  /\ mcpEffects[c] <= caller[c].attempt
  /\ caller[c].phase = "ready" => mcpEffects[c] + 1 <= caller[c].attempt
  /\ caller[c].attempt <= AttemptsOf(caller[c].op)
  /\ caller[c].phase \in {"waiting", "attempt", "backoff"} => caller[c].attempt + 1 <= AttemptsOf(caller[c].op)
  /\ caller[c].result \in {c, "nothing"} => mcpEffects[c] > 0
  /\ record[c] \in {"failed", "succeeded"} <=> caller[c].phase = "closed"
  /\ record[c] = "succeeded" => caller[c].result \in {c, "nothing"}
  /\ record[c] = "failed" => caller[c].result = "error"
  /\ caller[c].phase = "lost" => record[c] = "running" /\ (c \in over \/ mcpTrouble.refused > 0)
  /\ c \in over => caller[c].phase \notin {"idle", "waiting", "backoff"}

\* What is left in a pipe when nobody reads are answers of earlier requests.
ProcessFits(m) ==
  /\ mcpSession[m].opener = "none" => mcpSession[m] = NoSession
  /\ \A i \in DOMAIN mcpSession[m].out : mcpSession[m].out[i].id < nextID[m]
  /\ ~Exchanging(m) => \A i \in DOMAIN mcpSession[m].out : mcpSession[m].out[i].result \in ToolCallers

\* Of what is in the pipe for a request one line at most is not an answer, and nothing
\* that answers it comes before that.
PipeFits(pipe, n) ==
  \A i, j \in DOMAIN pipe : i < j /\ pipe[j].result \notin ToolCallers => pipe[i].result \in ToolCallers /\ pipe[i].id # n

\* One reads from a process, for the last request, and what answers it is its own.
ReaderFits(c) ==
  caller[c].phase = "reading" =>
    LET m == caller[c].manager IN
    /\ caller[c].id + 1 = nextID[m]
    /\ mcpSession[m] # NoSession
    /\ \A d \in ToolCallers : caller[d].phase = "reading" /\ caller[d].manager = m => d = c
    /\ PipeFits(mcpSession[m].out, caller[c].id)
    /\ \A i \in DOMAIN mcpSession[m].out :
         mcpSession[m].out[i].id = caller[c].id /\ mcpSession[m].out[i].result \in ToolCallers =>
           mcpSession[m].out[i].result = c /\ mcpEffects[c] > 0

ReadsInVain(c) ==
  /\ caller[c].phase = "reading" /\ mcpSession[caller[c].manager].alive
  /\ \A i \in DOMAIN mcpSession[caller[c].manager].out : mcpSession[caller[c].manager].out[i].id # caller[c].id

\* Processes that died unnoticed, readers that will fail, and requests whose context
\* has ended before they are sent: what was paid for and has not failed yet.
DeadOnes == {m \in Managers : mcpSession[m] # NoSession /\ ~mcpSession[m].alive}
WillFail(c) ==
  /\ caller[c].phase = "reading"
  /\ \/ ~mcpSession[caller[c].manager].alive
     \/ \E i \in DOMAIN mcpSession[caller[c].manager].out :
          \/ mcpSession[caller[c].manager].out[i] = Garbage
          \/ /\ mcpSession[caller[c].manager].out[i].id = caller[c].id
             /\ mcpSession[caller[c].manager].out[i].result = "refused"
FailingReaders == {c \in ToolCallers : WillFail(c)}
TooLate == {c \in over : caller[c].phase \in {"attempt", "ready"}}
PaidFailures == 2 * mcpTrouble.deaths + mcpTrouble.garbled + mcpTrouble.refused
FailuresArePaid ==
  spec.transport = "persistent" =>
    mcpStatus.failures + Cardinality(DeadOnes) + Cardinality(FailingReaders) + Cardinality(TooLate)
      <= PaidFailures + Cardinality(over)

AskedOf == {c \in ToolCallers : caller[c].phase \in {"ready", "reading"}}
GotAnswers == {c \in ToolCallers : caller[c].result \in ToolCallers \cup {"nothing"}}
CallsAddUp == mcpStatus.failures + Cardinality(GotAnswers) + Cardinality(AskedOf) = mcpStatus.calls

MCPKept ==
  /\ MCPTypes
  /\ \A c \in ToolCallers : CallFits(c)
  /\ \A m \in Managers : ProcessFits(m)
  /\ \A c \in ToolCallers : ReaderFits(c)
  /\ \A c \in ToolCallers : ReadsInVain(c) => mcpTrouble.silent > 0
  /\ SlotsHold
  /\ CallsAddUp
  /\ FailuresArePaid

-----------------------------------------------------------------------------
\* Sets that differ in one element differ by one at most.
LEMMA OneElementMoves ==
  ASSUME NEW S, NEW T, NEW e, IsFiniteSet(S), IsFiniteSet(T), S \ {e} = T \ {e}
  PROVE  /\ Cardinality(S) \in Nat /\ Cardinality(T) \in Nat
         /\ e \in S /\ e \in T => Cardinality(T) = Cardinality(S)
         /\ e \in S /\ e \notin T => Cardinality(T) + 1 = Cardinality(S)
         /\ e \notin S /\ e \in T => Cardinality(T) = Cardinality(S) + 1
         /\ e \notin S /\ e \notin T => Cardinality(T) = Cardinality(S)
<1>1. Cardinality(S) \in Nat /\ Cardinality(T) \in Nat
  BY FS_CardinalityType
<1>2. /\ Cardinality(S \ {e}) = IF e \in S THEN Cardinality(S) - 1 ELSE Cardinality(S)
      /\ Cardinality(T \ {e}) = IF e \in T THEN Cardinality(T) - 1 ELSE Cardinality(T)
  BY FS_RemoveElement
<1> QED
  BY <1>1, <1>2

\* What is said of callers and managers is of finitely many.
LEMMA MCPSetsAreFinite ==
  ASSUME MCPConfigured, MCPTypes
  PROVE  /\ IsFiniteSet(over) /\ IsFiniteSet(DeadOnes) /\ IsFiniteSet(FailingReaders) /\ IsFiniteSet(TooLate)
         /\ IsFiniteSet(AskedOf) /\ IsFiniteSet(GotAnswers)
         /\ \A m : IsFiniteSet(InUse(m))
         /\ Cardinality(over) \in Nat /\ Cardinality(DeadOnes) \in Nat /\ Cardinality(FailingReaders) \in Nat
         /\ Cardinality(TooLate) \in Nat /\ Cardinality(AskedOf) \in Nat /\ Cardinality(GotAnswers) \in Nat
         /\ \A m : Cardinality(InUse(m)) \in Nat
<1>1. /\ over \subseteq ToolCallers /\ DeadOnes \subseteq Managers /\ FailingReaders \subseteq ToolCallers
      /\ TooLate \subseteq ToolCallers /\ AskedOf \subseteq ToolCallers /\ GotAnswers \subseteq ToolCallers
      /\ \A m : InUse(m) \subseteq ToolCallers
  BY DEF MCPTypes, DeadOnes, FailingReaders, TooLate, AskedOf, GotAnswers, InUse
<1>2. IsFiniteSet(ToolCallers) /\ IsFiniteSet(Managers)
  BY DEF MCPConfigured
<1>3. /\ IsFiniteSet(over) /\ IsFiniteSet(DeadOnes) /\ IsFiniteSet(FailingReaders) /\ IsFiniteSet(TooLate)
      /\ IsFiniteSet(AskedOf) /\ IsFiniteSet(GotAnswers)
  BY <1>1, <1>2, FS_Subset
<1>4. \A m : IsFiniteSet(InUse(m))
  BY <1>1, <1>2, FS_Subset
<1> QED
  BY <1>3, <1>4, FS_CardinalityType

\* A step of one caller leaves the others' rows alone.
OneCallerMoves(c) ==
  /\ caller' \in [ToolCallers -> CallerRow]
  /\ \A d \in ToolCallers : d # c => caller'[d] = caller[d]

\* What a caller asks for when, and what it may have done, stays.
RequestStays(c) ==
  caller'[c].op = caller[c].op /\ caller'[c].manager = caller[c].manager

\* The counts of the calls under way and answered follow the caller that moves.
LEMMA CallsMove ==
  ASSUME MCPConfigured, MCPTypes, MCPTypes', NEW c \in ToolCallers, OneCallerMoves(c)
  PROVE  /\ c \in AskedOf <=> caller[c].phase \in {"ready", "reading"}
         /\ c \in AskedOf' <=> caller'[c].phase \in {"ready", "reading"}
         /\ c \in AskedOf /\ c \in AskedOf' => Cardinality(AskedOf') = Cardinality(AskedOf)
         /\ c \in AskedOf /\ c \notin AskedOf' => Cardinality(AskedOf') + 1 = Cardinality(AskedOf)
         /\ c \notin AskedOf /\ c \in AskedOf' => Cardinality(AskedOf') = Cardinality(AskedOf) + 1
         /\ c \notin AskedOf /\ c \notin AskedOf' => Cardinality(AskedOf') = Cardinality(AskedOf)
         /\ c \in GotAnswers <=> caller[c].result \in ToolCallers \cup {"nothing"}
         /\ c \in GotAnswers' <=> caller'[c].result \in ToolCallers \cup {"nothing"}
         /\ c \in GotAnswers /\ c \in GotAnswers' => Cardinality(GotAnswers') = Cardinality(GotAnswers)
         /\ c \notin GotAnswers /\ c \in GotAnswers' => Cardinality(GotAnswers') = Cardinality(GotAnswers) + 1
         /\ c \notin GotAnswers /\ c \notin GotAnswers' => Cardinality(GotAnswers') = Cardinality(GotAnswers)
         /\ Cardinality(AskedOf) \in Nat /\ Cardinality(GotAnswers) \in Nat
         /\ Cardinality(AskedOf') \in Nat /\ Cardinality(GotAnswers') \in Nat
<1>1. /\ IsFiniteSet(AskedOf) /\ IsFiniteSet(GotAnswers)
      /\ Cardinality(AskedOf) \in Nat /\ Cardinality(GotAnswers) \in Nat
  BY MCPSetsAreFinite
<1>2. /\ IsFiniteSet(AskedOf') /\ IsFiniteSet(GotAnswers')
      /\ Cardinality(AskedOf') \in Nat /\ Cardinality(GotAnswers') \in Nat
  <2>1. /\ IsFiniteSet(AskedOf)' /\ IsFiniteSet(GotAnswers)'
        /\ (Cardinality(AskedOf) \in Nat)' /\ (Cardinality(GotAnswers) \in Nat)'
    <3>1. AskedOf' \subseteq ToolCallers /\ GotAnswers' \subseteq ToolCallers
      BY DEF AskedOf, GotAnswers
    <3>2. IsFiniteSet(ToolCallers)
      BY DEF MCPConfigured
    <3> QED
      BY ONLY <3>1, <3>2, FS_Subset, FS_CardinalityType
  <2> QED
    BY <2>1
<1>3. AskedOf \ {c} = AskedOf' \ {c} /\ GotAnswers \ {c} = GotAnswers' \ {c}
  BY DEF AskedOf, GotAnswers, OneCallerMoves
<1>4. /\ c \in AskedOf <=> caller[c].phase \in {"ready", "reading"}
      /\ c \in AskedOf' <=> caller'[c].phase \in {"ready", "reading"}
      /\ c \in GotAnswers <=> caller[c].result \in ToolCallers \cup {"nothing"}
      /\ c \in GotAnswers' <=> caller'[c].result \in ToolCallers \cup {"nothing"}
  BY DEF AskedOf, GotAnswers
<1> HIDE DEF MCPTypes, OneCallerMoves, AskedOf, GotAnswers
<1>5. /\ c \in AskedOf /\ c \in AskedOf' => Cardinality(AskedOf') = Cardinality(AskedOf)
      /\ c \in AskedOf /\ c \notin AskedOf' => Cardinality(AskedOf') + 1 = Cardinality(AskedOf)
      /\ c \notin AskedOf /\ c \in AskedOf' => Cardinality(AskedOf') = Cardinality(AskedOf) + 1
      /\ c \notin AskedOf /\ c \notin AskedOf' => Cardinality(AskedOf') = Cardinality(AskedOf)
  BY <1>1, <1>2, <1>3, OneElementMoves
<1>6. /\ c \in GotAnswers /\ c \in GotAnswers' => Cardinality(GotAnswers') = Cardinality(GotAnswers)
      /\ c \notin GotAnswers /\ c \in GotAnswers' => Cardinality(GotAnswers') = Cardinality(GotAnswers) + 1
      /\ c \notin GotAnswers /\ c \notin GotAnswers' => Cardinality(GotAnswers') = Cardinality(GotAnswers)
  BY <1>1, <1>2, <1>3, OneElementMoves
<1> QED
  BY <1>1, <1>2, <1>4, <1>5, <1>6

\* Who takes no slot and gives none back leaves the slots as they are.
LEMMA SlotsMove ==
  ASSUME MCPConfigured, MCPTypes, SlotsHold, spec' = spec, NEW c \in ToolCallers, OneCallerMoves(c),
         caller'[c].phase \in {"attempt", "ready", "reading", "backoff"} =>
           caller[c].phase \in {"attempt", "ready", "reading", "backoff"} /\ RequestStays(c)
  PROVE  SlotsHold'
<1> SUFFICES ASSUME spec'.maxConcurrent # 0, NEW m \in Managers
             PROVE  Cardinality(InUse(m)') <= spec'.maxConcurrent
  BY DEF SlotsHold
<1>1. InUse(m)' \subseteq InUse(m)
  BY DEF InUse, OneCallerMoves, RequestStays
<1>2. IsFiniteSet(InUse(m)) /\ Cardinality(InUse(m)) \in Nat
  BY MCPSetsAreFinite
<1>3. Cardinality(InUse(m)') <= Cardinality(InUse(m)) /\ Cardinality(InUse(m)') \in Nat
  BY <1>1, <1>2, FS_Subset, FS_CardinalityType
<1>4. spec.maxConcurrent \in Nat
  BY DEF MCPTypes, MCPConfigured
<1>5. Cardinality(InUse(m)) <= spec.maxConcurrent
  BY DEF SlotsHold
<1> QED
  BY <1>2, <1>3, <1>4, <1>5

\* The others' calls fit as they did.
LEMMA OtherCallsFit ==
  ASSUME NEW d \in ToolCallers, CallFits(d), caller'[d] = caller[d], record'[d] = record[d],
         mcpEffects'[d] = mcpEffects[d], d \in over' => d \in over, d \in over => d \in over',
         mcpTrouble.refused > 0 => mcpTrouble'.refused > 0
  PROVE  CallFits(d)'
BY DEF CallFits, Caller

-----------------------------------------------------------------------------
\* Trouble is counted under its kind.
LEMMA ServerTroubleCounts ==
  ASSUME mcpTrouble \in ServerTroubles
  PROVE  /\ ServerTrouble("refused") =>
              mcpTrouble' \in ServerTroubles /\ PaidFailures' = PaidFailures + 1 /\ mcpTrouble'.silent = mcpTrouble.silent
              /\ mcpTrouble'.refused > 0
         /\ ServerTrouble("garbled") =>
              mcpTrouble' \in ServerTroubles /\ PaidFailures' = PaidFailures + 1 /\ mcpTrouble'.silent = mcpTrouble.silent
              /\ mcpTrouble'.refused = mcpTrouble.refused
         /\ ServerTrouble("silent") =>
              mcpTrouble' \in ServerTroubles /\ PaidFailures' = PaidFailures /\ mcpTrouble'.silent > 0
              /\ mcpTrouble'.refused = mcpTrouble.refused
         /\ ServerTrouble("deaths") =>
              mcpTrouble' \in ServerTroubles /\ PaidFailures' = PaidFailures + 2 /\ mcpTrouble'.silent = mcpTrouble.silent
              /\ mcpTrouble'.refused = mcpTrouble.refused
         /\ PaidFailures \in Nat
<1>1. ServerTrouble("refused") =>
        mcpTrouble' = [spent |-> mcpTrouble.spent + 1, deaths |-> mcpTrouble.deaths, garbled |-> mcpTrouble.garbled,
                       refused |-> mcpTrouble.refused + 1, silent |-> mcpTrouble.silent]
  BY DEF ServerTrouble, ServerTroubles
<1>2. ServerTrouble("garbled") =>
        mcpTrouble' = [spent |-> mcpTrouble.spent + 1, deaths |-> mcpTrouble.deaths, garbled |-> mcpTrouble.garbled + 1,
                       refused |-> mcpTrouble.refused, silent |-> mcpTrouble.silent]
  BY DEF ServerTrouble, ServerTroubles
<1>3. ServerTrouble("silent") =>
        mcpTrouble' = [spent |-> mcpTrouble.spent + 1, deaths |-> mcpTrouble.deaths, garbled |-> mcpTrouble.garbled,
                       refused |-> mcpTrouble.refused, silent |-> mcpTrouble.silent + 1]
  BY DEF ServerTrouble, ServerTroubles
<1>4. ServerTrouble("deaths") =>
        mcpTrouble' = [spent |-> mcpTrouble.spent + 1, deaths |-> mcpTrouble.deaths + 1, garbled |-> mcpTrouble.garbled,
                       refused |-> mcpTrouble.refused, silent |-> mcpTrouble.silent]
  BY DEF ServerTrouble, ServerTroubles
<1>5. /\ mcpTrouble.spent \in Nat /\ mcpTrouble.deaths \in Nat /\ mcpTrouble.garbled \in Nat
      /\ mcpTrouble.refused \in Nat /\ mcpTrouble.silent \in Nat
  BY DEF ServerTroubles
<1> QED
  BY <1>1, <1>2, <1>3, <1>4, <1>5 DEF ServerTroubles, PaidFailures

\* A failed attempt is counted, and is followed by another only where one is due.
LEMMA FailedMoves ==
  ASSUME MCPTypes, NEW c \in ToolCallers, Failed(c)
  PROVE  /\ OneCallerMoves(c) /\ RequestStays(c)
         /\ caller'[c].phase \in {"backoff", "done"} /\ caller'[c].result = "error"
         /\ caller'[c].attempt = caller[c].attempt
         /\ caller'[c].phase = "backoff" =>
              caller[c].op = "call" /\ caller[c].attempt <= MaxRetries /\ RetryDelay > 0 /\ c \notin over
         /\ mcpStatus' \in [calls : Nat, failures : Nat]
         /\ mcpStatus'.calls = mcpStatus.calls /\ mcpStatus'.failures = mcpStatus.failures + 1
<1>1. mcpStatus' = [calls |-> mcpStatus.calls, failures |-> mcpStatus.failures + 1]
  BY DEF Failed, MCPTypes
<1>2. mcpStatus.calls \in Nat /\ mcpStatus.failures \in Nat
  BY DEF MCPTypes
<1>3. caller \in [ToolCallers -> CallerRow]
  BY DEF MCPTypes
<1>4. PICK p \in {"backoff", "done"} :
        /\ caller' = [caller EXCEPT ![c].phase = p, ![c].result = "error"]
        /\ p = "backoff" => caller[c].op = "call" /\ caller[c].attempt <= MaxRetries /\ RetryDelay > 0 /\ c \notin over
  BY DEF Failed
<1>5. /\ OneCallerMoves(c) /\ RequestStays(c)
      /\ caller'[c].phase = p /\ caller'[c].result = "error" /\ caller'[c].attempt = caller[c].attempt
  <2>1. caller[c] \in CallerRow
    BY <1>3
  <2>2. /\ \A d \in ToolCallers : d # c => caller'[d] = caller[d]
       /\ caller'[c] = [caller[c] EXCEPT !.phase = p, !.result = "error"]
       /\ DOMAIN caller' = ToolCallers
       /\ caller' = [d \in ToolCallers |-> caller'[d]]
    BY ONLY <1>4, <1>3, c \in ToolCallers
  <2>3. /\ caller'[c] \in CallerRow /\ caller'[c].op = caller[c].op /\ caller'[c].manager = caller[c].manager
       /\ caller'[c].phase = p /\ caller'[c].result = "error" /\ caller'[c].attempt = caller[c].attempt
    BY ONLY <2>1, <2>2, p \in {"backoff", "done"} DEF CallerRow
  <2>4. caller' \in [ToolCallers -> CallerRow]
    BY <2>2, <2>3, <1>3
  <2> QED
    BY <2>2, <2>3, <2>4 DEF OneCallerMoves, RequestStays
<1> QED
  BY <1>1, <1>2, <1>4, <1>5

\* An answer ends the call.
LEMMA SucceededMoves ==
  ASSUME MCPTypes, NEW c \in ToolCallers, NEW r \in ToolCallers \cup {"nothing"}, Succeeded(c, r)
  PROVE  /\ OneCallerMoves(c) /\ RequestStays(c)
         /\ caller'[c].phase = "done" /\ caller'[c].result = r /\ caller'[c].attempt = caller[c].attempt
         /\ mcpStatus' = mcpStatus
<1>1. caller \in [ToolCallers -> CallerRow]
  BY DEF MCPTypes
<1>2. caller' = [caller EXCEPT ![c].phase = "done", ![c].result = r] /\ mcpStatus' = mcpStatus
  BY DEF Succeeded
<1>3. /\ OneCallerMoves(c) /\ RequestStays(c)
      /\ caller'[c].phase = "done" /\ caller'[c].result = r /\ caller'[c].attempt = caller[c].attempt
  <2>1. caller[c] \in CallerRow
    BY <1>1
  <2>2. /\ \A d \in ToolCallers : d # c => caller'[d] = caller[d]
       /\ caller'[c] = [caller[c] EXCEPT !.phase = "done", !.result = r]
       /\ DOMAIN caller' = ToolCallers
       /\ caller' = [d \in ToolCallers |-> caller'[d]]
    BY ONLY <1>2, <1>1, c \in ToolCallers
  <2>3. /\ caller'[c] \in CallerRow /\ caller'[c].op = caller[c].op /\ caller'[c].manager = caller[c].manager
       /\ caller'[c].phase = "done" /\ caller'[c].result = r /\ caller'[c].attempt = caller[c].attempt
    BY ONLY <2>1, <2>2, r \in ToolCallers \cup {"nothing"} DEF CallerRow
  <2>4. caller' \in [ToolCallers -> CallerRow]
    BY <2>2, <2>3, <1>1
  <2> QED
    BY <2>2, <2>3, <2>4 DEF OneCallerMoves, RequestStays
<1> QED
  BY <1>2, <1>3

-----------------------------------------------------------------------------
\* What a manager's process and a caller still owe of failures, in numbers.
DiedUnnoticed(m) == IF m \in DeadOnes THEN 1 ELSE 0
FailsSoon(c) == IF c \in FailingReaders THEN 1 ELSE 0
ComesTooLate(c) == IF c \in TooLate THEN 1 ELSE 0

\* Failures stay paid for where those of one caller and its process do.
LEMMA FailuresStayPaid ==
  ASSUME MCPConfigured, MCPTypes, MCPTypes', FailuresArePaid, spec' = spec, over' = over,
         NEW c \in ToolCallers, NEW m, OneCallerMoves(c),
         DeadOnes \ {m} = DeadOnes' \ {m}, FailingReaders \ {c} = FailingReaders' \ {c},
         spec.transport = "persistent" =>
           mcpStatus'.failures + DiedUnnoticed(m)' + FailsSoon(c)' + ComesTooLate(c)' + PaidFailures
             <= mcpStatus.failures + DiedUnnoticed(m) + FailsSoon(c) + ComesTooLate(c) + PaidFailures'
  PROVE  FailuresArePaid'
<1> SUFFICES ASSUME spec.transport = "persistent"
             PROVE  mcpStatus'.failures + Cardinality(DeadOnes') + Cardinality(FailingReaders') + Cardinality(TooLate')
                      <= PaidFailures' + Cardinality(over)
  BY DEF FailuresArePaid
<1>1. /\ IsFiniteSet(DeadOnes) /\ IsFiniteSet(FailingReaders) /\ IsFiniteSet(TooLate)
      /\ Cardinality(over) \in Nat /\ Cardinality(DeadOnes) \in Nat /\ Cardinality(FailingReaders) \in Nat
      /\ Cardinality(TooLate) \in Nat
  BY MCPSetsAreFinite
<1>2. IsFiniteSet(DeadOnes') /\ IsFiniteSet(FailingReaders') /\ IsFiniteSet(TooLate')
  BY FS_Subset DEF MCPTypes, DeadOnes, FailingReaders, TooLate, MCPConfigured
<1>3. TooLate \ {c} = TooLate' \ {c}
  BY DEF TooLate, OneCallerMoves, MCPTypes
<1>4. /\ Cardinality(DeadOnes') \in Nat
      /\ Cardinality(DeadOnes') + DiedUnnoticed(m) = Cardinality(DeadOnes) + DiedUnnoticed(m)'
  <2> HIDE DEF DeadOnes
  <2> QED BY <1>1, <1>2, OneElementMoves DEF DiedUnnoticed
<1>5. /\ Cardinality(FailingReaders') \in Nat
      /\ Cardinality(FailingReaders') + FailsSoon(c) = Cardinality(FailingReaders) + FailsSoon(c)'
  <2> HIDE DEF FailingReaders
  <2> QED BY <1>1, <1>2, OneElementMoves DEF FailsSoon
<1>6. /\ Cardinality(TooLate') \in Nat
      /\ Cardinality(TooLate') + ComesTooLate(c) = Cardinality(TooLate) + ComesTooLate(c)'
  <2> HIDE DEF TooLate
  <2> QED BY <1>1, <1>2, <1>3, OneElementMoves DEF ComesTooLate
<1>7. /\ mcpStatus.failures \in Nat /\ mcpStatus'.failures \in Nat
      /\ PaidFailures \in Nat /\ PaidFailures' \in Nat
  <2>1. mcpTrouble \in ServerTroubles /\ mcpTrouble' \in ServerTroubles
    BY DEF MCPTypes
  <2>2. mcpStatus.failures \in Nat /\ mcpStatus'.failures \in Nat
    BY DEF MCPTypes
  <2> QED
    BY <2>1, <2>2 DEF PaidFailures, ServerTroubles
<1>8. /\ DiedUnnoticed(m) \in Nat /\ DiedUnnoticed(m)' \in Nat /\ FailsSoon(c) \in Nat /\ FailsSoon(c)' \in Nat
      /\ ComesTooLate(c) \in Nat /\ ComesTooLate(c)' \in Nat
  BY DEF DiedUnnoticed, FailsSoon, ComesTooLate
<1>9. mcpStatus.failures + Cardinality(DeadOnes) + Cardinality(FailingReaders) + Cardinality(TooLate)
        <= PaidFailures + Cardinality(over)
  BY DEF FailuresArePaid
<1> QED
  BY ONLY <1>1, <1>4, <1>5, <1>6, <1>7, <1>8, <1>9, spec.transport = "persistent",
     spec.transport = "persistent" =>
           mcpStatus'.failures + DiedUnnoticed(m)' + FailsSoon(c)' + ComesTooLate(c)' + PaidFailures
             <= mcpStatus.failures + DiedUnnoticed(m) + FailsSoon(c) + ComesTooLate(c) + PaidFailures'

\* A step that leaves the pipes alone, of a caller that reads neither before nor after.
LEMMA QuietStepKeeps ==
  ASSUME MCPConfigured, MCPKept, MCPTypes', NEW c \in ToolCallers, OneCallerMoves(c),
         spec' = spec, over' = over, mcpSession' = mcpSession, nextID' = nextID,
         caller[c].phase # "reading", caller'[c].phase # "reading",
         \A d \in ToolCallers : d # c => mcpEffects'[d] = mcpEffects[d] /\ record'[d] = record[d],
         mcpTrouble.refused > 0 => mcpTrouble'.refused > 0, mcpTrouble'.silent = mcpTrouble.silent,
         CallFits(c)', SlotsHold', CallsAddUp',
         spec.transport = "persistent" =>
           mcpStatus'.failures + ComesTooLate(c)' + PaidFailures <= mcpStatus.failures + ComesTooLate(c) + PaidFailures'
  PROVE  MCPKept'
<1>1. \A d \in ToolCallers : CallFits(d)'
  BY OtherCallsFit DEF MCPKept, OneCallerMoves
<1>2. \A d \in ToolCallers : /\ caller'[d].phase = "reading" <=> caller[d].phase = "reading"
                             /\ caller[d].phase = "reading" => d # c /\ caller'[d] = caller[d]
  BY DEF OneCallerMoves
<1>3. \A m \in Managers : ProcessFits(m)'
  <2>1. \A m \in Managers : Exchanging(m)' <=> Exchanging(m)
    BY SMTT(60), <1>2 DEF Exchanging
  <2> QED
    BY <2>1 DEF MCPKept, ProcessFits
<1>4. \A d \in ToolCallers : ReaderFits(d)'
  <2> SUFFICES ASSUME NEW d \in ToolCallers, caller'[d].phase = "reading"
               PROVE  ReaderFits(d)'
    BY DEF ReaderFits
  <2>1. ReaderFits(d) /\ d # c /\ caller'[d] = caller[d] /\ caller[d].phase = "reading"
    BY <1>2 DEF MCPKept
  <2> QED
    BY SMTT(60), <1>2, <2>1 DEF ReaderFits, NoSession
<1>5. \A d \in ToolCallers : ReadsInVain(d)' => mcpTrouble'.silent > 0
  BY <1>2 DEF MCPKept, ReadsInVain
<1>6. DeadOnes' = DeadOnes
  BY DEF DeadOnes, NoSession
<1>7. FailingReaders' = FailingReaders
  <2>1. \A d \in ToolCallers : WillFail(d)' <=> WillFail(d)
    BY <1>2 DEF WillFail
  <2> QED
    BY <2>1 DEF FailingReaders
<1>8. FailuresArePaid'
  <2>1. DiedUnnoticed(c)' = DiedUnnoticed(c) /\ DiedUnnoticed(c) \in Nat
    BY <1>6 DEF DiedUnnoticed
  <2>2. FailsSoon(c)' = FailsSoon(c) /\ FailsSoon(c) \in Nat
    BY <1>7 DEF FailsSoon
  <2>3. ComesTooLate(c) \in Nat /\ ComesTooLate(c)' \in Nat
    BY DEF ComesTooLate
  <2>4. /\ mcpStatus.failures \in Nat /\ mcpStatus'.failures \in Nat
        /\ PaidFailures \in Nat /\ PaidFailures' \in Nat
    <3>1. mcpTrouble \in ServerTroubles /\ mcpTrouble' \in ServerTroubles
      BY DEF MCPKept, MCPTypes
    <3>2. mcpStatus.failures \in Nat /\ mcpStatus'.failures \in Nat
      BY DEF MCPKept, MCPTypes
    <3> QED
      BY <3>1, <3>2 DEF PaidFailures, ServerTroubles
  <2>5. spec.transport = "persistent" =>
          mcpStatus'.failures + DiedUnnoticed(c)' + FailsSoon(c)' + ComesTooLate(c)' + PaidFailures
             <= mcpStatus.failures + DiedUnnoticed(c) + FailsSoon(c) + ComesTooLate(c) + PaidFailures'
    BY <2>1, <2>2, <2>3, <2>4
  <2>6. MCPTypes /\ FailuresArePaid
    BY DEF MCPKept
  <2> QED
    BY <1>6, <1>7, <2>5, <2>6, FailuresStayPaid
<1> QED
  BY <1>1, <1>3, <1>4, <1>5, <1>8 DEF MCPKept

\* A step that touches the process of one caller, of which nobody else reads.
LEMMA ExchangeKeeps ==
  ASSUME MCPConfigured, MCPKept, MCPTypes', NEW c \in ToolCallers, OneCallerMoves(c),
         NEW m \in Managers, caller[c].manager = m, caller'[c].manager = m,
         \A d \in ToolCallers : caller[d].phase = "reading" /\ caller[d].manager = m => d = c,
         spec' = spec, over' = over,
         \A k \in Managers : k # m => mcpSession'[k] = mcpSession[k] /\ nextID'[k] = nextID[k],
         record' = record, \A d \in ToolCallers : d # c => mcpEffects'[d] = mcpEffects[d],
         mcpTrouble.refused > 0 => mcpTrouble'.refused > 0, mcpTrouble.silent > 0 => mcpTrouble'.silent > 0,
         CallFits(c)', SlotsHold', CallsAddUp', ProcessFits(m)', ReaderFits(c)',
         ReadsInVain(c)' => mcpTrouble'.silent > 0,
         spec.transport = "persistent" =>
           mcpStatus'.failures + DiedUnnoticed(m)' + FailsSoon(c)' + ComesTooLate(c)' + PaidFailures
             <= mcpStatus.failures + DiedUnnoticed(m) + FailsSoon(c) + ComesTooLate(c) + PaidFailures'
  PROVE  MCPKept'
<1>1. \A d \in ToolCallers : CallFits(d)'
  BY OtherCallsFit DEF MCPKept, OneCallerMoves
<1>2. \A d \in ToolCallers : d # c => caller'[d] = caller[d]
  BY DEF OneCallerMoves
<1>3. \A k \in Managers : ProcessFits(k)'
  <2> SUFFICES ASSUME NEW k \in Managers, k # m PROVE ProcessFits(k)'
    OBVIOUS
  <2>1. Exchanging(k)' <=> Exchanging(k)
    BY <1>2 DEF Exchanging
  <2>2. ProcessFits(k) /\ mcpSession'[k] = mcpSession[k] /\ nextID'[k] = nextID[k]
    BY DEF MCPKept
  <2> QED
    BY <2>1, <2>2 DEF ProcessFits, NoSession
<1>4. \A d \in ToolCallers : d # c /\ caller[d].phase = "reading" =>
        caller[d].manager \in Managers /\ caller[d].manager # m
  BY SMTT(60) DEF MCPKept, CallFits
<1>5. \A d \in ToolCallers : ReaderFits(d)'
  <2> SUFFICES ASSUME NEW d \in ToolCallers, d # c, caller'[d].phase = "reading"
               PROVE  ReaderFits(d)'
    BY DEF ReaderFits
  <2>1. ReaderFits(d) /\ caller'[d] = caller[d] /\ caller[d].phase = "reading"
    BY <1>2 DEF MCPKept
  <2>2. PICK k \in Managers : k = caller[d].manager /\ k # m
    BY <1>4, <2>1
  <2>3. mcpSession'[k] = mcpSession[k] /\ nextID'[k] = nextID[k] /\ mcpEffects'[d] = mcpEffects[d]
    BY <2>2
  <2>4. \A e \in ToolCallers : caller'[e].phase = "reading" /\ caller'[e].manager = k => e = d
    BY <1>2, <2>1, <2>2 DEF ReaderFits
  <2> QED
    BY ONLY SMTT(60), <2>1, <2>2, <2>3, <2>4 DEF ReaderFits, NoSession
<1>6. \A d \in ToolCallers : ReadsInVain(d)' => mcpTrouble'.silent > 0
  <2> SUFFICES ASSUME NEW d \in ToolCallers, d # c, ReadsInVain(d)'
               PROVE  mcpTrouble'.silent > 0
    OBVIOUS
  <2>1. caller'[d] = caller[d]
    BY <1>2
  <2>2. mcpSession'[caller[d].manager] = mcpSession[caller[d].manager]
    BY <1>4, <2>1 DEF ReadsInVain
  <2> QED
    BY <2>1, <2>2 DEF ReadsInVain, MCPKept
<1>7. DeadOnes \ {m} = DeadOnes' \ {m}
  BY DEF DeadOnes, NoSession
<1>8. FailingReaders \ {c} = FailingReaders' \ {c}
  <2>1. \A d \in ToolCallers : d # c => (WillFail(d)' <=> WillFail(d))
    <3> SUFFICES ASSUME NEW d \in ToolCallers, d # c PROVE WillFail(d)' <=> WillFail(d)
      OBVIOUS
    <3>1. caller'[d] = caller[d]
      BY <1>2
    <3>2. caller[d].phase = "reading" => mcpSession'[caller[d].manager] = mcpSession[caller[d].manager]
      BY <1>4
    <3> QED
      BY <3>1, <3>2 DEF WillFail
  <2> QED
    BY <2>1 DEF FailingReaders
<1>9. FailuresArePaid'
  <2>1. MCPTypes /\ FailuresArePaid
    BY DEF MCPKept
  <2> QED
    BY <1>7, <1>8, <2>1, FailuresStayPaid
<1> QED
  BY <1>1, <1>3, <1>5, <1>6, <1>9 DEF MCPKept

-----------------------------------------------------------------------------
\* Who comes too late is a caller whose context has ended before its request is sent.
LEMMA TooLateIs ==
  ASSUME NEW c \in ToolCallers
  PROVE  /\ ComesTooLate(c) = IF c \in over /\ caller[c].phase \in {"attempt", "ready"} THEN 1 ELSE 0
         /\ ComesTooLate(c)' = IF c \in over' /\ caller'[c].phase \in {"attempt", "ready"} THEN 1 ELSE 0
BY DEF ComesTooLate, TooLate

\* The numbers of failures are numbers.
LEMMA FailureNumbers ==
  ASSUME MCPTypes
  PROVE  mcpStatus.failures \in Nat /\ mcpStatus.calls \in Nat /\ PaidFailures \in Nat
<1>1. mcpTrouble \in ServerTroubles /\ mcpStatus.failures \in Nat /\ mcpStatus.calls \in Nat
  BY DEF MCPTypes
<1> QED
  BY <1>1 DEF PaidFailures, ServerTroubles

\* What counts calls stays where nobody asks, answers or fails.
LEMMA CallsStay ==
  ASSUME MCPConfigured, MCPKept, MCPTypes', NEW c \in ToolCallers, OneCallerMoves(c), mcpStatus' = mcpStatus,
         caller[c].phase \notin {"ready", "reading"}, caller'[c].phase \notin {"ready", "reading"},
         caller[c].result \in ToolCallers \cup {"nothing"} <=> caller'[c].result \in ToolCallers \cup {"nothing"}
  PROVE  CallsAddUp'
<1>1. MCPTypes /\ CallsAddUp
  BY DEF MCPKept
<1>2. Cardinality(AskedOf') = Cardinality(AskedOf) /\ Cardinality(GotAnswers') = Cardinality(GotAnswers)
  BY <1>1, CallsMove
<1> QED
  BY <1>1, <1>2 DEF CallsAddUp

\* A row of a request that begins.
AskedRow(o, m, p, r) == [Caller EXCEPT !.op = o, !.manager = m, !.phase = p, !.result = r]

\* It is a caller's row.
LEMMA AskedFits ==
  ASSUME NEW o \in {"call", "read"}, NEW m \in Managers, NEW p \in {"waiting", "done"}, NEW r \in {"none", "error"}
  PROVE  /\ AskedRow(o, m, p, r) \in CallerRow
         /\ AskedRow(o, m, p, r).phase = p
         /\ AskedRow(o, m, p, r).op = o
         /\ AskedRow(o, m, p, r).manager = m
         /\ AskedRow(o, m, p, r).attempt = 0
         /\ AskedRow(o, m, p, r).result = r
<1>1. Caller \in CallerRow /\ Caller.attempt = 0
  BY DEF CallerRow, Caller
<1> QED
  BY <1>1 DEF CallerRow, AskedRow

\* A request waits for a slot, or has no server.
LEMMA AskingKeeps ==
  ASSUME MCPConfigured, MCPKept, NEW c \in ToolCallers, NEW m \in Managers, NEW o \in {"call", "read"},
         caller[c].phase = "idle", Asks(c, o, m), record' = record \/ StartMCPCall(c),
         UNCHANGED <<spec, over, mcpSession, nextID, mcpStatus, mcpEffects, mcpTrouble>>
  PROVE  MCPKept'
<1>1. PICK p \in {"waiting", "done"}, r \in {"none", "error"} :
        /\ p = "waiting" <=> r = "none"
        /\ caller' = [caller EXCEPT ![c] = AskedRow(o, m, p, r)]
  <2>1. CASE m \in RegisteredIn
    BY <2>1 DEF Asks, AskedRow
  <2>2. CASE m \notin RegisteredIn
    BY <2>2 DEF Asks, AskedRow
  <2> QED
    BY <2>1, <2>2
<1>2. MCPTypes /\ CallFits(c) /\ SlotsHold
  BY DEF MCPKept
<1>3. caller \in [ToolCallers -> CallerRow] /\ record \in [ToolCallers -> {"none", "running", "failed", "succeeded"}]
  BY <1>2 DEF MCPTypes
<1>4. /\ AskedRow(o, m, p, r) \in CallerRow
      /\ AskedRow(o, m, p, r).phase = p /\ AskedRow(o, m, p, r).op = o /\ AskedRow(o, m, p, r).manager = m
      /\ AskedRow(o, m, p, r).attempt = 0 /\ AskedRow(o, m, p, r).result = r
  BY AskedFits
<1>5. /\ caller' \in [ToolCallers -> CallerRow] /\ OneCallerMoves(c)
      /\ caller'[c].phase = p /\ caller'[c].op = o /\ caller'[c].manager = m /\ caller'[c].attempt = 0
      /\ caller'[c].result = r
  BY <1>1, <1>3, <1>4 DEF OneCallerMoves
<1>6. /\ record' \in [ToolCallers -> {"none", "running", "failed", "succeeded"}]
      /\ record'[c] \in {"none", "running"}
      /\ \A d \in ToolCallers : d # c => record'[d] = record[d]
  BY <1>2, <1>3 DEF StartMCPCall, CallFits
<1>7. MCPTypes'
  BY <1>2, <1>5, <1>6 DEF MCPTypes
<1>8. c \notin over /\ mcpEffects[c] = 0 /\ caller[c].result = "none"
  BY <1>2 DEF CallFits, Caller
<1>9. MaxRetries \in Nat /\ RetryDelay \in Nat /\ c \notin {"none", "error", "nothing"} /\ "nothing" \notin ToolCallers
      /\ "none" \notin ToolCallers /\ "error" \notin ToolCallers
  BY DEF MCPConfigured
<1>10. CallFits(c)'
  BY <1>1, <1>5, <1>6, <1>8, <1>9 DEF CallFits, AttemptsOf
<1>11. SlotsHold'
  BY <1>2, <1>5, SlotsMove
<1>12. CallsAddUp'
  BY <1>5, <1>7, <1>8, <1>9, CallsStay
<1>13. ComesTooLate(c) = 0 /\ ComesTooLate(c)' = 0 /\ PaidFailures' = PaidFailures
  BY <1>5, <1>8, TooLateIs DEF PaidFailures
<1>14. mcpStatus'.failures + ComesTooLate(c)' + PaidFailures <= mcpStatus.failures + ComesTooLate(c) + PaidFailures'
  BY <1>2, <1>13, FailureNumbers
<1> QED
  BY <1>5, <1>6, <1>7, <1>10, <1>11, <1>12, <1>14, QuietStepKeeps

\* The three ways to ask a server.
LEMMA AskingsKeep ==
  ASSUME MCPConfigured, MCPKept, NEW c \in ToolCallers, CallTool(c) \/ ExecuteMCPNode(c) \/ ReadUnrecorded(c)
  PROVE  MCPKept'
<1>1. CASE CallTool(c)
  <2>1. PICK m \in Managers : Asks(c, "call", m) /\ (record' = record \/ StartMCPCall(c))
    BY <1>1 DEF CallTool, MCPManagerForRun
  <2> QED
    BY <1>1, <2>1, AskingKeeps DEF CallTool
<1>2. CASE ExecuteMCPNode(c)
  <2>1. PICK m \in Managers : Asks(c, "read", m)
    BY <1>2 DEF ExecuteMCPNode, MCPManagerForRun
  <2> QED
    BY <1>2, <2>1, AskingKeeps DEF ExecuteMCPNode
<1>3. CASE ReadUnrecorded(c)
  <2>1. PICK m \in Managers : Asks(c, "read", m)
    BY <1>3 DEF ReadUnrecorded, MCPManagerForRun
  <2> QED
    BY <1>3, <2>1, AskingKeeps DEF ReadUnrecorded
<1> QED
  BY <1>1, <1>2, <1>3

\* What never counts among failures or requests stays uncounted.
LEMMA UncountedStays ==
  ASSUME MCPTypes, NEW c \in ToolCallers, over' = over, mcpStatus' = mcpStatus,
         c \in over => (caller'[c].phase \in {"attempt", "ready"} => caller[c].phase \in {"attempt", "ready"}),
         PaidFailures <= PaidFailures', PaidFailures' \in Nat
  PROVE  mcpStatus'.failures + ComesTooLate(c)' + PaidFailures <= mcpStatus.failures + ComesTooLate(c) + PaidFailures'
<1>1. ComesTooLate(c)' <= ComesTooLate(c) /\ ComesTooLate(c) \in Nat /\ ComesTooLate(c)' \in Nat
  BY TooLateIs
<1> QED
  BY <1>1, FailureNumbers

\* A row is closed with what became of the call, or left open.
LEMMA CompleteMCPCallKeeps ==
  ASSUME MCPConfigured, MCPKept, NEW c \in ToolCallers, CompleteMCPCall(c)
  PROVE  MCPKept'
<1>1. MCPTypes /\ CallFits(c) /\ SlotsHold
  BY DEF MCPKept
<1>2. caller \in [ToolCallers -> CallerRow] /\ record \in [ToolCallers -> {"none", "running", "failed", "succeeded"}]
  BY <1>1 DEF MCPTypes
<1>3. PICK p \in {"closed", "lost"} : caller' = [caller EXCEPT ![c].phase = p]
      /\ (p = "closed" => /\ record' = [record EXCEPT ![c] = IF caller[c].result = "error" THEN "failed" ELSE "succeeded"]
                          /\ mcpTrouble' = mcpTrouble)
      /\ (p = "lost" => record' = record /\ (ServerTrouble("refused") \/ (c \in over /\ mcpTrouble' = mcpTrouble)))
  BY DEF CompleteMCPCall
<1>4. /\ caller' \in [ToolCallers -> CallerRow] /\ OneCallerMoves(c) /\ RequestStays(c)
      /\ caller'[c].phase = p /\ caller'[c].attempt = caller[c].attempt /\ caller'[c].result = caller[c].result
  BY <1>2, <1>3 DEF OneCallerMoves, RequestStays, CallerRow
<1>5. /\ mcpTrouble' \in ServerTroubles /\ PaidFailures <= PaidFailures' /\ PaidFailures' \in Nat
      /\ mcpTrouble'.silent = mcpTrouble.silent /\ (mcpTrouble.refused > 0 => mcpTrouble'.refused > 0)
      /\ (p = "lost" => c \in over \/ mcpTrouble'.refused > 0)
  <2>1. mcpTrouble \in ServerTroubles
    BY <1>1 DEF MCPTypes
  <2>2. PaidFailures \in Nat
    BY <1>1, FailureNumbers
  <2>3. CASE ServerTrouble("refused")
    BY <2>1, <2>2, <2>3, ServerTroubleCounts
  <2>4. CASE mcpTrouble' = mcpTrouble
    BY <1>3, <2>1, <2>2, <2>4, ServerTroubleCounts DEF PaidFailures
  <2> QED
    BY <1>3, <2>3, <2>4
<1>6. /\ record' \in [ToolCallers -> {"none", "running", "failed", "succeeded"}]
      /\ \A d \in ToolCallers : d # c => record'[d] = record[d]
      /\ (p = "closed" => record'[c] = IF caller[c].result = "error" THEN "failed" ELSE "succeeded")
      /\ (p = "lost" => record'[c] = record[c])
  BY <1>2, <1>3
<1>7. /\ caller[c].phase = "done" /\ record[c] = "running"
      /\ UNCHANGED <<spec, over, mcpSession, nextID, mcpStatus, mcpEffects>>
  BY DEF CompleteMCPCall
<1>8. MCPTypes'
  BY <1>1, <1>4, <1>5, <1>6, <1>7 DEF MCPTypes
<1>9. CallFits(c)'
  BY <1>1, <1>3, <1>4, <1>5, <1>6, <1>7 DEF CallFits, AttemptsOf, RequestStays
<1>10. SlotsHold'
  BY <1>1, <1>3, <1>4, <1>7, SlotsMove
<1>11. CallsAddUp'
  BY <1>4, <1>7, <1>8, CallsStay
<1>12. mcpStatus'.failures + ComesTooLate(c)' + PaidFailures <= mcpStatus.failures + ComesTooLate(c) + PaidFailures'
  BY <1>1, <1>4, <1>5, <1>7, UncountedStays
<1> QED
  BY <1>4, <1>5, <1>6, <1>7, <1>8, <1>9, <1>10, <1>11, <1>12, QuietStepKeeps

\* A caller moves on by its phase alone.
LEMMA PhaseMoves ==
  ASSUME MCPTypes, NEW c \in ToolCallers,
         NEW p \in {"attempt", "ready", "reading", "done"}, caller' = [caller EXCEPT ![c].phase = p]
  PROVE  /\ OneCallerMoves(c) /\ RequestStays(c)
         /\ caller'[c].phase = p /\ caller'[c].attempt = caller[c].attempt /\ caller'[c].result = caller[c].result
BY DEF MCPTypes, OneCallerMoves, RequestStays, CallerRow

\* A slot is taken where one is left.
LEMMA AcquireKeeps ==
  ASSUME MCPConfigured, MCPKept, NEW c \in ToolCallers, Acquire(c)
  PROVE  MCPKept'
<1>1. MCPTypes /\ CallFits(c) /\ SlotsHold
  BY DEF MCPKept
<1>2. /\ caller[c].phase = "waiting" /\ caller' = [caller EXCEPT ![c].phase = "attempt"]
      /\ (spec.maxConcurrent = 0 \/ Cardinality(InUse(caller[c].manager)) < spec.maxConcurrent)
      /\ UNCHANGED <<spec, over, mcpSession, nextID, mcpStatus, mcpEffects, record, mcpTrouble>>
  BY DEF Acquire
<1>3. /\ OneCallerMoves(c) /\ RequestStays(c)
      /\ caller'[c].phase = "attempt" /\ caller'[c].attempt = caller[c].attempt /\ caller'[c].result = caller[c].result
  BY <1>1, <1>2, PhaseMoves
<1>4. MCPTypes'
  BY <1>1, <1>2, <1>3 DEF MCPTypes, OneCallerMoves
<1>5. c \notin over /\ CallFits(c)'
  BY <1>1, <1>2, <1>3 DEF CallFits, AttemptsOf, RequestStays
<1>6. SlotsHold'
  <2> SUFFICES ASSUME spec.maxConcurrent # 0, NEW m \in Managers
               PROVE  Cardinality(InUse(m)') <= spec.maxConcurrent
    BY <1>2 DEF SlotsHold
  <2>1. Cardinality(InUse(m)) \in Nat /\ IsFiniteSet(InUse(m)) /\ spec.maxConcurrent \in Nat
    BY <1>1, MCPSetsAreFinite DEF MCPTypes, MCPConfigured
  <2>2. CASE m = caller[c].manager
    <3>1. InUse(m)' = InUse(m) \cup {c}
      BY <1>1, <1>2, <1>3, <2>2 DEF InUse, OneCallerMoves, RequestStays
    <3>2. Cardinality(InUse(m)') <= Cardinality(InUse(m)) + 1
      BY SMTT(60), <2>1, <3>1, FS_AddElement
    <3>3. Cardinality(InUse(m)) < spec.maxConcurrent
      BY <1>2, <2>2
    <3>4. Cardinality(InUse(m)') \in Nat
      BY <2>1, <3>1, FS_AddElement, FS_CardinalityType
    <3> QED
      BY <2>1, <3>2, <3>3, <3>4
  <2>3. CASE m # caller[c].manager
    <3>1. InUse(m)' = InUse(m)
      BY <1>1, <1>2, <1>3, <2>3 DEF InUse, OneCallerMoves, RequestStays
    <3> QED
      BY <1>1, <3>1 DEF SlotsHold
  <2> QED
    BY <2>2, <2>3
<1>7. CallsAddUp'
  BY <1>2, <1>3, <1>4, CallsStay
<1>8. PaidFailures <= PaidFailures' /\ PaidFailures' \in Nat
  BY <1>1, <1>2, FailureNumbers DEF PaidFailures
<1>9. mcpStatus'.failures + ComesTooLate(c)' + PaidFailures <= mcpStatus.failures + ComesTooLate(c) + PaidFailures'
  BY <1>1, <1>2, <1>5, <1>8, UncountedStays
<1> QED
  BY <1>2, <1>3, <1>4, <1>5, <1>6, <1>7, <1>9, QuietStepKeeps

\* After its delay a call is attempted again.
LEMMA RetryLaterKeeps ==
  ASSUME MCPConfigured, MCPKept, NEW c \in ToolCallers, RetryLater(c)
  PROVE  MCPKept'
<1>1. MCPTypes /\ CallFits(c) /\ SlotsHold
  BY DEF MCPKept
<1>2. /\ caller[c].phase = "backoff" /\ caller' = [caller EXCEPT ![c].phase = "attempt"]
      /\ UNCHANGED <<spec, over, mcpSession, nextID, mcpStatus, mcpEffects, record, mcpTrouble>>
  BY DEF RetryLater
<1>3. /\ OneCallerMoves(c) /\ RequestStays(c)
      /\ caller'[c].phase = "attempt" /\ caller'[c].attempt = caller[c].attempt /\ caller'[c].result = caller[c].result
  BY <1>1, <1>2, PhaseMoves
<1>4. MCPTypes'
  BY <1>1, <1>2, <1>3 DEF MCPTypes, OneCallerMoves
<1>5. c \notin over /\ CallFits(c)'
  BY <1>1, <1>2, <1>3 DEF CallFits, AttemptsOf, RequestStays
<1>6. SlotsHold'
  BY <1>1, <1>2, <1>3, SlotsMove
<1>7. CallsAddUp'
  BY <1>2, <1>3, <1>4, CallsStay
<1>8. PaidFailures <= PaidFailures' /\ PaidFailures' \in Nat
  BY <1>1, <1>2, FailureNumbers DEF PaidFailures
<1>9. mcpStatus'.failures + ComesTooLate(c)' + PaidFailures <= mcpStatus.failures + ComesTooLate(c) + PaidFailures'
  BY <1>1, <1>2, <1>5, <1>8, UncountedStays
<1> QED
  BY <1>2, <1>3, <1>4, <1>5, <1>6, <1>7, <1>9, QuietStepKeeps

\* An attempt is counted before anything is sent.
LEMMA AttemptKeeps ==
  ASSUME MCPConfigured, MCPKept, NEW c \in ToolCallers, Attempt(c)
  PROVE  MCPKept'
<1>1. MCPTypes /\ CallFits(c) /\ SlotsHold /\ CallsAddUp
  BY DEF MCPKept
<1>2. /\ caller[c].phase = "attempt" /\ caller' = [caller EXCEPT ![c].phase = "ready", ![c].attempt = @ + 1]
      /\ mcpStatus' = [mcpStatus EXCEPT !.calls = @ + 1]
      /\ UNCHANGED <<spec, over, mcpSession, nextID, mcpEffects, record, mcpTrouble>>
  BY DEF Attempt
<1>3. caller \in [ToolCallers -> CallerRow]
  BY <1>1 DEF MCPTypes
<1>4. /\ OneCallerMoves(c) /\ RequestStays(c)
      /\ caller'[c].phase = "ready" /\ caller'[c].attempt = caller[c].attempt + 1 /\ caller'[c].result = caller[c].result
  BY <1>2, <1>3 DEF OneCallerMoves, RequestStays, CallerRow
<1>5. mcpStatus' = [calls |-> mcpStatus.calls + 1, failures |-> mcpStatus.failures]
  BY <1>1, <1>2 DEF MCPTypes
<1>6. MCPTypes'
  BY <1>1, <1>2, <1>4, <1>5, FailureNumbers DEF MCPTypes, OneCallerMoves
<1>7. caller[c].attempt \in Nat /\ mcpEffects[c] \in Nat /\ AttemptsOf(caller[c].op) \in Nat
  BY <1>1, <1>3 DEF CallerRow, MCPTypes, MCPConfigured, AttemptsOf
<1>8. CallFits(c)'
  BY <1>1, <1>2, <1>4, <1>7 DEF CallFits, AttemptsOf, RequestStays
<1>9. SlotsHold'
  BY <1>1, <1>2, <1>4, SlotsMove
<1>10. CallsAddUp'
  <2>1. /\ Cardinality(AskedOf') = Cardinality(AskedOf) + 1 /\ Cardinality(GotAnswers') = Cardinality(GotAnswers)
        /\ Cardinality(AskedOf) \in Nat /\ Cardinality(GotAnswers) \in Nat
    BY <1>1, <1>2, <1>4, <1>6, CallsMove
  <2> QED
    BY <1>1, <1>5, <2>1, FailureNumbers DEF CallsAddUp
<1>11. ComesTooLate(c)' <= ComesTooLate(c) /\ ComesTooLate(c) \in Nat /\ ComesTooLate(c)' \in Nat
  BY <1>2, <1>4, TooLateIs
<1>12. mcpStatus'.failures + ComesTooLate(c)' + PaidFailures <= mcpStatus.failures + ComesTooLate(c) + PaidFailures'
  <2>1. PaidFailures' = PaidFailures /\ mcpStatus'.failures = mcpStatus.failures
    BY <1>2, <1>5 DEF PaidFailures
  <2> QED
    BY <1>1, <1>11, <2>1, FailureNumbers
<1> QED
  BY <1>2, <1>4, <1>6, <1>8, <1>9, <1>10, <1>12, QuietStepKeeps

\* What a failure and an answer do to the sums: an attempt under way is one less, and a
\* failure or an answer one more.
LEMMA FailureAddsUp ==
  ASSUME MCPConfigured, MCPKept, MCPTypes', NEW c \in ToolCallers, Failed(c), caller[c].phase \in {"ready", "reading"}
  PROVE  CallsAddUp'
<1>1. MCPTypes /\ CallFits(c) /\ CallsAddUp
  BY DEF MCPKept
<1>2. /\ OneCallerMoves(c)
      /\ caller'[c].phase \in {"backoff", "done"} /\ caller'[c].result = "error"
      /\ mcpStatus'.calls = mcpStatus.calls /\ mcpStatus'.failures = mcpStatus.failures + 1
  BY <1>1, FailedMoves
<1>3. caller[c].result \notin ToolCallers \cup {"nothing"} /\ caller'[c].result \notin ToolCallers \cup {"nothing"}
  BY <1>1, <1>2 DEF CallFits, MCPConfigured
<1>4. /\ Cardinality(AskedOf') + 1 = Cardinality(AskedOf) /\ Cardinality(GotAnswers') = Cardinality(GotAnswers)
      /\ Cardinality(AskedOf) \in Nat /\ Cardinality(GotAnswers) \in Nat /\ Cardinality(AskedOf') \in Nat
  BY <1>1, <1>2, <1>3, CallsMove
<1> QED
  BY <1>1, <1>2, <1>4, FailureNumbers DEF CallsAddUp

\* The same of an answer.
LEMMA AnswerAddsUp ==
  ASSUME MCPConfigured, MCPKept, MCPTypes', NEW c \in ToolCallers, NEW r \in ToolCallers \cup {"nothing"}, Succeeded(c, r),
         caller[c].phase \in {"ready", "reading"}
  PROVE  CallsAddUp'
<1>1. MCPTypes /\ CallFits(c) /\ CallsAddUp
  BY DEF MCPKept
<1>2. OneCallerMoves(c) /\ caller'[c].phase = "done" /\ caller'[c].result = r /\ mcpStatus' = mcpStatus
  BY <1>1, SucceededMoves
<1>3. caller[c].result \notin ToolCallers \cup {"nothing"}
  BY <1>1 DEF CallFits, MCPConfigured
<1>4. /\ Cardinality(AskedOf') + 1 = Cardinality(AskedOf) /\ Cardinality(GotAnswers') = Cardinality(GotAnswers) + 1
      /\ Cardinality(AskedOf) \in Nat /\ Cardinality(GotAnswers) \in Nat /\ Cardinality(AskedOf') \in Nat
  BY <1>1, <1>2, <1>3, CallsMove
<1> QED
  BY <1>1, <1>2, <1>4, FailureNumbers DEF CallsAddUp

\* A call fits after its attempt failed.
LEMMA FailedFits ==
  ASSUME MCPConfigured, MCPKept, NEW c \in ToolCallers, Failed(c), caller[c].phase \in {"ready", "reading"},
         over' = over, record' = record, mcpEffects'[c] \in Nat, mcpEffects'[c] <= caller[c].attempt
  PROVE  CallFits(c)'
<1>1. MCPTypes /\ CallFits(c)
  BY DEF MCPKept
<1>2. /\ OneCallerMoves(c) /\ RequestStays(c)
      /\ caller'[c].phase \in {"backoff", "done"} /\ caller'[c].result = "error"
      /\ caller'[c].attempt = caller[c].attempt
      /\ caller'[c].phase = "backoff" =>
           caller[c].op = "call" /\ caller[c].attempt <= MaxRetries /\ RetryDelay > 0 /\ c \notin over
  BY <1>1, FailedMoves
<1>3. caller[c].attempt \in Nat /\ MaxRetries \in Nat /\ c \notin {"none", "error", "nothing"}
  BY <1>1 DEF MCPTypes, CallerRow, MCPConfigured
<1>4. caller'[c].phase = "backoff" => caller'[c].attempt + 1 <= AttemptsOf(caller'[c].op)
  BY <1>2, <1>3 DEF AttemptsOf, RequestStays
<1>5. caller'[c].manager \in Managers /\ caller'[c].op \in {"call", "read"} /\ record'[c] \notin {"failed", "succeeded"}
      /\ caller'[c].attempt <= AttemptsOf(caller'[c].op)
  BY <1>1, <1>2 DEF CallFits, RequestStays
<1> QED
  BY <1>2, <1>3, <1>4, <1>5 DEF CallFits

\* A call fits after its answer.
LEMMA SucceededFits ==
  ASSUME MCPConfigured, MCPKept, NEW c \in ToolCallers, NEW r \in {c, "nothing"}, Succeeded(c, r),
         caller[c].phase \in {"ready", "reading"},
         over' = over, record' = record, mcpEffects'[c] \in Nat, mcpEffects'[c] <= caller[c].attempt, mcpEffects'[c] > 0
  PROVE  CallFits(c)'
<1>1. MCPTypes /\ CallFits(c)
  BY DEF MCPKept
<1>2. /\ OneCallerMoves(c) /\ RequestStays(c)
      /\ caller'[c].phase = "done" /\ caller'[c].result = r /\ caller'[c].attempt = caller[c].attempt
  BY <1>1, SucceededMoves
<1>3. c \notin {"none", "error", "nothing"}
  BY DEF MCPConfigured
<1>5. caller'[c].manager \in Managers /\ caller'[c].op \in {"call", "read"} /\ record'[c] \notin {"failed", "succeeded"}
      /\ caller'[c].attempt <= AttemptsOf(caller'[c].op)
  BY <1>1, <1>2 DEF CallFits, RequestStays
<1> QED
  BY <1>2, <1>3, <1>5 DEF CallFits

\* A request over HTTP or to a process of its own: it fails or is answered, and what it
\* asked for is done at most once by it.
LEMMA OneShotKeeps ==
  ASSUME MCPConfigured, MCPKept, NEW c \in ToolCallers, caller[c].phase = "ready", spec.transport # "persistent",
         NEW did \in 0..1, mcpEffects' = [mcpEffects EXCEPT ![c] = @ + did],
         Failed(c) \/ (did = 1 /\ (Succeeded(c, c) \/ Succeeded(c, "nothing"))),
         UNCHANGED mcpTrouble \/ ServerTrouble("refused") \/ ServerTrouble("garbled"),
         UNCHANGED <<spec, over, mcpSession, nextID, record>>
  PROVE  MCPKept'
<1>1. MCPTypes /\ CallFits(c) /\ SlotsHold
  BY DEF MCPKept
<1>2. /\ mcpEffects' \in [ToolCallers -> Nat] /\ mcpEffects'[c] = mcpEffects[c] + did /\ mcpEffects[c] \in Nat
      /\ \A d \in ToolCallers : d # c => mcpEffects'[d] = mcpEffects[d]
  BY <1>1 DEF MCPTypes
<1>3. mcpEffects'[c] \in Nat /\ mcpEffects'[c] <= caller[c].attempt /\ (did = 1 => mcpEffects'[c] > 0)
  <2>1. mcpEffects[c] + 1 <= caller[c].attempt /\ caller[c].attempt \in Nat
    BY <1>1 DEF CallFits, MCPTypes, CallerRow
  <2> QED
    BY <1>2, <2>1
<1>4. mcpTrouble' \in ServerTroubles /\ mcpTrouble'.silent = mcpTrouble.silent
      /\ (mcpTrouble.refused > 0 => mcpTrouble'.refused > 0)
  <2>1. mcpTrouble \in ServerTroubles
    BY <1>1 DEF MCPTypes
  <2> QED
    BY <2>1, ServerTroubleCounts
<1>5. /\ OneCallerMoves(c) /\ RequestStays(c) /\ caller'[c].phase \in {"backoff", "done"}
      /\ mcpStatus' \in [calls : Nat, failures : Nat]
  <2>1. CASE Failed(c)
    BY <1>1, <2>1, FailedMoves
  <2>2. CASE Succeeded(c, c)
    BY <1>1, <2>2, SucceededMoves DEF MCPTypes
  <2>3. CASE Succeeded(c, "nothing")
    BY <1>1, <2>3, SucceededMoves DEF MCPTypes
  <2> QED
    BY <2>1, <2>2, <2>3
<1>6. MCPTypes'
  BY <1>1, <1>2, <1>4, <1>5 DEF MCPTypes, OneCallerMoves
<1>7. CallFits(c)' /\ CallsAddUp'
  <2>1. CASE Failed(c)
    BY <1>3, <1>6, <2>1, FailedFits, FailureAddsUp
  <2>2. CASE did = 1 /\ Succeeded(c, c)
    BY <1>3, <1>6, <2>2, SucceededFits, AnswerAddsUp
  <2>3. CASE did = 1 /\ Succeeded(c, "nothing")
    BY <1>3, <1>6, <2>3, SucceededFits, AnswerAddsUp
  <2> QED
    BY <2>1, <2>2, <2>3
<1>8. SlotsHold'
  BY <1>1, <1>5, SlotsMove
<1> QED
  BY <1>2, <1>4, <1>5, <1>6, <1>7, <1>8, QuietStepKeeps

\* HTTP: the first event's data is an answer, something else, or an error.
LEMMA HTTPCallKeeps ==
  ASSUME MCPConfigured, MCPKept, NEW c \in ToolCallers, HTTPCall(c)
  PROVE  MCPKept'
<1>1. /\ spec.transport = "sse" /\ caller[c].phase = "ready"
      /\ UNCHANGED <<spec, over, mcpSession, nextID, record>>
  BY DEF HTTPCall
<1>2. \A body : ReadSSEData(body, c) \in {"error", "nothing", c}
  BY DEF ReadSSEData
<1>3. ASSUME NEW body, mcpEffects' = [mcpEffects EXCEPT ![c] = @ + 1], UNCHANGED mcpTrouble,
             IF ReadSSEData(body, c) = "error" THEN Failed(c) ELSE Succeeded(c, ReadSSEData(body, c))
      PROVE  MCPKept'
  <2>1. Failed(c) \/ Succeeded(c, c) \/ Succeeded(c, "nothing")
    BY <1>2, <1>3
  <2>2. PICK did \in 0..1 : did = 1 /\ mcpEffects' = [mcpEffects EXCEPT ![c] = @ + did]
    BY <1>3
  <2> QED
    BY <1>1, <1>3, <2>1, <2>2, OneShotKeeps
<1>4. ASSUME NEW did \in 0..1, mcpEffects' = [mcpEffects EXCEPT ![c] = @ + did], Failed(c),
             UNCHANGED mcpTrouble \/ ServerTrouble("refused")
      PROVE  MCPKept'
  BY <1>1, <1>4, OneShotKeeps
<1> QED
  BY <1>3, <1>4 DEF HTTPCall

\* A process for one request.
LEMMA StdioCallKeeps ==
  ASSUME MCPConfigured, MCPKept, NEW c \in ToolCallers, StdioCall(c)
  PROVE  MCPKept'
<1>1. /\ spec.transport = "stdio" /\ caller[c].phase = "ready"
      /\ UNCHANGED <<spec, over, mcpSession, nextID, record>>
  BY DEF StdioCall
<1>2. CASE /\ c \notin over /\ Succeeded(c, c)
           /\ mcpEffects' = [mcpEffects EXCEPT ![c] = @ + 1] /\ UNCHANGED mcpTrouble
  <2>1. PICK did \in 0..1 : did = 1 /\ mcpEffects' = [mcpEffects EXCEPT ![c] = @ + did]
    BY <1>2
  <2> QED
    BY <1>1, <1>2, <2>1, OneShotKeeps
<1>3. ASSUME NEW did \in 0..1, mcpEffects' = [mcpEffects EXCEPT ![c] = @ + did], Failed(c),
             UNCHANGED mcpTrouble \/ ServerTrouble("garbled")
      PROVE  MCPKept'
  BY <1>1, <1>3, OneShotKeeps
<1> QED
  BY <1>2, <1>3 DEF StdioCall

-----------------------------------------------------------------------------
\* The first caller starts the process, or fails to: too late, or for a trouble.
LEMMA EnsureSessionKeeps ==
  ASSUME MCPConfigured, MCPKept, NEW c \in ToolCallers, EnsureSession(c)
  PROVE  MCPKept'
<1>1. MCPTypes /\ CallFits(c) /\ SlotsHold
  BY DEF MCPKept
<1>2. /\ spec.transport = "persistent" /\ caller[c].phase = "ready" /\ ~Exchanging(caller[c].manager)
      /\ mcpSession[caller[c].manager] = NoSession
      /\ UNCHANGED <<spec, over, mcpEffects, record>>
  BY DEF EnsureSession
<1>3. PICK m \in Managers : m = caller[c].manager
  BY <1>1, <1>2 DEF CallFits
<1>4. CASE /\ c \notin over
           /\ mcpSession' = [mcpSession EXCEPT ![m] = Started(c)]
           /\ nextID' = [nextID EXCEPT ![m] = 2]
           /\ UNCHANGED <<caller, mcpStatus, mcpTrouble>>
  <2>1. Started(c) \in SessionState /\ Started(c).alive /\ Started(c).opener = c /\ Started(c).out = <<>>
    BY DEF Started, SessionState
  <2>2. /\ mcpSession \in [Managers -> SessionState] /\ nextID \in [Managers -> Nat]
        /\ caller \in [ToolCallers -> CallerRow]
    BY <1>1 DEF MCPTypes
  <2>3. /\ mcpSession' \in [Managers -> SessionState] /\ nextID' \in [Managers -> Nat]
        /\ mcpSession'[m] = Started(c)
        /\ \A k \in Managers : k # m => mcpSession'[k] = mcpSession[k] /\ nextID'[k] = nextID[k]
    BY <1>4, <2>1, <2>2
  <2>4. MCPTypes'
    BY <1>1, <1>2, <1>4, <2>3 DEF MCPTypes
  <2>5. OneCallerMoves(c) /\ RequestStays(c)
    BY <1>4, <2>2 DEF OneCallerMoves, RequestStays
  <2>6. ProcessFits(m)'
    <3>1. c # "none"
      BY DEF MCPConfigured
    <3>2. DOMAIN mcpSession'[m].out = {}
      BY <2>1, <2>3
    <3> QED
      BY <2>1, <2>3, <3>1, <3>2 DEF ProcessFits
  <2>7. CallFits(c)'
    BY <1>1, <1>2, <1>4 DEF CallFits, Caller
  <2>8. SlotsHold'
    BY <1>1, <1>2, <1>4, <2>5, SlotsMove
  <2>9. CallsAddUp'
    BY SMTT(60), <1>4 DEF MCPKept, CallsAddUp, GotAnswers, AskedOf
  <2>10. ~WillFail(c) /\ ~WillFail(c)' /\ ReaderFits(c)' /\ ~ReadsInVain(c)'
    BY <1>2, <1>4 DEF WillFail, ReaderFits, ReadsInVain
  <2>11. mcpStatus'.failures + DiedUnnoticed(m)' + FailsSoon(c)' + ComesTooLate(c)' + PaidFailures
           <= mcpStatus.failures + DiedUnnoticed(m) + FailsSoon(c) + ComesTooLate(c) + PaidFailures'
    <3>1. DiedUnnoticed(m) = 0 /\ DiedUnnoticed(m)' = 0
      BY <1>2, <1>3, <2>1, <2>3 DEF DiedUnnoticed, DeadOnes
    <3>2. FailsSoon(c) = 0 /\ FailsSoon(c)' = 0
      BY <2>10 DEF FailsSoon, FailingReaders
    <3>3. ComesTooLate(c)' = ComesTooLate(c) /\ ComesTooLate(c) \in Nat
      BY <1>2, <1>4, TooLateIs
    <3>4. PaidFailures' = PaidFailures /\ mcpStatus' = mcpStatus
      BY <1>4 DEF PaidFailures
    <3> QED
      BY <1>1, <3>1, <3>2, <3>3, <3>4, FailureNumbers
  <2>12. \A d \in ToolCallers : caller[d].phase = "reading" /\ caller[d].manager = m => d = c
    BY <1>2, <1>3 DEF Exchanging
  <2> QED
    BY <1>2, <1>3, <1>4, <2>3, <2>4, <2>5, <2>6, <2>7, <2>8, <2>9, <2>10, <2>11, <2>12, ExchangeKeeps
<1>5. CASE /\ IF c \in over THEN UNCHANGED mcpTrouble ELSE ServerTrouble("refused")
           /\ Failed(c)
           /\ UNCHANGED <<mcpSession, nextID>>
  <2>1. /\ OneCallerMoves(c) /\ RequestStays(c) /\ caller'[c].phase \in {"backoff", "done"}
        /\ mcpStatus' \in [calls : Nat, failures : Nat] /\ mcpStatus'.failures = mcpStatus.failures + 1
    BY <1>1, <1>5, FailedMoves
  <2>2. mcpTrouble \in ServerTroubles
    BY <1>1 DEF MCPTypes
  <2>3. /\ mcpTrouble' \in ServerTroubles /\ mcpTrouble'.silent = mcpTrouble.silent
        /\ (mcpTrouble.refused > 0 => mcpTrouble'.refused > 0)
        /\ PaidFailures' = PaidFailures + (IF c \in over THEN 0 ELSE 1)
    BY <1>1, <1>5, <2>2, ServerTroubleCounts, FailureNumbers DEF PaidFailures
  <2>4. MCPTypes'
    BY <1>1, <1>2, <1>5, <2>1, <2>3 DEF MCPTypes, OneCallerMoves
  <2>5. mcpEffects'[c] \in Nat /\ mcpEffects'[c] <= caller[c].attempt
    BY <1>1, <1>2 DEF MCPTypes, CallFits
  <2>6. CallFits(c)' /\ CallsAddUp'
    BY <1>2, <1>5, <2>4, <2>5, FailedFits, FailureAddsUp
  <2>7. SlotsHold'
    BY <1>1, <1>2, <2>1, SlotsMove
  <2>8. ComesTooLate(c) = (IF c \in over THEN 1 ELSE 0) /\ ComesTooLate(c)' = 0
    BY <1>2, <2>1, TooLateIs
  <2>9. mcpStatus'.failures + ComesTooLate(c)' + PaidFailures <= mcpStatus.failures + ComesTooLate(c) + PaidFailures'
    BY <1>1, <2>1, <2>3, <2>8, FailureNumbers
  <2> QED
    BY <1>2, <1>5, <2>1, <2>3, <2>4, <2>6, <2>7, <2>9, QuietStepKeeps
<1> QED
  BY <1>3, <1>4, <1>5 DEF EnsureSession

\* A pipe of answers that are older takes a line of a request.
LEMMA PipeGrows ==
  ASSUME MCPConfigured, NEW n \in Nat, NEW pipe \in Seq(Line), NEW line \in Line, line.id = n,
         \A i \in DOMAIN pipe : pipe[i].id < n /\ pipe[i].result \in ToolCallers
  PROVE  /\ Append(pipe, line) \in Seq(Line) /\ PipeFits(Append(pipe, line), n)
         /\ \A i \in DOMAIN Append(pipe, line) : Append(pipe, line)[i].id < n + 1
         /\ \A i \in DOMAIN Append(pipe, line) :
               \/ Append(pipe, line)[i] = line
               \/ Append(pipe, line)[i].id < n /\ Append(pipe, line)[i].result \in ToolCallers
         /\ \E i \in DOMAIN Append(pipe, line) : Append(pipe, line)[i].id = n
<1>1. /\ Len(pipe) \in Nat /\ DOMAIN Append(pipe, line) = 1..(Len(pipe) + 1)
      /\ \A i \in DOMAIN pipe : Append(pipe, line)[i] = pipe[i]
      /\ Append(pipe, line)[Len(pipe) + 1] = line /\ DOMAIN pipe = 1..Len(pipe) /\ Append(pipe, line) \in Seq(Line)
  OBVIOUS
<1>2. \A i \in 1..(Len(pipe) + 1) :
        \/ Append(pipe, line)[i] = line /\ i = Len(pipe) + 1
        \/ i \in DOMAIN pipe /\ Append(pipe, line)[i].id < n /\ Append(pipe, line)[i].result \in ToolCallers
  <2> TAKE i \in 1..(Len(pipe) + 1)
  <2>1. CASE i = Len(pipe) + 1
    BY <1>1, <2>1
  <2>2. CASE i # Len(pipe) + 1
    <3>1. i \in DOMAIN pipe /\ Append(pipe, line)[i] = pipe[i]
      BY <1>1, <2>2
    <3> QED
      BY <3>1
  <2> QED
    BY <2>1, <2>2
<1>3. \A i \in DOMAIN Append(pipe, line) : Append(pipe, line)[i].id < n + 1
  <2> TAKE i \in DOMAIN Append(pipe, line)
  <2>1. Append(pipe, line)[i] \in Line
    BY <1>1
  <2>2. Append(pipe, line)[i].id \in Nat
    BY <2>1 DEF Line
  <2> QED
    BY <1>1, <1>2, <2>2
<1>4. PipeFits(Append(pipe, line), n)
  BY <1>1, <1>2 DEF PipeFits
<1> QED
  BY <1>1, <1>2, <1>3, <1>4

\* Or one that is none, and the answer.
Garbled(pipe, line) == pipe \o <<Garbage, line>>

\* A garbled pipe.
LEMMA PipeIsGarbled ==
  ASSUME MCPConfigured, NEW n \in Nat, NEW pipe \in Seq(Line), NEW line \in Line, line.id = n, line.result \in ToolCallers,
         \A i \in DOMAIN pipe : pipe[i].id < n /\ pipe[i].result \in ToolCallers
  PROVE  /\ Garbled(pipe, line) \in Seq(Line) /\ PipeFits(Garbled(pipe, line), n)
         /\ \A i \in DOMAIN Garbled(pipe, line) : Garbled(pipe, line)[i].id < n + 1
         /\ \A i \in DOMAIN Garbled(pipe, line) :
              Garbled(pipe, line)[i].id = n /\ Garbled(pipe, line)[i].result \in ToolCallers => Garbled(pipe, line)[i] = line
         /\ \E i \in DOMAIN Garbled(pipe, line) : Garbled(pipe, line)[i].id = n
<1> DEFINE both == pipe \o <<Garbage, line>>
<1>1. Garbage \in Line /\ Garbage.id = 0 /\ Garbage.result = "garbage"
  BY DEF Garbage, Line
<1>2. /\ Len(pipe) \in Nat /\ DOMAIN both = 1..(Len(pipe) + 2) /\ both \in Seq(Line)
      /\ \A i \in DOMAIN pipe : both[i] = pipe[i]
      /\ both[Len(pipe) + 1] = Garbage /\ both[Len(pipe) + 2] = line /\ DOMAIN pipe = 1..Len(pipe)
  <2>1. <<Garbage, line>> \in Seq(Line) /\ Len(<<Garbage, line>>) = 2
    BY <1>1
  <2> QED
    BY <2>1
<1>3. \A i \in DOMAIN both :
        \/ both[i] = line /\ i = Len(pipe) + 2
        \/ both[i] = Garbage /\ i = Len(pipe) + 1
        \/ i <= Len(pipe) /\ both[i].id < n /\ both[i].result \in ToolCallers
  BY <1>2
<1> HIDE DEF both
<1>4. \A i \in DOMAIN both : both[i].id < n + 1
  <2> TAKE i \in DOMAIN both
  <2>1. both[i] \in Line
    BY <1>2
  <2>2. both[i].id \in Nat
    BY <2>1 DEF Line
  <2> QED
    BY <1>1, <1>3, <2>2
<1>5. PipeFits(both, n)
  BY <1>1, <1>2, <1>3 DEF PipeFits
<1>6. \A i \in DOMAIN both : both[i].id = n /\ both[i].result \in ToolCallers => both[i] = line
  BY <1>1, <1>3 DEF MCPConfigured
<1>7. \E i \in DOMAIN both : both[i].id = n
  BY <1>2
<1> QED
  BY <1>2, <1>4, <1>5, <1>6, <1>7 DEF both, Garbled

\* A request is in the pipe, or the process died of it, and what may fail is paid for.
Requested(c, m, pipe, did, lives) ==
  /\ m = caller[c].manager /\ caller[c].phase = "ready" /\ ~Exchanging(m) /\ mcpSession[m].alive
  /\ nextID' = [nextID EXCEPT ![m] = nextID[m] + 1]
  /\ caller' = [caller EXCEPT ![c].phase = "reading", ![c].id = nextID[m]]
  /\ mcpEffects' = [mcpEffects EXCEPT ![c] = mcpEffects[c] + did]
  /\ mcpSession' \in [Managers -> SessionState]
  /\ \A k \in Managers : k # m => mcpSession'[k] = mcpSession[k]
  /\ mcpSession'[m].opener = mcpSession[m].opener /\ mcpSession'[m].out = pipe /\ (mcpSession'[m].alive <=> lives)
  /\ PipeFits(pipe, nextID[m])
  /\ \A i \in DOMAIN pipe : pipe[i].id < nextID[m] + 1
  /\ \A i \in DOMAIN pipe : pipe[i].id = nextID[m] /\ pipe[i].result \in ToolCallers => pipe[i].result = c /\ did = 1
  /\ mcpTrouble' \in ServerTroubles
  /\ mcpTrouble.refused > 0 => mcpTrouble'.refused > 0
  /\ mcpTrouble.silent > 0 => mcpTrouble'.silent > 0
  /\ lives /\ (\A i \in DOMAIN pipe : pipe[i].id # nextID[m]) => mcpTrouble'.silent > 0
  /\ PaidFailures <= PaidFailures'
  /\ (\E i \in DOMAIN pipe : pipe[i].result \notin ToolCallers) => PaidFailures + 1 <= PaidFailures'
  /\ ~lives => PaidFailures + 2 <= PaidFailures'
  /\ UNCHANGED <<spec, over, mcpStatus, record>>

\* Such a request keeps the invariant.
LEMMA RequestedKeeps ==
  ASSUME MCPConfigured, MCPKept, NEW c \in ToolCallers, NEW m \in Managers,
         NEW did \in 0..1, NEW pipe \in Seq(Line), NEW lives \in BOOLEAN, Requested(c, m, pipe, did, lives)
  PROVE  MCPKept'
<1> USE DEF Requested
<1>1. MCPTypes /\ CallFits(c) /\ SlotsHold /\ ProcessFits(m)
  BY DEF MCPKept
<1>2. /\ caller \in [ToolCallers -> CallerRow] /\ nextID \in [Managers -> Nat] /\ nextID[m] \in Nat
      /\ mcpEffects \in [ToolCallers -> Nat] /\ mcpEffects[c] \in Nat /\ mcpSession[m] \in SessionState
  BY <1>1 DEF MCPTypes
<1>3. /\ OneCallerMoves(c) /\ RequestStays(c)
      /\ caller'[c].phase = "reading" /\ caller'[c].id = nextID[m] /\ caller'[c].attempt = caller[c].attempt
      /\ caller'[c].result = caller[c].result
  <2>5. caller' = [caller EXCEPT ![c].phase = "reading", ![c].id = nextID[m]]
    OBVIOUS
  <2>1. caller[c] \in CallerRow
    BY <1>2
  <2>2. /\ \A d \in ToolCallers : d # c => caller'[d] = caller[d]
       /\ caller'[c] = [caller[c] EXCEPT !.phase = "reading", !.id = nextID[m]]
       /\ DOMAIN caller' = ToolCallers
       /\ caller' = [d \in ToolCallers |-> caller'[d]]
    BY ONLY <2>5, <1>2, c \in ToolCallers
  <2>3. /\ caller'[c] \in CallerRow /\ caller'[c].op = caller[c].op /\ caller'[c].manager = caller[c].manager
       /\ /\ caller'[c].phase = "reading" /\ caller'[c].id = nextID[m] /\ caller'[c].attempt = caller[c].attempt
        /\ caller'[c].result = caller[c].result
    BY ONLY <1>2, <2>1, <2>2 DEF CallerRow
  <2>4. caller' \in [ToolCallers -> CallerRow]
    BY <2>2, <2>3, <1>2
  <2> QED
    BY <2>2, <2>3, <2>4 DEF OneCallerMoves, RequestStays
<1>17. caller'[c].manager = m
  BY <1>3 DEF RequestStays
<1>4. /\ nextID' \in [Managers -> Nat] /\ nextID'[m] = nextID[m] + 1
      /\ \A k \in Managers : k # m => nextID'[k] = nextID[k]
      /\ mcpEffects' \in [ToolCallers -> Nat] /\ mcpEffects'[c] = mcpEffects[c] + did
      /\ \A d \in ToolCallers : d # c => mcpEffects'[d] = mcpEffects[d]
  BY <1>2
<1>5. MCPTypes'
  BY <1>1, <1>3, <1>4 DEF MCPTypes, OneCallerMoves
<1>6. \A d \in ToolCallers : caller[d].phase = "reading" /\ caller[d].manager = m => d = c
  BY DEF Exchanging
<1>7. \A d \in ToolCallers : caller'[d].phase = "reading" /\ caller'[d].manager = m => d = c
  BY SMTT(60), <1>3, <1>6 DEF OneCallerMoves
<1>8. mcpSession[m] # NoSession /\ mcpSession[m].opener # "none"
  BY <1>1 DEF ProcessFits, NoSession
<1>9. mcpSession'[m] # NoSession
  BY <1>8 DEF NoSession
<1>10. ProcessFits(m)'
  <2>1. Exchanging(m)'
    BY <1>3 DEF Exchanging, RequestStays
  <2> QED
    BY <1>4, <1>8, <2>1 DEF ProcessFits
<1>11. CallFits(c)'
  <2>1. mcpEffects[c] + 1 <= caller[c].attempt /\ caller[c].attempt \in Nat
    BY <1>1, <1>2 DEF CallFits, CallerRow
  <2>2. mcpEffects'[c] <= caller[c].attempt
    BY <1>2, <1>4, <2>1
  <2>3. caller[c].result \notin {c, "nothing"}
    BY <1>1 DEF CallFits, MCPConfigured
  <2> QED
    BY <1>1, <1>3, <2>2, <2>3 DEF CallFits, AttemptsOf, RequestStays
<1>12. ReaderFits(c)'
  <2>1. did = 1 => mcpEffects'[c] > 0
    BY <1>2, <1>4
  <2>2. PipeFits(mcpSession'[m].out, caller'[c].id)
    BY <1>3
  <2>3. caller'[c].manager = m
    BY <1>3 DEF RequestStays
  <2>4. \A i \in DOMAIN mcpSession'[m].out :
          mcpSession'[m].out[i].id = caller'[c].id /\ mcpSession'[m].out[i].result \in ToolCallers =>
            mcpSession'[m].out[i].result = c /\ mcpEffects'[c] > 0
    BY <1>3, <2>1
  <2>5. caller'[c].id + 1 = nextID'[m]
    BY <1>3, <1>4
  <2>6. mcpSession'[m] # NoSession'
    BY <1>9 DEF NoSession
  <2> QED
    BY ONLY <1>17, <1>3, <1>4, <1>7, <1>9, <2>2, <2>3, <2>4, <2>5, <2>6 DEF ReaderFits
<1>13. ReadsInVain(c)' => mcpTrouble'.silent > 0
  <2> SUFFICES ASSUME ReadsInVain(c)' PROVE mcpTrouble'.silent > 0
    OBVIOUS
  <2>1. mcpSession'[m].alive /\ \A i \in DOMAIN mcpSession'[m].out : mcpSession'[m].out[i].id # caller'[c].id
    BY ONLY <1>17, ReadsInVain(c)' DEF ReadsInVain
  <2>2. /\ mcpSession'[m].out = pipe /\ (mcpSession'[m].alive <=> lives)
        /\ lives /\ (\A i \in DOMAIN pipe : pipe[i].id # nextID[m]) => mcpTrouble'.silent > 0
    OBVIOUS
  <2> QED
    BY ONLY <1>3, <2>1, <2>2
<1>14. SlotsHold'
  BY <1>1, <1>3, SlotsMove
<1>15. CallsAddUp'
  <2>1. CallsAddUp
    BY DEF MCPKept
  <2>2. caller[c].result \notin ToolCallers \cup {"nothing"}
    BY <1>1 DEF CallFits, MCPConfigured
  <2>3. Cardinality(AskedOf') = Cardinality(AskedOf) /\ Cardinality(GotAnswers') = Cardinality(GotAnswers)
    BY <1>1, <1>3, <1>5, <2>2, CallsMove
  <2> QED
    BY <2>1, <2>3 DEF CallsAddUp
<1>16. mcpStatus'.failures + DiedUnnoticed(m)' + FailsSoon(c)' + ComesTooLate(c)' + PaidFailures
         <= mcpStatus.failures + DiedUnnoticed(m) + FailsSoon(c) + ComesTooLate(c) + PaidFailures'
  <2>1. DiedUnnoticed(m)' = IF lives THEN 0 ELSE 1
    BY <1>9 DEF DiedUnnoticed, DeadOnes, NoSession
  <2>2. DiedUnnoticed(m) \in Nat /\ FailsSoon(c) \in Nat /\ ComesTooLate(c) \in Nat
    BY DEF DiedUnnoticed, FailsSoon, ComesTooLate
  <2>3. ComesTooLate(c)' = 0
    BY <1>3, TooLateIs
  <2>4. FailsSoon(c)' \in 0..1
    BY DEF FailsSoon
  <2>5. FailsSoon(c)' = 1 => ~lives \/ \E i \in DOMAIN pipe : pipe[i].result \notin ToolCallers
    <3> SUFFICES ASSUME FailsSoon(c)' = 1, lives PROVE \E i \in DOMAIN pipe : pipe[i].result \notin ToolCallers
      OBVIOUS
    <3>1. WillFail(c)'
      BY DEF FailsSoon, FailingReaders
    <3>2. PICK i \in DOMAIN pipe : pipe[i] = Garbage \/ pipe[i].result = "refused"
      <4>1. mcpSession'[m].alive
        OBVIOUS
      <4>2. \E i \in DOMAIN mcpSession'[m].out :
              mcpSession'[m].out[i] = Garbage \/ mcpSession'[m].out[i].result = "refused"
        BY ONLY <1>17, <3>1, <4>1 DEF WillFail, Garbage
      <4> QED
        BY <4>2
    <3>3. Garbage.result = "garbage"
      BY DEF Garbage
    <3> QED
      BY <3>2, <3>3 DEF MCPConfigured
  <2>6. PaidFailures' \in Nat /\ PaidFailures \in Nat /\ mcpStatus.failures \in Nat /\ mcpStatus' = mcpStatus
    BY SMTT(60), <1>1, FailureNumbers DEF PaidFailures, ServerTroubles
  <2>7. CASE ~lives
    <3>1. PaidFailures + 2 <= PaidFailures' /\ DiedUnnoticed(m)' = 1
      BY <2>1, <2>7
    <3>2. \A a, b, d, e, f, g, h \in Nat : b <= 1 /\ d + 2 <= e => a + 1 + b + 0 + d <= a + f + g + h + e
      BY SMTT(60)
    <3>3. FailsSoon(c)' \in Nat /\ FailsSoon(c)' <= 1
      BY <2>4
    <3> QED
      BY ONLY <2>2, <2>3, <2>6, <3>1, <3>2, <3>3
  <2>8. CASE lives
    <3>1. DiedUnnoticed(m)' = 0 /\ PaidFailures + FailsSoon(c)' <= PaidFailures'
      BY <2>1, <2>4, <2>5, <2>6, <2>8
    <3>2. \A a, b, d, e, f, g, h \in Nat : d + b <= e => a + 0 + b + 0 + d <= a + f + g + h + e
      BY SMTT(60)
    <3>3. FailsSoon(c)' \in Nat
      BY <2>4
    <3> QED
      BY ONLY <2>2, <2>3, <2>6, <3>1, <3>2, <3>3
  <2> QED
    BY <2>7, <2>8
<1>18. /\ spec' = spec /\ over' = over /\ record' = record /\ m = caller[c].manager
       /\ \A k \in Managers : k # m => mcpSession'[k] = mcpSession[k]
       /\ mcpTrouble.refused > 0 => mcpTrouble'.refused > 0
       /\ mcpTrouble.silent > 0 => mcpTrouble'.silent > 0
  OBVIOUS
<1> HIDE DEF Requested
<1> QED
  BY <1>3, <1>4, <1>5, <1>6, <1>10, <1>11, <1>12, <1>13, <1>14, <1>15, <1>16, <1>17, <1>18, ExchangeKeeps

\* Lines have numbers.
LEMMA LinesHaveNumbers ==
  ASSUME NEW pipe \in Seq(Line), NEW i \in DOMAIN pipe
  PROVE  pipe[i].id \in Nat
<1>1. pipe[i] \in Line
  OBVIOUS
<1> QED
  BY <1>1 DEF Line

\* A process takes a line, or dies.
LEMMA PipeChanges ==
  ASSUME mcpSession \in [Managers -> SessionState], NEW m \in Managers, NEW pipe \in Seq(Line),
         mcpSession' = [mcpSession EXCEPT ![m].out = pipe]
  PROVE  /\ mcpSession' \in [Managers -> SessionState]
         /\ \A k \in Managers : k # m => mcpSession'[k] = mcpSession[k]
         /\ mcpSession'[m].opener = mcpSession[m].opener /\ mcpSession'[m].out = pipe
         /\ mcpSession'[m].alive = mcpSession[m].alive
BY DEF SessionState

\* A process that has died.
LEMMA ProcessDies ==
  ASSUME mcpSession \in [Managers -> SessionState], NEW m \in Managers,
         mcpSession' = [mcpSession EXCEPT ![m].alive = FALSE]
  PROVE  /\ mcpSession' \in [Managers -> SessionState]
         /\ \A k \in Managers : k # m => mcpSession'[k] = mcpSession[k]
         /\ mcpSession'[m].opener = mcpSession[m].opener /\ mcpSession'[m].out = mcpSession[m].out
         /\ ~mcpSession'[m].alive
BY DEF SessionState

\* A request is answered, refused, garbled, ignored, or kills the process.
LEMMA RequestKeeps ==
  ASSUME MCPConfigured, MCPKept, NEW c \in ToolCallers, Request(c)
  PROVE  MCPKept'
<1>1. MCPTypes /\ CallFits(c)
  BY DEF MCPKept
<1>2. PICK m \in Managers : m = caller[c].manager
  BY <1>1 DEF CallFits, Request
<1>3. PICK n \in Nat : n = nextID[m]
  BY <1>1 DEF MCPTypes
<1>4. PICK line \in Line : line = [id |-> n, result |-> c] /\ line.id = n /\ line.result = c
  <2>1. [id |-> n, result |-> c] \in Line
    BY DEF Line
  <2> QED
    BY <2>1
<1>5. PICK refusal \in Line : refusal = [id |-> n, result |-> "refused"] /\ refusal.id = n /\ refusal.result = "refused"
  <2>1. [id |-> n, result |-> "refused"] \in Line
    BY DEF Line
  <2> QED
    BY <2>1
<1>6. PICK pipe \in Seq(Line) : pipe = mcpSession[m].out
  BY SMTT(60), <1>1 DEF MCPTypes, SessionState
<1>7. /\ caller[c].phase = "ready" /\ ~Exchanging(m) /\ mcpSession[m].alive
      /\ nextID' = [nextID EXCEPT ![m] = nextID[m] + 1]
      /\ caller' = [caller EXCEPT ![c].phase = "reading", ![c].id = nextID[m]]
      /\ UNCHANGED <<spec, over, mcpStatus, record>>
  BY <1>2 DEF Request
<1>8. \A i \in DOMAIN pipe : pipe[i].id < n /\ pipe[i].result \in ToolCallers
  BY <1>3, <1>6, <1>7 DEF MCPKept, ProcessFits
<1>9. [[id |-> n, result |-> c] EXCEPT !.result = "refused"] = refusal
  BY SMTT(60), <1>5
<1>10. \/ /\ mcpSession' = [mcpSession EXCEPT ![m].out = Append(pipe, line)]
          /\ mcpEffects' = [mcpEffects EXCEPT ![c] = @ + 1] /\ UNCHANGED mcpTrouble
       \/ /\ mcpSession' = [mcpSession EXCEPT ![m].out = Append(pipe, refusal)]
          /\ UNCHANGED mcpEffects /\ ServerTrouble("refused")
       \/ /\ mcpSession' = [mcpSession EXCEPT ![m].out = pipe \o <<Garbage, line>>]
          /\ mcpEffects' = [mcpEffects EXCEPT ![c] = @ + 1] /\ ServerTrouble("garbled")
       \/ /\ UNCHANGED mcpSession /\ mcpEffects' = [mcpEffects EXCEPT ![c] = @ + 1] /\ ServerTrouble("silent")
       \/ /\ mcpSession' = [mcpSession EXCEPT ![m].alive = FALSE] /\ UNCHANGED mcpEffects /\ ServerTrouble("deaths")
  BY <1>2, <1>3, <1>4, <1>6, <1>9 DEF Request
<1>11. /\ mcpSession \in [Managers -> SessionState] /\ mcpTrouble \in ServerTroubles /\ PaidFailures \in Nat
       /\ mcpEffects \in [ToolCallers -> Nat]
  BY <1>1, FailureNumbers DEF MCPTypes
<1>12. c \in ToolCallers /\ "refused" \notin ToolCallers /\ "garbage" \notin ToolCallers
  BY DEF MCPConfigured
<1>13. PICK one \in 0..1 : one = 1
  OBVIOUS
<1>14. PICK zero \in 0..1 : zero = 0
  OBVIOUS
<1>15. UNCHANGED mcpEffects => mcpEffects' = [mcpEffects EXCEPT ![c] = mcpEffects[c] + zero]
  <2>1. mcpEffects[c] + zero = mcpEffects[c]
    BY <1>11, <1>14
  <2> QED
    BY <1>11, <2>1
<1>16. PipeFits(pipe, n) /\ \A i \in DOMAIN pipe : pipe[i].id < n + 1 /\ pipe[i].id # n
  <2>1. \A i \in DOMAIN pipe : pipe[i].id \in Nat
    BY LinesHaveNumbers
  <2> QED
    BY <1>8, <2>1 DEF PipeFits
<1>17. CASE /\ mcpSession' = [mcpSession EXCEPT ![m].out = Append(pipe, line)]
            /\ mcpEffects' = [mcpEffects EXCEPT ![c] = @ + 1] /\ UNCHANGED mcpTrouble
  <2>1. PICK next \in Seq(Line) :
          /\ next = Append(pipe, line)
          /\ PipeFits(next, n) /\ \A i \in DOMAIN next : next[i].id < n + 1
          /\ \A i \in DOMAIN next : next[i].result = c \/ (next[i].id < n /\ next[i].result \in ToolCallers)
          /\ \E i \in DOMAIN next : next[i].id = n
    <3>1. /\ Append(pipe, line) \in Seq(Line) /\ PipeFits(Append(pipe, line), n)
          /\ \A i \in DOMAIN Append(pipe, line) : Append(pipe, line)[i].id < n + 1
          /\ \A i \in DOMAIN Append(pipe, line) :
               Append(pipe, line)[i] = line \/ (Append(pipe, line)[i].id < n /\ Append(pipe, line)[i].result \in ToolCallers)
          /\ \E i \in DOMAIN Append(pipe, line) : Append(pipe, line)[i].id = n
      BY <1>4, <1>8, PipeGrows
    <3> QED
      BY <1>4, <3>1
  <2>2. /\ mcpSession' \in [Managers -> SessionState]
        /\ \A k \in Managers : k # m => mcpSession'[k] = mcpSession[k]
        /\ mcpSession'[m].opener = mcpSession[m].opener /\ mcpSession'[m].out = next
        /\ mcpSession'[m].alive <=> TRUE
    BY <1>7, <1>11, <1>17, <2>1, PipeChanges
  <2>3. \A i \in DOMAIN next : next[i].id = n /\ next[i].result \in ToolCallers => next[i].result = c /\ one = 1
    <3>1. \A i \in DOMAIN next : next[i].id \in Nat
      BY LinesHaveNumbers
    <3> QED
      BY <1>13, <2>1, <3>1
  <2>4. PaidFailures' = PaidFailures
    BY <1>17 DEF PaidFailures
  <2>5. \A i \in DOMAIN next : next[i].result \in ToolCallers
    BY <1>12, <2>1
  <2>9. Requested(c, m, next, one, TRUE)
    BY SMTT(60), <1>2, <1>3, <1>7, <1>11, <1>13, <1>17, <2>1, <2>2, <2>3, <2>4, <2>5 DEF Requested
  <2> QED
    BY <2>9, RequestedKeeps
<1>18. CASE /\ mcpSession' = [mcpSession EXCEPT ![m].out = Append(pipe, refusal)]
            /\ UNCHANGED mcpEffects /\ ServerTrouble("refused")
  <2>1. PICK next \in Seq(Line) :
          /\ next = Append(pipe, refusal)
          /\ PipeFits(next, n) /\ \A i \in DOMAIN next : next[i].id < n + 1
          /\ \A i \in DOMAIN next : next[i] = refusal \/ (next[i].id < n /\ next[i].result \in ToolCallers)
          /\ \E i \in DOMAIN next : next[i].id = n
    <3>1. /\ Append(pipe, refusal) \in Seq(Line) /\ PipeFits(Append(pipe, refusal), n)
          /\ \A i \in DOMAIN Append(pipe, refusal) : Append(pipe, refusal)[i].id < n + 1
          /\ \A i \in DOMAIN Append(pipe, refusal) :
               Append(pipe, refusal)[i] = refusal \/ (Append(pipe, refusal)[i].id < n /\ Append(pipe, refusal)[i].result \in ToolCallers)
          /\ \E i \in DOMAIN Append(pipe, refusal) : Append(pipe, refusal)[i].id = n
      BY <1>5, <1>8, PipeGrows
    <3> QED
      BY <1>5, <3>1
  <2>2. /\ mcpSession' \in [Managers -> SessionState]
        /\ \A k \in Managers : k # m => mcpSession'[k] = mcpSession[k]
        /\ mcpSession'[m].opener = mcpSession[m].opener /\ mcpSession'[m].out = next
        /\ mcpSession'[m].alive <=> TRUE
    BY <1>7, <1>11, <1>18, <2>1, PipeChanges
  <2>3. \A i \in DOMAIN next : next[i].id = n => next[i].result \notin ToolCallers
    <3>1. \A i \in DOMAIN next : next[i].id \in Nat
      BY LinesHaveNumbers
    <3> QED
      BY <1>5, <1>12, <2>1, <3>1
  <2>4. /\ mcpTrouble' \in ServerTroubles /\ PaidFailures' = PaidFailures + 1
        /\ mcpTrouble'.silent = mcpTrouble.silent /\ mcpTrouble'.refused > 0
    BY <1>11, <1>18, ServerTroubleCounts
  <2>9. Requested(c, m, next, zero, TRUE)
    BY <1>2, <1>3, <1>7, <1>11, <1>15, <1>18, <2>1, <2>2, <2>3, <2>4 DEF Requested
  <2> QED
    BY <2>9, RequestedKeeps
<1>19. CASE /\ mcpSession' = [mcpSession EXCEPT ![m].out = pipe \o <<Garbage, line>>]
            /\ mcpEffects' = [mcpEffects EXCEPT ![c] = @ + 1] /\ ServerTrouble("garbled")
  <2>1. PICK next \in Seq(Line) :
          /\ next = pipe \o <<Garbage, line>>
          /\ PipeFits(next, n) /\ \A i \in DOMAIN next : next[i].id < n + 1
          /\ \A i \in DOMAIN next : next[i].id = n /\ next[i].result \in ToolCallers => next[i] = line
          /\ \E i \in DOMAIN next : next[i].id = n
    <3> DEFINE both == Garbled(pipe, line)
    <3>1. /\ both \in Seq(Line) /\ PipeFits(both, n)
          /\ \A i \in DOMAIN both : both[i].id < n + 1
          /\ \A i \in DOMAIN both : both[i].id = n /\ both[i].result \in ToolCallers => both[i] = line
          /\ \E i \in DOMAIN both : both[i].id = n
      BY <1>4, <1>8, <1>12, PipeIsGarbled
    <3>2. both = pipe \o <<Garbage, line>>
      BY DEF Garbled
    <3> QED
      BY <3>1, <3>2
  <2>2. /\ mcpSession' \in [Managers -> SessionState]
        /\ \A k \in Managers : k # m => mcpSession'[k] = mcpSession[k]
        /\ mcpSession'[m].opener = mcpSession[m].opener /\ mcpSession'[m].out = next
        /\ mcpSession'[m].alive <=> TRUE
    BY <1>7, <1>11, <1>19, <2>1, PipeChanges
  <2>3. \A i \in DOMAIN next : next[i].id = n /\ next[i].result \in ToolCallers => next[i].result = c /\ one = 1
    BY <1>4, <1>13, <2>1
  <2>4. /\ mcpTrouble' \in ServerTroubles /\ PaidFailures' = PaidFailures + 1
        /\ mcpTrouble'.silent = mcpTrouble.silent /\ mcpTrouble'.refused = mcpTrouble.refused
    BY SMTT(60), <1>11, <1>19, ServerTroubleCounts
  <2>9. Requested(c, m, next, one, TRUE)
    <3>1. PaidFailures <= PaidFailures' /\ PaidFailures + 1 <= PaidFailures'
      BY <1>11, <2>4
    <3> QED
      BY <1>2, <1>3, <1>7, <1>13, <1>19, <2>1, <2>2, <2>3, <2>4, <3>1 DEF Requested
  <2> QED
    BY <2>9, RequestedKeeps
<1>20. CASE UNCHANGED mcpSession /\ mcpEffects' = [mcpEffects EXCEPT ![c] = @ + 1] /\ ServerTrouble("silent")
  <2>1. /\ mcpTrouble' \in ServerTroubles /\ PaidFailures' = PaidFailures
        /\ mcpTrouble'.silent > 0 /\ mcpTrouble'.refused = mcpTrouble.refused
    BY <1>11, <1>20, ServerTroubleCounts
  <2>2. /\ mcpSession' \in [Managers -> SessionState]
        /\ \A k \in Managers : k # m => mcpSession'[k] = mcpSession[k]
        /\ mcpSession'[m].opener = mcpSession[m].opener /\ mcpSession'[m].out = pipe
        /\ mcpSession'[m].alive <=> TRUE
    BY <1>6, <1>7, <1>11, <1>20
  <2>9. Requested(c, m, pipe, one, TRUE)
    BY <1>2, <1>3, <1>7, <1>8, <1>11, <1>13, <1>16, <1>20, <2>1, <2>2 DEF Requested
  <2> QED
    BY <2>9, RequestedKeeps
<1>21. CASE mcpSession' = [mcpSession EXCEPT ![m].alive = FALSE] /\ UNCHANGED mcpEffects /\ ServerTrouble("deaths")
  <2>1. /\ mcpTrouble' \in ServerTroubles /\ PaidFailures' = PaidFailures + 2
        /\ mcpTrouble'.silent = mcpTrouble.silent /\ mcpTrouble'.refused = mcpTrouble.refused
    BY <1>11, <1>21, ServerTroubleCounts
  <2>2. /\ mcpSession' \in [Managers -> SessionState]
        /\ \A k \in Managers : k # m => mcpSession'[k] = mcpSession[k]
        /\ mcpSession'[m].opener = mcpSession[m].opener /\ mcpSession'[m].out = pipe
        /\ mcpSession'[m].alive <=> FALSE
    BY <1>6, <1>11, <1>21, ProcessDies
  <2>9. Requested(c, m, pipe, zero, FALSE)
    BY <1>2, <1>3, <1>7, <1>8, <1>11, <1>15, <1>16, <1>21, <2>1, <2>2 DEF Requested
  <2> QED
    BY <2>9, RequestedKeeps
<1> QED
  BY <1>10, <1>17, <1>18, <1>19, <1>20, <1>21

\* The line that is read is the first; the others are left.
LEMMA LineIsRead ==
  ASSUME NEW pipe \in Seq(Line), pipe # <<>>
  PROVE  /\ Tail(pipe) \in Seq(Line) /\ 1 \in DOMAIN pipe /\ Head(pipe) = pipe[1] /\ pipe[1] \in Line
         /\ \A i \in DOMAIN Tail(pipe) : i + 1 \in DOMAIN pipe /\ Tail(pipe)[i] = pipe[i + 1] /\ 1 < i + 1 /\ i \in Nat
         /\ \A j \in DOMAIN pipe : j = 1 \/ (j - 1 \in DOMAIN Tail(pipe) /\ Tail(pipe)[j - 1] = pipe[j])
OBVIOUS

\* A dead process is noticed by who writes to it, and paid for by its death.
LEMMA RequestWriteFailsKeeps ==
  ASSUME MCPConfigured, MCPKept, NEW c \in ToolCallers, RequestWriteFails(c)
  PROVE  MCPKept'
<1>1. MCPTypes /\ CallFits(c) /\ SlotsHold
  BY DEF MCPKept
<1>2. PICK m \in Managers : m = caller[c].manager
  BY <1>1 DEF CallFits, RequestWriteFails
<1>3. /\ caller[c].phase = "ready" /\ ~Exchanging(m) /\ mcpSession[m] # NoSession /\ ~mcpSession[m].alive
      /\ mcpSession' = [mcpSession EXCEPT ![m] = NoSession] /\ Failed(c)
      /\ UNCHANGED <<spec, over, nextID, mcpEffects, mcpTrouble, record>>
  BY <1>2 DEF RequestWriteFails
<1>4. /\ OneCallerMoves(c) /\ RequestStays(c) /\ caller'[c].phase \in {"backoff", "done"}
      /\ mcpStatus' \in [calls : Nat, failures : Nat] /\ mcpStatus'.failures = mcpStatus.failures + 1
  BY <1>1, <1>3, FailedMoves
<1>5. NoSession \in SessionState /\ NoSession.out = <<>>
  BY DEF NoSession, SessionState
<1>6. /\ mcpSession' \in [Managers -> SessionState] /\ mcpSession'[m] = NoSession
      /\ \A k \in Managers : k # m => mcpSession'[k] = mcpSession[k]
  BY <1>1, <1>3, <1>5 DEF MCPTypes
<1>7. MCPTypes'
  BY <1>1, <1>3, <1>4, <1>6 DEF MCPTypes, OneCallerMoves
<1>8. mcpEffects'[c] \in Nat /\ mcpEffects'[c] <= caller[c].attempt
  BY <1>1, <1>3 DEF MCPTypes, CallFits
<1>9. CallFits(c)' /\ CallsAddUp'
  BY <1>3, <1>7, <1>8, FailedFits, FailureAddsUp
<1>10. SlotsHold'
  BY <1>1, <1>3, <1>4, SlotsMove
<1>11. ProcessFits(m)'
  <2>1. DOMAIN mcpSession'[m].out = {}
    BY SMTT(60), <1>5, <1>6
  <2> QED
    BY <1>6, <2>1 DEF ProcessFits, NoSession
<1>12. ~WillFail(c) /\ ~WillFail(c)' /\ ReaderFits(c)' /\ ~ReadsInVain(c)'
  BY <1>3, <1>4 DEF WillFail, ReaderFits, ReadsInVain
<1>13. mcpStatus'.failures + DiedUnnoticed(m)' + FailsSoon(c)' + ComesTooLate(c)' + PaidFailures
         <= mcpStatus.failures + DiedUnnoticed(m) + FailsSoon(c) + ComesTooLate(c) + PaidFailures'
  <2>1. DiedUnnoticed(m) = 1 /\ DiedUnnoticed(m)' = 0
    BY <1>3, <1>6 DEF DiedUnnoticed, DeadOnes, NoSession
  <2>2. FailsSoon(c) = 0 /\ FailsSoon(c)' = 0
    BY <1>12 DEF FailsSoon, FailingReaders
  <2>3. ComesTooLate(c)' = 0 /\ ComesTooLate(c) \in 0..1
    BY <1>4, TooLateIs
  <2>4. PaidFailures' = PaidFailures
    BY <1>3 DEF PaidFailures
  <2> QED
    BY <1>1, <1>4, <2>1, <2>2, <2>3, <2>4, FailureNumbers
<1>14. \A d \in ToolCallers : caller[d].phase = "reading" /\ caller[d].manager = m => d = c
  BY <1>2, <1>3 DEF Exchanging
<1>15. caller'[c].manager = m
  BY <1>2, <1>4 DEF RequestStays
<1> QED
  BY <1>2, <1>3, <1>4, <1>6, <1>7, <1>9, <1>10, <1>11, <1>12, <1>13, <1>14, <1>15, ExchangeKeeps

\* A reader that leaves, leaves older answers behind; its failure was foreseen.
ReaderLeaves(c, m, pipe) ==
  /\ caller[c].phase = "reading" /\ m = caller[c].manager
  /\ OneCallerMoves(c) /\ RequestStays(c) /\ caller'[c].phase \in {"backoff", "done"}
  /\ mcpSession' \in [Managers -> SessionState]
  /\ \A k \in Managers : k # m => mcpSession'[k] = mcpSession[k]
  /\ \/ mcpSession'[m] = NoSession
     \/ /\ mcpSession'[m].opener = mcpSession[m].opener /\ mcpSession'[m].alive = mcpSession[m].alive
        /\ mcpSession'[m].out = pipe
  /\ \A i \in DOMAIN pipe : pipe[i].id < nextID[m] /\ pipe[i].result \in ToolCallers
  /\ mcpStatus' \in [calls : Nat, failures : Nat]
  /\ mcpStatus'.failures <= mcpStatus.failures + FailsSoon(c)
  /\ UNCHANGED <<spec, over, nextID, mcpEffects, mcpTrouble, record>>

\* So it keeps the invariant.
LEMMA ReaderLeavesKeeps ==
  ASSUME MCPConfigured, MCPKept, NEW c \in ToolCallers, NEW m \in Managers, NEW pipe \in Seq(Line),
         ReaderLeaves(c, m, pipe), CallFits(c)', CallsAddUp'
  PROVE  MCPKept'
<1>1. MCPTypes /\ SlotsHold /\ ProcessFits(m) /\ ReaderFits(c)
  BY DEF MCPKept
<1>2. MCPTypes'
  BY SMTT(60), <1>1 DEF MCPTypes, OneCallerMoves, ReaderLeaves
<1>3. \A d \in ToolCallers : caller[d].phase = "reading" /\ caller[d].manager = m => d = c
  BY <1>1 DEF ReaderFits, ReaderLeaves
<1>4. \A d \in ToolCallers : ~(caller'[d].phase = "reading" /\ caller'[d].manager = m)
  BY SMTT(60), <1>3 DEF OneCallerMoves, ReaderLeaves
<1>5. mcpSession[m] # NoSession /\ mcpSession[m].opener # "none"
  BY <1>1 DEF ReaderFits, ReaderLeaves, ProcessFits
<1>6. ProcessFits(m)'
  <2>1. CASE mcpSession'[m] = NoSession
    <3>1. DOMAIN mcpSession'[m].out = {}
      BY <2>1 DEF NoSession
    <3> QED
      BY <2>1, <3>1 DEF ProcessFits, NoSession
  <2>2. CASE mcpSession'[m].opener = mcpSession[m].opener /\ mcpSession'[m].out = pipe
    BY SMTT(60), <1>5, <2>2 DEF ProcessFits, ReaderLeaves
  <2> QED
    BY <2>1, <2>2 DEF ReaderLeaves
<1>7. ~WillFail(c)' /\ ReaderFits(c)' /\ ~ReadsInVain(c)'
  BY DEF WillFail, ReaderFits, ReadsInVain, ReaderLeaves
<1>8. SlotsHold'
  BY <1>1, SlotsMove DEF ReaderLeaves
<1>9. mcpStatus'.failures + DiedUnnoticed(m)' + FailsSoon(c)' + ComesTooLate(c)' + PaidFailures
         <= mcpStatus.failures + DiedUnnoticed(m) + FailsSoon(c) + ComesTooLate(c) + PaidFailures'
  <2>1. DiedUnnoticed(m)' <= DiedUnnoticed(m) /\ DiedUnnoticed(m) \in Nat /\ DiedUnnoticed(m)' \in Nat
    BY <1>5 DEF DiedUnnoticed, DeadOnes, NoSession, ReaderLeaves
  <2>2. FailsSoon(c)' = 0 /\ FailsSoon(c) \in Nat
    BY <1>7 DEF FailsSoon, FailingReaders
  <2>3. ComesTooLate(c)' = 0 /\ ComesTooLate(c) = 0
    BY TooLateIs DEF ReaderLeaves
  <2>4. PaidFailures' = PaidFailures /\ mcpStatus'.failures <= mcpStatus.failures + FailsSoon(c) /\ mcpStatus'.failures \in Nat
    BY DEF PaidFailures, ReaderLeaves
  <2> QED
    BY SMTT(60), <1>1, <2>1, <2>2, <2>3, <2>4, FailureNumbers
<1>10. /\ caller[c].manager = m /\ caller'[c].manager = m /\ OneCallerMoves(c)
       /\ \A k \in Managers : k # m => mcpSession'[k] = mcpSession[k] /\ nextID'[k] = nextID[k]
       /\ UNCHANGED <<spec, over, mcpEffects, mcpTrouble, record>>
  BY SMTT(60) DEF ReaderLeaves, RequestStays
<1> QED
  BY <1>2, <1>3, <1>6, <1>7, <1>8, <1>9, <1>10, ExchangeKeeps

\* An answer is taken, an older one skipped, or reading fails.
LEMMA ReadResultKeeps ==
  ASSUME MCPConfigured, MCPKept, NEW c \in ToolCallers, ReadResult(c)
  PROVE  MCPKept'
<1>1. MCPTypes /\ CallFits(c) /\ ReaderFits(c) /\ SlotsHold /\ CallsAddUp
  BY SMTT(60) DEF MCPKept
<1>2. caller[c].phase = "reading" /\ UNCHANGED <<spec, over, nextID, mcpEffects, mcpTrouble, record>>
  BY DEF ReadResult
<1>3. PICK m \in Managers : m = caller[c].manager
  BY <1>1, <1>2 DEF CallFits
<1>4. ProcessFits(m) /\ mcpSession \in [Managers -> SessionState] /\ mcpSession[m] \in SessionState
  BY <1>1 DEF MCPKept, MCPTypes
<1>5. PICK pipe \in Seq(Line) : pipe = mcpSession[m].out
  BY <1>4 DEF SessionState
<1>6. PICK n \in Nat : n = caller[c].id
  BY <1>1 DEF MCPTypes, CallerRow
<1>7. /\ n + 1 = nextID[m] /\ mcpSession[m] # NoSession /\ PipeFits(pipe, n)
      /\ \A d \in ToolCallers : caller[d].phase = "reading" /\ caller[d].manager = m => d = c
      /\ \A i \in DOMAIN pipe : pipe[i].id = n /\ pipe[i].result \in ToolCallers => pipe[i].result = c /\ mcpEffects[c] > 0
  BY <1>1, <1>2, <1>3, <1>5, <1>6 DEF ReaderFits
<1>8. \A i \in DOMAIN pipe : pipe[i].id < nextID[m]
  BY <1>4, <1>5 DEF ProcessFits
<1>9. /\ Garbage.id = 0 /\ Garbage.result = "garbage" /\ "garbage" \notin ToolCallers /\ "refused" \notin ToolCallers
  BY DEF Garbage, MCPConfigured
<1>10. PICK rest \in Seq(Line) : pipe # <<>> =>
         /\ rest = Tail(pipe) /\ 1 \in DOMAIN pipe /\ Head(pipe) = pipe[1]
         /\ \A i \in DOMAIN rest : i + 1 \in DOMAIN pipe /\ rest[i] = pipe[i + 1] /\ 1 < i + 1
         /\ \A j \in DOMAIN pipe : j = 1 \/ (j - 1 \in DOMAIN rest /\ rest[j - 1] = pipe[j])
  <2>1. CASE pipe = <<>>
    BY <2>1
  <2>2. CASE pipe # <<>>
    <3>1. /\ Tail(pipe) \in Seq(Line) /\ 1 \in DOMAIN pipe /\ Head(pipe) = pipe[1]
          /\ \A i \in DOMAIN Tail(pipe) : i + 1 \in DOMAIN pipe /\ Tail(pipe)[i] = pipe[i + 1] /\ 1 < i + 1
          /\ \A j \in DOMAIN pipe : j = 1 \/ (j - 1 \in DOMAIN Tail(pipe) /\ Tail(pipe)[j - 1] = pipe[j])
      BY <2>2, LineIsRead
    <3> QED
      BY <3>1
  <2> QED
    BY <2>1, <2>2
<1>11. pipe # <<>> => \A i \in DOMAIN rest : rest[i].id < nextID[m]
  BY <1>8, <1>10
\* What follows a first line that answers, or is no answer, are older answers.
<1>12. pipe # <<>> /\ (pipe[1].id = n \/ pipe[1].result \notin ToolCallers) =>
         \A i \in DOMAIN rest : rest[i].result \in ToolCallers
  BY <1>7, <1>10 DEF PipeFits
<1>13. mcpEffects[c] \in Nat /\ mcpEffects[c] <= caller[c].attempt /\ mcpEffects'[c] = mcpEffects[c]
  BY <1>1, <1>2 DEF MCPTypes, CallFits
<1>14. ASSUME pipe # <<>>, mcpSession' = [mcpSession EXCEPT ![m].out = rest]
       PROVE  /\ mcpSession' \in [Managers -> SessionState]
              /\ \A k \in Managers : k # m => mcpSession'[k] = mcpSession[k]
              /\ mcpSession'[m].opener = mcpSession[m].opener /\ mcpSession'[m].out = rest
              /\ mcpSession'[m].alive = mcpSession[m].alive
  BY <1>4, <1>14, PipeChanges
<1>15. CASE /\ pipe # <<>> /\ pipe[1].id = n /\ pipe[1].result \in ToolCallers
            /\ Succeeded(c, pipe[1].result)
            /\ mcpSession' = [mcpSession EXCEPT ![m].out = rest]
  <2>1. pipe[1].result = c /\ mcpEffects[c] > 0
    BY <1>7, <1>10, <1>15
  <2>2. Succeeded(c, c)
    BY <1>15, <2>1
  <2>3. /\ OneCallerMoves(c) /\ RequestStays(c) /\ caller'[c].phase = "done" /\ mcpStatus' = mcpStatus
    BY <1>1, <2>2, SucceededMoves
  <2>4. mcpStatus' \in [calls : Nat, failures : Nat] /\ mcpStatus'.failures <= mcpStatus.failures + FailsSoon(c)
    <3>1. FailsSoon(c) \in Nat
      BY DEF FailsSoon
    <3>2. mcpStatus' \in [calls : Nat, failures : Nat]
      BY <1>1, <2>3 DEF MCPTypes
    <3> QED
      BY <1>1, <2>3, <3>1, <3>2, FailureNumbers
  <2>5. ReaderLeaves(c, m, rest)
    BY <1>2, <1>3, <1>11, <1>12, <1>14, <1>15, <2>3, <2>4 DEF ReaderLeaves
  <2>6. MCPTypes'
    BY <1>1, <2>5 DEF MCPTypes, OneCallerMoves, ReaderLeaves
  <2>7. CallFits(c)' /\ CallsAddUp'
    BY <1>2, <1>13, <2>1, <2>2, <2>6, SucceededFits, AnswerAddsUp
  <2> QED
    BY <2>5, <2>7, ReaderLeavesKeeps
<1>16. CASE /\ pipe # <<>> /\ pipe[1] # Garbage /\ pipe[1].id # n
            /\ mcpSession' = [mcpSession EXCEPT ![m].out = rest]
            /\ UNCHANGED <<caller, mcpStatus>>
  <2>1. OneCallerMoves(c) /\ RequestStays(c)
    BY <1>1, <1>16 DEF OneCallerMoves, RequestStays, MCPTypes
  <2>2. MCPTypes'
    BY <1>1, <1>2, <1>14, <1>16 DEF MCPTypes
  <2>3. CallFits(c)' /\ CallsAddUp'
    BY <1>1, <1>2, <1>16 DEF CallFits, Caller, CallsAddUp, AskedOf, GotAnswers
  <2>4. SlotsHold'
    BY <1>1, <1>2, <1>16, <2>1, SlotsMove
  <2>5. caller'[c].manager = m /\ caller'[c].phase = "reading" /\ caller'[c].id = n
    BY <1>2, <1>3, <1>6, <1>16
  <2>6. mcpSession[m].opener # "none" /\ mcpSession'[m] # NoSession
    BY <1>4, <1>7, <1>14, <1>16 DEF ProcessFits, NoSession
  <2>7. ProcessFits(m)'
    <3>1. Exchanging(m)'
      BY <2>5 DEF Exchanging
    <3> QED
      BY <1>2, <1>11, <1>14, <1>16, <2>6, <3>1 DEF ProcessFits
  <2>8. ReaderFits(c)'
    <3>1. PipeFits(rest, n)
      BY SMTT(60), <1>7, <1>10, <1>16 DEF PipeFits
    <3>2. mcpSession'[m].out = rest /\ mcpSession'[m] # NoSession'
      BY <1>14, <1>16, <2>6 DEF NoSession
    <3>3. \A i \in DOMAIN rest : rest[i].id = n /\ rest[i].result \in ToolCallers => rest[i].result = c /\ mcpEffects'[c] > 0
      BY <1>7, <1>10, <1>13, <1>16
    <3>4. \A d \in ToolCallers : caller'[d].phase = "reading" /\ caller'[d].manager = m => d = c
      BY <1>7, <1>16
    <3>5. n + 1 = nextID'[m]
      BY <1>2, <1>7
    <3> QED
      BY ONLY <2>5, <3>1, <3>2, <3>3, <3>4, <3>5 DEF ReaderFits
  <2>9. ReadsInVain(c)' => mcpTrouble'.silent > 0
    <3> SUFFICES ASSUME ReadsInVain(c)' PROVE mcpTrouble'.silent > 0
      OBVIOUS
    <3>1. mcpSession'[m].alive /\ \A i \in DOMAIN rest : rest[i].id # n
      BY <1>14, <1>16, <2>5 DEF ReadsInVain
    <3>2. \A j \in DOMAIN pipe : pipe[j].id # n
      <4> SUFFICES ASSUME NEW j \in DOMAIN pipe PROVE pipe[j].id # n
        OBVIOUS
      <4>1. j = 1 \/ (j - 1 \in DOMAIN rest /\ rest[j - 1] = pipe[j])
        BY SMTT(60), <1>10, <1>16
      <4> QED
        BY ONLY <1>16, <3>1, <4>1
    <3>3. ReadsInVain(c)
      BY <1>2, <1>3, <1>5, <1>6, <1>14, <1>16, <3>1, <3>2 DEF ReadsInVain
    <3> QED
      BY <1>2, <3>3 DEF MCPKept
  <2>10. mcpStatus'.failures + DiedUnnoticed(m)' + FailsSoon(c)' + ComesTooLate(c)' + PaidFailures
           <= mcpStatus.failures + DiedUnnoticed(m) + FailsSoon(c) + ComesTooLate(c) + PaidFailures'
    <3>1. DiedUnnoticed(m)' = DiedUnnoticed(m) /\ DiedUnnoticed(m) \in Nat
      <4>1. m \in DeadOnes' <=> m \in DeadOnes
        BY SMTT(60), <1>7, <1>14, <1>16, <2>6 DEF DeadOnes, NoSession
      <4> QED
        BY <4>1 DEF DiedUnnoticed
    <3>2. WillFail(c)' => WillFail(c)
      <4> SUFFICES ASSUME WillFail(c)', mcpSession[m].alive PROVE WillFail(c)
        BY <1>2, <1>3 DEF WillFail
      <4>1. \E i \in DOMAIN rest : rest[i] = Garbage \/ (rest[i].id = n /\ rest[i].result = "refused")
        BY <1>14, <1>16, <2>5 DEF WillFail, Garbage
      <4>2. \E j \in DOMAIN pipe : pipe[j] = Garbage \/ (pipe[j].id = n /\ pipe[j].result = "refused")
        BY <1>10, <1>16, <4>1
      <4> QED
        BY ONLY SMTT(60), <1>2, <1>3, <1>5, <1>6, <4>2 DEF WillFail
    <3>3. FailsSoon(c)' <= FailsSoon(c) /\ FailsSoon(c) \in Nat /\ FailsSoon(c)' \in Nat
      BY <3>2 DEF FailsSoon, FailingReaders
    <3>4. ComesTooLate(c)' = 0 /\ ComesTooLate(c) = 0
      BY <1>2, <2>5, TooLateIs
    <3>5. PaidFailures' = PaidFailures /\ mcpStatus' = mcpStatus
      BY <1>2, <1>16 DEF PaidFailures
    <3> QED
      BY <1>1, <3>1, <3>3, <3>4, <3>5, FailureNumbers
  <2> QED
    BY <1>2, <1>3, <1>7, <1>14, <1>16, <2>1, <2>2, <2>3, <2>4, <2>5, <2>7, <2>8, <2>9, <2>10, ExchangeKeeps
<1>17. CASE /\ \/ pipe = <<>> /\ ~mcpSession[m].alive
               \/ pipe # <<>> /\ pipe[1] = Garbage
               \/ pipe # <<>> /\ pipe[1].id = n /\ pipe[1].result = "refused"
            /\ Failed(c)
            /\ \/ mcpSession' = [mcpSession EXCEPT ![m] = NoSession]
               \/ mcpSession' = mcpSession /\ pipe = <<>>
               \/ mcpSession' = [mcpSession EXCEPT ![m].out = rest] /\ pipe # <<>>
  <2>1. /\ OneCallerMoves(c) /\ RequestStays(c) /\ caller'[c].phase \in {"backoff", "done"}
        /\ mcpStatus' \in [calls : Nat, failures : Nat] /\ mcpStatus'.failures = mcpStatus.failures + 1
    BY <1>1, <1>17, FailedMoves
  <2>2. FailsSoon(c) = 1
    <3>1. WillFail(c)
      <4>1. ~mcpSession[m].alive \/ \E j \in DOMAIN pipe : pipe[j] = Garbage \/ (pipe[j].id = n /\ pipe[j].result = "refused")
        BY <1>10, <1>17
      <4> QED
        BY ONLY <1>2, <1>3, <1>5, <1>6, <4>1 DEF WillFail
    <3> QED
      BY SMTT(60), <3>1 DEF FailsSoon, FailingReaders
  <2>3. mcpStatus'.failures <= mcpStatus.failures + FailsSoon(c)
    BY <1>1, <2>1, <2>2, FailureNumbers
  <2>4. PICK after \in Seq(Line) :
          /\ \A i \in DOMAIN after : after[i].id < nextID[m] /\ after[i].result \in ToolCallers
          /\ pipe = <<>> => after = <<>>
          /\ pipe # <<>> => after = rest
    <3>1. CASE pipe = <<>>
      <4>1. pipe \in Seq(Line) /\ DOMAIN pipe = {}
        BY <3>1
      <4> QED
        BY <3>1, <4>1
    <3>2. CASE pipe # <<>>
      BY <1>9, <1>11, <1>12, <1>17, <3>2
    <3> QED
      BY <3>1, <3>2
  <2>5. /\ mcpSession' \in [Managers -> SessionState]
        /\ \A k \in Managers : k # m => mcpSession'[k] = mcpSession[k]
        /\ \/ mcpSession'[m] = NoSession
           \/ /\ mcpSession'[m].opener = mcpSession[m].opener /\ mcpSession'[m].alive = mcpSession[m].alive
              /\ mcpSession'[m].out = after
    <3>1. CASE mcpSession' = [mcpSession EXCEPT ![m] = NoSession]
      <4>1. NoSession \in SessionState
        BY DEF NoSession, SessionState
      <4> QED
        BY <1>4, <3>1, <4>1
    <3>2. CASE mcpSession' = mcpSession /\ pipe = <<>>
      BY <1>4, <1>5, <2>4, <3>2
    <3>3. CASE mcpSession' = [mcpSession EXCEPT ![m].out = rest] /\ pipe # <<>>
      BY <1>14, <2>4, <3>3
    <3> QED
      BY <1>17, <3>1, <3>2, <3>3
  <2>6. ReaderLeaves(c, m, after)
    BY <1>2, <1>3, <2>1, <2>3, <2>4, <2>5 DEF ReaderLeaves
  <2>7. MCPTypes'
    BY <1>1, <2>6 DEF MCPTypes, OneCallerMoves, ReaderLeaves
  <2>8. CallFits(c)' /\ CallsAddUp'
    BY <1>2, <1>13, <1>17, <2>7, FailedFits, FailureAddsUp
  <2> QED
    BY <2>6, <2>8, ReaderLeavesKeeps
<1>18. pipe # <<>> => Head(pipe) = pipe[1] /\ Tail(pipe) = rest
  BY <1>10
<1>19. CASE /\ pipe # <<>> /\ Head(pipe).id = n /\ Head(pipe).result \in ToolCallers
            /\ Succeeded(c, Head(pipe).result)
            /\ mcpSession' = [mcpSession EXCEPT ![m].out = Tail(pipe)]
  BY <1>15, <1>18, <1>19
<1>20. CASE /\ pipe # <<>> /\ Head(pipe) # Garbage /\ Head(pipe).id # n
            /\ mcpSession' = [mcpSession EXCEPT ![m].out = Tail(pipe)]
            /\ UNCHANGED <<caller, mcpStatus>>
  BY <1>16, <1>18, <1>20
<1>22. CASE /\ mcpSession[m].out # <<>> /\ Head(mcpSession[m].out).id = caller[c].id
            /\ Head(mcpSession[m].out).result \in ToolCallers
            /\ Succeeded(c, Head(mcpSession[m].out).result)
            /\ mcpSession' = [mcpSession EXCEPT ![m].out = Tail(@)]
  BY <1>5, <1>6, <1>19, <1>22
<1>23. CASE /\ mcpSession[m].out # <<>> /\ Head(mcpSession[m].out) # Garbage /\ Head(mcpSession[m].out).id # caller[c].id
            /\ mcpSession' = [mcpSession EXCEPT ![m].out = Tail(@)]
            /\ UNCHANGED <<caller, mcpStatus>>
  BY <1>5, <1>6, <1>20, <1>23
<1>24. CASE /\ \/ mcpSession[m].out = <<>> /\ ~mcpSession[m].alive
               \/ mcpSession[m].out # <<>> /\ Head(mcpSession[m].out) = Garbage
               \/ /\ mcpSession[m].out # <<>> /\ Head(mcpSession[m].out).id = caller[c].id
                  /\ Head(mcpSession[m].out).result = "refused"
            /\ Failed(c)
            /\ mcpSession' = [mcpSession EXCEPT ![m] =
                 IF caller[c].op = "read" THEN NoSession
                 ELSE IF mcpSession[m].out = <<>> THEN @ ELSE [@ EXCEPT !.out = Tail(mcpSession[m].out)]]
  <2>1. \/ pipe = <<>> /\ ~mcpSession[m].alive
        \/ pipe # <<>> /\ pipe[1] = Garbage
        \/ pipe # <<>> /\ pipe[1].id = n /\ pipe[1].result = "refused"
    BY <1>5, <1>6, <1>18, <1>24
  <2>2. CASE caller[c].op = "read"
    <3>1. mcpSession' = [mcpSession EXCEPT ![m] = NoSession]
      BY <1>24, <2>2
    <3> QED
      BY <1>17, <1>24, <2>1, <3>1
  <2>3. CASE caller[c].op # "read" /\ pipe = <<>>
    <3>1. mcpSession' = [mcpSession EXCEPT ![m] = mcpSession[m]]
      BY <1>5, <1>24, <2>3
    <3>2. mcpSession' = mcpSession
      BY <1>4, <3>1
    <3> QED
      BY <1>17, <1>24, <2>1, <2>3, <3>2
  <2>4. CASE caller[c].op # "read" /\ pipe # <<>>
    <3>1. mcpSession' = [mcpSession EXCEPT ![m] = [mcpSession[m] EXCEPT !.out = Tail(mcpSession[m].out)]]
      <4>1. pipe # <<>> /\ caller[c].op # "read"
        BY <2>4
      <4> QED
        BY ONLY <1>5, <1>24, <4>1
    <3>2. mcpSession' = [mcpSession EXCEPT ![m].out = rest]
      BY <1>5, <1>18, <2>4, <3>1
    <3> QED
      BY <1>17, <1>24, <2>1, <2>4, <3>2
  <2> QED
    BY <2>2, <2>3, <2>4
<1> QED
  BY <1>3, <1>22, <1>23, <1>24 DEF ReadResult, JSONRPCIDMatches

\* The processes that end with a context, and their readers, of which each has one.
OpenedBy(c) == {m \in Managers : mcpSession[m].alive /\ mcpSession[m].opener = c}
ReadersFrom(M) == {d \in ToolCallers : caller[d].phase = "reading" /\ caller[d].manager \in M}

\* Readers are no more than the processes they read from.
LEMMA OneReaderEach ==
  ASSUME MCPConfigured, MCPKept, NEW M \in SUBSET Managers
  PROVE  /\ IsFiniteSet(M) /\ IsFiniteSet(ReadersFrom(M))
         /\ Cardinality(ReadersFrom(M)) <= Cardinality(M)
         /\ Cardinality(M) \in Nat /\ Cardinality(ReadersFrom(M)) \in Nat
<1>1. IsFiniteSet(M)
  BY FS_Subset DEF MCPConfigured
<1>2. \A d, e \in ReadersFrom(M) : caller[d].manager = caller[e].manager => d = e
  BY DEF MCPKept, ReaderFits, ReadersFrom
<1> DEFINE f == [d \in ReadersFrom(M) |-> caller[d].manager]
<1>3. f \in Injection(ReadersFrom(M), M)
  <2>1. f \in [ReadersFrom(M) -> M]
    BY DEF ReadersFrom
  <2>2. \A d, e \in ReadersFrom(M) : f[d] = f[e] => d = e
    BY <1>2
  <2> QED
    BY <2>1, <2>2 DEF Injection, IsInjective
<1>4. IsFiniteSet(ReadersFrom(M)) /\ Cardinality(ReadersFrom(M)) <= Cardinality(M)
  BY <1>1, <1>3, FS_Injection
<1> QED
  BY <1>1, <1>4, FS_CardinalityType

\* A context ends, and with it what waits for it and the process it started.
LEMMA ContextEndsKeeps ==
  ASSUME MCPConfigured, MCPKept, NEW c \in ToolCallers, ContextEnds(c)
  PROVE  MCPKept'
<1>1. MCPTypes /\ CallFits(c) /\ SlotsHold /\ CallsAddUp
  BY DEF MCPKept
<1>2. /\ caller[c].phase # "idle" /\ c \notin over /\ over' = over \cup {c}
      /\ UNCHANGED <<spec, nextID, mcpStatus, mcpEffects, record>>
  BY DEF ContextEnds
<1>3. PICK k \in Nat : k = Cardinality(OpenedBy(c))
  <2>1. OpenedBy(c) \in SUBSET Managers
    BY DEF OpenedBy
  <2> QED
    BY <2>1, OneReaderEach
<1>4. mcpTrouble' = [mcpTrouble EXCEPT !.deaths = @ + k]
  BY <1>3 DEF ContextEnds, OpenedBy
<1>5. /\ mcpTrouble' \in ServerTroubles /\ PaidFailures' = PaidFailures + 2 * k /\ PaidFailures \in Nat
      /\ mcpTrouble'.silent = mcpTrouble.silent /\ mcpTrouble'.refused = mcpTrouble.refused
  <2>1. mcpTrouble \in ServerTroubles
    BY <1>1 DEF MCPTypes
  <2>2. mcpTrouble' = [spent |-> mcpTrouble.spent, deaths |-> mcpTrouble.deaths + k, garbled |-> mcpTrouble.garbled,
                       refused |-> mcpTrouble.refused, silent |-> mcpTrouble.silent]
    BY <1>4, <2>1 DEF ServerTroubles
  <2> QED
    BY <2>1, <2>2 DEF ServerTroubles, PaidFailures
<1>6. mcpSession \in [Managers -> SessionState] /\ caller \in [ToolCallers -> CallerRow]
  BY <1>1 DEF MCPTypes
<1>7. /\ mcpSession' \in [Managers -> SessionState]
      /\ \A m \in Managers : /\ mcpSession'[m].opener = mcpSession[m].opener /\ mcpSession'[m].out = mcpSession[m].out
                             /\ m \in OpenedBy(c) => ~mcpSession'[m].alive
                             /\ m \notin OpenedBy(c) => (mcpSession'[m].alive <=> mcpSession[m].alive)
  <2>1. mcpSession' = [m \in Managers |->
          IF mcpSession[m].opener = c THEN [mcpSession[m] EXCEPT !.alive = FALSE] ELSE mcpSession[m]]
    BY DEF ContextEnds, Killed
  <2>2. ASSUME NEW m \in Managers
        PROVE  /\ mcpSession'[m] \in SessionState
               /\ mcpSession'[m].opener = mcpSession[m].opener /\ mcpSession'[m].out = mcpSession[m].out
               /\ m \in OpenedBy(c) => ~mcpSession'[m].alive
               /\ m \notin OpenedBy(c) => (mcpSession'[m].alive <=> mcpSession[m].alive)
    <3>1. mcpSession[m] \in SessionState
      BY <1>6
    <3>2. CASE mcpSession[m].opener = c
      <4>1. mcpSession'[m] = [mcpSession[m] EXCEPT !.alive = FALSE]
        BY <2>1, <3>2
      <4> QED
        BY <3>1, <3>2, <4>1 DEF SessionState, OpenedBy
    <3>3. CASE mcpSession[m].opener # c
      <4>1. mcpSession'[m] = mcpSession[m]
        BY <2>1, <3>3
      <4> QED
        BY <3>1, <3>3, <4>1 DEF OpenedBy
    <3> QED
      BY <3>2, <3>3
  <2> QED
    BY <2>1, <2>2
<1>8. /\ OneCallerMoves(c) /\ RequestStays(c)
      /\ caller[c].phase \in {"waiting", "backoff"} => caller'[c].phase = "done" /\ caller'[c].result = "error"
      /\ caller[c].phase \notin {"waiting", "backoff"} => caller' = caller
      /\ caller'[c].attempt = caller[c].attempt
  <2>1. CASE caller[c].phase \in {"waiting", "backoff"}
    <3>1. caller' = [caller EXCEPT ![c].phase = "done", ![c].result = "error"]
      BY <2>1 DEF ContextEnds
    <3>5. caller[c] \in CallerRow
      BY <1>6
    <3>2. /\ \A d \in ToolCallers : d # c => caller'[d] = caller[d]
         /\ caller'[c] = [caller[c] EXCEPT !.phase = "done", !.result = "error"]
         /\ DOMAIN caller' = ToolCallers
         /\ caller' = [d \in ToolCallers |-> caller'[d]]
      BY ONLY <3>1, <1>6, c \in ToolCallers
    <3>3. /\ caller'[c] \in CallerRow /\ caller'[c].op = caller[c].op /\ caller'[c].manager = caller[c].manager
         /\ caller'[c].phase = "done" /\ caller'[c].result = "error" /\ caller'[c].attempt = caller[c].attempt
      BY ONLY <3>5, <3>2 DEF CallerRow
    <3>4. caller' \in [ToolCallers -> CallerRow]
      BY <3>2, <3>3, <1>6
    <3> QED
      BY <2>1, <3>2, <3>3, <3>4 DEF OneCallerMoves, RequestStays
  <2>2. CASE caller[c].phase \notin {"waiting", "backoff"}
    <3>1. caller' = caller
      BY <2>2 DEF ContextEnds
    <3> QED
      BY <1>6, <2>2, <3>1 DEF OneCallerMoves, RequestStays
  <2> QED
    BY <2>1, <2>2
<1>9. MCPTypes'
  BY <1>1, <1>2, <1>5, <1>7, <1>8 DEF MCPTypes, OneCallerMoves
<1>10. \A d \in ToolCallers : /\ caller'[d].phase = "reading" <=> caller[d].phase = "reading"
                              /\ caller[d].phase = "reading" => caller'[d] = caller[d]
  BY <1>8 DEF OneCallerMoves
<1>11. \A d \in ToolCallers : CallFits(d)'
  <2>1. CallFits(c)'
    <3>1. CASE caller[c].phase \in {"waiting", "backoff"}
      <4>1. caller[c].attempt \in Nat /\ c \notin {"error", "nothing", "none"}
        BY <1>6 DEF CallerRow, MCPConfigured
      <4> QED
        BY <1>1, <1>2, <1>8, <3>1, <4>1 DEF CallFits, RequestStays, AttemptsOf, MCPConfigured
    <3>2. CASE caller[c].phase \notin {"waiting", "backoff"}
      BY <1>1, <1>2, <1>5, <1>8, <3>2 DEF CallFits
    <3> QED
      BY <3>1, <3>2
  <2>2. ASSUME NEW d \in ToolCallers, d # c PROVE CallFits(d)'
    <3>1. CallFits(d) /\ caller'[d] = caller[d]
      BY <1>8, <2>2 DEF MCPKept, OneCallerMoves
    <3> QED
      BY <1>2, <1>5, <2>2, <3>1, OtherCallsFit
  <2> QED
    BY <2>1, <2>2
<1>12. \A m \in Managers : ProcessFits(m)'
  <2> SUFFICES ASSUME NEW m \in Managers PROVE ProcessFits(m)'
    OBVIOUS
  <2>1. ProcessFits(m)
    BY DEF MCPKept
  <2>2. Exchanging(m)' <=> Exchanging(m)
    BY <1>10 DEF Exchanging
  <2>3. mcpSession'[m].opener = "none" => mcpSession'[m] = NoSession
    <3>1. SUFFICES ASSUME mcpSession[m].opener = "none" PROVE mcpSession'[m] = NoSession
      BY <1>7
    <3>2. mcpSession[m] = NoSession /\ c # "none"
      BY <2>1, <3>1 DEF ProcessFits, MCPConfigured
    <3>3. mcpSession'[m] = mcpSession[m]
      BY SMTT(60), <3>1, <3>2 DEF ContextEnds, Killed
    <3> QED
      BY <3>2, <3>3
  <2> QED
    BY <1>2, <1>7, <2>1, <2>2, <2>3 DEF ProcessFits, NoSession
<1>13. \A d \in ToolCallers : ReaderFits(d)'
  <2> SUFFICES ASSUME NEW d \in ToolCallers, caller'[d].phase = "reading" PROVE ReaderFits(d)'
    BY DEF ReaderFits
  <2>1. ReaderFits(d) /\ caller[d].phase = "reading" /\ caller'[d] = caller[d] /\ CallFits(d)
    BY <1>10 DEF MCPKept
  <2>2. PICK m \in Managers : m = caller[d].manager
    BY SMTT(60), <2>1 DEF CallFits
  <2>3. mcpSession[m] # NoSession /\ ProcessFits(m)
    BY <2>1, <2>2 DEF ReaderFits, MCPKept
  <2>4. mcpSession'[m] # NoSession
    BY <1>7, <2>3 DEF ProcessFits, NoSession
  <2>5. \A e \in ToolCallers : caller'[e].phase = "reading" /\ caller'[e].manager = m => e = d
    BY SMTT(60), <1>10, <2>1, <2>2 DEF ReaderFits
  <2>6. /\ caller[d].id + 1 = nextID'[m] /\ PipeFits(mcpSession'[m].out, caller[d].id)
        /\ \A i \in DOMAIN mcpSession'[m].out :
             mcpSession'[m].out[i].id = caller[d].id /\ mcpSession'[m].out[i].result \in ToolCallers =>
               mcpSession'[m].out[i].result = d /\ mcpEffects'[d] > 0
    BY <1>2, <1>7, <2>1, <2>2 DEF ReaderFits
  <2>7. mcpSession'[m] # NoSession'
    BY <2>4 DEF NoSession
  <2> QED
    BY ONLY <2>1, <2>2, <2>5, <2>6, <2>7 DEF ReaderFits
<1>14. \A d \in ToolCallers : ReadsInVain(d)' => mcpTrouble'.silent > 0
  <2> SUFFICES ASSUME NEW d \in ToolCallers, ReadsInVain(d)' PROVE ReadsInVain(d)
    BY <1>5 DEF MCPKept
  <2>1. caller[d].phase = "reading" /\ caller'[d] = caller[d] /\ CallFits(d)
    BY <1>10 DEF ReadsInVain, MCPKept
  <2>2. PICK m \in Managers : m = caller[d].manager
    BY <2>1 DEF CallFits
  <2> QED
    BY <1>7, <2>1, <2>2 DEF ReadsInVain
<1>15. SlotsHold'
  BY <1>1, <1>2, <1>8, SlotsMove
<1>16. CallsAddUp'
  <2>1. CASE caller[c].phase \in {"waiting", "backoff"}
    <3>1. /\ caller[c].result \notin ToolCallers \cup {"nothing"}
          /\ "error" \notin ToolCallers \cup {"nothing"}
      BY <1>1, <2>1 DEF CallFits, MCPConfigured
    <3> QED
      BY <1>2, <1>8, <1>9, <2>1, <3>1, CallsStay
  <2>2. CASE caller[c].phase \notin {"waiting", "backoff"}
    BY <1>1, <1>2, <1>8, <2>2 DEF CallsAddUp, AskedOf, GotAnswers
  <2> QED
    BY <2>1, <2>2
<1>17. FailuresArePaid'
  <2>1. OpenedBy(c) \in SUBSET Managers
    BY DEF OpenedBy
  <2>2. PICK r \in Nat : r = Cardinality(ReadersFrom(OpenedBy(c))) /\ r <= k
    BY <1>3, <2>1, OneReaderEach
  <2>3. /\ IsFiniteSet(OpenedBy(c)) /\ IsFiniteSet(ReadersFrom(OpenedBy(c)))
        /\ IsFiniteSet(over) /\ IsFiniteSet(DeadOnes) /\ IsFiniteSet(FailingReaders) /\ IsFiniteSet(TooLate)
    BY <1>1, <2>1, OneReaderEach, MCPSetsAreFinite
  <2>4. PICK o, a, b, t \in Nat : o = Cardinality(over) /\ a = Cardinality(DeadOnes) /\ b = Cardinality(FailingReaders)
                                 /\ t = Cardinality(TooLate)
    BY <1>1, MCPSetsAreFinite
  <2>5. Cardinality(over') = o + 1
    BY <1>2, <2>3, <2>4, FS_AddElement
  <2>6. Cardinality(DeadOnes') <= a + k /\ Cardinality(DeadOnes') \in Nat
    <3>1. DeadOnes' \subseteq DeadOnes \cup OpenedBy(c)
      <4> SUFFICES ASSUME NEW m \in DeadOnes', m \notin OpenedBy(c) PROVE m \in DeadOnes
        OBVIOUS
      <4>1. m \in Managers /\ mcpSession'[m] # NoSession' /\ ~mcpSession'[m].alive
        BY DEF DeadOnes
      <4>2. ~mcpSession[m].alive
        BY <1>7, <4>1
      <4>3. mcpSession[m] # NoSession
        <5>1. mcpSession[m] = NoSession => mcpSession[m].opener # c
          BY DEF NoSession, MCPConfigured
        <5>2. mcpSession[m].opener # c => mcpSession'[m] = mcpSession[m]
          BY <4>1 DEF ContextEnds, Killed
        <5> QED
          BY <4>1, <5>1, <5>2 DEF NoSession
      <4> QED
        BY <4>1, <4>2, <4>3 DEF DeadOnes
    <3>2. /\ IsFiniteSet(DeadOnes \cup OpenedBy(c))
          /\ Cardinality(DeadOnes \cup OpenedBy(c)) = a + k - Cardinality(DeadOnes \cap OpenedBy(c))
      BY <1>3, <2>3, <2>4, FS_Union
    <3>3. DeadOnes \cap OpenedBy(c) = {}
      BY DEF DeadOnes, OpenedBy
    <3>4. Cardinality(DeadOnes \cup OpenedBy(c)) = a + k
      BY <3>2, <3>3, FS_EmptySet
    <3> QED
      BY <3>1, <3>2, <3>4, FS_Subset, FS_CardinalityType
  <2>7. Cardinality(FailingReaders') <= b + r /\ Cardinality(FailingReaders') \in Nat
    <3>1. FailingReaders' \subseteq FailingReaders \cup ReadersFrom(OpenedBy(c))
      <4> SUFFICES ASSUME NEW d \in FailingReaders', d \notin ReadersFrom(OpenedBy(c)) PROVE d \in FailingReaders
        OBVIOUS
      <4>1. d \in ToolCallers /\ WillFail(d)'
        BY DEF FailingReaders
      <4>2. caller[d].phase = "reading" /\ caller'[d] = caller[d] /\ CallFits(d)
        BY <1>10, <4>1 DEF WillFail, MCPKept
      <4>3. PICK m \in Managers : m = caller[d].manager
        BY <4>2 DEF CallFits
      <4>4. m \notin OpenedBy(c)
        BY <4>1, <4>2, <4>3 DEF ReadersFrom
      <4>5. mcpSession'[m].out = mcpSession[m].out /\ (mcpSession'[m].alive <=> mcpSession[m].alive)
        BY SMTT(60), <1>7, <4>3, <4>4
      <4>6. WillFail(d)
        BY ONLY <4>1, <4>2, <4>3, <4>5 DEF WillFail, Garbage
      <4> QED
        BY <4>1, <4>6 DEF FailingReaders
    <3>2. /\ IsFiniteSet(FailingReaders \cup ReadersFrom(OpenedBy(c)))
          /\ Cardinality(FailingReaders \cup ReadersFrom(OpenedBy(c)))
               = b + r - Cardinality(FailingReaders \cap ReadersFrom(OpenedBy(c)))
      BY <2>2, <2>3, <2>4, FS_Union
    <3>3. IsFiniteSet(FailingReaders \cap ReadersFrom(OpenedBy(c)))
      BY <2>3, FS_Subset
    <3>4. Cardinality(FailingReaders \cap ReadersFrom(OpenedBy(c))) \in Nat
      BY <3>3, FS_CardinalityType
    <3>5. Cardinality(FailingReaders \cup ReadersFrom(OpenedBy(c))) <= b + r
      BY <3>2, <3>4
    <3>6. /\ Cardinality(FailingReaders') <= Cardinality(FailingReaders \cup ReadersFrom(OpenedBy(c)))
          /\ IsFiniteSet(FailingReaders')
      BY <3>1, <3>2, FS_Subset
    <3>7. Cardinality(FailingReaders') \in Nat /\ Cardinality(FailingReaders \cup ReadersFrom(OpenedBy(c))) \in Nat
      BY <3>2, <3>6, FS_CardinalityType
    <3> QED
      BY <3>5, <3>6, <3>7
  <2>8. Cardinality(TooLate') <= t + 1 /\ Cardinality(TooLate') \in Nat
    <3>1. TooLate' \subseteq TooLate \cup {c}
      BY <1>1, <1>2, <1>8 DEF TooLate, OneCallerMoves, MCPTypes
    <3>2. IsFiniteSet(TooLate \cup {c}) /\ Cardinality(TooLate \cup {c}) <= t + 1
      <4>1. /\ IsFiniteSet(TooLate \cup {c})
            /\ Cardinality(TooLate \cup {c}) = IF c \in TooLate THEN t ELSE t + 1
        BY <2>3, <2>4, FS_AddElement
      <4> QED
        BY <2>3, <2>4, <4>1, FS_CardinalityType
    <3>3. IsFiniteSet(TooLate') /\ Cardinality(TooLate') <= Cardinality(TooLate \cup {c})
      BY <3>1, <3>2, FS_Subset
    <3>4. Cardinality(TooLate') \in Nat /\ Cardinality(TooLate \cup {c}) \in Nat
      BY <3>2, <3>3, FS_CardinalityType
    <3> QED
      BY <3>2, <3>3, <3>4
  <2>9. spec.transport = "persistent" => mcpStatus.failures + a + b + t <= PaidFailures + o
    BY <2>4 DEF MCPKept, FailuresArePaid
  <2>10. spec.transport = "persistent" =>
           mcpStatus.failures + Cardinality(DeadOnes') + Cardinality(FailingReaders') + Cardinality(TooLate')
             <= PaidFailures' + Cardinality(over')
    BY <1>1, <1>5, <2>2, <2>5, <2>6, <2>7, <2>8, <2>9, FailureNumbers
  <2> QED
    BY <1>2, <2>10 DEF FailuresArePaid
<1> QED
  BY <1>9, <1>11, <1>12, <1>13, <1>14, <1>15, <1>16, <1>17 DEF MCPKept

-----------------------------------------------------------------------------
\* Nobody has asked for anything at first.
LEMMA MCPIsKeptAtFirst == MCPConfigured /\ MCPInit => MCPKept
<1> SUFFICES ASSUME MCPConfigured, MCPInit PROVE MCPKept
  OBVIOUS
<1>1. /\ Caller \in CallerRow /\ NoSession \in SessionState
      /\ mcpTrouble \in ServerTroubles /\ Cardinality({}) = 0
  BY FS_EmptySet DEF MCPInit, Caller, CallerRow, NoSession, SessionState, ServerTroubles
<1>2. MCPTypes
  BY <1>1 DEF MCPInit, MCPTypes
<1>3. /\ \A c \in ToolCallers : caller[c] = Caller /\ record[c] = "none" /\ mcpEffects[c] = 0
      /\ \A m \in Managers : mcpSession[m] = NoSession
      /\ mcpStatus.calls = 0 /\ mcpStatus.failures = 0 /\ over = {}
  BY DEF MCPInit
<1>4. /\ Caller.phase = "idle" /\ Caller.op = "none" /\ Caller.manager = "none" /\ Caller.attempt = 0
      /\ Caller.result = "none" /\ NoSession.out = <<>> /\ NoSession.alive = FALSE
  BY DEF Caller, NoSession
<1>5. \A c \in ToolCallers : CallFits(c)
  BY <1>3, <1>4 DEF CallFits, AttemptsOf, MCPConfigured
<1>6. \A m \in Managers : ProcessFits(m)
  BY <1>3, <1>4 DEF ProcessFits
<1>7. \A c \in ToolCallers : ReaderFits(c) /\ ~ReadsInVain(c)
  BY <1>3, <1>4 DEF ReaderFits, ReadsInVain
<1>8. \A m \in Managers : InUse(m) = {}
  BY <1>3, <1>4 DEF InUse
<1>9. SlotsHold
  <2>1. spec.maxConcurrent \in Nat
    BY <1>2 DEF MCPTypes, MCPConfigured
  <2> QED
    BY <1>1, <1>8, <2>1 DEF SlotsHold
<1>10. AskedOf = {} /\ FailingReaders = {} /\ DeadOnes = {} /\ TooLate = {}
  BY <1>3, <1>4 DEF AskedOf, FailingReaders, WillFail, DeadOnes, TooLate
<1>11. GotAnswers = {}
  BY <1>3, <1>4 DEF GotAnswers, MCPConfigured
<1>12. CallsAddUp
  BY <1>1, <1>3, <1>10, <1>11 DEF CallsAddUp
<1>13. FailuresArePaid
  BY <1>1, <1>3, <1>10 DEF FailuresArePaid, PaidFailures, ServerTroubles
<1> QED
  BY <1>2, <1>5, <1>6, <1>7, <1>9, <1>12, <1>13 DEF MCPKept

\* Calls of servers stay in order.
THEOREM MCPCallsAreKept == ASSUME MCPConfigured PROVE MCPSpec => []MCPKept
<1>1. MCPInit => MCPKept
  BY MCPIsKeptAtFirst
<1>2. MCPKept /\ [MCPNext]_mcpVars => MCPKept'
  <2> SUFFICES ASSUME MCPKept, [MCPNext]_mcpVars PROVE MCPKept'
    OBVIOUS
  <2>1. ASSUME NEW c \in ToolCallers, CallTool(c) \/ ExecuteMCPNode(c) \/ ReadUnrecorded(c) PROVE MCPKept'
    BY <2>1, AskingsKeep
  <2>2. ASSUME NEW c \in ToolCallers, CompleteMCPCall(c) PROVE MCPKept'
    BY <2>2, CompleteMCPCallKeeps
  <2>3. ASSUME NEW c \in ToolCallers, Acquire(c) PROVE MCPKept'
    BY <2>3, AcquireKeeps
  <2>4. ASSUME NEW c \in ToolCallers, Attempt(c) PROVE MCPKept'
    BY <2>4, AttemptKeeps
  <2>5. ASSUME NEW c \in ToolCallers, RetryLater(c) PROVE MCPKept'
    BY <2>5, RetryLaterKeeps
  <2>6. ASSUME NEW c \in ToolCallers, ContextEnds(c) PROVE MCPKept'
    BY <2>6, ContextEndsKeeps
  <2>7. ASSUME NEW c \in ToolCallers, EnsureSession(c) PROVE MCPKept'
    BY <2>7, EnsureSessionKeeps
  <2>8. ASSUME NEW c \in ToolCallers, Request(c) PROVE MCPKept'
    BY <2>8, RequestKeeps
  <2>9. ASSUME NEW c \in ToolCallers, RequestWriteFails(c) PROVE MCPKept'
    BY <2>9, RequestWriteFailsKeeps
  <2>10. ASSUME NEW c \in ToolCallers, ReadResult(c) PROVE MCPKept'
    BY <2>10, ReadResultKeeps
  <2>11. ASSUME NEW c \in ToolCallers, HTTPCall(c) PROVE MCPKept'
    BY <2>11, HTTPCallKeeps
  <2>12. ASSUME NEW c \in ToolCallers, StdioCall(c) PROVE MCPKept'
    BY <2>12, StdioCallKeeps
  <2>13. CASE UNCHANGED mcpVars
    <3>1. UNCHANGED <<spec, caller, over, mcpSession, nextID, mcpStatus, mcpEffects, record, mcpTrouble>>
      BY <2>13 DEF mcpVars
    <3>2. MCPTypes'
      BY SMTT(60), <3>1 DEF MCPKept, MCPTypes
    <3>3. \A c \in ToolCallers : CallFits(c)' /\ ReaderFits(c)' /\ (ReadsInVain(c)' => mcpTrouble'.silent > 0)
      BY <3>1 DEF MCPKept, CallFits, ReaderFits, ReadsInVain
    <3>4. \A m \in Managers : ProcessFits(m)'
      BY <3>1 DEF MCPKept, ProcessFits, Exchanging
    <3>5. SlotsHold' /\ CallsAddUp'
      BY <3>1 DEF MCPKept, SlotsHold, InUse, CallsAddUp, GotAnswers, AskedOf
    <3>6. FailuresArePaid'
      <4>1. DeadOnes' = DeadOnes /\ FailingReaders' = FailingReaders /\ TooLate' = TooLate /\ PaidFailures' = PaidFailures
        BY <3>1 DEF DeadOnes, FailingReaders, WillFail, TooLate, PaidFailures
      <4> QED
        BY <3>1, <4>1 DEF MCPKept, FailuresArePaid
    <3> QED
      BY <3>2, <3>3, <3>4, <3>5, <3>6 DEF MCPKept
  <2> QED
    BY <2>1, <2>2, <2>3, <2>4, <2>5, <2>6, <2>7, <2>8, <2>9, <2>10, <2>11, <2>12, <2>13 DEF MCPNext
<1> QED
  BY <1>1, <1>2, PTL DEF MCPSpec

\* An answer of a server is of one's own request, with a slot of the server's for each
\* request and an effect for each success, and its row tells how it went.
THEOREM AnswersAreOwn ==
  ASSUME MCPConfigured
  PROVE  MCPSpec => []AnswerIsOwn /\ []SlotsHold /\ []EffectsOfAttempts /\ []RecordsTell
<1>1. MCPKept => AnswerIsOwn /\ SlotsHold
  BY DEF MCPKept, CallFits, AnswerIsOwn
<1>2. MCPKept => EffectsOfAttempts
  BY DEF MCPKept, CallFits, AttemptsOf, EffectsOfAttempts
<1>3. MCPKept => RecordsTell
  <2> SUFFICES ASSUME MCPKept, NEW c \in ToolCallers
               PROVE  /\ record[c] = "succeeded" => caller[c].result \in {c, "nothing"} /\ mcpEffects[c] > 0
                      /\ record[c] = "failed" => caller[c].result = "error"
                      /\ caller[c].phase = "lost" => record[c] = "running" /\ (c \in over \/ mcpTrouble.refused > 0)
                      /\ caller[c].phase = "closed" => record[c] # "running"
    BY DEF RecordsTell
  <2> QED
    BY DEF MCPKept, CallFits
<1> QED
  BY <1>1, <1>2, <1>3, MCPCallsAreKept, PTL

\* A server's counters add up, a death of its process costs two attempts at most, and
\* who waits in vain waits for a server that said nothing.
THEOREM ServerCallsAreCounted == ASSUME MCPConfigured PROVE MCPSpec => []CountersTell /\ []WaitsForSilence
<1>1. MCPKept => CountersTell
  <2> SUFFICES ASSUME MCPKept PROVE CountersTell
    OBVIOUS
  <2>1. /\ Cardinality(over) \in Nat /\ Cardinality(DeadOnes) \in Nat /\ Cardinality(FailingReaders) \in Nat
        /\ Cardinality(TooLate) \in Nat
    BY MCPSetsAreFinite DEF MCPKept
  <2>2. /\ mcpStatus.failures \in Nat /\ mcpTrouble.deaths \in Nat /\ mcpTrouble.garbled \in Nat
        /\ mcpTrouble.refused \in Nat
    BY DEF MCPKept, MCPTypes, ServerTroubles
  <2>3. mcpStatus.failures + Cardinality({c \in ToolCallers : caller[c].result \in ToolCallers \cup {"nothing"}}) + Pending
          = mcpStatus.calls
    BY DEF MCPKept, CallsAddUp, GotAnswers, AskedOf, Pending
  <2>4. spec.transport = "persistent" =>
          mcpStatus.failures + Cardinality(DeadOnes) + Cardinality(FailingReaders) + Cardinality(TooLate)
            <= 2 * mcpTrouble.deaths + mcpTrouble.garbled + mcpTrouble.refused + Cardinality(over)
    BY DEF MCPKept, FailuresArePaid, PaidFailures
  <2> HIDE DEF MCPKept
  <2>5. spec.transport = "persistent" =>
          mcpStatus.failures <= 2 * mcpTrouble.deaths + mcpTrouble.garbled + mcpTrouble.refused + Cardinality(over)
    BY <2>1, <2>2, <2>4
  <2> QED
    BY <2>3, <2>5 DEF CountersTell
<1>2. MCPKept => WaitsForSilence
  BY DEF MCPKept, ReadsInVain, WaitsForSilence
<1> QED
  BY <1>1, <1>2, MCPCallsAreKept, PTL

-----------------------------------------------------------------------------
(* Policies *)

PolicySpec == PoliciesInit /\ [][PoliciesNext]_policyVars

PolicyPhases == {"starting", "blocked", "at", "evaluating", "denied", "completed", "failed"}
Listed(s) == \E S : s \in Seq(S)

\* A denial on record, but by a rule for the prompt, decides the point where it is
\* recorded, and a decision to deny is on record; what matched is recorded.
PolicyRunFits ==
  LET p == policyRun IN
  /\ p = [phase |-> p.phase, point |-> p.point, pinned |-> p.pinned, terms |-> p.terms, queue |-> p.queue,
          action |-> p.action, reason |-> p.reason, matched |-> p.matched]
  /\ p.phase \in PolicyPhases /\ p.point \in Nat /\ Listed(p.matched) /\ Listed(evals)
  /\ p.phase = "evaluating" =>
       \A i \in DOMAIN evals : evals[i].action = "deny" /\ ~InPrompt(evals[i].point) => p.action = "deny"
  /\ p.phase \in {"evaluating", "denied"} /\ p.action = "deny" =>
       \E i \in DOMAIN evals : evals[i].point = p.point /\ evals[i].action = "deny"
  /\ p.phase = "denied" => p.action = "deny"
  /\ \A i \in DOMAIN p.matched :
       \E j \in DOMAIN evals : evals[j].rule = p.matched[i].id /\ evals[j].action = p.matched[i].action
  /\ DenialsStop /\ ReasonIsFirst

\* Rules are rows with an age, and finitely many.
IsRuleRow(r) == r = RuleRow(r.id, r.pack, r.status, r.at, r) /\ r.at \in Nat
PackRulesFit == IsFiniteSet(packRules) /\ edits \in Nat /\ \A r \in packRules : IsRuleRow(r)

-----------------------------------------------------------------------------
\* One more comes after the others.
LEMMA OneMoreListed ==
  ASSUME NEW s, Listed(s), NEW e
  PROVE  /\ Listed(Append(s, e))
         /\ Len(s) \in Nat /\ DOMAIN s = 1..Len(s) /\ DOMAIN Append(s, e) = 1..(Len(s) + 1)
         /\ \A i \in DOMAIN s : i \in DOMAIN Append(s, e) /\ Append(s, e)[i] = s[i]
         /\ Len(s) + 1 \in DOMAIN Append(s, e) /\ Append(s, e)[Len(s) + 1] = e
         /\ \A i \in DOMAIN Append(s, e) : i \in DOMAIN s \/ i = Len(s) + 1
<1>1. PICK S : s \in Seq(S)
  BY DEF Listed
<1>2. s \in Seq(S \cup {e}) /\ e \in S \cup {e}
  BY <1>1
<1>3. Append(s, e) \in Seq(S \cup {e})
  BY <1>2
<1>4. /\ Len(s) \in Nat /\ DOMAIN s = 1..Len(s) /\ DOMAIN Append(s, e) = 1..(Len(s) + 1)
      /\ \A i \in 1..Len(s) : Append(s, e)[i] = s[i]
      /\ Append(s, e)[Len(s) + 1] = e
  BY <1>2
<1> QED
  BY <1>3, <1>4 DEF Listed

\* A denial is the strongest, and nothing is weaker than what allows.
LEMMA StrengthIs ==
  /\ \A a : Strength(a) \in 1..4
  /\ \A a : Strength(a) = 4 <=> a = "deny"
  /\ Strength("allow") = 1
BY DEF Strength, StrengthOf

\* Where nothing is recorded and the decision stays, the run goes on as it may.
LEMMA EnforcementKeeps ==
  ASSUME PolicyRunFits,
         EnforcePolicyConfigForRun \/ Evaluate \/ EvaluateRule \/ Enforce \/ PromptInstructions
  PROVE  PolicyRunFits'
<1> DEFINE p == policyRun
<1> DEFINE q == policyRun'
<1>1. /\ p = [phase |-> p.phase, point |-> p.point, pinned |-> p.pinned, terms |-> p.terms, queue |-> p.queue,
              action |-> p.action, reason |-> p.reason, matched |-> p.matched]
      /\ p.phase \in PolicyPhases /\ p.point \in Nat /\ Listed(p.matched) /\ Listed(evals)
      /\ DenialsStop /\ ReasonIsFirst
  BY DEF PolicyRunFits
<1>2. \A i \in DOMAIN p.matched :
        \E j \in DOMAIN evals : evals[j].rule = p.matched[i].id /\ evals[j].action = p.matched[i].action
  BY DEF PolicyRunFits
<1>3. Listed(<<>>)
  <2>1. <<>> \in Seq({})
    OBVIOUS
  <2> QED
    BY <2>1 DEF Listed
<1>4. CASE EnforcePolicyConfigForRun
  <2>1. evals' = evals /\ p.phase = "starting"
    BY <1>4 DEF EnforcePolicyConfigForRun
  <2>2. PICK ph \in {"blocked", "at"} :
          q = [phase |-> ph, point |-> p.point, pinned |-> p.pinned, terms |-> p.terms, queue |-> p.queue,
               action |-> p.action, reason |-> p.reason, matched |-> p.matched]
    BY <1>1, <1>4 DEF EnforcePolicyConfigForRun
  <2>3. DenialsStop' /\ ReasonIsFirst'
    BY SMTT(60), <1>1, <2>1, <2>2 DEF DenialsStop, ReasonIsFirst
  <2> QED
    BY <1>1, <1>2, <2>1, <2>2, <2>3 DEF PolicyRunFits, PolicyPhases
<1>5. CASE Evaluate
  <2>1. evals' = evals /\ p.phase = "at"
    BY <1>5 DEF Evaluate
  <2>2. \A i \in DOMAIN evals : evals[i].action = "deny" => InPrompt(evals[i].point)
    BY <1>1, <2>1 DEF DenialsStop
  <2>3. CASE \E asking : q = [p EXCEPT !.phase = "evaluating", !.action = "allow", !.reason = 0,
                               !.matched = <<>>, !.queue = asking]
    <3>1. PICK asking : q = [phase |-> "evaluating", point |-> p.point, pinned |-> p.pinned, terms |-> p.terms,
                           queue |-> asking, action |-> "allow", reason |-> 0, matched |-> <<>>]
      BY <1>1, <2>3
    <3>2. DenialsStop'
      BY <2>1, <2>2, <3>1 DEF DenialsStop
    <3>3. ReasonIsFirst'
      BY <3>1, StrengthIs DEF ReasonIsFirst
    <3> QED
      BY <1>1, <1>3, <2>1, <2>2, <3>1, <3>2, <3>3 DEF PolicyRunFits, PolicyPhases
  <2>4. CASE q = [p EXCEPT !.phase = "failed"]
    <3>1. q = [phase |-> "failed", point |-> p.point, pinned |-> p.pinned, terms |-> p.terms, queue |-> p.queue,
               action |-> p.action, reason |-> p.reason, matched |-> p.matched]
      BY <1>1, <2>4
    <3>2. DenialsStop' /\ ReasonIsFirst'
      BY <2>1, <2>2, <3>1 DEF DenialsStop, ReasonIsFirst
    <3> QED
      BY <1>1, <1>2, <2>1, <3>1, <3>2 DEF PolicyRunFits, PolicyPhases
  <2> QED
    BY ZenonT(60), <1>5, <2>3, <2>4 DEF Evaluate
<1>6. CASE EvaluateRule
  <2> DEFINE rule == Head(policyRun.queue).rule
  <2>1. p.phase = "evaluating"
    BY <1>6 DEF EvaluateRule
  <2>2. /\ \A i \in DOMAIN evals : evals[i].action = "deny" /\ ~InPrompt(evals[i].point) =>
             evals[i].point = p.point /\ p.action = "deny"
        /\ p.action = "deny" => \E i \in DOMAIN evals : evals[i].point = p.point /\ evals[i].action = "deny"
    BY <2>1 DEF PolicyRunFits, DenialsStop
  <2>3. CASE q = [p EXCEPT !.phase = "failed"] /\ evals' = evals
    <3>1. q = [phase |-> "failed", point |-> p.point, pinned |-> p.pinned, terms |-> p.terms, queue |-> p.queue,
               action |-> p.action, reason |-> p.reason, matched |-> p.matched]
      BY <1>1, <2>3
    <3>2. DenialsStop' /\ ReasonIsFirst'
      BY <2>2, <2>3, <3>1 DEF DenialsStop, ReasonIsFirst
    <3> QED
      BY <1>1, <1>2, <2>3, <3>1, <3>2 DEF PolicyRunFits, PolicyPhases
  <2>4. CASE /\ RecordPolicyEvaluation(rule)
             /\ q = StrongerDecision([p EXCEPT !.queue = Tail(@), !.matched = Append(@, rule)], rule)
    <3> DEFINE stronger == Strength(rule.action) > Strength(p.action)
    <3> DEFINE row == [point |-> p.point, rule |-> rule.id, action |-> rule.action]
    <3>1. q = [phase |-> "evaluating", point |-> p.point, pinned |-> p.pinned, terms |-> p.terms,
               queue |-> Tail(p.queue), action |-> IF stronger THEN rule.action ELSE p.action,
               reason |-> IF stronger THEN rule.id ELSE p.reason, matched |-> Append(p.matched, rule)]
      BY <1>1, <2>1, <2>4 DEF StrongerDecision
    <3>2. evals' = Append(evals, row)
      BY <2>4 DEF RecordPolicyEvaluation
    <3>3. /\ Listed(q.matched) /\ Listed(evals')
          /\ \A i \in DOMAIN q.matched : (i \in DOMAIN p.matched /\ q.matched[i] = p.matched[i])
                                            \/ (i = Len(p.matched) + 1 /\ q.matched[i] = rule)
          /\ \A i \in DOMAIN evals' : (i \in DOMAIN evals /\ evals'[i] = evals[i]) \/ evals'[i] = row
          /\ \A i \in DOMAIN evals : i \in DOMAIN evals' /\ evals'[i] = evals[i]
          /\ \E i \in DOMAIN evals' : evals'[i] = row
          /\ \A i \in DOMAIN p.matched : i \in DOMAIN q.matched /\ i < Len(p.matched) + 1 /\ i \in Nat
          /\ Len(p.matched) \in Nat /\ Len(p.matched) + 1 \in DOMAIN q.matched
      BY SMTT(60), <1>1, <3>1, <3>2, OneMoreListed
    <3>4. row.point = p.point /\ row.rule = rule.id /\ row.action = rule.action
      OBVIOUS
    <3>5. rule.action = "deny" => q.action = "deny"
      BY <3>1, StrengthIs
    <3>6. p.action = "deny" => q.action = "deny"
      BY <3>1, StrengthIs
    <3>7. q.action = "deny" => rule.action = "deny" \/ p.action = "deny"
      BY <3>1
    <3>8. /\ q.phase = "evaluating" /\ q.point = p.point
          /\ q.action = IF stronger THEN rule.action ELSE p.action
          /\ q.reason = IF stronger THEN rule.id ELSE p.reason
      BY <3>1
    <3> HIDE DEF row, rule
    <3>9. \A i \in DOMAIN evals' : evals'[i].action = "deny" /\ ~InPrompt(evals'[i].point) =>
            evals'[i].point = p.point /\ q.action = "deny"
      BY <2>2, <3>3, <3>4, <3>5, <3>6
    <3>10. q.action = "deny" => \E i \in DOMAIN evals' : evals'[i].point = p.point /\ evals'[i].action = "deny"
      BY <2>2, <3>3, <3>4, <3>7
    <3>11. DenialsStop'
      BY <3>8, <3>9 DEF DenialsStop
    <3>12. \A i \in DOMAIN q.matched :
             \E j \in DOMAIN evals' : evals'[j].rule = q.matched[i].id /\ evals'[j].action = q.matched[i].action
      BY <1>2, <3>3, <3>4
    <3>13. ReasonIsFirst'
      <4>1. /\ \A i \in DOMAIN p.matched : Strength(p.matched[i].action) <= Strength(p.action)
            /\ Strength(p.action) > 1 =>
                 \E i \in DOMAIN p.matched :
                   /\ Strength(p.matched[i].action) = Strength(p.action) /\ p.matched[i].id = p.reason
                   /\ \A j \in DOMAIN p.matched : Strength(p.matched[j].action) = Strength(p.action) => i <= j
        BY <1>1, <2>1 DEF ReasonIsFirst
      <4>2. /\ Strength(q.action) \in 1..4 /\ Strength(p.action) \in 1..4 /\ Strength(rule.action) \in 1..4
            /\ \A i \in DOMAIN p.matched : Strength(p.matched[i].action) \in 1..4
        BY StrengthIs
      <4>3. \A i \in DOMAIN q.matched : Strength(q.matched[i].action) <= Strength(q.action)
        BY SMTT(60), <3>3, <3>8, <4>1, <4>2
      <4>4. Strength(q.action) > 1 =>
              \E i \in DOMAIN q.matched :
                /\ Strength(q.matched[i].action) = Strength(q.action) /\ q.matched[i].id = q.reason
                /\ \A j \in DOMAIN q.matched : Strength(q.matched[j].action) = Strength(q.action) => i <= j
        <5>1. CASE stronger
          <6>1. /\ \A j \in DOMAIN q.matched : Strength(q.matched[j].action) = Strength(q.action) => j = Len(p.matched) + 1
                /\ q.matched[Len(p.matched) + 1] = rule
            BY SMTT(60), <3>3, <3>8, <4>1, <4>2, <5>1
          <6> QED
            BY <3>3, <3>8, <5>1, <6>1
        <5>2. CASE ~stronger
          BY <3>3, <3>8, <4>1, <5>2
        <5> QED
          BY <5>1, <5>2
      <4> QED
        BY <4>3, <4>4 DEF ReasonIsFirst
    <3>14. q = [phase |-> q.phase, point |-> q.point, pinned |-> q.pinned, terms |-> q.terms, queue |-> q.queue,
                action |-> q.action, reason |-> q.reason, matched |-> q.matched]
      BY <3>1
    <3> QED
      BY <1>1, <3>3, <3>8, <3>9, <3>10, <3>11, <3>12, <3>13, <3>14 DEF PolicyRunFits, PolicyPhases
  <2> QED
    BY <1>6, <2>3, <2>4 DEF EvaluateRule
<1>7. CASE Enforce \/ PromptInstructions
  <2>1. p.phase = "evaluating"
    BY <1>7 DEF Enforce, PromptInstructions, Decided
  <2>2. /\ \A i \in DOMAIN evals : evals[i].action = "deny" /\ ~InPrompt(evals[i].point) =>
             evals[i].point = p.point /\ p.action = "deny"
        /\ p.action = "deny" => \E i \in DOMAIN evals : evals[i].point = p.point /\ evals[i].action = "deny"
    BY <2>1 DEF PolicyRunFits, DenialsStop
  <2>3. /\ Listed(evals')
        /\ \A i \in DOMAIN evals' : (i \in DOMAIN evals /\ evals'[i] = evals[i]) \/ evals'[i].action = "allow"
        /\ \A i \in DOMAIN evals : i \in DOMAIN evals' /\ evals'[i] = evals[i]
    <3> DEFINE row == [point |-> p.point, rule |-> 0, action |-> "allow"]
    <3>1. evals' = evals \/ evals' = Append(evals, row)
      BY <1>7 DEF Enforce, PromptInstructions, Decided
    <3>2. row.action = "allow"
      OBVIOUS
    <3> HIDE DEF row
    <3>3. CASE evals' = evals
      BY <1>1, <3>3
    <3>4. CASE evals' = Append(evals, row)
      BY <1>1, <3>2, <3>4, OneMoreListed
    <3> QED
      BY <3>1, <3>3, <3>4
  <2>4. PICK ph \in {"denied", "completed", "at"}, n \in Nat :
          /\ q = [phase |-> ph, point |-> n, pinned |-> p.pinned, terms |-> p.terms, queue |-> p.queue,
                  action |-> p.action, reason |-> p.reason, matched |-> p.matched]
          /\ p.action = "deny" /\ ~InPrompt(p.point) <=> ph = "denied"
          /\ ph = "denied" => n = p.point
    <3>1. CASE p.action = "deny" /\ ~InPrompt(p.point)
      BY <1>1, <1>7, <3>1 DEF Enforce, PromptInstructions
    <3>2. CASE ~(p.action = "deny" /\ ~InPrompt(p.point))
      <4>1. q = GoesOn
        BY <1>7, <3>2 DEF Enforce, PromptInstructions
      <4>2. CASE p.point = Len(Points)
        BY <1>1, <3>2, <4>1, <4>2 DEF GoesOn
      <4>3. CASE p.point # Len(Points)
        <5>1. q = [p EXCEPT !.phase = "at", !.point = p.point + 1] /\ p.point + 1 \in Nat
          BY <1>1, <4>1, <4>3 DEF GoesOn
        <5> QED
          BY <1>1, <3>2, <5>1
      <4> QED
        BY <4>2, <4>3
    <3> QED
      BY <3>1, <3>2
  <2>5. DenialsStop'
    BY <2>2, <2>3, <2>4 DEF DenialsStop, RowsAt
  <2>6. ReasonIsFirst'
    BY <1>1, <2>1, <2>4 DEF ReasonIsFirst
  <2>7. \A i \in DOMAIN q.matched :
          \E j \in DOMAIN evals' : evals'[j].rule = q.matched[i].id /\ evals'[j].action = q.matched[i].action
    BY <1>2, <2>3, <2>4
  <2>8. q.phase = "denied" => q.action = "deny" /\ ~InPrompt(q.point) /\ \E i \in DOMAIN evals' : evals'[i].point = q.point /\ evals'[i].action = "deny"
    BY SMTT(60), <2>2, <2>3, <2>4
  <2> QED
    BY <1>1, <2>3, <2>4, <2>5, <2>6, <2>7, <2>8 DEF PolicyRunFits, PolicyPhases
<1> QED
  BY <1>4, <1>5, <1>6, <1>7

\* Rules stay rows, and of finite number, whatever is edited.
LEMMA RulesStayRows ==
  ASSUME PoliciesConfigured, PackRulesFit, [PoliciesNext]_policyVars
  PROVE  PackRulesFit'
<1>1. IsFiniteSet(packRules) /\ Cardinality(packRules) \in Nat /\ edits \in Nat /\ Now \in Nat
  BY FS_CardinalityType DEF PackRulesFit, PoliciesConfigured, Now
<1>2. edits' \in Nat
  <2>1. edits' = edits \/ Edited
    BY DEF PoliciesNext, EnforcePolicyConfigForRun, Evaluate, EvaluateRule, Enforce,
       PromptInstructions, Decided, CreatePolicyPack, CreatePolicyPackVersion, SetPolicyPackStatus, UpsertPolicyRule, AssignPolicyPack, policyVars
  <2>2. edits' = edits \/ edits' = edits + 1
    BY <2>1 DEF Edited
  <2> QED
    BY ONLY SMTT(60), <1>1, <2>2
<1>3. CASE packRules' = packRules
  BY <1>1, <1>2, <1>3 DEF PackRulesFit
<1>4. CASE CreatePolicyPackVersion
  <2>1. PICK source, p : packRules' = packRules \cup Copies(source, p)
    BY <1>4 DEF CreatePolicyPackVersion
  <2> DEFINE from == {r \in packRules : r.pack = source}
  <2> DEFINE place(r) == NextID + Cardinality({q \in from : q.id < r.id})
  <2> DEFINE copy == [r \in from |-> [r EXCEPT !.pack = p, !.at = Now, !.id = place(r)]]
  <2>2. IsFiniteSet(from)
    BY SMTT(60), <1>1, FS_Subset
  <2>3. Copies(source, p) = {copy[r] : r \in from}
    BY ZenonT(60) DEF Copies
  <2>4. copy \in Surjection(from, {copy[r] : r \in from})
    BY DEF Surjection
  <2>5. IsFiniteSet(Copies(source, p))
    BY <2>2, <2>3, <2>4, FS_Surjection
  <2>6. ASSUME NEW r \in from PROVE IsRuleRow(copy[r])
    <3>1. r = [id |-> r.id, pack |-> r.pack, status |-> r.status, at |-> r.at, type |-> r.type, mode |-> r.mode,
               priority |-> r.priority, action |-> r.action, condition |-> r.condition]
      BY DEF PackRulesFit, IsRuleRow, RuleRow
    <3>2. PICK n : n = place(r)
      OBVIOUS
    <3>3. copy[r] = [r EXCEPT !.pack = p, !.at = Now, !.id = n]
      BY <3>2
    <3> HIDE DEF copy, from, place
    <3>4. copy[r] = [id |-> n, pack |-> p, status |-> r.status, at |-> Now, type |-> r.type, mode |-> r.mode,
                     priority |-> r.priority, action |-> r.action, condition |-> r.condition]
      BY ONLY <3>1, <3>3
    <3> QED
      BY <1>1, <3>4 DEF IsRuleRow, RuleRow
  <2>7. \A r \in packRules' : IsRuleRow(r)
    BY <2>1, <2>3, <2>6 DEF PackRulesFit
  <2>8. IsFiniteSet(packRules')
    BY <1>1, <2>1, <2>5, FS_Union
  <2>9. \A r \in packRules' : IsRuleRow(r)'
    BY <2>7 DEF IsRuleRow
  <2> QED
    BY <1>2, <2>8, <2>9 DEF PackRulesFit
<1>5. CASE UpsertPolicyRule
  <2>1. PICK old, new : /\ packRules' = (packRules \ {old}) \cup {new} \/ packRules' = packRules \cup {new}
                        /\ IsRuleRow(new)
    <3>1. PICK p \in Packs : packRules' \in Upserts(p)
      BY <1>5 DEF UpsertPolicyRule
    <3>2. CASE \E d \in Drafts : packRules' = packRules \cup {RuleRow(NextID, p, "active", Now, d)}
      <4>1. PICK d \in Drafts : packRules' = packRules \cup {RuleRow(NextID, p, "active", Now, d)}
        BY <3>2
      <4>2. IsRuleRow(RuleRow(NextID, p, "active", Now, d))
        BY <1>1 DEF IsRuleRow, RuleRow
      <4> QED
        BY <4>1, <4>2
    <3>3. CASE \E r \in packRules, d \in Drafts, given \in {"active", "disabled"} :
                 packRules' = (packRules \ {r}) \cup {RuleRow(r.id, p, given, r.at, d)}
      <4>1. PICK r \in packRules, d \in Drafts, given \in {"active", "disabled"} :
              packRules' = (packRules \ {r}) \cup {RuleRow(r.id, p, given, r.at, d)}
        BY <3>3
      <4>2. r.at \in Nat
        BY DEF PackRulesFit, IsRuleRow
      <4>3. IsRuleRow(RuleRow(r.id, p, given, r.at, d))
        BY <4>2 DEF IsRuleRow, RuleRow
      <4> QED
        BY <4>1, <4>3
    <3> QED
      BY <3>1, <3>2, <3>3 DEF Upserts
  <2>2. IsFiniteSet(packRules \ {old})
    BY <1>1, FS_Subset
  <2>3. IsFiniteSet(packRules')
    BY <1>1, <2>1, <2>2, FS_AddElement
  <2>4. \A r \in packRules' : IsRuleRow(r)
    BY <2>1 DEF PackRulesFit
  <2> QED
    BY <1>2, <2>3, <2>4 DEF PackRulesFit, IsRuleRow
<1> QED
  BY <1>3, <1>4, <1>5 DEF PoliciesNext, EnforcePolicyConfigForRun, Evaluate, EvaluateRule, Enforce, PromptInstructions, Decided, CreatePolicyPack,
     SetPolicyPackStatus, AssignPolicyPack, policyVars

\* Rules of a pack in which no two have one key: each stands for itself.
LEMMA KeyTellsRule ==
  ASSUME PackRulesFit, NEW p, UniqueKeys(p)
  PROVE  /\ Keyed(p) = {r \in packRules : r.pack = p}
         /\ KeysOf(p) = {PolicyRuleNaturalKey(r) : r \in {r \in packRules : r.pack = p}}
<1> DEFINE own == {r \in packRules : r.pack = p}
<1> DEFINE keys == {PolicyRuleNaturalKey(r) : r \in own}
<1> DEFINE keyOf == [r \in own |-> PolicyRuleNaturalKey(r)]
<1>1. IsFiniteSet(own)
  BY FS_Subset DEF PackRulesFit
<1>2. keyOf \in Surjection(own, keys)
  BY DEF Surjection
<1>3. /\ IsFiniteSet(keys) /\ Cardinality(keys) <= Cardinality(own)
      /\ Cardinality(keys) = Cardinality(own) <=> keyOf \in Injection(own, keys)
  BY <1>1, <1>2, FS_Surjection
<1>4. KeysOf(p) \subseteq keys
  BY DEF KeysOf, Keyed
<1>5. Cardinality(KeysOf(p)) <= Cardinality(keys) /\ Cardinality(KeysOf(p)) = Cardinality(own)
  BY <1>3, <1>4, FS_Subset DEF UniqueKeys
<1>6. Cardinality(keys) \in Nat /\ Cardinality(own) \in Nat
  BY <1>1, <1>3, FS_CardinalityType
<1>7. keyOf \in Injection(own, keys)
  BY <1>3, <1>5, <1>6
<1>8. \A r, q \in own : PolicyRuleNaturalKey(q) = PolicyRuleNaturalKey(r) => q = r
  BY <1>7 DEF Injection, IsInjective
<1>9. \A r \in own : r.at \in Nat
  BY DEF PackRulesFit, IsRuleRow
<1>10. Keyed(p) = own
  BY <1>8, <1>9 DEF Keyed
<1> QED
  BY <1>10 DEF KeysOf

\* Packs that do not differ decide alike.
LEMMA SameRulesDecideAlike ==
  ASSUME PackRulesFit
  PROVE  EqualPacksDecideAlike
<1> SUFFICES ASSUME NEW p \in Packs, NEW q \in Packs, UniqueKeys(p), UniqueKeys(q), NothingDiffers(PolicyPackDiff(p, q)),
                    NEW pc, NEW m
             PROVE  Decisive(p, pc, m) = Decisive(q, pc, m)
  BY DEF EqualPacksDecideAlike
<1>1. /\ \A r \in Keyed(q) : PolicyRuleNaturalKey(r) \in KeysOf(p)
      /\ \A r \in Keyed(p) : PolicyRuleNaturalKey(r) \in KeysOf(q)
      /\ \A r \in Keyed(q), s \in Keyed(p) : PolicyRuleNaturalKey(s) = PolicyRuleNaturalKey(r) =>
           PolicyRuleFingerprint(s) = PolicyRuleFingerprint(r)
  BY DEF NothingDiffers, PolicyPackDiff
<1>2. /\ Keyed(p) = {r \in packRules : r.pack = p} /\ Keyed(q) = {r \in packRules : r.pack = q}
      /\ KeysOf(p) = {PolicyRuleNaturalKey(r) : r \in Keyed(p)} /\ KeysOf(q) = {PolicyRuleNaturalKey(r) : r \in Keyed(q)}
  BY KeyTellsRule DEF KeysOf
<1>3. \A r, s : PolicyRuleFingerprint(s) = PolicyRuleFingerprint(r) /\ PolicyRuleNaturalKey(s) = PolicyRuleNaturalKey(r) =>
                s.mode = r.mode /\ s.status = r.status /\ s.condition = r.condition /\ s.action = r.action
  BY DEF PolicyRuleNaturalKey, PolicyRuleFingerprint
<1>4. ASSUME NEW r \in packRules, r.pack = q
      PROVE  \E s \in packRules :
        s.pack = p /\ s.mode = r.mode /\ s.status = r.status /\ s.condition = r.condition /\ s.action = r.action
  <2>1. PICK s \in Keyed(p) : PolicyRuleNaturalKey(r) = PolicyRuleNaturalKey(s)
    BY <1>1, <1>2, <1>4
  <2>2. PolicyRuleFingerprint(s) = PolicyRuleFingerprint(r)
    BY <1>1, <1>2, <1>4, <2>1
  <2> QED
    BY <1>2, <1>3, <2>1, <2>2
<1>5. ASSUME NEW r \in packRules, r.pack = p
      PROVE  \E s \in packRules :
        s.pack = q /\ s.mode = r.mode /\ s.status = r.status /\ s.condition = r.condition /\ s.action = r.action
  <2>1. PICK s \in Keyed(q) : PolicyRuleNaturalKey(r) = PolicyRuleNaturalKey(s)
    BY <1>1, <1>2, <1>5
  <2>2. PolicyRuleFingerprint(r) = PolicyRuleFingerprint(s)
    BY <1>1, <1>2, <1>5, <2>1
  <2> QED
    BY <1>2, <1>3, <2>1, <2>2
<1> QED
  BY <1>4, <1>5 DEF Decisive

\* Enforcement stays in order.
THEOREM PoliciesAreKept == PolicySpec => []PolicyRunFits
<1>1. PoliciesInit => PolicyRunFits
  <2> SUFFICES ASSUME PoliciesInit PROVE PolicyRunFits
    OBVIOUS
  <2>1. PICK pinned, terms :
          policyRun = [phase |-> "starting", point |-> 1, pinned |-> pinned, terms |-> terms,
              queue |-> <<>>, action |-> "allow", reason |-> 0, matched |-> <<>>]
    BY DEF PoliciesInit
  <2>2. <<>> \in Seq({}) /\ evals = <<>>
    BY DEF PoliciesInit
  <2>3. Listed(<<>>)
    BY <2>2 DEF Listed
  <2>4. DenialsStop /\ ReasonIsFirst
    BY <2>1, <2>2 DEF DenialsStop, ReasonIsFirst
  <2> QED
    BY <2>1, <2>2, <2>3, <2>4 DEF PolicyRunFits, PolicyPhases
<1>2. PolicyRunFits /\ [PoliciesNext]_policyVars => PolicyRunFits'
  <2> SUFFICES ASSUME PolicyRunFits, [PoliciesNext]_policyVars PROVE PolicyRunFits'
    OBVIOUS
  <2>1. CASE EnforcePolicyConfigForRun \/ Evaluate \/ EvaluateRule \/ Enforce \/ PromptInstructions
    BY <2>1, EnforcementKeeps
  <2>2. CASE UNCHANGED <<policyRun, evals>>
    BY <2>2 DEF PolicyRunFits, DenialsStop, RowsAt, ReasonIsFirst
  <2> QED
    BY <2>1, <2>2 DEF PoliciesNext, policyVars, CreatePolicyPack, CreatePolicyPackVersion, SetPolicyPackStatus,
       UpsertPolicyRule, AssignPolicyPack
<1> QED
  BY <1>1, <1>2, PTL DEF PolicySpec

\* A denial stops the run where it is recorded, but one by a rule of the prompt; the first of
\* the strongest rules gives the reason, and what matched is recorded, whatever the rules and
\* their conditions are and however they are edited meanwhile.
THEOREM DenialsAreFinal == PolicySpec => []DenialsStop /\ []ReasonIsFirst /\ []PassedIsRecorded
<1>1. PolicyRunFits => DenialsStop /\ ReasonIsFirst /\ PassedIsRecorded
  BY DEF PolicyRunFits, PassedIsRecorded
<1> QED
  BY <1>1, PoliciesAreKept, PTL

\* Two versions of a pack that the comparison finds equal decide alike.
THEOREM EqualVersionsDecideAlike == ASSUME PoliciesConfigured PROVE PolicySpec => []EqualPacksDecideAlike
<1>1. PoliciesInit => PackRulesFit
  <2> SUFFICES ASSUME PoliciesInit PROVE PackRulesFit
    OBVIOUS
  <2> DEFINE first == [i \in DOMAIN FirstRules |-> RuleRow(i, FirstPack, "active", i, FirstRules[i])]
  <2>1. packRules = {first[i] : i \in DOMAIN FirstRules} /\ edits = 0
    BY DEF PoliciesInit
  <2>2. first \in Surjection(DOMAIN FirstRules, {first[i] : i \in DOMAIN FirstRules})
    BY DEF Surjection
  <2>3. IsFiniteSet(packRules)
    BY <2>1, <2>2, FS_Surjection DEF PoliciesConfigured
  <2>4. ASSUME NEW i \in DOMAIN FirstRules PROVE IsRuleRow(first[i])
    <3>1. i \in Nat
      BY DEF PoliciesConfigured
    <3> QED
      BY <3>1 DEF IsRuleRow, RuleRow
  <2> QED
    BY <2>1, <2>3, <2>4 DEF PackRulesFit
<1>2. PackRulesFit /\ [PoliciesNext]_policyVars => PackRulesFit'
  BY RulesStayRows
<1>3. PackRulesFit => EqualPacksDecideAlike
  BY SameRulesDecideAlike
<1> QED
  BY <1>1, <1>2, <1>3, PTL DEF PolicySpec

-----------------------------------------------------------------------------
(* What a fold over a sequence builds, from its first elements on *)

\* A set of indexes has a largest one.
LEMMA LargestIs ==
  ASSUME NEW n \in Nat, NEW s \in SUBSET (1..n), s # {}
  PROVE  Max(s) \in s /\ \A i \in s : i <= Max(s)
<1> DEFINE G == {k \in Nat : \A r \in SUBSET (1..k) : r # {} => \E x \in r : \A i \in r : x >= i}
<1>1. 0 \in G
  <2>1. 1..0 = {}
    OBVIOUS
  <2> QED
    BY <2>1
<1>2. ASSUME NEW k \in Nat, k \in G PROVE k + 1 \in G
  <2>1. ASSUME NEW r \in SUBSET (1..(k + 1)), r # {} PROVE \E x \in r : \A i \in r : x >= i
    <3>1. CASE k + 1 \in r
      BY <3>1
    <3>2. CASE k + 1 \notin r
      <4>1. r \in SUBSET (1..k)
        BY <3>2
      <4> QED
        BY <1>2, <2>1, <4>1
    <3> QED
      BY <3>1, <3>2
  <2> QED
    BY <2>1
<1> HIDE DEF G
<1>3. n \in G
  BY <1>1, <1>2, OneByOne
<1>4. \E x \in s : \A i \in s : x >= i
  BY <1>3 DEF G
<1>5. Max(s) \in s /\ \A i \in s : Max(s) >= i
  BY <1>4 DEF Max
<1>6. \A i \in s : i \in Int
  OBVIOUS
<1> QED
  BY <1>5, <1>6

\* The others come before it.
LEMMA OthersAreLess ==
  ASSUME NEW n \in Nat, NEW k \in Nat, NEW s \in SUBSET (1..n), s # {}, s \subseteq 1..(k + 1)
  PROVE  s \ {Max(s)} \subseteq 1..k
<1> DEFINE m == Max(s)
<1>1. m \in s /\ \A i \in s : i <= m
  BY LargestIs
<1> HIDE DEF m
<1>2. ASSUME NEW i \in s, i # m PROVE i \in 1..k
  <2>1. i \in Nat /\ m \in Nat /\ 1 <= i /\ m <= k + 1 /\ i <= m
    BY <1>1, <1>2
  <2> QED
    BY <1>2, <2>1
<1>3. s \ {m} \subseteq 1..k
  BY <1>2
<1> QED
  BY <1>3 DEF m

\* What holds of no indexes, and of some if of those before the last, holds of all.
LEMMA PieceByPiece ==
  ASSUME NEW n \in Nat, NEW G, {} \in G,
         \A s \in SUBSET (1..n) : s # {} /\ s \ {Max(s)} \in G => s \in G
  PROVE  SUBSET (1..n) \subseteq G
<1> DEFINE H == {k \in Nat : \A s \in SUBSET (1..n) : s \subseteq 1..k => s \in G}
<1>1. 0 \in H
  <2>1. \A s \in SUBSET (1..n) : s \subseteq 1..0 => s = {}
    OBVIOUS
  <2> QED
    BY <2>1
<1>2. ASSUME NEW k \in Nat, k \in H PROVE k + 1 \in H
  <2>1. ASSUME NEW s \in SUBSET (1..n), s \subseteq 1..(k + 1), s # {} PROVE s \in G
    <3>2. s \ {Max(s)} \subseteq 1..k
      BY <2>1, OthersAreLess
    <3>3. s \ {Max(s)} \in G
      BY <1>2, <3>2
    <3> QED
      BY <2>1, <3>3
  <2> QED
    BY <2>1
<1> HIDE DEF H
<1>3. n \in H
  BY <1>1, <1>2, OneByOne
<1> QED
  BY <1>3 DEF H

\* The values of a fold of 1..n, after which indexes.
Folds(g, n, V, b, step) ==
  /\ g \in [SUBSET (1..n) -> V]
  /\ \A s \in SUBSET (1..n) : g[s] = IF s = {} THEN b ELSE step[Max(s)][g[s \ {Max(s)}]]

\* There is a function that takes a value from step to step.
LEMMA FoldExists ==
  ASSUME NEW n \in Nat, NEW V, NEW b \in V, NEW step \in [1..n -> [V -> V]]
  PROVE  \E g : Folds(g, n, V, b, step)
<1> DEFINE S == SUBSET (1..n)
<1> DEFINE folds(k, g) ==
      \A s \in S : s \subseteq 1..k => g[s] = IF s = {} THEN b ELSE step[Max(s)][g[s \ {Max(s)}]]
<1> DEFINE G == {k \in Nat : \E g \in [S -> V] : folds(k, g)}
<1>1. 0 \in G
  <2> DEFINE g == [s \in S |-> b]
  <2>1. \A s \in S : s \subseteq 1..0 => s = {}
    OBVIOUS
  <2>2. folds(0, g) /\ g \in [S -> V]
    BY <2>1
  <2> HIDE DEF g, folds
  <2> QED
    BY <2>2
<1>2. ASSUME NEW k \in Nat, k \in G PROVE k + 1 \in G
  <2>1. PICK g \in [S -> V] : folds(k, g)
    BY <1>2
  <2> DEFINE h == [s \in S |-> IF s \subseteq 1..k THEN g[s] ELSE step[Max(s)][g[s \ {Max(s)}]]]
  <2>2. ASSUME NEW s \in S, s # {} PROVE Max(s) \in 1..n /\ s \ {Max(s)} \in S
    BY <2>2, LargestIs
  <2>3. h \in [S -> V]
    <3>1. ASSUME NEW s \in S PROVE h[s] \in V
      <4>1. CASE s \subseteq 1..k
        BY <4>1
      <4>2. CASE ~(s \subseteq 1..k)
        <5>1. s # {}
          BY <4>2
        <5>2. step[Max(s)] \in [V -> V] /\ g[s \ {Max(s)}] \in V
          BY SMTT(60), <2>2, <5>1
        <5> QED
          BY <4>2, <5>2
      <4> QED
        BY <4>1, <4>2
    <3> QED
      BY <3>1
  <2>4. ASSUME NEW s \in S, s \subseteq 1..(k + 1)
        PROVE  h[s] = IF s = {} THEN b ELSE step[Max(s)][h[s \ {Max(s)}]]
    <3>1. CASE s = {}
      BY <2>1, <3>1
    <3>2. CASE s # {}
      <4>2. s \ {Max(s)} \subseteq 1..k
        BY <2>4, <3>2, OthersAreLess
      <4>3. h[s \ {Max(s)}] = g[s \ {Max(s)}]
        BY <4>2
      <4>4. h[s] = step[Max(s)][g[s \ {Max(s)}]]
        <5>1. CASE s \subseteq 1..k
          BY <2>1, <3>2, <5>1
        <5>2. CASE ~(s \subseteq 1..k)
          BY <5>2
        <5> QED
          BY <5>1, <5>2
      <4> QED
        BY <3>2, <4>3, <4>4
    <3> QED
      BY <3>1, <3>2
  <2>5. folds(k + 1, h)
    BY <2>4
  <2> HIDE DEF h, folds
  <2> QED
    BY <2>3, <2>5
<1> HIDE DEF G
<1>3. n \in G
  BY <1>1, <1>2, OneByOne
<1>4. PICK g \in [S -> V] : folds(n, g)
  BY <1>3 DEF G
<1>5. \A s \in S : g[s] = IF s = {} THEN b ELSE step[Max(s)][g[s \ {Max(s)}]]
  BY <1>4
<1> QED
  BY <1>4, <1>5 DEF Folds

-----------------------------------------------------------------------------
(* Which tools the model is shown *)

SelectionSpec == SelectionInit /\ [][SelectionNext]_selectionVars

\* None of a list is ruled out by one before it.
NoneRuledOut(list, entries) ==
  \A i, j \in DOMAIN list : i < j => list[j] \notin entries[list[i]].conflicts
KeptBeside(list, t, entries) ==
  IF Len(list) >= MaxTools \/ \E k \in Range(list) : t \in entries[k].conflicts THEN list ELSE Append(list, t)

\* Another tool is kept only beside such as do not rule it out.
LEMMA KeptStayBeside ==
  ASSUME NEW list \in Seq(Tools), NEW t \in Tools, NEW entries, NoneRuledOut(list, entries)
  PROVE  KeptBeside(list, t, entries) \in Seq(Tools) /\ NoneRuledOut(KeptBeside(list, t, entries), entries)
<1>1. CASE Len(list) >= MaxTools \/ \E k \in Range(list) : t \in entries[k].conflicts
  BY <1>1 DEF KeptBeside
<1>2. CASE ~(Len(list) >= MaxTools \/ \E k \in Range(list) : t \in entries[k].conflicts)
  <2> DEFINE more == Append(list, t)
  <2>1. KeptBeside(list, t, entries) = more
    BY <1>2 DEF KeptBeside
  <2>2. /\ more \in Seq(Tools) /\ DOMAIN more = 1..(Len(list) + 1) /\ DOMAIN list = 1..Len(list)
        /\ more[Len(list) + 1] = t /\ \A i \in 1..Len(list) : more[i] = list[i]
    OBVIOUS
  <2> HIDE DEF more
  <2>3. ASSUME NEW i \in DOMAIN more, NEW j \in DOMAIN more, i < j PROVE more[j] \notin entries[more[i]].conflicts
    <3>1. Len(list) \in Nat
      OBVIOUS
    <3>2. i \in 1..Len(list)
      BY <2>2, <2>3, <3>1
    <3>3. CASE j \in 1..Len(list)
      BY <2>2, <2>3, <3>2, <3>3 DEF NoneRuledOut
    <3>4. CASE j = Len(list) + 1
      <4>1. list[i] \in Range(list)
        BY <2>2, <3>2 DEF Range
      <4> QED
        BY <1>2, <2>2, <3>2, <3>4, <4>1
    <3> QED
      BY <2>2, <3>1, <3>3, <3>4
  <2> QED
    BY <2>1, <2>2, <2>3 DEF NoneRuledOut
<1> QED
  BY <1>1, <1>2

\* What selectedScoredTools selects is of what was ranked, none of it ruled out by another.
LEMMA SelectedStandTogether ==
  ASSUME NEW ranked \in Seq(Tools), NEW entries
  PROVE  /\ SelectedScoredTools(ranked, entries) \in Seq(Tools)
         /\ NoneRuledOut(SelectedScoredTools(ranked, entries), entries)
<1> DEFINE n == Len(ranked)
<1> DEFINE S == SUBSET (1..n)
<1> DEFINE V == {list \in Seq(Tools) : NoneRuledOut(list, entries)}
<1> DEFINE step == [i \in 1..n |-> [list \in V |-> KeptBeside(list, ranked[i], entries)]]
<1> DEFINE folds(g) == g = [s \in S |-> IF s = {} THEN <<>> ELSE KeptBeside(g[s \ {Max(s)}], ranked[Max(s)], entries)]
<1> DEFINE own == CHOOSE g : folds(g)
<1>1. n \in Nat /\ <<>> \in V /\ \A i \in 1..n : ranked[i] \in Tools
  BY DEF NoneRuledOut
<1>2. SelectedScoredTools(ranked, entries) = own[1..n]
  <2>1. DOMAIN ranked = 1..n
    OBVIOUS
  <2> QED
    BY <2>1 DEF SelectedScoredTools, FoldLeft, MapThenFoldSet, KeptBeside
<1>3. step \in [1..n -> [V -> V]]
  BY <1>1, KeptStayBeside
<1>4. PICK g : Folds(g, n, V, <<>>, step)
  <2> HIDE DEF V, step, n
  <2> QED
    BY <1>1, <1>3, FoldExists
<1>5. ASSUME NEW s \in S, s # {} PROVE Max(s) \in 1..n /\ s \ {Max(s)} \in S
  BY <1>1, <1>5, LargestIs
<1>6. \E f : folds(f)
  <2>1. ASSUME NEW s \in S, s # {} PROVE g[s] = KeptBeside(g[s \ {Max(s)}], ranked[Max(s)], entries)
    <3>1. Max(s) \in 1..n /\ g[s \ {Max(s)}] \in V
      BY <1>4, <1>5, <2>1 DEF Folds
    <3> HIDE DEF V
    <3> QED
      BY <1>4, <2>1, <3>1 DEF Folds
  <2> HIDE DEF V, step
  <2>2. folds(g)
    BY <1>4, <2>1 DEF Folds
  <2> QED
    BY <2>2
<1>7. folds(own)
  BY <1>6
<1> HIDE DEF own, V
<1> DEFINE G == {s \in S : own[s] \in V}
<1>8. {} \in G
  BY <1>1, <1>7
<1>9. ASSUME NEW s \in S, s # {}, s \ {Max(s)} \in G PROVE s \in G
  <2>1. own[s] = KeptBeside(own[s \ {Max(s)}], ranked[Max(s)], entries)
    BY <1>7, <1>9
  <2>2. own[s \ {Max(s)}] \in V /\ ranked[Max(s)] \in Tools
    BY <1>1, <1>5, <1>9
  <2> QED
    BY <2>1, <2>2, KeptStayBeside DEF V
<1> HIDE DEF G
<1>10. 1..n \in G
  BY <1>1, <1>8, <1>9, PieceByPiece
<1> QED
  BY <1>2, <1>10 DEF G, V

\* What uniqueAllowedToolNames leaves of the router's names are tools.
LEMMA AllowedAreTools ==
  ASSUME NEW names \in Seq(Int)
  PROVE  UniqueAllowedToolNames(names) \in Seq(Tools)
<1> DEFINE n == Len(names)
<1> DEFINE S == SUBSET (1..n)
<1> DEFINE V == Seq(Tools)
<1> DEFINE next(list, t) == IF t \in Tools \ Range(list) /\ Len(list) < MaxTools THEN Append(list, t) ELSE list
<1> DEFINE step == [i \in 1..n |-> [list \in V |-> next(list, names[i])]]
<1> DEFINE folds(g) == g = [s \in S |-> IF s = {} THEN <<>> ELSE next(g[s \ {Max(s)}], names[Max(s)])]
<1> DEFINE own == CHOOSE g : folds(g)
<1>1. n \in Nat /\ <<>> \in V
  OBVIOUS
<1>2. UniqueAllowedToolNames(names) = own[1..n]
  <2>1. DOMAIN names = 1..n
    OBVIOUS
  <2> QED
    BY <2>1 DEF UniqueAllowedToolNames, FoldLeft, MapThenFoldSet
<1>3. \A list \in V : \A t : next(list, t) \in V
  <2>1. ASSUME NEW list \in V, NEW t \in Tools PROVE Append(list, t) \in V
    OBVIOUS
  <2> QED
    BY <2>1
<1> HIDE DEF next
<1>4. step \in [1..n -> [V -> V]]
  BY <1>3
<1>5. PICK g : Folds(g, n, V, <<>>, step)
  <2> HIDE DEF V, step, n
  <2> QED
    BY <1>1, <1>4, FoldExists
<1>6. ASSUME NEW s \in S, s # {} PROVE Max(s) \in 1..n /\ s \ {Max(s)} \in S
  BY <1>1, <1>6, LargestIs
<1>7. \E f : folds(f)
  <2>1. ASSUME NEW s \in S, s # {} PROVE g[s] = next(g[s \ {Max(s)}], names[Max(s)])
    <3>1. Max(s) \in 1..n /\ g[s \ {Max(s)}] \in V
      BY <1>5, <1>6, <2>1 DEF Folds
    <3> HIDE DEF V
    <3> QED
      BY <1>5, <2>1, <3>1 DEF Folds
  <2> HIDE DEF V, step
  <2>2. folds(g)
    BY <1>5, <2>1 DEF Folds
  <2> QED
    BY <2>2
<1>8. folds(own)
  BY <1>7
<1> HIDE DEF own, V
<1> DEFINE G == {s \in S : own[s] \in V}
<1>9. {} \in G
  BY <1>1, <1>8
<1>10. ASSUME NEW s \in S, s # {}, s \ {Max(s)} \in G PROVE s \in G
  BY <1>3, <1>6, <1>8, <1>10
<1> HIDE DEF G
<1>11. 1..n \in G
  BY <1>1, <1>9, <1>10, PieceByPiece
<1> QED
  BY <1>2, <1>11 DEF G, V

\* The tools with a score, in an order of theirs.
Scored(score) == {t \in Tools : score[t] > 0}
BestFirst(score, ranked) ==
  \A i, j \in DOMAIN ranked : i < j => ScoresBefore(score, ranked[i], ranked[j])

\* Of tools with scores there is one that all others come before.
LEMMA WorstIs ==
  ASSUME SelectionConfigured, NEW score \in [Tools -> Int], NEW k \in Nat,
         NEW S \in SUBSET Tools, S # {}, Cardinality(S) = k
  PROVE  \E t \in S : \A u \in S \ {t} : ScoresBefore(score, u, t)
<1> DEFINE worst(T) == T # {} => \E t \in T : \A u \in T \ {t} : ScoresBefore(score, u, t)
<1> DEFINE G == {c \in Nat : \A T \in SUBSET Tools : Cardinality(T) = c => worst(T)}
<1>0. \A T \in SUBSET Tools : IsFiniteSet(T) /\ Cardinality(T) \in Nat
  BY FS_Subset, FS_CardinalityType DEF SelectionConfigured
<1>1. 0 \in G
  BY <1>0, FS_EmptySet
<1>2. ASSUME NEW c \in Nat, c \in G PROVE c + 1 \in G
  <2>1. ASSUME NEW T \in SUBSET Tools, Cardinality(T) = c + 1 PROVE worst(T)
    <3>1. PICK x \in T : TRUE
      BY <2>1, FS_EmptySet
    <3> DEFINE R == T \ {x}
    <3>2. Cardinality(R) = c /\ R \in SUBSET Tools
      BY <1>0, <2>1, <3>1, FS_RemoveElement
    <3>3. CASE R = {}
      BY <3>1, <3>3
    <3>4. CASE R # {}
      <4>1. PICK t \in R : \A u \in R \ {t} : ScoresBefore(score, u, t)
        BY <1>2, <3>2, <3>4
      <4>2. \A u \in T : u \in Int /\ score[u] \in Int
        BY DEF SelectionConfigured
      <4>3. CASE ScoresBefore(score, t, x)
        <5>1. ASSUME NEW u \in R PROVE ScoresBefore(score, u, x)
          <6>1. score[u] \in Int /\ score[t] \in Int /\ score[x] \in Int /\ u \in Int /\ t \in Int /\ x \in Int
            BY <4>2
          <6>2. u = t \/ ScoresBefore(score, u, t)
            BY <4>1
          <6> QED
            BY <4>3, <6>1, <6>2 DEF ScoresBefore
        <5> QED
          BY <3>1, <5>1
      <4>4. CASE ~ ScoresBefore(score, t, x)
        <5>1. score[t] \in Int /\ score[x] \in Int /\ t \in Int /\ x \in Int /\ t # x
          BY <3>1, <4>2
        <5>2. ScoresBefore(score, x, t)
          BY <4>4, <5>1 DEF ScoresBefore
        <5> QED
          BY <4>1, <5>2
      <4> QED
        BY <4>3, <4>4
    <3> QED
      BY <3>3, <3>4
  <2> QED
    BY <2>1
<1> HIDE DEF G
<1>3. k \in G
  BY <1>1, <1>2, OneByOne
<1> QED
  BY <1>3 DEF G

\* So they can be put in order.
LEMMA OrderExists ==
  ASSUME SelectionConfigured, NEW score \in [Tools -> Int], NEW k \in Nat,
         NEW S \in SUBSET Tools, Cardinality(S) = k
  PROVE  \E ranked \in SetToSeqs(S) : BestFirst(score, ranked)
<1> DEFINE inOrder(T, c, f) ==
      /\ f \in [1..c -> T] /\ \A i, j \in 1..c : i # j => f[i] # f[j]
      /\ \A i, j \in 1..c : i < j => ScoresBefore(score, f[i], f[j])
<1> DEFINE G == {c \in Nat : \A T \in SUBSET Tools : Cardinality(T) = c => \E f : inOrder(T, c, f)}
<1>0. \A T \in SUBSET Tools : IsFiniteSet(T) /\ Cardinality(T) \in Nat
  BY FS_Subset, FS_CardinalityType DEF SelectionConfigured
<1>1. 0 \in G
  <2>1. ASSUME NEW T \in SUBSET Tools, Cardinality(T) = 0 PROVE \E f : inOrder(T, 0, f)
    <3>1. inOrder(T, 0, [i \in 1..0 |-> 0])
      OBVIOUS
    <3> QED
      BY <3>1
  <2> QED
    BY <2>1
<1>2. ASSUME NEW c \in Nat, c \in G PROVE c + 1 \in G
  <2>1. ASSUME NEW T \in SUBSET Tools, Cardinality(T) = c + 1 PROVE \E f : inOrder(T, c + 1, f)
    <3>1. T # {}
      BY <2>1, FS_EmptySet
    <3>2. PICK t \in T : \A u \in T \ {t} : ScoresBefore(score, u, t)
      BY <2>1, <3>1, WorstIs
    <3> DEFINE R == T \ {t}
    <3>3. Cardinality(R) = c /\ R \in SUBSET Tools
      <4>1. IsFiniteSet(T) /\ t \in T /\ R \in SUBSET Tools
        BY <1>0, <2>1, <3>2
      <4>2. Cardinality(R) = Cardinality(T) - 1
        BY ONLY <4>1, FS_RemoveElement
      <4> QED
        BY <2>1, <4>1, <4>2
    <3>4. PICK f : inOrder(R, c, f)
      BY <1>2, <3>3
    <3> DEFINE h == [i \in 1..(c + 1) |-> IF i = c + 1 THEN t ELSE f[i]]
    <3>5. /\ \A i \in 1..c : h[i] = f[i] /\ f[i] \in R
          /\ h[c + 1] = t /\ h \in [1..(c + 1) -> T]
      BY <3>4
    <3> HIDE DEF h
    <3>6. ASSUME NEW i \in 1..(c + 1), NEW j \in 1..(c + 1), i < j
          PROVE  h[i] # h[j] /\ ScoresBefore(score, h[i], h[j])
      <4>1. i \in 1..c
        BY <3>6
      <4>2. CASE j \in 1..c
        BY <3>4, <3>5, <3>6, <4>1, <4>2
      <4>3. CASE j = c + 1
        BY <3>2, <3>5, <4>1, <4>3
      <4> QED
        BY <4>2, <4>3
    <3>7. \A i, j \in 1..(c + 1) : i # j => i < j \/ j < i
      OBVIOUS
    <3>8. inOrder(T, c + 1, h)
      BY <3>5, <3>6, <3>7
    <3> HIDE DEF inOrder
    <3> QED
      BY <3>8
  <2> QED
    BY <2>1
<1> HIDE DEF G
<1>3. k \in G
  BY <1>1, <1>2, OneByOne
<1>4. PICK f : inOrder(S, k, f)
  BY <1>3 DEF G
<1> QED
  BY <1>4 DEF SetToSeqs, BestFirst

\* What is ranked are the tools with a score, each once and in that order.
LEMMA RankedAreTools ==
  ASSUME SelectionConfigured, NEW score \in [Tools -> Int]
  PROVE  RankedTools(score) \in Seq(Tools) /\ BestFirst(score, RankedTools(score))
<1>1. Scored(score) \in SUBSET Tools /\ Cardinality(Scored(score)) \in Nat
  BY FS_Subset, FS_CardinalityType DEF SelectionConfigured, Scored
<1>2. \E ranked \in SetToSeqs(Scored(score)) : BestFirst(score, ranked)
  BY <1>1, OrderExists
<1>3. RankedTools(score) \in SetToSeqs(Scored(score)) /\ BestFirst(score, RankedTools(score))
  BY <1>2 DEF RankedTools, Scored, BestFirst
<1>4. RankedTools(score) \in [1..Cardinality(Scored(score)) -> Tools]
  BY <1>1, <1>3 DEF SetToSeqs
<1> QED
  BY <1>1, <1>3, <1>4

\* A decision by ranking: tools of which none rules out a later one, and one is forced
\* on the model only if it is alone, writes and is sure.
Made(d, by, entries) ==
  /\ d = Decision(d.selected, d.confidence, d.force, by)
  /\ d.selected \in Seq(Tools) /\ NoneRuledOut(d.selected, entries)
  /\ d.force => /\ Len(d.selected) = 1 /\ entries[d.selected[1]].sideEffect = "write"
                /\ d.confidence >= Threshold

\* Nothing is forced where nothing is selected.
LEMMA NoneSelectedFits ==
  ASSUME NEW confidence, NEW by, NEW entries
  PROVE  Made(Decision(<<>>, confidence, FALSE, by), by, entries)
BY DEF Made, Decision, NoneRuledOut

\* The best are such a decision (selectedScoredTools, shouldForceToolUseForSelection).
LEMMA RankingFits ==
  ASSUME SelectionConfigured, NEW score \in [Tools -> Int], NEW entries, NEW confidence, NEW by
  PROVE  Made(Ranking(score, entries, confidence, by), by, entries)
<1> DEFINE selected == SelectedScoredTools(RankedTools(score), entries)
<1>1. selected \in Seq(Tools) /\ NoneRuledOut(selected, entries)
  BY RankedAreTools, SelectedStandTogether
<1>2. Ranking(score, entries, confidence, by)
        = Decision(selected, confidence, ShouldForceToolUseForSelection(selected, entries, confidence), by)
  BY DEF Ranking
<1> HIDE DEF selected
<1> QED
  BY <1>1, <1>2 DEF Made, Decision, ShouldForceToolUseForSelection

\* So is what the words of the message say (heuristicToolSelection) ...
LEMMA HeuristicFits ==
  ASSUME SelectionConfigured, NEW said, said.evidence \in [Tools -> Evidence], NEW entries
  PROVE  Made(HeuristicToolSelection(said, entries), "heuristic", entries)
<1> DEFINE e == said.evidence
<1> DEFINE score == [t \in Tools |-> LexicalToolScore(e[t]) + ActionIntentToolScore(e[t]) + PhraseToolScore(e[t])]
<1> DEFINE ranked == RankedTools(score)
<1> DEFINE sure == ToolSelectionConfidence(ranked, score)
<1> DEFINE confidence == IF e[ranked[1]].phrase = "trigger" /\ sure < 950 THEN 950 ELSE sure
<1>1. ASSUME NEW t \in Tools
      PROVE  LexicalToolScore(e[t]) + ActionIntentToolScore(e[t]) + PhraseToolScore(e[t]) \in Int
  <2>1. e[t].tokens \in Nat
    BY DEF SelectionConfigured
  <2>2. LexicalToolScore(e[t]) \in Int
    BY <2>1 DEF LexicalToolScore
  <2>3. ActionIntentToolScore(e[t]) \in Int /\ PhraseToolScore(e[t]) \in Int
    BY DEF ActionIntentToolScore, PhraseToolScore
  <2> QED
    BY <2>2, <2>3
<1>2. score \in [Tools -> Int]
  BY <1>1
<1>3. \/ \E c : HeuristicToolSelection(said, entries) = Decision(<<>>, c, FALSE, "heuristic")
      \/ HeuristicToolSelection(said, entries) = Ranking(score, entries, confidence, "heuristic")
  BY ZenonT(60) DEF HeuristicToolSelection
<1> HIDE DEF score, confidence
<1> QED
  BY <1>2, <1>3, RankingFits, NoneSelectedFits

\* ... what the capabilities a model would need say (rankHypotheticalToolSelection) ...
LEMMA HypotheticalFits ==
  ASSUME SelectionConfigured, NEW similar \in [Tools -> Similarities], NEW entries
  PROVE  Made(RankHypotheticalToolSelection(similar, entries), "hypothetical", entries)
<1>1. similar \in [Tools -> Int]
  BY DEF SelectionConfigured
<1> DEFINE confidence == ToolSelectionConfidence(RankedTools(similar), similar)
<1>2. \/ RankHypotheticalToolSelection(similar, entries) = Decision(<<>>, 0, FALSE, "hypothetical")
      \/ RankHypotheticalToolSelection(similar, entries) = Ranking(similar, entries, confidence, "hypothetical")
  BY DEF RankHypotheticalToolSelection
<1> HIDE DEF confidence
<1> QED
  BY <1>1, <1>2, RankingFits, NoneSelectedFits

\* ... and what the labels of a classifier say (rankIntentToolSelection).
LEMMA IntentFits ==
  ASSUME SelectionConfigured, NEW labels \in Labels, NEW sureness, NEW entries
  PROVE  Made(RankIntentToolSelection(labels, entries, sureness), "classifier", entries)
<1> DEFINE sure == {l \in DOMAIN labels : labels[l] >= Threshold}
<1> DEFINE score == [t \in Tools |-> IF t \in sure THEN labels[t] \div 10 ELSE 0]
<1> DEFINE confidence == 10 * score[RankedTools(score)[1]]
<1>1. ASSUME NEW t \in Tools PROVE (IF t \in sure THEN labels[t] \div 10 ELSE 0) \in Int
  <2>1. CASE t \in sure
    <3>1. labels[t] \in Int
      BY <2>1 DEF SelectionConfigured
    <3>2. labels[t] \div 10 \in Int
      BY <3>1
    <3> QED
      BY <2>1, <3>2
  <2>2. CASE t \notin sure
    BY <2>2
  <2> QED
    BY <2>1, <2>2
<1>2. score \in [Tools -> Int]
  BY <1>1
<1>3. \/ \E c : RankIntentToolSelection(labels, entries, sureness) = Decision(<<>>, c, FALSE, "classifier")
      \/ RankIntentToolSelection(labels, entries, sureness) = Ranking(score, entries, confidence, "classifier")
  BY ZenonT(60) DEF RankIntentToolSelection
<1> HIDE DEF score, confidence
<1> QED
  BY <1>2, <1>3, RankingFits, NoneSelectedFits

\* Where the selection is, who decided, and what came of it.
SelectionPhases == {"begin", "hypothetical", "intent_classifier", "route", "filter", "done"}
PhasesFit ==
  /\ selection = [phase |-> selection.phase, defs |-> selection.defs, force |-> selection.force]
  /\ selection.phase \in SelectionPhases
  /\ config.method \in Methods /\ message.evidence \in [Tools -> Evidence]
  /\ selection.phase = "begin" => decision.by = "nobody"
  /\ selection.phase \in {"hypothetical", "intent_classifier"} =>
       decision.by = "heuristic" /\ config.method = selection.phase
  /\ selection.phase \in {"route", "filter"} => decision.by # "nobody"

\* What has been decided: whatever the words said stands as they said it; tools that
\* were ranked stand together; and force is for one that writes, of which the decision
\* was sure, if a classifier that failed did not take that away.
DecisionFits ==
  /\ decision = Decision(decision.selected, decision.confidence, decision.force, decision.by)
  /\ decision.by \in {"nobody", "heuristic", "hypothetical", "classifier", "router"}
  /\ decision.selected \in Seq(Tools)
  /\ decision.by = "nobody" => decision.selected = <<>> /\ ~ decision.force
  /\ decision.by = "heuristic" => decision.selected = HeuristicToolSelection(message, metadata).selected
  /\ decision.by # "router" => NoneRuledOut(decision.selected, metadata)
  /\ decision.force /\ decision.by # "router" =>
       /\ Len(decision.selected) = 1 /\ metadata[decision.selected[1]].sideEffect = "write"
       /\ decision.confidence >= Threshold
            \/ (config.method = "intent_classifier" /\ decision.by = "heuristic")

\* What is shown is all, nothing for a reason, or what was selected.
OutcomeFits ==
  selection.phase = "done" =>
    \/ decision.by = "nobody" /\ ~ selection.force /\ (selection.defs = Tools \/ message.requires = "no")
    \/ /\ decision.by # "nobody" /\ decision.selected = <<>> /\ decision.confidence >= Threshold
       /\ selection.defs = {} /\ ~ selection.force
    \/ /\ decision.by # "nobody" /\ selection.force = decision.force
       /\ selection.defs = IF decision.selected = <<>> THEN Tools ELSE Range(decision.selected)

SelectionFits == PhasesFit /\ DecisionFits /\ OutcomeFits

\* A decision that was made fits while the phase goes on.
LEMMA MadeFits ==
  ASSUME Keep, config.method \in Methods, NEW by, Made(decision', by, metadata),
         by \in {"heuristic", "hypothetical", "classifier"},
         by = "heuristic" => decision'.selected = HeuristicToolSelection(message, metadata).selected
  PROVE  DecisionFits' /\ decision'.by = by
<1>1. decision'.by = by
  BY DEF Made, Decision
<1>2. metadata' = metadata /\ message' = message /\ config' = config
  BY DEF Keep
<1> QED
  BY <1>1, <1>2 DEF DecisionFits, Made

\* Every step of a selection keeps that.
LEMMA SelectionStepKeeps ==
  ASSUME SelectionConfigured, SelectionFits, SelectionNext
  PROVE  SelectionFits'
<1>1. metadata' = metadata /\ message' = message /\ config' = config
  BY DEF SelectionNext, Keep, NotSelecting, BeginSelection, RouteHypotheticalToolSelection, RouteIntentToolSelection,
         MethodFails, RouteToolSelection, NoRouter, FilterToolDefinitions
<1>2. ASSUME UNCHANGED decision PROVE DecisionFits'
  BY <1>1, <1>2 DEF SelectionFits, DecisionFits
<1>3. ASSUME NEW p \in SelectionPhases \ {"begin"}, Phase(p)
      PROVE  /\ selection' = [phase |-> selection'.phase, defs |-> selection'.defs, force |-> selection'.force]
             /\ selection'.phase = p
  BY <1>3 DEF SelectionFits, PhasesFit, Phase
<1>4. config.method \in Methods /\ message.evidence \in [Tools -> Evidence]
  BY DEF SelectionFits, PhasesFit
<1>5. CASE NotSelecting
  <2>1. decision' = decision /\ selection.phase = "begin" /\ decision.by = "nobody"
    BY <1>5 DEF NotSelecting, SelectionFits, PhasesFit
  <2>2. \/ selection' = [phase |-> "done", defs |-> Tools, force |-> FALSE]
        \/ message.requires = "no" /\ selection' = [phase |-> "done", defs |-> {}, force |-> FALSE]
    BY <1>5 DEF NotSelecting, Finish
  <2>3. PhasesFit' /\ OutcomeFits'
    BY <1>1, <1>4, <2>1, <2>2 DEF PhasesFit, OutcomeFits, SelectionPhases
  <2> QED
    BY <1>2, <2>1, <2>3 DEF SelectionFits
<1>6. CASE BeginSelection
  <2>1. Keep /\ decision' = HeuristicToolSelection(message, metadata)
    BY <1>6 DEF BeginSelection
  <2>2. Made(decision', "heuristic", metadata)
    BY <1>4, <2>1, HeuristicFits
  <2>3. DecisionFits' /\ decision'.by = "heuristic"
    BY <1>4, <2>1, <2>2, MadeFits
  <2>4. \E p \in {"hypothetical", "intent_classifier", "route"} : Phase(p) /\ (p # "route" => config.method = p)
    BY <1>4, <1>6 DEF BeginSelection, Methods
  <2>5. PhasesFit' /\ OutcomeFits'
    BY <1>1, <1>3, <1>4, <2>3, <2>4 DEF PhasesFit, OutcomeFits, SelectionPhases
  <2> QED
    BY <2>3, <2>5 DEF SelectionFits
<1>7. CASE RouteHypotheticalToolSelection
  <2>1. Keep /\ Phase("route")
    BY <1>7 DEF RouteHypotheticalToolSelection
  <2>2. Made(decision', "hypothetical", metadata)
    <3>1. CASE decision' = Decision(<<>>, 900, FALSE, "hypothetical")
      <4>1. PICK c : decision' = Decision(<<>>, c, FALSE, "hypothetical")
        BY <3>1
      <4> QED
        BY <4>1, NoneSelectedFits
    <3>2. CASE \E similar \in [Tools -> Similarities] : decision' = RankHypotheticalToolSelection(similar, metadata)
      BY <3>2, HypotheticalFits
    <3> QED
      BY ZenonT(60), <1>7, <3>1, <3>2 DEF RouteHypotheticalToolSelection
  <2>3. DecisionFits' /\ decision'.by = "hypothetical"
    BY <1>4, <2>1, <2>2, MadeFits
  <2>4. PhasesFit' /\ OutcomeFits'
    BY <1>1, <1>3, <1>4, <2>1, <2>3 DEF PhasesFit, OutcomeFits, SelectionPhases
  <2> QED
    BY <2>3, <2>4 DEF SelectionFits
<1>8. CASE RouteIntentToolSelection
  <2>1. Keep /\ Phase("route")
    BY <1>8 DEF RouteIntentToolSelection
  <2>2. Made(decision', "classifier", metadata)
    BY <1>8, IntentFits DEF RouteIntentToolSelection
  <2>3. DecisionFits' /\ decision'.by = "classifier"
    BY <1>4, <2>1, <2>2, MadeFits
  <2>4. PhasesFit' /\ OutcomeFits'
    BY <1>1, <1>3, <1>4, <2>1, <2>3 DEF PhasesFit, OutcomeFits, SelectionPhases
  <2> QED
    BY <2>3, <2>4 DEF SelectionFits
<1>9. CASE MethodFails
  <2>1. Phase("route") /\ selection.phase \in {"hypothetical", "intent_classifier"}
    BY <1>9 DEF MethodFails
  <2>2. decision.by = "heuristic" /\ config.method = selection.phase
    BY <2>1 DEF SelectionFits, PhasesFit
  <2>3. CASE decision' = decision
    <3>1. PhasesFit' /\ OutcomeFits'
      BY <1>1, <1>3, <1>4, <2>1, <2>2, <2>3 DEF PhasesFit, OutcomeFits, SelectionPhases
    <3> QED
      BY <1>2, <2>3, <3>1 DEF SelectionFits
  <2>4. CASE selection.phase = "intent_classifier" /\ decision' = [decision EXCEPT !.confidence = 0]
    <3>1. decision' = Decision(decision.selected, 0, decision.force, "heuristic")
      BY <2>2, <2>4 DEF SelectionFits, DecisionFits, Decision
    <3>2. /\ decision'.selected = decision.selected /\ decision'.force = decision.force
          /\ decision'.by = "heuristic" /\ decision'.confidence = 0
      BY <3>1 DEF Decision
    <3>3. DecisionFits'
      BY <1>1, <2>2, <2>4, <3>1, <3>2 DEF SelectionFits, DecisionFits
    <3>4. PhasesFit' /\ OutcomeFits'
      BY <1>1, <1>3, <1>4, <2>1, <3>2 DEF PhasesFit, OutcomeFits, SelectionPhases
    <3> QED
      BY <3>3, <3>4 DEF SelectionFits
  <2> QED
    BY <1>9, <2>3, <2>4 DEF MethodFails
<1>10. CASE RouteToolSelection
  <2>1. Phase("filter")
    BY <1>10 DEF RouteToolSelection
  <2>2. PICK r \in RouterReplies :
          decision' = Decision(UniqueAllowedToolNames(r.names), IF r.confidence = 0 THEN 650 ELSE r.confidence, r.force, "router")
    BY <1>10 DEF RouteToolSelection
  <2>3. UniqueAllowedToolNames(r.names) \in Seq(Tools)
    BY AllowedAreTools DEF SelectionConfigured
  <2>4. DecisionFits' /\ decision'.by = "router"
    BY <2>2, <2>3 DEF DecisionFits, Decision
  <2>5. PhasesFit' /\ OutcomeFits'
    BY <1>1, <1>3, <1>4, <2>1, <2>4 DEF PhasesFit, OutcomeFits, SelectionPhases
  <2> QED
    BY <2>4, <2>5 DEF SelectionFits
<1>11. CASE NoRouter
  <2>1. decision' = decision /\ Phase("filter") /\ decision.by # "nobody"
    BY <1>11 DEF NoRouter, SelectionFits, PhasesFit
  <2>2. PhasesFit' /\ OutcomeFits'
    BY <1>1, <1>3, <1>4, <2>1 DEF PhasesFit, OutcomeFits, SelectionPhases
  <2> QED
    BY <1>2, <2>1, <2>2 DEF SelectionFits
<1>12. CASE FilterToolDefinitions
  <2>1. decision' = decision /\ decision.by # "nobody"
    BY <1>12 DEF FilterToolDefinitions, SelectionFits, PhasesFit
  <2>2. \/ /\ decision.selected = <<>> /\ decision.confidence >= Threshold
           /\ selection' = [phase |-> "done", defs |-> {}, force |-> FALSE]
        \/ selection' = [phase |-> "done", force |-> decision.force,
                         defs |-> IF decision.selected = <<>> THEN Tools ELSE Range(decision.selected)]
    BY <1>12 DEF FilterToolDefinitions, Finish
  <2>3. PhasesFit'
    BY <1>1, <1>4, <2>1, <2>2 DEF PhasesFit, SelectionPhases
  <2>4. OutcomeFits'
    BY <1>1, <2>1, <2>2 DEF OutcomeFits
  <2> QED
    BY <1>2, <2>1, <2>3, <2>4 DEF SelectionFits
<1> QED
  BY <1>5, <1>6, <1>7, <1>8, <1>9, <1>10, <1>11, <1>12 DEF SelectionNext

\* An inductive invariant of the selection of tools: what is decided is as the words, a
\* method or the router said, and what is shown as was decided.
THEOREM SelectionsAreKept == ASSUME SelectionConfigured PROVE SelectionSpec => []SelectionFits
<1>1. SelectionInit => SelectionFits
  <2> SUFFICES ASSUME SelectionInit PROVE SelectionFits
    OBVIOUS
  <2>1. config.method \in Methods
    BY DEF SelectionInit, NormalizeToolSelectionConfig, Methods
  <2>2. message.evidence \in [Tools -> Evidence]
    BY DEF SelectionInit
  <2>3. decision = Decision(<<>>, 0, FALSE, "nobody") /\ selection = [phase |-> "begin", defs |-> {}, force |-> FALSE]
    BY DEF SelectionInit
  <2>4. DecisionFits
    BY <2>3 DEF DecisionFits, Decision, NoneRuledOut
  <2>5. PhasesFit /\ OutcomeFits
    BY <2>1, <2>2, <2>3 DEF PhasesFit, OutcomeFits, SelectionPhases, Decision
  <2> QED
    BY <2>4, <2>5 DEF SelectionFits
<1>2. ASSUME SelectionFits, UNCHANGED selectionVars PROVE SelectionFits'
  BY <1>2 DEF selectionVars, SelectionFits, PhasesFit, DecisionFits, OutcomeFits
<1>3. SelectionFits /\ [SelectionNext]_selectionVars => SelectionFits'
  BY <1>2, SelectionStepKeeps
<1> QED
  BY <1>1, <1>3, PTL DEF SelectionSpec

\* The model is left without tools for a reason, forced to one only if it writes and
\* somebody was sure, and shown no tool beside a better one that rules it out: tools that
\* selectToolDefinitions selects, for every message, method and answer of a router.
THEOREM SelectionsAreSound ==
  ASSUME SelectionConfigured
  PROVE  SelectionSpec => []NoToolsForAReason /\ []ForcedIsSure /\ []NoConflictsShown
<1>1. SelectionFits => NoToolsForAReason
  <2> SUFFICES ASSUME SelectionFits, Selected, message.requires # "no" PROVE
        /\ selection.defs = {} => decision.by # "nobody" /\ decision.confidence >= Threshold
        /\ decision.by \in {"heuristic", "nobody"} =>
             Range(HeuristicToolSelection(message, metadata).selected) \subseteq selection.defs
    BY DEF NoToolsForAReason
  <2> DEFINE heuristic == HeuristicToolSelection(message, metadata).selected
  <2>1. heuristic \in Seq(Tools)
    BY HeuristicFits DEF SelectionFits, PhasesFit, Made
  <2>2. Range(heuristic) \subseteq Tools
    BY <2>1 DEF Range
  <2>3. heuristic = <<>> => Range(heuristic) = {}
    BY DEF Range
  <2>4. decision.selected \in Seq(Tools) /\ (decision.by = "heuristic" => decision.selected = heuristic)
    BY DEF SelectionFits, DecisionFits
  <2>5. decision.selected # <<>> => Range(decision.selected) # {}
    <3> SUFFICES ASSUME decision.selected # <<>> PROVE decision.selected[1] \in Range(decision.selected)
      OBVIOUS
    <3>1. 1 \in DOMAIN decision.selected
      BY <2>4
    <3> QED
      BY <3>1 DEF Range
  <2>6. Tools # {}
    BY DEF SelectionConfigured
  <2> HIDE DEF heuristic
  <2>7. \/ decision.by = "nobody" /\ selection.defs = Tools
        \/ /\ decision.by # "nobody" /\ decision.selected = <<>> /\ decision.confidence >= Threshold
           /\ selection.defs = {}
        \/ /\ decision.by # "nobody"
           /\ selection.defs = IF decision.selected = <<>> THEN Tools ELSE Range(decision.selected)
    BY DEF SelectionFits, OutcomeFits, Selected
  <2>8. selection.defs = {} => decision.by # "nobody" /\ decision.confidence >= Threshold
    BY <2>5, <2>6, <2>7
  <2>9. decision.by \in {"heuristic", "nobody"} => Range(heuristic) \subseteq selection.defs
    BY <2>2, <2>3, <2>4, <2>7
  <2> QED
    BY <2>8, <2>9 DEF heuristic
<1>2. SelectionFits => ForcedIsSure
  <2> SUFFICES ASSUME SelectionFits, Selected, selection.force, decision.by # "router" PROVE
        /\ decision.confidence >= Threshold
             \/ (config.method = "intent_classifier" /\ decision.by = "heuristic")
        /\ \E t \in Tools : selection.defs = {t} /\ metadata[t].sideEffect = "write"
    BY DEF ForcedIsSure
  <2>1. /\ decision.force /\ decision.selected \in Seq(Tools)
        /\ selection.defs = IF decision.selected = <<>> THEN Tools ELSE Range(decision.selected)
    BY DEF SelectionFits, DecisionFits, OutcomeFits, Selected
  <2>2. /\ Len(decision.selected) = 1 /\ metadata[decision.selected[1]].sideEffect = "write"
        /\ decision.confidence >= Threshold
             \/ (config.method = "intent_classifier" /\ decision.by = "heuristic")
    BY <2>1 DEF SelectionFits, DecisionFits
  <2>3. DOMAIN decision.selected = {1} /\ decision.selected[1] \in Tools /\ decision.selected # <<>>
    BY <2>1, <2>2
  <2>4. selection.defs = {decision.selected[1]}
    BY <2>1, <2>3 DEF Range
  <2> QED
    BY <2>2, <2>3, <2>4
<1>3. SelectionFits => NoConflictsShown
  BY DEF SelectionFits, DecisionFits, NoConflictsShown, NoneRuledOut
<1> QED
  BY <1>1, <1>2, <1>3, SelectionsAreKept, PTL

-----------------------------------------------------------------------------
(* Which tool a name means *)

NamesSpec == NamesInit /\ [][NamesNext]_nameVars

McpNames == UNION {NamesOf(t) : t \in McpTools}
BindingRecord == [bound : UNION {[names -> McpTools] : names \in SUBSET McpNames}, ambiguous : SUBSET McpNames]

\* Names that some tools, the registry's left out, lay claim to; and bindings that give
\* a name to who alone claims it.
ClaimsOf(S) == {c \in S \X McpNames : c[2] \in NamesOf(c[1]) \ RegisteredTools}
ClaimsFit(b, claims) ==
  /\ b \in BindingRecord
  /\ claims \subseteq ClaimsOf(McpTools)
  /\ \A n \in DOMAIN b.bound :
       <<b.bound[n], n>> \in claims /\ \A t \in McpTools : <<t, n>> \in claims => t = b.bound[n]
  /\ \A t \in McpTools, n \in McpNames : <<t, n>> \in claims => n \in DOMAIN b.bound \/ n \in b.ambiguous
  /\ \A n \in b.ambiguous :
       n \notin DOMAIN b.bound /\ \E t, u \in McpTools : t # u /\ <<t, n>> \in claims /\ <<u, n>> \in claims

\* One more claim to a name.
Claiming(claims, t, n) == IF n \in RegisteredTools THEN claims ELSE claims \cup {<<t, n>>}

\* Parts of a record of bindings.
LEMMA BindingParts ==
  ASSUME NEW b \in BindingRecord
  PROVE  /\ b = [bound |-> b.bound, ambiguous |-> b.ambiguous]
         /\ DOMAIN b.bound \subseteq McpNames /\ b.ambiguous \subseteq McpNames
         /\ b.bound = [n \in DOMAIN b.bound |-> b.bound[n]]
         /\ \A n \in DOMAIN b.bound : b.bound[n] \in McpTools
<1>1. PICK names \in SUBSET McpNames : b.bound \in [names -> McpTools]
  BY DEF BindingRecord
<1> QED
  BY <1>1 DEF BindingRecord

OwnBound(b, n, t) == [b EXCEPT !.bound = Bound(@, n, t)]

\* A name is bound, whatever it was bound to.
LEMMA NameIsBound ==
  ASSUME NEW b \in BindingRecord, NEW t \in McpTools, NEW name \in McpNames, NEW c, c = OwnBound(b, name, t)
  PROVE  /\ c \in BindingRecord /\ c.ambiguous = b.ambiguous
         /\ DOMAIN c.bound = DOMAIN b.bound \cup {name} /\ c.bound[name] = t
         /\ \A n \in DOMAIN b.bound \ {name} : c.bound[n] = b.bound[n]
<1> DEFINE f == Bound(b.bound, name, t)
<1>1. c = [bound |-> f, ambiguous |-> b.ambiguous]
  <2>1. b = [bound |-> b.bound, ambiguous |-> b.ambiguous] /\ c = [b EXCEPT !.bound = f]
    BY BindingParts DEF OwnBound
  <2> HIDE DEF f
  <2> QED
    BY ONLY <2>1
<1>2. f = [n \in DOMAIN b.bound \cup {name} |-> IF n = name THEN t ELSE b.bound[n]]
  BY DEF Bound
<1>3. f \in [DOMAIN b.bound \cup {name} -> McpTools]
  BY <1>2, BindingParts
<1>4. DOMAIN b.bound \cup {name} \in SUBSET McpNames
  BY BindingParts
<1>5. c \in BindingRecord
  <2> HIDE DEF f
  <2> QED
    BY <1>1, <1>3, <1>4, BindingParts DEF BindingRecord
<1> QED
  BY <1>1, <1>2, <1>5

\* Nobody else claims it.
LEMMA OwnNameFits ==
  ASSUME NamesConfigured, NEW b, NEW claims, ClaimsFit(b, claims), NEW t \in McpTools,
         NEW c, c = OwnBound(b, t.canonical, t)
  PROVE  ClaimsFit(c, claims \cup {<<t, t.canonical>>})
<1> DEFINE own == t.canonical
<1>1. b \in BindingRecord
  BY DEF ClaimsFit
<1>2. own \in McpNames /\ own \in NamesOf(t) /\ own \notin RegisteredTools
  BY DEF McpNames, NamesOf, NamesConfigured
<1>3. /\ c \in BindingRecord /\ c.ambiguous = b.ambiguous
      /\ DOMAIN c.bound = DOMAIN b.bound \cup {own} /\ c.bound[own] = t
      /\ \A n \in DOMAIN b.bound \ {own} : c.bound[n] = b.bound[n]
  BY <1>1, <1>2, NameIsBound
<1>4. <<t, own>> \in ClaimsOf(McpTools)
  BY <1>2 DEF ClaimsOf
<1>5. \A u \in McpTools : <<u, own>> \in claims => u = t
  <2>1. ASSUME NEW u \in McpTools, <<u, own>> \in claims PROVE u = t
    <3>1. own \in NamesOf(u)
      BY <2>1 DEF ClaimsFit, ClaimsOf
    <3> QED
      BY <3>1 DEF NamesConfigured
  <2> QED
    BY <2>1
<1>6. own \notin b.ambiguous
  BY <1>5 DEF ClaimsFit
<1> HIDE DEF own
<1>7. ASSUME NEW n \in DOMAIN c.bound
      PROVE  /\ <<c.bound[n], n>> \in claims \cup {<<t, own>>}
             /\ \A u \in McpTools : <<u, n>> \in claims \cup {<<t, own>>} => u = c.bound[n]
  <2>1. CASE n = own
    BY <1>3, <1>5, <2>1
  <2>2. CASE n # own
    BY <1>3, <1>7, <2>2 DEF ClaimsFit
  <2> QED
    BY <2>1, <2>2
<1>8. \A u \in McpTools, n \in McpNames :
        <<u, n>> \in claims \cup {<<t, own>>} => n \in DOMAIN c.bound \/ n \in c.ambiguous
  BY <1>3 DEF ClaimsFit
<1>9. \A n \in c.ambiguous :
        /\ n \notin DOMAIN c.bound
        /\ \E v, u \in McpTools : v # u /\ <<v, n>> \in claims \cup {<<t, own>>} /\ <<u, n>> \in claims \cup {<<t, own>>}
  BY <1>3, <1>6 DEF ClaimsFit
<1>10. claims \cup {<<t, own>>} \subseteq ClaimsOf(McpTools)
  BY <1>4 DEF ClaimsFit
<1> QED
  BY <1>3, <1>7, <1>8, <1>9, <1>10 DEF ClaimsFit, own

\* A name that is no longer bound leaves the record one.
LEMMA NameIsFreed ==
  ASSUME NEW b \in BindingRecord, NEW name \in McpNames, NEW c,
         c = [bound |-> [n \in DOMAIN b.bound \ {name} |-> b.bound[n]], ambiguous |-> b.ambiguous \cup {name}]
  PROVE  /\ c \in BindingRecord /\ c.ambiguous = b.ambiguous \cup {name}
         /\ DOMAIN c.bound = DOMAIN b.bound \ {name}
         /\ \A n \in DOMAIN c.bound : c.bound[n] = b.bound[n]
<1> DEFINE f == [n \in DOMAIN b.bound \ {name} |-> b.bound[n]]
<1>1. f \in [DOMAIN b.bound \ {name} -> McpTools] /\ DOMAIN b.bound \ {name} \in SUBSET McpNames
  BY BindingParts
<1>2. b.ambiguous \cup {name} \in SUBSET McpNames
  BY BindingParts
<1>3. DOMAIN f = DOMAIN b.bound \ {name} /\ \A n \in DOMAIN f : f[n] = b.bound[n]
  OBVIOUS
<1>4. c = [bound |-> f, ambiguous |-> b.ambiguous \cup {name}]
  OBVIOUS
<1> HIDE DEF f
<1>5. c \in BindingRecord
  BY <1>1, <1>2, <1>4 DEF BindingRecord
<1> QED
  BY <1>3, <1>4, <1>5

\* Names with two claims are nobody's, and those with one its claimant's, if a tool's
\* derived name is added (addMCPBindingAlias).
LEMMA AliasFits ==
  ASSUME NamesConfigured, NEW b, NEW claims, ClaimsFit(b, claims), NEW t \in McpTools,
         <<t, t.canonical>> \in claims, NEW alias \in NamesOf(t), NEW c, c = AddMCPBindingAlias(b, alias, t)
  PROVE  ClaimsFit(c, Claiming(claims, t, alias))
<1> DEFINE more == claims \cup {<<t, alias>>}
<1>1. b \in BindingRecord /\ alias \in McpNames
  BY DEF ClaimsFit, McpNames
<1>2. CASE alias \in RegisteredTools
  <2>1. c = b /\ Claiming(claims, t, alias) = claims
    BY <1>2 DEF AddMCPBindingAlias, Claiming
  <2> QED
    BY <2>1
<1> DEFINE nothingNew == <<t, alias>> \in claims /\ c = b
<1>3. CASE nothingNew
  <2>1. Claiming(claims, t, alias) = claims
    BY <1>3 DEF Claiming
  <2> QED
    BY <1>3, <2>1
<1>4. CASE alias \notin RegisteredTools /\ ~ nothingNew
  <2>1. Claiming(claims, t, alias) = more
    BY <1>4 DEF Claiming
  <2>2. alias # t.canonical
    <3> SUFFICES ASSUME alias = t.canonical PROVE FALSE
      OBVIOUS
    <3>1. c = b
      BY DEF AddMCPBindingAlias
    <3> QED
      BY <1>4, <3>1
  <2>3. <<t, alias>> \in ClaimsOf(McpTools)
    BY <1>1, <1>4 DEF ClaimsOf
  <2>4. more \subseteq ClaimsOf(McpTools)
    BY <2>3 DEF ClaimsFit
  <2>5. CASE alias \in b.ambiguous
    <3>1. c = b
      BY <2>5 DEF AddMCPBindingAlias
    <3>2. \A n \in DOMAIN b.bound : n # alias
      BY <2>5 DEF ClaimsFit
    <3>3. ClaimsFit(b, more)
      <4>1. \A n \in DOMAIN b.bound : <<b.bound[n], n>> \in more /\ \A u \in McpTools : <<u, n>> \in more => u = b.bound[n]
        BY <3>2 DEF ClaimsFit
      <4>2. \A u \in McpTools, n \in McpNames : <<u, n>> \in more => n \in DOMAIN b.bound \/ n \in b.ambiguous
        BY <2>5 DEF ClaimsFit
      <4>3. \A n \in b.ambiguous :
              n \notin DOMAIN b.bound /\ \E v, u \in McpTools : v # u /\ <<v, n>> \in more /\ <<u, n>> \in more
        BY DEF ClaimsFit
      <4> HIDE DEF more
      <4> QED
        BY <1>1, <2>4, <4>1, <4>2, <4>3 DEF ClaimsFit
    <3> QED
      BY <2>1, <3>1, <3>3
  <2>6. CASE alias \notin b.ambiguous /\ alias \notin DOMAIN b.bound
    <3>1. c = OwnBound(b, alias, t)
      BY <1>4, <2>2, <2>6 DEF AddMCPBindingAlias, OwnBound
    <3>2. /\ c \in BindingRecord /\ c.ambiguous = b.ambiguous
          /\ DOMAIN c.bound = DOMAIN b.bound \cup {alias} /\ c.bound[alias] = t
          /\ \A n \in DOMAIN b.bound \ {alias} : c.bound[n] = b.bound[n]
      BY <1>1, <3>1, NameIsBound
    <3>3. \A u \in McpTools : <<u, alias>> \notin claims
      BY <1>1, <2>6 DEF ClaimsFit
    <3>4. \A n \in DOMAIN c.bound : <<c.bound[n], n>> \in more /\ \A u \in McpTools : <<u, n>> \in more => u = c.bound[n]
      <4>1. ASSUME NEW n \in DOMAIN c.bound, n = alias
            PROVE  <<c.bound[n], n>> \in more /\ \A u \in McpTools : <<u, n>> \in more => u = c.bound[n]
        BY <3>2, <3>3, <4>1
      <4>2. ASSUME NEW n \in DOMAIN c.bound, n # alias
            PROVE  <<c.bound[n], n>> \in more /\ \A u \in McpTools : <<u, n>> \in more => u = c.bound[n]
        <5>1. n \in DOMAIN b.bound /\ c.bound[n] = b.bound[n]
          BY <3>2, <4>2
        <5> QED
          BY <4>2, <5>1 DEF ClaimsFit
      <4> QED
        BY <4>1, <4>2
    <3>5. \A u \in McpTools, n \in McpNames : <<u, n>> \in more => n \in DOMAIN c.bound \/ n \in c.ambiguous
      BY <3>2 DEF ClaimsFit
    <3>6. \A n \in c.ambiguous :
            n \notin DOMAIN c.bound /\ \E v, u \in McpTools : v # u /\ <<v, n>> \in more /\ <<u, n>> \in more
      BY <2>6, <3>2 DEF ClaimsFit
    <3> HIDE DEF more
    <3> QED
      BY <2>1, <2>4, <3>2, <3>4, <3>5, <3>6 DEF ClaimsFit
  <2>7. CASE alias \in DOMAIN b.bound /\ b.bound[alias] # t
    <3>1. alias \notin b.ambiguous
      BY <2>7 DEF ClaimsFit
    <3>2. c = [bound |-> [n \in DOMAIN b.bound \ {alias} |-> b.bound[n]], ambiguous |-> b.ambiguous \cup {alias}]
      BY <1>4, <2>2, <2>7, <3>1 DEF AddMCPBindingAlias
    <3>3. /\ c \in BindingRecord /\ c.ambiguous = b.ambiguous \cup {alias}
          /\ DOMAIN c.bound = DOMAIN b.bound \ {alias}
          /\ \A n \in DOMAIN c.bound : c.bound[n] = b.bound[n]
      BY <1>1, <3>2, NameIsFreed
    <3>4. b.bound[alias] \in McpTools /\ <<b.bound[alias], alias>> \in claims
      BY <1>1, <2>7, BindingParts DEF ClaimsFit
    <3>5. \A n \in DOMAIN c.bound : <<c.bound[n], n>> \in more /\ \A u \in McpTools : <<u, n>> \in more => u = c.bound[n]
      BY <3>3 DEF ClaimsFit
    <3>6. \A u \in McpTools, n \in McpNames : <<u, n>> \in more => n \in DOMAIN c.bound \/ n \in c.ambiguous
      BY <3>3 DEF ClaimsFit
    <3>7. \A n \in c.ambiguous :
            n \notin DOMAIN c.bound /\ \E v, u \in McpTools : v # u /\ <<v, n>> \in more /\ <<u, n>> \in more
      BY <2>7, <3>3, <3>4 DEF ClaimsFit
    <3> HIDE DEF more
    <3> QED
      BY <2>1, <2>4, <3>3, <3>5, <3>6, <3>7 DEF ClaimsFit
  <2>8. CASE alias \in DOMAIN b.bound /\ b.bound[alias] = t
    <3>1. c = b
      BY <2>8 DEF AddMCPBindingAlias
    <3>2. <<t, alias>> \in claims
      BY <2>8 DEF ClaimsFit
    <3> QED
      BY <1>4, <3>1, <3>2
  <2> QED
    BY <2>5, <2>6, <2>7, <2>8
<1> QED
  BY <1>2, <1>3, <1>4

\* A tool's three names are claimed together.
LEMMA BindFits ==
  ASSUME NamesConfigured, NEW b, NEW claims, ClaimsFit(b, claims), NEW t \in McpTools
  PROVE  ClaimsFit(Bind(b, t), claims \cup ClaimsOf({t}))
<1> DEFINE own == OwnBound(b, t.canonical, t)
<1> DEFINE c1 == claims \cup {<<t, t.canonical>>}
<1> DEFINE aliased == AddMCPBindingAlias(own, t.alias, t)
<1> DEFINE c2 == Claiming(c1, t, t.alias)
<1> DEFINE c3 == Claiming(c2, t, t.readable)
<1>1. Bind(b, t) = AddMCPBindingAlias(aliased, t.readable, t)
  BY DEF Bind, OwnBound
<1>2. ClaimsFit(own, c1)
  BY OwnNameFits
<1>3. t.alias \in NamesOf(t) /\ t.readable \in NamesOf(t)
  BY DEF NamesOf
<1>4. <<t, t.canonical>> \in c1 /\ <<t, t.canonical>> \in c2
  BY DEF Claiming
<1>5. c3 = claims \cup ClaimsOf({t})
  <2>1. t.canonical \notin RegisteredTools
    BY DEF NamesConfigured
  <2>2. ClaimsOf({t}) = {<<t, n>> : n \in NamesOf(t) \ RegisteredTools}
    BY DEF ClaimsOf, McpNames
  <2> QED
    BY <2>1, <2>2 DEF Claiming, NamesOf
<1> HIDE DEF own, c1, c2, c3, aliased
<1>6. ClaimsFit(aliased, c2)
  BY <1>2, <1>3, <1>4, AliasFits DEF aliased, c2
<1>7. ClaimsFit(Bind(b, t), c3)
  BY <1>1, <1>3, <1>4, <1>6, AliasFits DEF c3
<1> QED
  BY <1>5, <1>7

\* What is bound is a record, whatever it was before.
LEMMA BindIsRecord ==
  ASSUME NEW b \in BindingRecord, NEW t \in McpTools
  PROVE  Bind(b, t) \in BindingRecord
<1>1. t.canonical \in McpNames /\ t.alias \in McpNames /\ t.readable \in McpNames
  BY DEF McpNames, NamesOf
<1>2. ASSUME NEW d \in BindingRecord, NEW alias \in McpNames
      PROVE  AddMCPBindingAlias(d, alias, t) \in BindingRecord
  <2>1. OwnBound(d, alias, t) \in BindingRecord
    BY <1>2, NameIsBound
  <2>2. [bound |-> [n \in DOMAIN d.bound \ {alias} |-> d.bound[n]], ambiguous |-> d.ambiguous \cup {alias}] \in BindingRecord
    BY <1>2, NameIsFreed
  <2> QED
    BY <2>1, <2>2 DEF AddMCPBindingAlias, OwnBound
<1>3. OwnBound(b, t.canonical, t) \in BindingRecord
  BY <1>1, NameIsBound
<1> QED
  BY <1>1, <1>2, <1>3 DEF Bind, OwnBound

\* The tools of a server are bound one after the other.
LEMMA ListingFolds ==
  ASSUME NEW b \in BindingRecord, NEW listing \in Seq(McpTools)
  PROVE  \E own \in [SUBSET (1..Len(listing)) -> BindingRecord] :
           /\ own[{}] = b /\ FoldLeft(Bind, b, listing) = own[1..Len(listing)]
           /\ \A s \in SUBSET (1..Len(listing)) : s # {} => own[s] = Bind(own[s \ {Max(s)}], listing[Max(s)])
<1> DEFINE n == Len(listing)
<1> DEFINE S == SUBSET (1..n)
<1> DEFINE V == BindingRecord
<1> DEFINE step == [i \in 1..n |-> [d \in V |-> Bind(d, listing[i])]]
<1> DEFINE folds(g) == g = [s \in S |-> IF s = {} THEN b ELSE Bind(g[s \ {Max(s)}], listing[Max(s)])]
<1> DEFINE own == CHOOSE g : folds(g)
<1>1. n \in Nat /\ b \in V /\ \A i \in 1..n : listing[i] \in McpTools
  OBVIOUS
<1>2. FoldLeft(Bind, b, listing) = own[1..n]
  <2>1. DOMAIN listing = 1..n
    OBVIOUS
  <2> QED
    BY <2>1 DEF FoldLeft, MapThenFoldSet
<1>3. step \in [1..n -> [V -> V]]
  BY <1>1, BindIsRecord
<1>4. PICK g : Folds(g, n, V, b, step)
  <2> HIDE DEF V, step, n
  <2> QED
    BY <1>1, <1>3, FoldExists
<1>5. ASSUME NEW s \in S, s # {} PROVE Max(s) \in 1..n /\ s \ {Max(s)} \in S
  BY <1>1, <1>5, LargestIs
<1>6. \E f : folds(f)
  <2>1. ASSUME NEW s \in S, s # {} PROVE g[s] = Bind(g[s \ {Max(s)}], listing[Max(s)])
    <3>1. Max(s) \in 1..n /\ g[s \ {Max(s)}] \in V
      BY <1>4, <1>5, <2>1 DEF Folds
    <3> HIDE DEF V
    <3> QED
      BY <1>4, <2>1, <3>1 DEF Folds
  <2> HIDE DEF V, step
  <2>2. folds(g)
    BY <1>4, <2>1 DEF Folds
  <2> QED
    BY <2>2
<1>7. folds(own)
  BY <1>6
<1> HIDE DEF own, V
<1> DEFINE G == {s \in S : own[s] \in V}
<1>8. {} \in G
  BY <1>1, <1>7
<1>9. ASSUME NEW s \in S, s # {}, s \ {Max(s)} \in G PROVE s \in G
  BY <1>1, <1>5, <1>7, <1>9, BindIsRecord DEF V
<1> HIDE DEF G
<1>10. S \subseteq G
  BY <1>1, <1>8, <1>9, PieceByPiece
<1>11. own \in [S -> V]
  <2>1. \A s \in S : own[s] \in V
    BY <1>10 DEF G
  <2>2. own = [s \in S |-> own[s]]
    BY <1>7
  <2> QED
    BY <2>1, <2>2
<1>12. own[{}] = b /\ \A s \in S : s # {} => own[s] = Bind(own[s \ {Max(s)}], listing[Max(s)])
  BY <1>7
<1> QED
  BY <1>2, <1>11, <1>12 DEF V

\* What has been bound of a listing is a record of bindings.
LEMMA ListingIsRecord ==
  ASSUME NEW b \in BindingRecord, NEW listing \in Seq(McpTools)
  PROVE  FoldLeft(Bind, b, listing) \in BindingRecord
<1> DEFINE n == Len(listing)
<1>1. PICK own \in [SUBSET (1..n) -> BindingRecord] : FoldLeft(Bind, b, listing) = own[1..n]
  <2> DEFINE F(own) == /\ own[{}] = b /\ FoldLeft(Bind, b, listing) = own[1..n]
                       /\ \A s \in SUBSET (1..n) : s # {} => own[s] = Bind(own[s \ {Max(s)}], listing[Max(s)])
  <2>1. \E own \in [SUBSET (1..n) -> BindingRecord] : F(own)
    BY ONLY b \in BindingRecord, listing \in Seq(McpTools), ListingFolds
  <2>2. \A own : F(own) => FoldLeft(Bind, b, listing) = own[1..n]
    OBVIOUS
  <2> HIDE DEF F
  <2> QED
    BY <2>1, <2>2
<1>2. own[1..n] \in BindingRecord
  OBVIOUS
<1> QED
  BY <1>1, <1>2

\* All of them, then.
LEMMA ListingFits ==
  ASSUME NamesConfigured, NEW b, NEW claims, ClaimsFit(b, claims), NEW listing \in Seq(McpTools)
  PROVE  ClaimsFit(FoldLeft(Bind, b, listing), claims \cup ClaimsOf(Range(listing)))
<1> DEFINE n == Len(listing)
<1> DEFINE S == SUBSET (1..n)
<1> DEFINE listed(s) == {listing[i] : i \in s}
<1>1. n \in Nat /\ b \in BindingRecord /\ DOMAIN listing = 1..n
  BY DEF ClaimsFit
<1>2. PICK own \in [S -> BindingRecord] :
        /\ own[{}] = b /\ FoldLeft(Bind, b, listing) = own[1..n]
        /\ \A s \in S : s # {} => own[s] = Bind(own[s \ {Max(s)}], listing[Max(s)])
  BY <1>1, ListingFolds
<1> DEFINE G == {s \in S : ClaimsFit(own[s], claims \cup ClaimsOf(listed(s)))}
<1>3. {} \in G
  <2>1. claims \cup ClaimsOf(listed({})) = claims
    BY DEF ClaimsOf
  <2> QED
    BY <1>2, <2>1
<1>4. ASSUME NEW s \in S, s # {}, s \ {Max(s)} \in G PROVE s \in G
  <2> DEFINE before == s \ {Max(s)}
  <2> DEFINE t == listing[Max(s)]
  <2>1. Max(s) \in s /\ t \in McpTools
    <3>1. Max(s) \in s
      BY <1>1, <1>4, LargestIs
    <3>2. \A i \in s : listing[i] \in McpTools
      BY <1>1
    <3> QED
      BY <3>1, <3>2
  <2>2. own[s] = Bind(own[before], t)
    BY <1>2, <1>4
  <2>3. ClaimsFit(own[s], claims \cup ClaimsOf(listed(before)) \cup ClaimsOf({t}))
    <3> DEFINE so == claims \cup ClaimsOf(listed(before))
    <3>1. ClaimsFit(own[before], so)
      BY <1>4
    <3> HIDE DEF so, before, listed, t, G, S, n
    <3>2. ClaimsFit(Bind(own[before], t), so \cup ClaimsOf({t}))
      BY <2>1, <3>1, BindFits
    <3> QED
      BY <2>2, <3>2 DEF so
  <2>4. listed(s) = listed(before) \cup {t}
    BY <2>1
  <2> HIDE DEF t
  <2>5. ClaimsOf(listed(before)) \cup ClaimsOf({t}) = ClaimsOf(listed(s))
    <3> HIDE DEF listed
    <3> QED
      BY <2>4 DEF ClaimsOf
  <2> HIDE DEF listed, before
  <2> QED
    BY <2>3, <2>5
<1>5. 1..n \in G
  <2> HIDE DEF G
  <2> QED
    BY <1>1, <1>3, <1>4, PieceByPiece
<1>6. listed(1..n) = Range(listing)
  BY <1>1 DEF Range
<1> QED
  BY <1>2, <1>5, <1>6

\* A set of tools is listed as a sequence of them all.
LEMMA ListingIs ==
  ASSUME NamesConfigured, NEW S \in SUBSET McpTools
  PROVE  SetToSeq(S) \in Seq(McpTools) /\ Range(SetToSeq(S)) = S
<1> DEFINE k == Cardinality(S)
<1>1. IsFiniteSet(S) /\ k \in Nat /\ ExistsBijection(1..k, S)
  BY FS_Subset, FS_CardinalityType DEF NamesConfigured
<1>2. \E f \in [1..k -> S] : IsInjective(f)
  BY <1>1 DEF ExistsBijection, Bijection, Injection, IsInjective
<1>3. SetToSeq(S) \in [1..k -> S] /\ IsInjective(SetToSeq(S))
  BY <1>2 DEF SetToSeq
<1>4. IsFiniteSet(1..k) /\ Cardinality(1..k) = k
  BY <1>1, FS_Interval
<1>5. SetToSeq(S) \in Injection(1..k, S)
  BY <1>3 DEF Injection, IsInjective
<1>6. SetToSeq(S) \in Surjection(1..k, S)
  BY <1>1, <1>4, <1>5, FS_Injection
<1>7. Range(SetToSeq(S)) = S
  BY <1>3, <1>6 DEF Surjection, Range
<1>8. SetToSeq(S) \in Seq(McpTools)
  BY <1>1, <1>3
<1> QED
  BY <1>7, <1>8

\* Tools of some servers.
ListedBy(names) == {t \in McpTools : t.server \in names}

\* Names are bound to who alone claims them, of the tools of the servers that answered.
LEMMA BindingsFit ==
  ASSUME NamesConfigured, NEW servers, servers \subseteq Range(Servers)
  PROVE  ClaimsFit(McpToolBindings(servers), ClaimsOf(ListedBy(servers)))
<1> DEFINE n == Len(Servers)
<1> DEFINE S == SUBSET (1..n)
<1> DEFINE V == BindingRecord
<1> DEFINE next(b, s) == IF s \in servers THEN FoldLeft(Bind, b, SetToSeq({t \in McpTools : t.server = s})) ELSE b
<1> DEFINE step == [i \in 1..n |-> [b \in V |-> next(b, Servers[i])]]
<1> DEFINE folds(g) == g = [s \in S |-> IF s = {} THEN NoBindings ELSE next(g[s \ {Max(s)}], Servers[Max(s)])]
<1> DEFINE own == CHOOSE g : folds(g)
<1> DEFINE upTo(s) == {Servers[i] : i \in s} \cap servers
<1>1. n \in Nat /\ DOMAIN Servers = 1..n
  BY DEF NamesConfigured
<1>2. ClaimsFit(NoBindings, {}) /\ NoBindings \in V
  <2>1. <<>> \in [{} -> McpTools] /\ {} \in SUBSET McpNames
    OBVIOUS
  <2>2. NoBindings \in V
    BY <2>1 DEF NoBindings, BindingRecord
  <2>3. DOMAIN NoBindings.bound = {} /\ NoBindings.ambiguous = {}
    BY DEF NoBindings
  <2> QED
    BY <2>2, <2>3 DEF ClaimsFit
<1>3. McpToolBindings(servers) = own[1..n]
  BY <1>1 DEF McpToolBindings, FoldLeft, MapThenFoldSet
<1>4. ASSUME NEW s PROVE SetToSeq(ListedBy({s})) \in Seq(McpTools) /\ Range(SetToSeq(ListedBy({s}))) = ListedBy({s})
  BY ListingIs DEF ListedBy
<1>5. ASSUME NEW s PROVE ListedBy({s}) = {t \in McpTools : t.server = s}
  BY DEF ListedBy
<1>6. ASSUME NEW b \in V, NEW s PROVE next(b, s) \in V
  <2> DEFINE listing == SetToSeq(ListedBy({s}))
  <2>1. listing \in Seq(McpTools)
    BY <1>4
  <2> HIDE DEF listing
  <2>2. FoldLeft(Bind, b, listing) \in BindingRecord
    BY ONLY <2>1, b \in BindingRecord, ListingIsRecord
  <2> QED
    BY <1>5, <2>2 DEF listing
<1>7. ASSUME NEW b, NEW claims, ClaimsFit(b, claims), NEW s
      PROVE  ClaimsFit(next(b, s), claims \cup ClaimsOf(IF s \in servers THEN ListedBy({s}) ELSE {}))
  <2>1. CASE s \in servers
    <3>1. ClaimsFit(FoldLeft(Bind, b, SetToSeq(ListedBy({s}))), claims \cup ClaimsOf(ListedBy({s})))
      BY <1>4, <1>7, ListingFits
    <3> QED
      BY <1>5, <2>1, <3>1
  <2>2. CASE s \notin servers
    <3>1. ClaimsOf({}) = {}
      BY DEF ClaimsOf
    <3> QED
      BY <1>7, <2>2, <3>1
  <2> QED
    BY <2>1, <2>2
<1> HIDE DEF next
<1>8. step \in [1..n -> [V -> V]]
  BY <1>6
<1>9. PICK g : Folds(g, n, V, NoBindings, step)
  <2> HIDE DEF V, step, n
  <2> QED
    BY <1>1, <1>2, <1>8, FoldExists
<1>10. ASSUME NEW s \in S, s # {} PROVE Max(s) \in 1..n /\ s \ {Max(s)} \in S /\ Max(s) \in s
  BY <1>1, <1>10, LargestIs
<1>11. \E f : folds(f)
  <2>1. ASSUME NEW s \in S, s # {} PROVE g[s] = next(g[s \ {Max(s)}], Servers[Max(s)])
    <3>1. Max(s) \in 1..n /\ g[s \ {Max(s)}] \in V
      BY <1>9, <1>10, <2>1 DEF Folds
    <3> HIDE DEF V
    <3> QED
      BY <1>9, <2>1, <3>1 DEF Folds
  <2> HIDE DEF V, step
  <2>2. folds(g)
    BY <1>9, <2>1 DEF Folds
  <2> QED
    BY <2>2
<1>12. folds(own)
  BY <1>11
<1> HIDE DEF own
<1> DEFINE G == {s \in S : ClaimsFit(own[s], ClaimsOf(ListedBy(upTo(s))))}
<1>13. {} \in G
  <2>1. ClaimsOf(ListedBy(upTo({}))) = {}
    BY DEF ClaimsOf, ListedBy
  <2> QED
    BY <1>2, <1>12, <2>1
<1>14. ASSUME NEW s \in S, s # {}, s \ {Max(s)} \in G PROVE s \in G
  <2> DEFINE before == s \ {Max(s)}
  <2> DEFINE last == Servers[Max(s)]
  <2> DEFINE added == IF last \in servers THEN ListedBy({last}) ELSE {}
  <2>1. own[s] = next(own[before], last)
    BY <1>12, <1>14
  <2>2. ClaimsFit(own[s], ClaimsOf(ListedBy(upTo(before))) \cup ClaimsOf(added))
    BY ZenonT(60), <1>7, <1>14, <2>1
  <2>3. upTo(s) = upTo(before) \cup ({last} \cap servers)
    BY <1>10, <1>14
  <2> HIDE DEF upTo, before, last
  <2>4. ListedBy(upTo(s)) = ListedBy(upTo(before)) \cup added
    BY <2>3 DEF ListedBy
  <2>5. ClaimsOf(ListedBy(upTo(before))) \cup ClaimsOf(added) = ClaimsOf(ListedBy(upTo(s)))
    <3> HIDE DEF added
    <3> QED
      BY <2>4 DEF ClaimsOf
  <2> QED
    BY <2>2, <2>5
<1>15. 1..n \in G
  <2> HIDE DEF G
  <2> QED
    BY <1>1, <1>13, <1>14, PieceByPiece
<1>16. upTo(1..n) = servers
  BY <1>1 DEF Range
<1> QED
  BY <1>3, <1>15, <1>16

\* What is bound of the tools that are listed: their own names, to them, and others
\* only to the one that has them.
LEMMA BindingsMean ==
  ASSUME NamesConfigured, NEW servers, servers \subseteq Range(Servers), NEW b, b = McpToolBindings(servers).bound
  PROVE  /\ \A n \in DOMAIN b :
              /\ b[n] \in ListedBy(servers) /\ n \in NamesOf(b[n]) \ RegisteredTools
              /\ \A t \in ListedBy(servers) : n \in NamesOf(t) => t = b[n]
         /\ \A t \in ListedBy(servers) : t.canonical \in DOMAIN b /\ b[t.canonical] = t
<1> DEFINE up == ListedBy(servers)
<1> DEFINE claims == ClaimsOf(up)
<1> DEFINE ambiguous == McpToolBindings(servers).ambiguous
<1>1. /\ \A n \in DOMAIN b : <<b[n], n>> \in claims /\ \A t \in McpTools : <<t, n>> \in claims => t = b[n]
      /\ \A t \in McpTools, n \in McpNames : <<t, n>> \in claims => n \in DOMAIN b \/ n \in ambiguous
      /\ \A n \in ambiguous : \E t, u \in McpTools : t # u /\ <<t, n>> \in claims /\ <<u, n>> \in claims
  BY BindingsFit DEF ClaimsFit
<1>2. up \subseteq McpTools
  BY DEF ListedBy
<1>3. \A t, n : <<t, n>> \in claims <=> t \in up /\ n \in NamesOf(t) \ RegisteredTools
  <2>1. \A t, n : t \in up /\ n \in NamesOf(t) => n \in McpNames
    BY <1>2 DEF McpNames
  <2> HIDE DEF up
  <2> QED
    BY <2>1 DEF ClaimsOf
<1> HIDE DEF claims, ambiguous, up
<1>4. ASSUME NEW t \in up PROVE t.canonical \in DOMAIN b /\ b[t.canonical] = t
  <2>1. t \in McpTools /\ t.canonical \in NamesOf(t) /\ t.canonical \notin RegisteredTools /\ t.canonical \in McpNames
    BY <1>2 DEF NamesOf, NamesConfigured, McpNames
  <2>2. <<t, t.canonical>> \in claims
    BY <1>3, <2>1
  <2>3. \A u \in McpTools : <<u, t.canonical>> \in claims => u = t
    BY <1>3, <2>1 DEF NamesConfigured
  <2>4. t.canonical \notin ambiguous
    BY <1>1, <2>3
  <2> QED
    BY <1>1, <2>1, <2>2, <2>4
<1>5. ASSUME NEW n \in DOMAIN b
      PROVE  /\ b[n] \in up /\ n \in NamesOf(b[n]) \ RegisteredTools
             /\ \A t \in up : n \in NamesOf(t) => t = b[n]
  <2>1. b[n] \in up /\ n \in NamesOf(b[n]) \ RegisteredTools
    BY <1>1, <1>3
  <2>2. \A t \in up : n \in NamesOf(t) => <<t, n>> \in claims
    BY <1>3, <2>1
  <2> QED
    BY <1>1, <1>2, <2>1, <2>2
<1> QED
  BY <1>4, <1>5 DEF up

\* A tool that was offered under a name is of the registry and allowed, or a server's.
OfferedAs(p, tool) ==
  \E n :
    /\ ProviderName(n) = p
    /\ \/ n \in allowed /\ n \in RegisteredTools /\ tool = ToolOf(n)
       \/ \E t \in McpTools : n = t.canonical /\ tool = t

\* Servers are the configured ones; what is offered are tools under their names, and
\* what a call came to, if the model has picked one, is what was offered.
NamesFit ==
  /\ answering \subseteq Range(Servers) /\ allowed \subseteq RegisteredTools
  /\ \A p \in DOMAIN offered : OfferedAs(p, offered[p])
  /\ picked # "nothing" => picked \in DOMAIN offered
  /\ picked = "nothing" => resolved \in {Nothing, [kind |-> "error"]}
  /\ SameToolMeant

\* Definitions are of the registry, or of tools that are listed.
LEMMA VisibleAre ==
  ASSUME NEW n \in VisibleToolDefinitions(answering)
  PROVE  \/ n \in allowed /\ n \in RegisteredTools
         \/ \E t \in ListedBy(answering) : n = t.canonical
BY DEF VisibleToolDefinitions, ListedBy

\* What is offered is what its name means.
LEMMA OffersFit ==
  ASSUME NamesConfigured, NamesFit, NEW names, names \subseteq VisibleToolDefinitions(answering), NEW p \in {ProviderName(n) : n \in names}
  PROVE  LET n == AppliedToolAliases(names)[p]
             b == McpToolBindings(answering).bound
         IN OfferedAs(p, IF n \in DOMAIN b THEN b[n] ELSE ToolOf(n))
<1> DEFINE n == AppliedToolAliases(names)[p]
<1> DEFINE b == McpToolBindings(answering).bound
<1>1. n \in names /\ ProviderName(n) = p
  BY DEF AppliedToolAliases
<1> HIDE DEF n
<1>2. answering \subseteq Range(Servers)
  BY DEF NamesFit
<1>3. /\ \A m \in DOMAIN b : b[m] \in ListedBy(answering) /\ m \in NamesOf(b[m]) \ RegisteredTools
      /\ \A t \in ListedBy(answering) : t.canonical \in DOMAIN b /\ b[t.canonical] = t
  BY <1>2, BindingsMean
<1> HIDE DEF b
<1>4. CASE n \in allowed /\ n \in RegisteredTools
  <2>1. n \notin DOMAIN b
    BY <1>3, <1>4
  <2> QED
    BY <1>1, <1>4, <2>1 DEF OfferedAs, n, b
<1>5. CASE \E t \in ListedBy(answering) : n = t.canonical
  <2>1. PICK t \in ListedBy(answering) : n = t.canonical
    BY <1>5
  <2>2. n \in DOMAIN b /\ b[n] = t /\ t \in McpTools
    BY <1>3, <2>1 DEF ListedBy
  <2> QED
    BY <1>1, <2>1, <2>2 DEF OfferedAs, n, b
<1> QED
  BY <1>1, <1>4, <1>5, VisibleAre

\* A name that stands for another tool by now was configured to be the name of both.
LEMMA MeantTheSame ==
  ASSUME NamesConfigured, NamesFit, ExecuteCall, resolved' # [kind |-> "error"]
  PROVE  resolved' = offered[picked] \/ (offered[picked] \in McpTools /\ ConfiguredTwice(picked))
<1> DEFINE p == picked
<1> DEFINE names == VisibleToolDefinitions(answering)
<1> DEFINE b == McpToolBindings(answering).bound
<1> DEFINE m == OriginalName(p, names)
<1>1. /\ ~ AliasesConflict(names)
      /\ resolved' = IF m \in DOMAIN b THEN b[m] ELSE IF m \in allowed THEN ToolOf(m) ELSE [kind |-> "error"]
  BY DEF ExecuteCall
<1>2. answering \subseteq Range(Servers) /\ allowed \subseteq RegisteredTools /\ picked # "nothing"
  BY DEF NamesFit, ExecuteCall
<1>3. /\ \A k \in DOMAIN b : b[k] \in ListedBy(answering) /\ k \in NamesOf(b[k]) \ RegisteredTools
      /\ \A t \in ListedBy(answering) : t.canonical \in DOMAIN b /\ b[t.canonical] = t
  <2>1. NamesConfigured /\ answering \subseteq Range(Servers)
    BY <1>2
  <2> HIDE DEF names, m, p
  <2> QED
    BY ONLY <2>1, BindingsMean
<1>4. OfferedAs(p, offered[p])
  BY <1>2 DEF NamesFit
<1>5. PICK n : /\ ProviderName(n) = p
               /\ \/ n \in allowed /\ n \in RegisteredTools /\ offered[p] = ToolOf(n)
                  \/ \E t \in McpTools : n = t.canonical /\ offered[p] = t
  BY <1>4 DEF OfferedAs
<1>6. \/ m \in names /\ ProviderName(m) = p
      \/ m = p /\ \A k \in names : ProviderName(k) # p
  <2>1. CASE p \in {ProviderName(k) : k \in names}
    BY <2>1 DEF OriginalName, AppliedToolAliases
  <2>2. CASE p \notin {ProviderName(k) : k \in names}
    BY <2>2 DEF OriginalName
  <2> QED
    BY <2>1, <2>2
<1>7. \A j, k \in names : ProviderName(j) = ProviderName(k) => j = k
  BY <1>1 DEF AliasesConflict
<1>8. /\ \A k \in allowed : k \in RegisteredTools => k \in names
      /\ \A k \in names : (k \in allowed /\ k \in RegisteredTools) \/ \E t \in ListedBy(answering) : k = t.canonical
  BY VisibleAre DEF VisibleToolDefinitions
<1> HIDE DEF names, b, m
<1>9. CASE n \in allowed /\ n \in RegisteredTools /\ offered[p] = ToolOf(n)
  <2>1. m = n
    BY <1>5, <1>6, <1>7, <1>8, <1>9
  <2>2. m \notin DOMAIN b
    BY <1>3, <1>9, <2>1
  <2> QED
    BY <1>1, <1>9, <2>1, <2>2
<1>10. CASE \E t \in McpTools : n = t.canonical /\ offered[p] = t
  <2>1. PICK t \in McpTools : n = t.canonical /\ offered[p] = t
    BY <1>10
  <2>2. /\ \A u \in McpTools : u # t => n \notin NamesOf(u)
        /\ n \notin RegisteredTools /\ SafeName[n] = n
        /\ \A k \in RegisteredTools : SafeName[k] # n
    BY <2>1 DEF NamesConfigured
  <2>3. n \in NamesOf(t)
    BY <2>1 DEF NamesOf
  \* What the name means now is another tool, which has it as a name ...
  <2>4. \/ resolved' = t
        \/ \E u \in McpTools : u # t /\ p \in NamesOf(u)
        \/ \E u \in McpTools : u # t /\ u.canonical \in DOMAIN Configured /\ Configured[u.canonical] = p
        \/ \E k \in RegisteredTools : p \in {k, SafeName[k]} \/ (k \in DOMAIN Configured /\ Configured[k] = p)
    <3>1. CASE m \in names /\ ProviderName(m) = p
      <4>1. CASE m \in RegisteredTools
        BY <3>1, <4>1 DEF ProviderName
      <4>2. CASE m \notin RegisteredTools
        <5>1. PICK u \in ListedBy(answering) : m = u.canonical
          BY <1>8, <3>1, <4>2
        <5>2. u \in McpTools /\ resolved' = u /\ SafeName[m] = m /\ m \in NamesOf(u)
          BY <1>1, <1>3, <5>1 DEF ListedBy, NamesConfigured, NamesOf
        <5> QED
          BY <3>1, <5>1, <5>2 DEF ProviderName
      <4> QED
        BY <4>1, <4>2
    <3>2. CASE m = p /\ \A k \in names : ProviderName(k) # p
      <4>1. CASE m \in DOMAIN b
        <5>1. resolved' = b[m] /\ b[m] \in McpTools /\ m \in NamesOf(b[m])
          BY <1>1, <1>3, <4>1 DEF ListedBy
        <5> QED
          BY <3>2, <5>1
      <4>2. CASE m \notin DOMAIN b
        <5>1. m \in allowed
          BY <1>1, <4>2
        <5> QED
          BY <1>2, <3>2, <5>1
      <4> QED
        BY <4>1, <4>2
    <3> QED
      BY <1>6, <3>1, <3>2
  \* ... and either that name or the one it was offered under is configured.
  <2>5. CASE n \in DOMAIN Configured
    <3>1. Configured[n] = p
      BY <1>5, <2>5 DEF ProviderName
    <3>2. ASSUME NEW k \in DOMAIN Configured, Configured[k] = p PROVE k = n
      BY <2>5, <3>1, <3>2 DEF NamesConfigured
    <3>3. ASSUME NEW u \in McpTools, u # t PROVE u.canonical # n
      BY <2>2, <3>3 DEF NamesOf
    <3> QED
      BY <2>1, <2>2, <2>4, <2>5, <3>1, <3>2, <3>3 DEF ConfiguredTwice
  <2>6. CASE n \notin DOMAIN Configured
    <3>1. p = n
      BY <1>5, <2>2, <2>6 DEF ProviderName
    <3>2. ASSUME NEW k \in DOMAIN Configured, Configured[k] = p PROVE ConfiguredTwice(p)
      BY <2>1, <2>3, <2>6, <3>1, <3>2 DEF ConfiguredTwice
    <3> QED
      BY <2>1, <2>2, <2>4, <3>1, <3>2
  <2> QED
    BY <2>5, <2>6
<1> QED
  BY <1>5, <1>9, <1>10

\* Every step keeps what names mean.
LEMMA NamesStepKeeps ==
  ASSUME NamesConfigured, NamesFit, [NamesNext]_nameVars
  PROVE  NamesFit'
<1>1. CASE OfferTools
  <2>1. UNCHANGED <<answering, allowed, picked>> /\ offered = <<>>
    BY <1>1 DEF OfferTools
  <2>2. picked = "nothing"
    BY <2>1 DEF NamesFit
  <2>3. PICK names \in SUBSET VisibleToolDefinitions(answering) \ {{}} :
          IF AliasesConflict(names) THEN resolved' = [kind |-> "error"] /\ UNCHANGED offered
          ELSE /\ offered' = [p \in DOMAIN AppliedToolAliases(names) |->
                    LET n == AppliedToolAliases(names)[p]
                        b == McpToolBindings(answering).bound
                    IN IF n \in DOMAIN b THEN b[n] ELSE ToolOf(n)]
               /\ UNCHANGED resolved
    BY <1>1 DEF OfferTools
  <2>4. DOMAIN AppliedToolAliases(names) = {ProviderName(n) : n \in names}
    BY DEF AppliedToolAliases
  <2>6. ASSUME NEW p \in DOMAIN offered' PROVE OfferedAs(p, offered'[p])
    <3>1. CASE AliasesConflict(names)
      BY <2>3, <2>6, <3>1 DEF NamesFit
    <3>2. CASE ~ AliasesConflict(names)
      BY <2>3, <2>4, <2>6, <3>2, OffersFit
    <3> QED
      BY <3>1, <3>2
  <2>7. resolved' \in {Nothing, [kind |-> "error"]}
    BY <2>2, <2>3 DEF NamesFit
  <2> QED
    BY <2>1, <2>2, <2>6, <2>7 DEF NamesFit, SameToolMeant, OfferedAs
<1>2. CASE ModelPicks
  <2>1. UNCHANGED <<answering, allowed, offered, resolved>> /\ picked' \in DOMAIN offered /\ picked = "nothing"
    BY <1>2 DEF ModelPicks
  <2> QED
    BY <2>1 DEF NamesFit, SameToolMeant, OfferedAs
<1>3. ASSUME NEW i \in DOMAIN Servers, ServerTurns(Servers[i]) PROVE NamesFit'
  <2>1. UNCHANGED <<allowed, offered, picked, resolved>> /\ answering' \subseteq answering \cup {Servers[i]}
    BY <1>3 DEF ServerTurns
  <2>2. answering' \subseteq Range(Servers)
    <3>1. Servers[i] \in Range(Servers) /\ answering \subseteq Range(Servers)
      BY DEF NamesFit, Range
    <3> QED
      BY <2>1, <3>1
  <2> QED
    BY <2>1, <2>2 DEF NamesFit, SameToolMeant, OfferedAs
<1>4. CASE ExecuteCall
  <2>1. UNCHANGED <<answering, allowed, offered, picked>>
    BY <1>4 DEF ExecuteCall
  <2>2. SameToolMeant' /\ picked # "nothing"
    BY <1>4, <2>1, MeantTheSame DEF SameToolMeant, ExecuteCall, Nothing
  <2> QED
    BY <2>1, <2>2 DEF NamesFit, OfferedAs
<1>5. CASE UNCHANGED nameVars
  BY <1>5 DEF nameVars, NamesFit, SameToolMeant, OfferedAs
<1> QED
  BY <1>1, <1>2, <1>3, <1>4, <1>5 DEF NamesNext

\* An inductive invariant of names: what is offered are tools under their names, and a
\* call comes to what was offered.
THEOREM NamesAreKept == ASSUME NamesConfigured PROVE NamesSpec => []NamesFit
<1>1. NamesInit => NamesFit
  <2> SUFFICES ASSUME NamesInit PROVE NamesFit
    OBVIOUS
  <2>1. answering = Range(Servers)
    BY DEF NamesInit, Range
  <2>2. allowed \subseteq RegisteredTools /\ DOMAIN offered = {} /\ picked = "nothing" /\ resolved = Nothing
    BY DEF NamesInit
  <2> QED
    BY <2>1, <2>2 DEF NamesFit, SameToolMeant
<1>2. NamesFit /\ [NamesNext]_nameVars => NamesFit'
  BY NamesStepKeeps
<1> QED
  BY <1>1, <1>2, PTL DEF NamesSpec

\* The tool that is executed is the one that was offered under the name, however servers
\* come and go between the offer and the call, but for a name that was configured to be
\* that of two tools; and no alias is bound that two tools have (addMCPBindingAlias).
THEOREM NamesAreUnambiguous ==
  ASSUME NamesConfigured
  PROVE  NamesSpec => []SameToolMeant /\ []AliasesAreUnambiguous
<1>1. NamesFit => AliasesAreUnambiguous
  <2> SUFFICES ASSUME NamesFit PROVE AliasesAreUnambiguous
    OBVIOUS
  <2>1. answering \subseteq Range(Servers)
    BY DEF NamesFit
  <2> QED
    BY <2>1, BindingsMean DEF AliasesAreUnambiguous, ListedBy
<1>2. NamesFit => SameToolMeant
  BY SMTT(60) DEF NamesFit
<1> QED
  BY <1>1, <1>2, NamesAreKept, PTL

-----------------------------------------------------------------------------
(* The services together: a behaviour is one of a part, and has its properties *)

Plays(p) == part = p

\* The part that began goes on, and no other begins.
LEMMA PartStays == [Next]_allVars => \A p \in Parts : Plays(p) <=> Plays(p)'
BY DEF Next, Of, allVars, Plays

\* CallsBounded holds: a call that may not be repeated takes effect once up to deaths
\* in between and overtaken workers, and all calls stay within the version's budget
\* up to those that came while a batch was executed.
THEOREM CallsAreBounded == Spec => []CallsBounded
<1>1. Init /\ Plays("toolloop") => ToolInit
  BY SMTT(60) DEF Init, ToolloopBegins, Plays
<1>2. Plays("toolloop") /\ [Next]_allVars => [ToolNext]_toolVars
  BY DEF Next, Of, allVars, Plays
<1>3. LoopSpec => []EffectsOnce /\ []BudgetKept
  BY EffectsAreOnce, BudgetIsKept, ServicesAssumption
<1>4. /\ ~Plays("toolloop") => CallsBounded
      /\ EffectsOnce /\ BudgetKept => CallsBounded
  BY DEF CallsBounded, Plays
<1>5. [Next]_allVars => (Plays("toolloop") <=> Plays("toolloop")')
  BY PartStays DEF Parts
<1> QED
  BY <1>1, <1>2, <1>3, <1>4, <1>5, PTL DEF Spec, LoopSpec

\* AnswersArePaidFor holds: an answer the agent loop acts on is in the ledger.
THEOREM ChargesAreKept == Spec => []AnswersArePaidFor
<1>1. Init /\ Plays("chats") => ModelInit
  BY SMTT(60) DEF Init, ChatsBegins, Plays
<1>2. Plays("chats") /\ [Next]_allVars => [ModelNext]_modelVars
  BY DEF Next, Of, allVars, Plays
<1>3. ModelSpec => []AnswersAreCharged
  BY AnswersArePaid, ServicesAssumption
<1>4. /\ ~Plays("chats") => AnswersArePaidFor
      /\ AnswersAreCharged => AnswersArePaidFor
  BY DEF AnswersArePaidFor, Plays
<1>5. [Next]_allVars => (Plays("chats") <=> Plays("chats")')
  BY PartStays DEF Parts
<1> QED
  BY <1>1, <1>2, <1>3, <1>4, <1>5, PTL DEF Spec, ModelSpec

\* AnswersAreWhole holds: of a streamed answer nothing is lost but tool calls of an answer
\* with a skipped index, and of what tool servers are asked the answers, slots, rows and
\* counters are in order.
THEOREM AnswersComeWhole == Spec => []AnswersAreWhole
<1>1. /\ Init /\ Plays("stream") => StreamInit
      /\ Init /\ Plays("mcp") => MCPInit
  BY DEF Init, StreamBegins, McpBegins, Plays
<1>2. /\ Plays("stream") /\ [Next]_allVars => [StreamNext]_streamVars
      /\ Plays("mcp") /\ [Next]_allVars => [MCPNext]_mcpVars
  BY DEF Next, Of, allVars, Plays
<1>3. StreamSpec => []AnswerIsWhole
  BY StreamsAreWhole, ServicesAssumption
<1>4. MCPSpec => []AnswerIsOwn /\ []SlotsHold /\ []EffectsOfAttempts /\ []RecordsTell /\ []CountersTell /\ []WaitsForSilence
  BY AnswersAreOwn, ServerCallsAreCounted, ServicesAssumption
<1>5. /\ ~Plays("stream") /\ ~Plays("mcp") => AnswersAreWhole
      /\ Plays("stream") /\ AnswerIsWhole => AnswersAreWhole
      /\ Plays("mcp") /\ AnswerIsOwn /\ SlotsHold /\ EffectsOfAttempts /\ RecordsTell /\ CountersTell /\ WaitsForSilence =>
           AnswersAreWhole
  BY DEF AnswersAreWhole, Plays
<1>6. [Next]_allVars => /\ Plays("stream") <=> Plays("stream")'
                        /\ Plays("mcp") <=> Plays("mcp")'
  BY PartStays DEF Parts
<1> QED
  BY <1>1, <1>2, <1>3, <1>4, <1>5, <1>6, PTL DEF Spec, StreamSpec, MCPSpec

\* RulesEnforced holds: a decision is by an access rule that was in force within the life
\* of a cache entry, a policy's denial stops the run where it is recorded unless its rule
\* is one of the prompt's, and packs that do not differ decide alike.
THEOREM RulesAreEnforced == Spec => []RulesEnforced
<1>1. /\ Init /\ Plays("access") => AccessInit
      /\ Init /\ Plays("policies") => PoliciesInit
  BY DEF Init, AccessBegins, PoliciesBegins, Plays
<1>2. /\ Plays("access") /\ [Next]_allVars => [AccessNext]_accessVars
      /\ Plays("policies") /\ [Next]_allVars => [PoliciesNext]_policyVars
  BY DEF Next, Of, allVars, Plays
<1>3. AccessSpec => []DecisionsRecent
  BY DecisionsAreRecent, ServicesAssumption
<1>4. PolicySpec => []DenialsStop /\ []ReasonIsFirst /\ []PassedIsRecorded /\ []EqualPacksDecideAlike
  BY DenialsAreFinal, EqualVersionsDecideAlike, ServicesAssumption
<1>5. /\ ~Plays("access") /\ ~Plays("policies") => RulesEnforced
      /\ Plays("access") /\ DecisionsRecent => RulesEnforced
      /\ Plays("policies") /\ DenialsStop /\ ReasonIsFirst /\ PassedIsRecorded /\ EqualPacksDecideAlike => RulesEnforced
  BY DEF RulesEnforced, Plays
<1>6. [Next]_allVars => /\ Plays("access") <=> Plays("access")'
                        /\ Plays("policies") <=> Plays("policies")'
  BY PartStays DEF Parts
<1> QED
  BY <1>1, <1>2, <1>3, <1>4, <1>5, <1>6, PTL DEF Spec, AccessSpec, PolicySpec

\* QuotasHold holds: runs in execution are never more than a limit one of them started
\* under, the background quota is exact, and past the limit its last passed check saw a
\* scope is charged at most one call of each chat.
THEOREM QuotasAreHeld == Spec => []QuotasHold
<1>1. /\ Init /\ Plays("quota") => QuotaInit
      /\ Init /\ Plays("chats") => ModelInit
  BY DEF Init, QuotaBegins, ChatsBegins, Plays
<1>2. /\ Plays("quota") /\ [Next]_allVars => [QuotaNext]_quotaVars
      /\ Plays("chats") /\ [Next]_allVars => [ModelNext]_modelVars
  BY DEF Next, Of, allVars, Plays
<1>3. QuotaSpec => []StartsWithinLimit /\ []BackgroundWithinLimit
  BY StartsAreBounded, BackgroundIsBounded, ServicesAssumption
<1>4. ModelSpec => []OvershootBounded
  BY UsageOvershoots, ServicesAssumption
<1>5. /\ ~Plays("quota") /\ ~Plays("chats") => QuotasHold
      /\ Plays("quota") /\ StartsWithinLimit /\ BackgroundWithinLimit => QuotasHold
      /\ Plays("chats") /\ OvershootBounded => QuotasHold
  BY DEF QuotasHold, Plays
<1>6. [Next]_allVars => /\ Plays("quota") <=> Plays("quota")'
                        /\ Plays("chats") <=> Plays("chats")'
  BY PartStays DEF Parts
<1> QED
  BY <1>1, <1>2, <1>3, <1>4, <1>5, <1>6, PTL DEF Spec, QuotaSpec, ModelSpec

\* ToolsAreSound holds: no tool is forced on the model without being sure of it, none is
\* shown beside a better one that rules it out, and the tool that is executed is the one
\* that was offered under the name the model used.
THEOREM ToolsStaySound == Spec => []ToolsAreSound
<1>1. /\ Init /\ Plays("selection") => SelectionInit
      /\ Init /\ Plays("names") => NamesInit
  BY DEF Init, SelectionBegins, NamesBegins, Plays
<1>2. /\ Plays("selection") /\ [Next]_allVars => [SelectionNext]_selectionVars
      /\ Plays("names") /\ [Next]_allVars => [NamesNext]_nameVars
  BY DEF Next, Of, allVars, Plays
<1>3. SelectionSpec => []NoToolsForAReason /\ []ForcedIsSure /\ []NoConflictsShown
  BY SelectionsAreSound, ServicesAssumption
<1>4. NamesSpec => []SameToolMeant /\ []AliasesAreUnambiguous
  BY NamesAreUnambiguous, ServicesAssumption
<1>5. /\ ~Plays("selection") /\ ~Plays("names") => ToolsAreSound
      /\ Plays("selection") /\ NoToolsForAReason /\ ForcedIsSure /\ NoConflictsShown => ToolsAreSound
      /\ Plays("names") /\ SameToolMeant /\ AliasesAreUnambiguous => ToolsAreSound
  BY DEF ToolsAreSound, Plays
<1>6. [Next]_allVars => /\ Plays("selection") <=> Plays("selection")'
                        /\ Plays("names") <=> Plays("names")'
  BY PartStays DEF Parts
<1> QED
  BY <1>1, <1>2, <1>3, <1>4, <1>5, <1>6, PTL DEF Spec, SelectionSpec, NamesSpec

=============================================================================
