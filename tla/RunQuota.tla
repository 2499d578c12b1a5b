------------------------------ MODULE RunQuota ------------------------------
(***************************************************************************)
(* How many runs one agent instance may have: the counts that guard a      *)
(* submission, the start of a leased run, the start of a workflow and the  *)
(* creation of a background run.  The first three read their limits and    *)
(* their counts statement by statement and outside the write they guard;   *)
(* the last does it in a transaction under an advisory lock, whose limits  *)
(* are read over a second connection of the pool.                          *)
(***************************************************************************)
EXTENDS RuntimeLimits, FiniteSets

CONSTANTS
  Jobs,      \* run identities
  Callers,   \* requests and tool calls that create runs
  QuotaRows, \* the rows an administrator may write, per scope
  Conns      \* connections of the pool

VARIABLES
  quotaRow,                  \* the customer's and the agent instance's rows
  jobState,                  \* runs.state; "ended" for the terminal ones
  jobMode,                   \* runs.run_mode
  call,                      \* each caller: its phase, its job and the limits it read
  start,                     \* each job's start: its phase and the limit it read
  startedUnder, createdUnder \* the limit a job was started, created under (history)

quotaVars == <<quotaRow, jobState, jobMode, call, start, startedUnder, createdUnder>>

Active     == {"leased", "running", "running_workflow", "awaiting_user"}
Unfinished == {"queued"} \cup Active
IdleCaller       == [phase |-> "idle"]
NotStarting == [phase |-> "none", limit |-> 0]

QuotaInit ==
  /\ quotaRow = [s \in {"customer", "agent"} |-> NoRow]
  /\ jobState = [j \in Jobs |-> "absent"]
  /\ jobMode = [j \in Jobs |-> "foreground"]
  /\ call = [c \in Callers |-> IdleCaller]
  /\ start = [j \in Jobs |-> NotStarting]
  /\ startedUnder = [j \in Jobs |-> 0] /\ createdUnder = [j \in Jobs |-> 0]

LimitsNow == EffectiveRuntimeLimits(quotaRow["customer"], quotaRow["agent"])

RunCount(states) == Cardinality({j \in Jobs : jobState[j] \in states})
BackgroundCount ==
  Cardinality({j \in Jobs : jobMode[j] = "background" /\ jobState[j] \in Unfinished})

\* A limit of 0 refuses nothing; another refuses what would exceed it.
Reached(limit, count) == limit > 0 /\ count >= limit

-----------------------------------------------------------------------------
(* Configuration *)

UpsertCustomerRuntimeLimits ==
  /\ \E row \in QuotaRows["customer"] : ValidRow(row) /\ quotaRow' = [quotaRow EXCEPT !["customer"] = row]
  /\ UNCHANGED <<jobState, jobMode, call, start, startedUnder, createdUnder>>

UpsertAgentInstanceRuntimeLimits ==
  /\ \E row \in QuotaRows["agent"] : ValidRow(row) /\ quotaRow' = [quotaRow EXCEPT !["agent"] = row]
  /\ UNCHANGED <<jobState, jobMode, call, start, startedUnder, createdUnder>>

-----------------------------------------------------------------------------
(* Connections: a transaction holds one from its first statement to its end *)

InTransaction == {c \in Callers : call[c].phase \in {"begun", "locked", "counting"}}
ConnectionFree == Cardinality(InTransaction) < Conns

LockFree == \A c \in Callers : call[c].phase \notin {"locked", "counting"}

CallBecomes(c, next) == call' = [call EXCEPT ![c] = next]
KeepRuns == UNCHANGED <<quotaRow, jobState, jobMode, start, startedUnder, createdUnder>>

(* Submission: four statements, none of them locked against another *)

SubmitReadsLimits(c) ==
  /\ call[c].phase = "idle" /\ ConnectionFree
  /\ \E j \in Jobs : /\ jobState[j] = "absent"
                    /\ CallBecomes(c, [phase |-> "queued", job |-> j, limits |-> LimitsNow])
  /\ KeepRuns

SubmitCountsQueued(c) ==
  /\ call[c].phase = "queued" /\ ConnectionFree
  /\ IF Reached(call[c].limits["queued_runs"], RunCount({"queued"}))
     THEN CallBecomes(c, IdleCaller)
     ELSE CallBecomes(c, [call[c] EXCEPT !.phase = "active"])
  /\ KeepRuns

SubmitCountsActive(c) ==
  /\ call[c].phase = "active" /\ ConnectionFree
  /\ IF Reached(call[c].limits["active_runs"], RunCount(Active))
     THEN CallBecomes(c, IdleCaller)
     ELSE CallBecomes(c, [phase |-> "insert", job |-> call[c].job])
  /\ KeepRuns

\* ON CONFLICT: a submission with the same key found its row in the meantime.
SubmitInserts(c) ==
  /\ call[c].phase = "insert" /\ ConnectionFree
  /\ LET j == call[c].job
     IN  jobState' = [jobState EXCEPT ![j] = IF @ = "absent" THEN "queued" ELSE @]
  /\ CallBecomes(c, IdleCaller)
  /\ UNCHANGED <<quotaRow, jobMode, start, startedUnder, createdUnder>>

-----------------------------------------------------------------------------
(* Background runs *)

BackgroundBegins(c) ==
  /\ call[c].phase = "idle" /\ ConnectionFree
  /\ \E j \in Jobs : CallBecomes(c, [phase |-> "begun", job |-> j])
  /\ KeepRuns

\* pg_advisory_xact_lock; a run that is there already ends the transaction.
BackgroundLocks(c) ==
  /\ call[c].phase = "begun" /\ LockFree
  /\ CallBecomes(c, IF jobState[call[c].job] # "absent" THEN IdleCaller
                ELSE [phase |-> "locked", job |-> call[c].job])
  /\ KeepRuns

\* The limits are read over the pool, not over the transaction's connection.
BackgroundReadsLimits(c) ==
  /\ call[c].phase = "locked" /\ ConnectionFree
  /\ CallBecomes(c, [phase |-> "counting", job |-> call[c].job, limits |-> LimitsNow])
  /\ KeepRuns

\* The counts, the insert and the commit; the lock and the connection go with it.
BackgroundCommits(c) ==
  /\ call[c].phase = "counting"
  /\ LET j == call[c].job
         l == call[c].limits
         refused == \/ Reached(l["queued_runs"], RunCount({"queued"}))
                    \/ Reached(l["active_runs"], RunCount(Active))
                    \/ Reached(l["background_runs"], BackgroundCount)
                    \/ jobState[j] # "absent"   \* the unique key
     IN  IF refused THEN UNCHANGED <<jobState, jobMode, createdUnder>>
         ELSE /\ jobState' = [jobState EXCEPT ![j] = "queued"]
              /\ jobMode' = [jobMode EXCEPT ![j] = "background"]
              /\ createdUnder' = [createdUnder EXCEPT ![j] = l["background_runs"]]
  /\ CallBecomes(c, IdleCaller)
  /\ UNCHANGED <<quotaRow, start, startedUnder>>

-----------------------------------------------------------------------------
(* A worker's run: leased first, then counted against the others *)

KeepCalls == UNCHANGED <<quotaRow, jobMode, call, createdUnder>>

ClaimRun(j) ==
  /\ jobState[j] = "queued"
  /\ jobState' = [jobState EXCEPT ![j] = "leased"]
  /\ start' = [start EXCEPT ![j].phase = "reading"]
  /\ KeepCalls /\ UNCHANGED startedUnder

StartReadsLimits(j) ==
  /\ start[j].phase = "reading" /\ jobState[j] = "leased"
  /\ start' = [start EXCEPT ![j] = [phase |-> "counting", limit |-> LimitsNow["active_runs"]]]
  /\ KeepCalls /\ UNCHANGED <<jobState, startedUnder>>

\* Variant: the runs leased by workers that have not counted yet are left out.
OtherExecuting(j) ==
  Cardinality({i \in Jobs \ {j} : jobState[i] \in Active \ {"leased"}})

\* The run itself is leased already: the count leaves it out and adds one.
OtherActive(j) == Cardinality({i \in Jobs \ {j} : jobState[i] \in Active})

EnforceRunStartQuota(j) ==
  /\ start[j].phase = "counting" /\ jobState[j] = "leased"
  /\ IF start[j].limit > 0 /\ OtherActive(j) + 1 > start[j].limit
     THEN /\ jobState' = [jobState EXCEPT ![j] = "ended"]
          /\ start' = [start EXCEPT ![j] = NotStarting]
          /\ UNCHANGED startedUnder
     ELSE /\ start' = [start EXCEPT ![j].phase = "passed"]
          /\ startedUnder' = [startedUnder EXCEPT ![j] = start[j].limit]
          /\ UNCHANGED jobState
  /\ KeepCalls

BeginProcess(j) ==
  /\ start[j].phase = "passed" /\ jobState[j] = "leased"
  /\ jobState' = [jobState EXCEPT ![j] = "running"]
  /\ start' = [start EXCEPT ![j] = NotStarting]
  /\ KeepCalls /\ UNCHANGED startedUnder

RunsExecuting ==
  {j \in Jobs : jobState[j] \in {"running", "awaiting_user"} \/ start[j].phase = "passed"}

AwaitUser(j) ==
  /\ jobState[j] = "running"
  /\ jobState' = [jobState EXCEPT ![j] = "awaiting_user"]
  /\ KeepCalls /\ UNCHANGED <<start, startedUnder>>

FinishRun(j) ==
  /\ jobState[j] \in {"running", "awaiting_user"}
  /\ jobState' = [jobState EXCEPT ![j] = "ended"]
  /\ KeepCalls /\ UNCHANGED <<start, startedUnder>>

\* The lease expires, or the user answers: queued again, to be counted again.
\* (What a worker does whose lease lapsed is RunLifecycle's subject.)
Requeue(j) ==
  /\ jobState[j] \in Active
  /\ jobState' = [jobState EXCEPT ![j] = "queued"]
  /\ start' = [start EXCEPT ![j] = NotStarting]
  /\ KeepCalls /\ UNCHANGED startedUnder

CallerStep(c) ==
  \/ SubmitReadsLimits(c) \/ SubmitCountsQueued(c)
  \/ SubmitCountsActive(c) \/ SubmitInserts(c)
  \/ BackgroundBegins(c) \/ BackgroundLocks(c) \/ BackgroundReadsLimits(c)
  \/ BackgroundCommits(c)

QuotaNext ==
  \/ UpsertCustomerRuntimeLimits \/ UpsertAgentInstanceRuntimeLimits
  \/ \E c \in Callers : CallerStep(c)
  \/ \E j \in Jobs : \/ ClaimRun(j) \/ StartReadsLimits(j) \/ EnforceRunStartQuota(j)
                      \/ BeginProcess(j) \/ AwaitUser(j) \/ FinishRun(j) \/ Requeue(j)

-----------------------------------------------------------------------------
(* Properties *)

\* Workers lease first and count afterwards, without a lock: however many start
\* runs of an agent instance at once and however its limits change meanwhile,
\* the runs in execution are never more than a limit one of them was started
\* under.
StartsWithinLimit ==
  RunsExecuting = {} \/ \E j \in RunsExecuting :
    startedUnder[j] = 0 \/ Cardinality(RunsExecuting) <= startedUnder[j]

\* The advisory lock makes the background quota exact: unlike submissions, two
\* concurrent creations never both take the last place.
BackgroundWithinLimit ==
  LET unfinished == {j \in Jobs : jobMode[j] = "background" /\ jobState[j] \in Unfinished}
  IN  unfinished = {} \/ \E j \in unfinished :
        createdUnder[j] = 0 \/ Cardinality(unfinished) <= createdUnder[j]
=============================================================================
