---------------------------- MODULE RunLifecycle ----------------------------
(***************************************************************************)
(* The durable-run queue: rows of the PostgreSQL table "runs", the worker  *)
(* loops that lease and execute them, and the HTTP handlers that submit,   *)
(* cancel and resume them.  One step is one SQL statement (or transaction) *)
(* together with the local control flow up to the next one; everything the *)
(* code reads and later acts on without a lock is a separate step.         *)
(*                                                                         *)
(* The runs here are neither interrupted by follow-ups (interruption is    *)
(* off, max_refinement_depth is 0; see Refinement) nor children of an      *)
(* agent delegation, and their workflows have no timers (see Workflow).    *)
(*                                                                         *)
(* Crashes, leases that lapse under a live worker, cancellations and       *)
(* resumptions are the environment's, each bounded by a Budget.            *)
(***************************************************************************)
EXTENDS Naturals, FiniteSets

CONSTANTS
  Workers,        \* worker loops, one per Duraclaw instance
  Owners,         \* lease_owner values
  OwnerOf,        \* the owner string each worker writes: HOSTNAME or the default
  Runs,           \* run identities, one per (session, idempotency key)
  Sessions,
  SessionOf,      \* the session a run belongs to
  Silent,         \* broadcast-generation runs: completed without an answer
  MaxActiveRuns,  \* max_active_runs of the agent instance, 0 for no limit
  MaxIterations,  \* model turns of one execution
  MaxResumers,    \* resume requests of one run in flight at a time
  Budget          \* how often each kind of environment event may happen

None == "none"
Faults == {"crash", "lapse", "cancel", "resume"}

ASSUME RunLifecycleAssumption ==
  /\ OwnerOf \in [Workers -> Owners] /\ None \notin Owners
  /\ SessionOf \in [Runs -> Sessions] /\ Silent \subseteq Runs
  /\ None \notin Runs /\ None \notin Workers
  /\ MaxActiveRuns \in Nat
  /\ MaxIterations \in Nat \ {0} /\ MaxResumers \in Nat
  /\ Budget \in [Faults -> Nat]

VARIABLES
  state,    \* runs.state; "absent" before the row exists
  owner,    \* runs.lease_owner
  lease,    \* runs.lease_expires_at: null, in the future, or in the past
  created,  \* runs.created_at, as a rank
  clock,    \* the last rank given
  answers,  \* final outbound messages emitted for the run
  claimer,  \* the worker that leased the run last (history)
  standing, \* runs that have not ended since they were leased last (history)
  flow,     \* runs with a workflow_runs row that is running or awaiting_user
  waits,    \* those of them with a node that awaits its user
  pc,       \* where each worker's RunOnce is
  cur,      \* the run it holds in memory
  iter,     \* its model turn
  resumers, \* resume handlers past their awaiting_user check, per run
  spent     \* environment events so far

rowVars    == <<state, owner, lease, standing>>
workerVars == <<pc, cur, iter>>
vars == <<rowVars, created, clock, answers, claimer, flow, waits, workerVars, resumers, spent>>

Active      == {"leased", "running", "running_workflow", "awaiting_user"}
Recoverable == {"leased", "running", "running_workflow"}
Terminal    == {"completed", "failed", "cancelled"}
RunStates   == {"absent", "queued"} \cup Active \cup Terminal

Processing == {"leased", "admitted", "begun", "judging", "workflow", "toolworkflow",
               "suspending", "context", "model", "tools", "ran", "answering", "answered", "failing"}
Phases == {"idle", "polling", "claiming"} \cup Processing

\* Types; and a worker has a run in hand exactly from its claim on.
TypeOK ==
  /\ state \in [Runs -> RunStates]
  /\ owner \in [Runs -> Owners \cup {None}]
  /\ lease \in [Runs -> {"null", "live", "expired"}]
  /\ created \in [Runs -> Nat] /\ clock \in Nat
  /\ answers \in [Runs -> Nat]
  /\ claimer \in [Runs -> Workers \cup {None}] /\ standing \subseteq Runs
  /\ flow \subseteq Runs /\ waits \subseteq Runs
  /\ pc \in [Workers -> Phases]
  /\ cur \in [Workers -> Runs \cup {None}]
  /\ \A w \in Workers : cur[w] = None <=> pc[w] \in {"idle", "polling"}
  /\ iter \in [Workers -> Nat]
  /\ resumers \in [Runs -> Nat]
  /\ spent \in [Faults -> Nat]

Init ==
  /\ state = [r \in Runs |-> "absent"]
  /\ owner = [r \in Runs |-> None]
  /\ lease = [r \in Runs |-> "null"]
  /\ created = [r \in Runs |-> 0] /\ clock = 0
  /\ answers = [r \in Runs |-> 0]
  /\ claimer = [r \in Runs |-> None] /\ standing = {}
  /\ flow = {} /\ waits = {}
  /\ pc = [w \in Workers |-> "idle"]
  /\ cur = [w \in Workers |-> None]
  /\ iter = [w \in Workers |-> 0]
  /\ resumers = [r \in Runs |-> 0]
  /\ spent = [f \in Faults |-> 0]

-----------------------------------------------------------------------------
(* Rows *)

\* A claim transaction holds its candidate FOR UPDATE until it commits.
RowFree(r) == \A w \in Workers : pc[w] = "claiming" => cur[w] # r

SessionActive(r) ==
  \E q \in Runs : SessionOf[q] = SessionOf[r] /\ state[q] \in Active

Held(S) == {r \in Runs : state[r] \in S}

\* Variant: the owner stays in the row of a run that ended.
SetRunStateOnly(r, s) ==
  /\ RowFree(r)
  /\ state' = [state EXCEPT ![r] = s]
  /\ standing' = IF s \in Terminal THEN standing \ {r} ELSE standing
  /\ UNCHANGED <<owner, lease>>

\* An UPDATE by primary key, whatever the row's state; a terminal state
\* releases the lease, any other leaves the lease columns as they are.
SetRunState(r, s) ==
  /\ RowFree(r)
  /\ state' = [state EXCEPT ![r] = s]
  /\ owner' = IF s \in Terminal THEN [owner EXCEPT ![r] = None] ELSE owner
  /\ lease' = IF s \in Terminal THEN [lease EXCEPT ![r] = "null"] ELSE lease
  /\ standing' = IF s \in Terminal THEN standing \ {r} ELSE standing

GoTo(w, phase) == pc' = [pc EXCEPT ![w] = phase]

\* Variant: the run stays in hand.
LeaveKeeping(w) == GoTo(w, "idle") /\ UNCHANGED <<cur, iter>>

Leave(w) ==
  /\ GoTo(w, "idle")
  /\ cur' = [cur EXCEPT ![w] = None]
  /\ iter' = [iter EXCEPT ![w] = 0]

\* What most steps of a worker keep.
Ledger == <<created, clock, answers, claimer, resumers, spent>>
Rest   == <<Ledger, flow, waits>>

Spend(f) ==
  /\ spent[f] < Budget[f]
  /\ spent' = [spent EXCEPT ![f] = @ + 1]

-----------------------------------------------------------------------------
(* Submission *)

\* The upsert on (customer, session, idempotency key) inserts the row at most
\* once.  The run quotas are counted in statements before it and may have
\* changed by then, so whether they let the run in is left open.
CreateRun(r) ==
  /\ state[r] = "absent"
  /\ state' = [state EXCEPT ![r] = "queued"]
  /\ clock' = clock + 1
  /\ created' = [created EXCEPT ![r] = clock']
  /\ UNCHANGED <<owner, lease, standing, answers, claimer, flow, waits, workerVars, resumers, spent>>

-----------------------------------------------------------------------------
(* RunOnce: recover, claim, admit *)

\* Variant: every lease counts as expired.
RecoverAllLeases(w) ==
  /\ pc[w] = "idle"
  /\ LET lapsed == {r \in Runs : state[r] \in Recoverable /\ lease[r] # "null"}
     IN  /\ state' = [r \in Runs |-> IF r \in lapsed THEN "queued" ELSE state[r]]
         /\ owner' = [r \in Runs |-> IF r \in lapsed THEN None ELSE owner[r]]
         /\ lease' = [r \in Runs |-> IF r \in lapsed THEN "null" ELSE lease[r]]
  /\ GoTo(w, "polling")
  /\ UNCHANGED <<standing, cur, iter, Rest>>

\* Variant: only runs that were leased and not yet started are recovered.
RecoverLeasedOnly(w) ==
  /\ pc[w] = "idle"
  /\ LET lapsed == {r \in Runs : state[r] = "leased" /\ lease[r] = "expired"}
     IN  /\ state' = [r \in Runs |-> IF r \in lapsed THEN "queued" ELSE state[r]]
         /\ owner' = [r \in Runs |-> IF r \in lapsed THEN None ELSE owner[r]]
         /\ lease' = [r \in Runs |-> IF r \in lapsed THEN "null" ELSE lease[r]]
  /\ GoTo(w, "polling")
  /\ UNCHANGED <<standing, cur, iter, Rest>>

RecoverExpiredLeases(w) ==
  /\ pc[w] = "idle"
  /\ LET lapsed == {r \in Runs : state[r] \in Recoverable /\ lease[r] = "expired"}
     IN  /\ state' = [r \in Runs |-> IF r \in lapsed THEN "queued" ELSE state[r]]
         /\ owner' = [r \in Runs |-> IF r \in lapsed THEN None ELSE owner[r]]
         /\ lease' = [r \in Runs |-> IF r \in lapsed THEN "null" ELSE lease[r]]
  /\ GoTo(w, "polling")
  /\ UNCHANGED <<standing, cur, iter, Rest>>

\* The claim's snapshot: queued rows of sessions without an active run.
Claimable(r) == state[r] = "queued" /\ ~SessionActive(r)

\* Variants: no FOR UPDATE SKIP LOCKED; no ORDER BY created_at.
ClaimUnlocked(w) ==
  /\ pc[w] = "polling"
  /\ \E r \in Runs :
       /\ Claimable(r)
       /\ \A q \in Runs : Claimable(q) => created[r] <= created[q]
       /\ GoTo(w, "claiming")
       /\ cur' = [cur EXCEPT ![w] = r]
  /\ UNCHANGED <<rowVars, iter, Rest>>

ClaimAny(w) ==
  /\ pc[w] = "polling"
  /\ \E r \in Runs :
       /\ Claimable(r) /\ RowFree(r)
       /\ GoTo(w, "claiming")
       /\ cur' = [cur EXCEPT ![w] = r]
  /\ UNCHANGED <<rowVars, iter, Rest>>

\* The SELECT of the claim: the oldest row it can lock is locked.  What other
\* transactions have written and not committed is not in its snapshot.
ClaimSelect(w) ==
  /\ pc[w] = "polling"
  /\ \E r \in Runs :
       /\ Claimable(r) /\ RowFree(r)
       /\ \A q \in Runs : Claimable(q) /\ RowFree(q) => created[r] <= created[q]
       /\ GoTo(w, "claiming")
       /\ cur' = [cur EXCEPT ![w] = r]
  /\ UNCHANGED <<rowVars, iter, Rest>>

ClaimNothing(w) ==
  /\ pc[w] = "polling"
  /\ ~\E r \in Runs : Claimable(r) /\ RowFree(r)
  /\ GoTo(w, "idle")
  /\ UNCHANGED <<rowVars, cur, iter, Rest>>

\* Variant: a lease without an expiry.
ClaimWithoutExpiry(w) ==
  /\ pc[w] = "claiming"
  /\ state' = [state EXCEPT ![cur[w]] = "leased"]
  /\ owner' = [owner EXCEPT ![cur[w]] = OwnerOf[w]]
  /\ claimer' = [claimer EXCEPT ![cur[w]] = w]
  /\ standing' = standing \cup {cur[w]}
  /\ GoTo(w, "leased")
  /\ UNCHANGED <<lease, cur, iter, created, clock, answers, flow, waits, resumers, spent>>

\* The UPDATE of the claim, and its commit.
ClaimCommit(w) ==
  /\ pc[w] = "claiming"
  /\ state' = [state EXCEPT ![cur[w]] = "leased"]
  /\ owner' = [owner EXCEPT ![cur[w]] = OwnerOf[w]]
  /\ lease' = [lease EXCEPT ![cur[w]] = "live"]
  /\ claimer' = [claimer EXCEPT ![cur[w]] = w]
  /\ standing' = standing \cup {cur[w]}
  /\ GoTo(w, "leased")
  /\ UNCHANGED <<cur, iter, created, clock, answers, flow, waits, resumers, spent>>

OverActiveQuota(r) ==
  MaxActiveRuns > 0 /\ Cardinality(Held(Active) \ {r}) + 1 > MaxActiveRuns

\* EnforceRunStartQuota counts; a run over quota fails in a later statement.
AdmitRun(w) ==
  /\ pc[w] = "leased"
  /\ GoTo(w, IF OverActiveQuota(cur[w]) THEN "failing" ELSE "admitted")
  /\ UNCHANGED <<rowVars, cur, iter, Rest>>

-----------------------------------------------------------------------------
(* process *)

BeginProcess(w) ==
  /\ pc[w] = "admitted"
  /\ SetRunState(cur[w], "running")
  /\ GoTo(w, "begun")
  /\ iter' = [iter EXCEPT ![w] = 1]
  /\ UNCHANGED <<cur, Rest>>

\* Where each check of ensureRunnable lets the pipeline go.
CheckedPhase ==
  [begun |-> {"judging"}, context |-> {"model"}, model |-> {"tools", "answering"}]

\* Variant: the owner is not compared.
EnsureRunning(w) ==
  /\ pc[w] \in DOMAIN CheckedPhase
  /\ IF state[cur[w]] \in Recoverable
     THEN /\ RowFree(cur[w])
          /\ lease' = [lease EXCEPT ![cur[w]] = "live"]
          /\ \E p \in CheckedPhase[pc[w]] : GoTo(w, p)
          /\ UNCHANGED <<state, owner, standing, cur, iter>>
     ELSE Leave(w) /\ UNCHANGED rowVars
  /\ UNCHANGED Rest

\* A run that is cancelled, is no longer active or carries another owner is
\* left alone; otherwise its lease is renewed, lapsed or not.  (The state read
\* that precedes the UPDATE only tells why the worker stops.)
EnsureRunnable(w) ==
  /\ pc[w] \in DOMAIN CheckedPhase
  /\ IF state[cur[w]] \in Recoverable /\ owner[cur[w]] = OwnerOf[w]
     THEN /\ RowFree(cur[w])
          /\ lease' = [lease EXCEPT ![cur[w]] = "live"]
          /\ \E p \in CheckedPhase[pc[w]] : GoTo(w, p)
          /\ UNCHANGED <<state, owner, standing, cur, iter>>
     ELSE Leave(w) /\ UNCHANGED rowVars
  /\ UNCHANGED Rest

\* A denied request, and one handed to another agent, is answered at once.
JudgeScope(w) ==
  /\ pc[w] = "judging"
  /\ \/ GoTo(w, "context")
     \/ GoTo(w, "answering") /\ cur[w] \notin Silent
  /\ UNCHANGED <<rowVars, cur, iter, Rest>>

\* ExecuteGraph, before the model (workflow_id of the input) or from the tool
\* duraclaw.run_workflow.  A workflow that an earlier execution left under way
\* is continued; only a new one writes the run's state.
EnterWorkflow(w) ==
  /\ pc[w] \in {"judging", "tools"} /\ cur[w] \notin waits
  /\ IF cur[w] \in flow THEN UNCHANGED rowVars
                         ELSE SetRunState(cur[w], "running_workflow")
  /\ flow' = flow \cup {cur[w]}
  /\ GoTo(w, IF pc[w] = "judging" THEN "workflow" ELSE "toolworkflow")
  /\ UNCHANGED <<cur, iter, waits, Ledger>>

\* A workflow with a node that already waits stops the execution at once: the
\* run is taken for awaiting_user, which nobody writes.
FindWaiting(w) ==
  /\ pc[w] \in {"judging", "tools"} /\ cur[w] \in waits
  /\ Leave(w)
  /\ UNCHANGED <<rowVars, Rest>>

\* An ask_user node: first the node's state is written, then the run's.
NodeWaits(w) ==
  /\ pc[w] \in {"workflow", "toolworkflow"}
  /\ waits' = waits \cup {cur[w]}
  /\ GoTo(w, "suspending")
  /\ UNCHANGED <<rowVars, cur, iter, flow, Ledger>>

WorkflowSucceeds(w) ==
  /\ pc[w] \in {"workflow", "toolworkflow"}
  /\ flow' = flow \ {cur[w]}
  /\ GoTo(w, IF pc[w] = "workflow" THEN "context" ELSE "ran")
  /\ UNCHANGED <<rowVars, cur, iter, waits, Ledger>>

\* The executor writes the run's failure itself; RunOnce writes it again.
WorkflowFails(w) ==
  /\ pc[w] \in {"workflow", "toolworkflow"}
  /\ flow' = flow \ {cur[w]}
  /\ SetRunState(cur[w], "failed")
  /\ GoTo(w, "failing")
  /\ UNCHANGED <<cur, iter, waits, Ledger>>

\* The tool duraclaw.ask_user, or the second write of a waiting workflow.
AskUser(w) ==
  /\ pc[w] \in {"tools", "suspending"}
  /\ SetRunState(cur[w], "awaiting_user")
  /\ Leave(w)
  /\ UNCHANGED Rest

\* The next turn, also after one whose tool calls were missing or suppressed.
\* After the tools of the last turn the loop gives up, see FailRun.
ToolsDone(w) ==
  /\ pc[w] \in {"tools", "ran"}
  /\ iter[w] < MaxIterations
  /\ iter' = [iter EXCEPT ![w] = @ + 1]
  /\ GoTo(w, "model")
  /\ UNCHANGED <<rowVars, cur, Rest>>

\* The final message and its outbox row.  No ensureRunnable precedes it.
EmitAnswer(w) ==
  /\ pc[w] = "answering" /\ cur[w] \notin Silent
  /\ answers' = [answers EXCEPT ![cur[w]] = @ + 1]
  /\ GoTo(w, "answered")
  /\ UNCHANGED <<rowVars, cur, iter, created, clock, claimer, flow, waits, resumers, spent>>

\* Variant: completed before the message is out.
CompleteUnanswered(w) ==
  /\ pc[w] \in {"answering", "answered"}
  /\ SetRunState(cur[w], "completed")
  /\ Leave(w)
  /\ UNCHANGED Rest

CompleteRun(w) ==
  /\ \/ pc[w] = "answered"
     \/ pc[w] = "answering" /\ cur[w] \in Silent
  /\ SetRunState(cur[w], "completed")
  /\ Leave(w)
  /\ UNCHANGED Rest

\* Any error of process but a stop: provider, tool, policy, database, limit of
\* turns, or the process shutting down.
FailRun(w) ==
  /\ pc[w] \in Processing \ {"leased"}
  /\ SetRunState(cur[w], "failed")
  /\ Leave(w)
  /\ UNCHANGED Rest

-----------------------------------------------------------------------------
(* Handlers and faults *)

Cancel(r) ==
  /\ state[r] # "absent"
  /\ Spend("cancel")
  /\ SetRunState(r, "cancelled")
  /\ UNCHANGED <<created, clock, answers, claimer, flow, waits, workerVars, resumers>>

\* The handler reads the run; the write below does not look again.
ResumeCheck(r) ==
  /\ state[r] = "awaiting_user"
  /\ resumers[r] < MaxResumers
  /\ Spend("resume")
  /\ resumers' = [resumers EXCEPT ![r] = @ + 1]
  /\ UNCHANGED <<rowVars, created, clock, answers, claimer, flow, waits, workerVars>>

\* With a workflow_run_id the waiting node has succeeded by now; without one, or
\* where a second node waits, the workflow waits on.
ResumeWrite(r) ==
  /\ resumers[r] > 0
  /\ resumers' = [resumers EXCEPT ![r] = @ - 1]
  /\ SetRunState(r, "queued")
  /\ waits' \in {waits, waits \ {r}}
  /\ UNCHANGED <<created, clock, answers, claimer, flow, workerVars, spent>>

\* The process dies, or RunOnce returns on an error it does not record (the
\* quota query, the SetRunState that should have recorded it).
Crash(w) ==
  /\ pc[w] # "idle"
  /\ Spend("crash")
  /\ Leave(w)
  /\ UNCHANGED <<rowVars, created, clock, answers, claimer, flow, waits, resumers>>

Working(r) == \E w \in Workers : pc[w] \in Processing /\ cur[w] = r

\* Two minutes without a renewal; nobody works on the run any more.
LeaseExpires(r) ==
  /\ lease[r] = "live" /\ state[r] \in Recoverable /\ ~Working(r)
  /\ lease' = [lease EXCEPT ![r] = "expired"]
  /\ UNCHANGED <<state, owner, standing, created, clock, answers, claimer, flow, waits, workerVars, resumers, spent>>

\* Two minutes without a renewal in a model or tool call that is still going.
LeaseLapses(r) ==
  /\ lease[r] = "live" /\ state[r] \in Recoverable /\ Working(r)
  /\ Spend("lapse")
  /\ lease' = [lease EXCEPT ![r] = "expired"]
  /\ UNCHANGED <<state, owner, standing, created, clock, answers, claimer, flow, waits, workerVars, resumers>>

-----------------------------------------------------------------------------
WorkerStep(w) ==
  \/ RecoverExpiredLeases(w) \/ ClaimSelect(w) \/ ClaimNothing(w) \/ ClaimCommit(w)
  \/ AdmitRun(w) \/ BeginProcess(w) \/ EnsureRunnable(w) \/ JudgeScope(w)
  \/ EnterWorkflow(w) \/ FindWaiting(w) \/ NodeWaits(w) \/ WorkflowSucceeds(w)
  \/ WorkflowFails(w) \/ AskUser(w) \/ ToolsDone(w) \/ EmitAnswer(w) \/ CompleteRun(w) \/ FailRun(w)

Next ==
  \/ \E w \in Workers : WorkerStep(w) \/ Crash(w)
  \/ \E r \in Runs : \/ CreateRun(r) \/ Cancel(r) \/ ResumeCheck(r) \/ ResumeWrite(r)
                     \/ LeaseExpires(r) \/ LeaseLapses(r)

Spec == Init /\ [][Next]_vars

\* The worker goroutine ticks for ever, a handler that was entered finishes,
\* and time passes.  Users and faults owe nothing.
Fairness ==
  /\ \A w \in Workers : WF_vars(WorkerStep(w))
  /\ \A r \in Runs : WF_vars(ResumeWrite(r)) /\ WF_vars(LeaseExpires(r))

FairSpec == Spec /\ Fairness

-----------------------------------------------------------------------------
(* Properties.  Each names, with its run, the environment it is claimed in. *)

\* A completed run has answered: there is no completion without the final
\* message and its outbox row, whatever crashes, lapses, cancels and resumes
\* happen and however many workers write to the row (finalizeAssistantResponse).
CompletedHasAnswer ==
  \A r \in Runs \ Silent : state[r] = "completed" => answers[r] > 0

\* Inductive form: a worker that is about to complete its run has answered it.
AnswerInv ==
  /\ CompletedHasAnswer
  /\ \A w \in Workers : pc[w] = "answered" => answers[cur[w]] > 0

\* A user gets a second final message of one run only after a fault: every
\* answer beyond the first is paid for by a crash or a lapsed lease.
DuplicatesNeedFaults ==
  \A r \in Runs : answers[r] <= 1 + spent["crash"] + spent["lapse"]

\* Until a lease lapses under a live worker, no two workers execute one run:
\* SKIP LOCKED, the lease and its recovery exclude each other (ClaimRun).
ExclusiveProcessing ==
  spent["lapse"] = 0 =>
    \A v, w \in Workers :
      /\ v # w /\ pc[v] \in Processing /\ pc[w] \in Processing
      => cur[v] # cur[w]

\* Its inductive form: the row of a run in somebody's hands is neither free to
\* be claimed nor about to become so, by recovery or by a late resume handler.
InHandInv ==
  /\ \A v, w \in Workers : v # w /\ cur[v] # None => cur[v] # cur[w]
  /\ \A w \in Workers : pc[w] = "claiming" => state[cur[w]] = "queued"
  /\ \A w \in Workers :
       pc[w] \in Processing =>
         /\ state[cur[w]] \notin {"absent", "queued", "awaiting_user"}
         /\ lease[cur[w]] # "expired"
  /\ \A r \in Runs :
       resumers[r] > 0 =>
         /\ resumers[r] = 1
         /\ state[r] \in {"awaiting_user", "cancelled"}
         /\ \A w \in Workers : cur[w] # r

ExclusiveInv == spent["lapse"] = 0 => InHandInv

\* One session has at most one active pipeline (docs/concepts/durable-runs.md).
OneActivePerSession ==
  \A r, q \in Runs :
    r # q /\ SessionOf[r] = SessionOf[q] => ~(state[r] \in Active /\ state[q] \in Active)

\* A run that a worker holds or held is recoverable: an executing row that no
\* worker works on carries a lease that will expire (RecoverExpiredLeases).
NoOrphan ==
  \A r \in Runs : state[r] \in Recoverable /\ lease[r] = "null" => Working(r)

\* Runs of a session are first leased in the order they were created; a run is
\* overtaken only if it ended before it began.
SessionFIFO ==
  \A r, q \in Runs :
    /\ SessionOf[r] = SessionOf[q] /\ claimer[q] # None
    /\ 0 < created[r] /\ created[r] < created[q]
    => claimer[r] # None \/ state[r] \in Terminal

\* One worker executes the runs of a session one at a time and in order.
SessionIsSerial == OneActivePerSession /\ SessionFIFO

\* Fencing: a check lets a worker go on only if no other worker has leased the
\* run since, even when its own lease lapsed and the run was recovered behind
\* its back (ExtendRunLease).  It needs distinct owner strings.
PassesCheck(w) == pc[w] \in DOMAIN CheckedPhase /\ pc'[w] \in CheckedPhase[pc[w]]
FencedStep == \A w \in Workers : PassesCheck(w) => claimer[cur[w]] = w
FenceHolds == [][FencedStep]_vars

\* Its invariant: a row's owner is the string of the worker that leased it last.
OwnerIsClaimer ==
  \A r \in Runs :
    owner[r] # None => claimer[r] \in Workers /\ owner[r] = OwnerOf[claimer[r]]

\* An ended run is left alone, as far as writes without a look at the state allow
\* (SetRunState): whoever held it when it was cancelled or was ended by another
\* worker may write it back to life, but passes no check any more, though the row
\* says running again; and where nobody holds it and no resume handler is about to
\* write, it stays ended.  It needs distinct owner strings.
LeftStep ==
  /\ \A w \in Workers : PassesCheck(w) => cur[w] \in standing
  /\ \A r \in Runs :
       state[r] \in Terminal /\ resumers[r] = 0 /\ ~Working(r) => state'[r] \in Terminal
EndedIsLeft == [][LeftStep]_vars

\* Its invariant: an owner is in the row only of a run that has not ended since it
\* was leased, and a claim's candidate is queued until the claim commits.
OwnedStands ==
  /\ \A r \in Runs : owner[r] # None => r \in standing
  /\ \A w \in Workers : pc[w] = "claiming" => state[cur[w]] = "queued"
  /\ \A v, w \in Workers : pc[v] = "claiming" /\ pc[w] = "claiming" /\ cur[v] = cur[w] => v = w

\* A queued run ends or asks its user, unless its session waits for a user or
\* for a workflow that does.
QueuedRunSettles ==
  \A r \in Runs :
    state[r] = "queued" ~>
      \/ state[r] \in Terminal
      \/ \E q \in Runs : /\ SessionOf[q] = SessionOf[r]
                         /\ state[q] = "awaiting_user" \/ q \in waits
=============================================================================
