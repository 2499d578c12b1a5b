----------------------------- MODULE AsyncWrites -----------------------------
(***************************************************************************)
(* The best-effort sidecar for telemetry: a bounded buffer in each         *)
(* process, the table async_write_jobs behind it, and the writer loops     *)
(* that flush the buffer into the table and apply the table's jobs.        *)
(***************************************************************************)
EXTENDS Naturals, FiniteSets

CONSTANTS
  Jobs,
  Writers,      \* asyncwrite.Writer, one per instance
  SizeOf,       \* payload size against the limits: small, big or huge
  Buffer,       \* capacity of the in-memory queue (100)
  Limit,        \* jobs per claim (50)
  MaxAttempts,  \* 5
  Budget        \* how often each kind of fault may happen

None == "none"
Faults == {"crash", "database", "apply"}

ASSUME AsyncWritesAssumption ==
  /\ None \notin Jobs
  /\ SizeOf \in [Jobs -> {"small", "big", "huge"}]
  /\ Buffer \in Nat \ {0} /\ Limit \in Nat \ {0} /\ MaxAttempts \in Nat \ {0}
  /\ Budget \in [Faults -> Nat]

VARIABLES
  state,     \* the job's row; "new" before Enqueue, "buffered" or "lost" without one
  due,       \* rows whose available_at has passed
  attempts,  \* async_write_jobs.attempts
  applied,   \* how often the job's effect took place
  failures,  \* how often applying it returned an error (history)
  memory,    \* each writer's channel
  pc, batch, hand,  \* each RunOnce: phase, jobs to come, job being handled
  spent      \* faults so far

jobVars    == <<state, due, attempts, applied, failures>>
writerVars == <<memory, pc, batch, hand>>
vars == <<jobVars, writerVars, spent>>

Settled == {"completed", "degraded", "dropped", "failed"}
Phases  == {"draining", "claiming", "applying", "completing", "releasing"}

\* Types; and a buffered job sits in exactly the channel it was put into.
TypeOK ==
  /\ state \in [Jobs -> {"new", "buffered", "lost", "queued", "leased"} \cup Settled]
  /\ due \subseteq Jobs
  /\ attempts \in [Jobs -> Nat] /\ applied \in [Jobs -> Nat] /\ failures \in [Jobs -> Nat]
  /\ memory \in [Writers -> SUBSET Jobs]
  /\ \A w \in Writers :
       /\ Cardinality(memory[w]) <= Buffer
       /\ \A j \in memory[w] : state[j] = "buffered"
  /\ pc \in [Writers -> Phases]
  /\ batch \in [Writers -> SUBSET Jobs]
  /\ hand \in [Writers -> Jobs \cup {None}]
  /\ spent \in [Faults -> Nat]

Init ==
  /\ state = [j \in Jobs |-> "new"]
  /\ due = Jobs
  /\ attempts = [j \in Jobs |-> 0]
  /\ applied = [j \in Jobs |-> 0]
  /\ failures = [j \in Jobs |-> 0]
  /\ memory = [w \in Writers |-> {}]
  /\ pc = [w \in Writers |-> "draining"]
  /\ batch = [w \in Writers |-> {}]
  /\ hand = [w \in Writers |-> None]
  /\ spent = [f \in Faults |-> 0]

Spend(f) ==
  /\ spent[f] < Budget[f]
  /\ spent' = [spent EXCEPT ![f] = @ + 1]

GoTo(w, phase) == pc' = [pc EXCEPT ![w] = phase]
SetState(j, s) == state' = [state EXCEPT ![j] = s]

-----------------------------------------------------------------------------
\* prepare gives a huge job the state dropped, under which no claim finds it; a
\* big one is reduced to a note that it was.
InsertedAs(j) == IF SizeOf[j] = "huge" THEN "dropped" ELSE "queued"

\* EnqueueAsyncWrite: the insert, or its failure, which drops the job.
EnqueueAsyncWrite(j) ==
  \/ SetState(j, InsertedAs(j)) /\ UNCHANGED spent
  \/ SetState(j, "lost") /\ Spend("database")

\* Enqueue: into the channel, or past a full one into the table.
Enqueue(w, j) ==
  /\ state[j] = "new"
  /\ IF Cardinality(memory[w]) < Buffer
     THEN /\ SetState(j, "buffered")
          /\ memory' = [memory EXCEPT ![w] = @ \cup {j}]
          /\ UNCHANGED spent
     ELSE EnqueueAsyncWrite(j) /\ UNCHANGED memory
  /\ UNCHANGED <<due, attempts, applied, failures, pc, batch, hand>>

\* RunOnce drains the channel; a failed insert ends it, and the next begins here.
Drain(w) ==
  /\ pc[w] = "draining"
  /\ \E j \in memory[w] :
       /\ EnqueueAsyncWrite(j)
       /\ memory' = [memory EXCEPT ![w] = @ \ {j}]
  /\ UNCHANGED <<due, attempts, applied, failures, pc, batch, hand>>

Drained(w) ==
  /\ pc[w] = "draining" /\ memory[w] = {}
  /\ GoTo(w, "claiming")
  /\ UNCHANGED <<jobVars, memory, batch, hand, spent>>

\* Variant: leased rows are claimed too, whatever their lease says.
ClaimableLeased == {j \in Jobs : state[j] \in {"queued", "leased"} /\ j \in due}

\* Only queued rows are claimed, whatever lease_expires_at says of leased ones.
Claimable == {j \in Jobs : state[j] = "queued" /\ j \in due}

ClaimAsyncWriteJobs(w) ==
  /\ pc[w] = "claiming"
  /\ \E S \in SUBSET Claimable :
       /\ S = Claimable \/ Cardinality(S) = Limit
       /\ Cardinality(S) <= Limit
       /\ state' = [j \in Jobs |-> IF j \in S THEN "leased" ELSE state[j]]
       /\ attempts' = [j \in Jobs |-> IF j \in S THEN attempts[j] + 1 ELSE attempts[j]]
       /\ batch' = [batch EXCEPT ![w] = S]
       /\ GoTo(w, IF S = {} THEN "draining" ELSE "applying")
  /\ UNCHANGED <<due, applied, failures, memory, hand, spent>>

\* RunOnce returns; the jobs it has not come to stay leased in the table.
Return(w) ==
  /\ GoTo(w, "draining")
  /\ batch' = [batch EXCEPT ![w] = {}]
  /\ hand' = [hand EXCEPT ![w] = None]

\* Variant: the error is logged and the job completed.
ApplyIgnoringErrors(w) ==
  /\ pc[w] = "applying"
  /\ \E j \in batch[w] :
       /\ hand' = [hand EXCEPT ![w] = j]
       /\ batch' = [batch EXCEPT ![w] = @ \ {j}]
       /\ \/ applied' = [applied EXCEPT ![j] = @ + 1] /\ UNCHANGED <<failures, spent>>
          \/ /\ Spend("apply")
             /\ failures' = [failures EXCEPT ![j] = @ + 1]
             /\ UNCHANGED applied
  /\ GoTo(w, "completing")
  /\ UNCHANGED <<state, due, attempts, memory>>

\* The event insert or the export; an error may come after the effect.
Apply(w) ==
  /\ pc[w] = "applying"
  /\ \E j \in batch[w] :
       /\ hand' = [hand EXCEPT ![w] = j]
       /\ batch' = [batch EXCEPT ![w] = @ \ {j}]
       /\ \/ /\ applied' = [applied EXCEPT ![j] = @ + 1]
             /\ GoTo(w, "completing")
             /\ UNCHANGED <<failures, spent>>
          \/ /\ Spend("apply")
             /\ \E n \in {0, 1} : applied' = [applied EXCEPT ![j] = @ + n]
             /\ failures' = [failures EXCEPT ![j] = @ + 1]
             /\ GoTo(w, "releasing")
  /\ UNCHANGED <<state, due, attempts, memory>>

\* Variant: RunOnce ends after one job.
CompleteOneJob(w) ==
  /\ pc[w] = "completing"
  /\ SetState(hand[w], IF SizeOf[hand[w]] = "big" THEN "degraded" ELSE "completed")
  /\ Return(w)
  /\ UNCHANGED <<due, attempts, applied, failures, memory, spent>>

\* stateAfterApply, and on to the next job; a failed write ends RunOnce.
CompleteAsyncWriteJob(w) ==
  /\ pc[w] = "completing"
  /\ \/ /\ SetState(hand[w], IF SizeOf[hand[w]] = "big" THEN "degraded" ELSE "completed")
        /\ IF batch[w] = {}
           THEN Return(w)
           ELSE GoTo(w, "applying") /\ hand' = [hand EXCEPT ![w] = None] /\ UNCHANGED batch
        /\ UNCHANGED spent
     \/ Spend("database") /\ Return(w) /\ UNCHANGED state
  /\ UNCHANGED <<due, attempts, applied, failures, memory>>

\* After an error: failed for good at the last attempt, else back in the queue
\* for later.  The error of this write is ignored.  RunOnce returns.
ReleaseAsyncWriteJob(w) ==
  LET j == hand[w] IN
  /\ pc[w] = "releasing"
  /\ \/ /\ IF attempts[j] >= MaxAttempts
           THEN SetState(j, "failed") /\ UNCHANGED due
           ELSE SetState(j, "queued") /\ due' = due \ {j}
        /\ UNCHANGED spent
     \/ Spend("database") /\ UNCHANGED <<state, due>>
  /\ Return(w)
  /\ UNCHANGED <<attempts, applied, failures, memory>>

-----------------------------------------------------------------------------
RetryDelayPasses(j) ==
  /\ state[j] = "queued" /\ j \notin due
  /\ due' = due \cup {j}
  /\ UNCHANGED <<state, attempts, applied, failures, writerVars, spent>>

\* The process ends, by a crash or a shutdown: nothing flushes the channel.
Crash(w) ==
  /\ Spend("crash")
  /\ state' = [j \in Jobs |-> IF j \in memory[w] THEN "lost" ELSE state[j]]
  /\ memory' = [memory EXCEPT ![w] = {}]
  /\ Return(w)
  /\ UNCHANGED <<due, attempts, applied, failures>>

-----------------------------------------------------------------------------
WriterStep(w) ==
  \/ Drain(w) \/ Drained(w) \/ ClaimAsyncWriteJobs(w) \/ Apply(w)
  \/ CompleteAsyncWriteJob(w) \/ ReleaseAsyncWriteJob(w)

Next ==
  \/ \E w \in Writers : WriterStep(w) \/ Crash(w) \/ \E j \in Jobs : Enqueue(w, j)
  \/ \E j \in Jobs : RetryDelayPasses(j)

Spec == Init /\ [][Next]_vars

\* The writer's loop ticks and the retry delay passes.
FairSpec ==
  /\ Spec
  /\ \A w \in Writers : WF_vars(WriterStep(w))
  /\ \A j \in Jobs : WF_vars(RetryDelayPasses(j))

-----------------------------------------------------------------------------
(* Properties *)

Lost == {j \in Jobs : state[j] = "lost"}

\* Only what is in a channel, or being inserted, can be lost: a crash costs at
\* most a buffer of jobs, a failing database one job per failed statement.
LossBounded == Cardinality(Lost) <= Buffer * spent["crash"] + spent["database"]

\* A job is tried MaxAttempts times at most, and given up only at the last.
AttemptsBounded ==
  \A j \in Jobs :
    /\ attempts[j] <= MaxAttempts
    /\ state[j] = "failed" => failures[j] = MaxAttempts

\* An effect takes place twice only if applying the job failed in between.
\* (No lease, no crash and no second writer repeats it.)
EffectsPaid == \A j \in Jobs : applied[j] <= 1 + failures[j]

\* Losses, attempts and repeated effects are each bounded by what caused them.
CostsArePaid == LossBounded /\ AttemptsBounded /\ EffectsPaid

\* What the table says of a settled job is what happened to it.
SettledTruly ==
  \A j \in Jobs :
    /\ state[j] \in {"completed", "degraded"} => applied[j] > 0
    /\ state[j] = "dropped" => applied[j] = 0 /\ attempts[j] = 0

\* While the database, the exporter and the processes work, every job settles.
Undisturbed == \A f \in Faults : spent[f] = 0
JobsSettle ==
  \A j \in Jobs : state[j] = "buffered" ~> state[j] \in Settled \/ ~Undisturbed

\* Leases of async writes are recovered by later ticks (docs/operations.md).
LeasesAreRecovered == \A j \in Jobs : state[j] = "leased" ~> state[j] # "leased"
=============================================================================
