----------------------------- MODULE Scheduler -----------------------------
(***************************************************************************)
(* The schedulers of all instances over the three tables of timed jobs:    *)
(* shared jobs with a fan-out to subscribers, reminder subscriptions, and  *)
(* scheduler jobs.  A pass claims the due rows of each table in turn under *)
(* a lease, fires each under a key made of job and scheduled time, and     *)
(* completes the row, without a look at the lease or at what the row has   *)
(* become.  Users change rows meanwhile.                                   *)
(*                                                                         *)
(* Time is counted in ticks.  That a fire resumes a workflow instead of    *)
(* creating a run is Workflow's subject; deliveries of shared jobs by      *)
(* durable runs are left out.                                              *)
(***************************************************************************)
EXTENDS Naturals, FiniteSets, Functions

CONSTANTS
  Schedulers,   \* scheduler.Service, one per instance
  Jobs,
  TableOf,      \* a job's table: 1 shared, 2 reminders, 3 scheduler jobs
  First,        \* next_run_at at creation
  Period,       \* of the cron schedule or the interval; 0 is @once
  Interval,     \* the jobs with repeat_interval_seconds
  Count, Until, \* repeat_count, repeat_until; 0 is none
  Subscribers,  \* enabled subscriptions of a shared job
  Limit,        \* rows per claim (10)
  Horizon,      \* the last tick
  Budget,       \* how often each kind of event may happen
  Total         \* and how many may in all

Tables == 1..3
Never == 0
NoRow == [job |-> Never, at |-> Never, count |-> 0]
Events == {"abort", "lapse", "evaluation", "edit", "toggle"}

ASSUME SchedulerAssumption ==
  /\ Never \notin Jobs
  /\ TableOf \in [Jobs -> Tables]
  /\ First \in [Jobs -> Nat \ {0}] /\ Period \in [Jobs -> Nat]
  /\ Count \in [Jobs -> Nat] /\ Until \in [Jobs -> Nat]
  /\ \A j \in Jobs : Until[j] # Never => Until[j] > First[j]
  /\ Interval \subseteq Jobs /\ \A j \in Interval : TableOf[j] = 2 /\ Period[j] > 0
  /\ \A j \in Jobs : TableOf[j] # 2 => Count[j] = 0 /\ Until[j] = Never
  /\ \A j \in Jobs : TableOf[j] # 1 => Subscribers[j] = {}
  /\ Limit \in Nat \ {0} /\ Horizon \in Nat
  /\ Budget \in [Events -> Nat] /\ Total \in Nat

VARIABLES
  clock,
  on, next, count, lease, \* enabled, next_run_at, fired_count; null, live or expired
  fired,    \* <<job, time>>: the run exists, or the fire is recorded as succeeded
  failed,   \* <<job, time>>: the fire is recorded as failed
  sent,     \* <<job, time, subscriber>>: deliveries of shared jobs
  phase, table, now, \* a scheduler's RunOnce: where it is, in which table, its argument
  batch,    \* rows as they were claimed and still to be handled
  row, todo,  \* the one in hand, and subscribers it was not sent to
  asked,    \* the time a user last moved the job to, while no scheduler held it
  touched,  \* jobs a user has moved
  paused,   \* jobs a user has switched off
  left      \* what remains of Budget

rowVars  == <<on, next, count, lease>>
effects  == <<fired, failed, sent>>
passVars  == <<phase, table, now, batch, row, todo>>
userVars == <<asked, touched, paused>>
vars == <<clock, rowVars, effects, passVars, userVars, left>>

Times == 0..(Horizon + 1)
Rows  == [job : Jobs, at : Nat, count : Nat]

\* Types; and a scheduler has a row in hand, one of those it claimed, from the
\* moment it fires it until it is completed.
TypeOK ==
  /\ clock \in 0..Horizon
  /\ on \in [Jobs -> BOOLEAN] /\ next \in [Jobs -> Nat] /\ count \in [Jobs -> Nat]
  /\ lease \in [Jobs -> {"null", "live", "expired"}]
  /\ fired \subseteq Jobs \X Nat /\ failed \subseteq Jobs \X Nat
  /\ sent \subseteq Jobs \X Nat \X UNION {Subscribers[j] : j \in Jobs}
  /\ phase \in [Schedulers -> {"idle", "claiming", "picking", "sending", "completing"}]
  /\ table \in [Schedulers -> Tables] /\ now \in [Schedulers -> 0..Horizon]
  /\ batch \in [Schedulers -> SUBSET Rows] /\ row \in [Schedulers -> Rows \cup {NoRow}]
  /\ \A s \in Schedulers :
       IF phase[s] \in {"sending", "completing"} THEN row[s] \in batch[s] ELSE row[s] = NoRow
  /\ todo \in [Schedulers -> SUBSET UNION {Subscribers[j] : j \in Jobs}]
  /\ asked \in [Jobs -> Nat] /\ touched \subseteq Jobs /\ paused \subseteq Jobs
  /\ left \in [Events -> Nat]

Init ==
  /\ clock = 0
  /\ on = [j \in Jobs |-> TRUE] /\ next = First
  /\ count = [j \in Jobs |-> 0] /\ lease = [j \in Jobs |-> "null"]
  /\ fired = {} /\ failed = {} /\ sent = {}
  /\ phase = [s \in Schedulers |-> "idle"]
  /\ table = [s \in Schedulers |-> 1] /\ now = [s \in Schedulers |-> 0]
  /\ batch = [s \in Schedulers |-> {}] /\ row = [s \in Schedulers |-> NoRow]
  /\ todo = [s \in Schedulers |-> {}]
  /\ asked = [j \in Jobs |-> Never] /\ touched = {} /\ paused = {}
  /\ left = Budget

Spend(e) ==
  /\ left[e] > 0 /\ SumFunction(Budget) - SumFunction(left) < Total
  /\ left' = [left EXCEPT ![e] = @ - 1]

-----------------------------------------------------------------------------
(* When a job fires *)

\* Next of the cron schedule, an external function: the first time after t.
CronNext(j, t) ==
  IF Period[j] = 0 THEN Never
  ELSE IF t < First[j] THEN First[j]
  ELSE First[j] + Period[j] * ((t - First[j]) \div Period[j] + 1)

\* A fire at repeat_until or after repeat_count is none.
Stopped(r) ==
  LET j == r.job IN
  \/ Until[j] # Never /\ r.at >= Until[j]
  \/ Count[j] > 0 /\ r.count >= Count[j]

\* Variant: intervals skip what was missed.
NextSkipping(r, t) ==
  LET later == IF t > r.at THEN t ELSE r.at
      n == CronNext(r.job, later)
  IN IF \/ Count[r.job] > 0 /\ r.count + 1 >= Count[r.job]
        \/ Until[r.job] # Never /\ n > Until[r.job]
     THEN Never ELSE n

\* Intervals follow the scheduled time, so that missed fires are caught up;
\* cron schedules follow the later of that and the pass's time, and skip them.
NextRun(r, t) ==
  LET later == IF t > r.at THEN t ELSE r.at
      n == IF r.job \in Interval THEN r.at + Period[r.job] ELSE CronNext(r.job, later)
  IN IF \/ Count[r.job] > 0 /\ r.count + 1 >= Count[r.job]
        \/ Until[r.job] # Never /\ n > Until[r.job]
     THEN Never ELSE n

-----------------------------------------------------------------------------
(* A pass *)

Moves(s, from, to) == phase[s] = from /\ phase' = [phase EXCEPT ![s] = to]

\* With rows in hand on to the next of them, without to the next table, or to
\* the end of the pass.
Continues(s, from) ==
  /\ Moves(s, from, IF batch'[s] # {} THEN "picking"
                    ELSE IF table[s] < 3 THEN "claiming" ELSE "idle")
  /\ table' = [table EXCEPT ![s] = IF batch'[s] # {} THEN @ ELSE IF @ < 3 THEN @ + 1 ELSE 1]
  /\ now' = [now EXCEPT ![s] = IF batch'[s] = {} /\ table[s] = 3 THEN 0 ELSE @]

\* The loop passes the time it reads; the database has its own.
Begin(s) ==
  /\ Moves(s, "idle", "claiming")
  /\ table' = [table EXCEPT ![s] = 1] /\ now' = [now EXCEPT ![s] = clock]
  /\ UNCHANGED <<clock, rowVars, effects, batch, row, todo, userVars, left>>

\* Variant: only rows that nobody ever claimed.
DueUnclaimed(j) == on[j] /\ next[j] <= clock /\ lease[j] = "null"

Due(j) == on[j] /\ next[j] <= clock /\ lease[j] # "live"

\* The due rows in the order of next_run_at, as many as the limit allows.
Claim(s) ==
  LET due == {j \in Jobs : TableOf[j] = table[s] /\ Due(j)} IN
  \E J \in SUBSET due :
    /\ Cardinality(J) = (IF Cardinality(due) < Limit THEN Cardinality(due) ELSE Limit)
    /\ \A j \in J, k \in due \ J : next[j] <= next[k]
    /\ batch' = [batch EXCEPT ![s] = {[job |-> j, at |-> next[j], count |-> count[j]] : j \in J}]
    /\ Continues(s, "claiming")
    /\ lease' = [j \in Jobs |-> IF j \in J THEN "live" ELSE lease[j]]
    /\ UNCHANGED <<clock, on, next, count, effects, row, todo, userVars, left>>

Takes(s, r) == r \in batch[s] /\ row' = [row EXCEPT ![s] = r]

\* CreateRun finds the run of the key if there is one.
Fire(s) ==
  \E r \in batch[s] :
    /\ TableOf[r.job] # 1 /\ (TableOf[r.job] = 2 => ~Stopped(r))
    /\ Moves(s, "picking", "completing") /\ Takes(s, r)
    /\ fired' = fired \cup {<<r.job, r.at>>}
    /\ UNCHANGED <<clock, rowVars, failed, sent, table, now, batch, todo, userVars, left>>

\* The external service selects subscribers; when it fails, so does the fire.
Evaluate(s) ==
  \E r \in batch[s] :
    /\ TableOf[r.job] = 1 /\ Takes(s, r)
    /\ \/ /\ Moves(s, "picking", "sending")
          /\ todo' = [todo EXCEPT ![s] = Subscribers[r.job]]
          /\ UNCHANGED <<effects, left>>
       \/ /\ Moves(s, "picking", "completing") /\ Spend("evaluation")
          /\ failed' = failed \cup {<<r.job, r.at>>} /\ fired' = fired \ {<<r.job, r.at>>}
          /\ UNCHANGED <<sent, todo>>
    /\ UNCHANGED <<clock, rowVars, table, now, batch, userVars>>

\* One delivery per subscriber and fire: the insert does nothing on a second.
Send(s) ==
  \E u \in todo[s] :
    /\ phase[s] = "sending"
    /\ sent' = sent \cup {<<row[s].job, row[s].at, u>>}
    /\ todo' = [todo EXCEPT ![s] = @ \ {u}]
    /\ UNCHANGED <<clock, rowVars, fired, failed, phase, table, now, batch, row, userVars, left>>

\* Variant: a delivery that fails is passed over.
RecordEarly(s) ==
  /\ Moves(s, "sending", "completing")
  /\ fired' = fired \cup {<<row[s].job, row[s].at>>} /\ failed' = failed \ {<<row[s].job, row[s].at>>}
  /\ todo' = [todo EXCEPT ![s] = {}]
  /\ UNCHANGED <<clock, rowVars, sent, table, now, batch, row, userVars, left>>

\* The fire's row is overwritten by whoever comes last.
Record(s) ==
  /\ todo[s] = {} /\ Moves(s, "sending", "completing")
  /\ fired' = fired \cup {<<row[s].job, row[s].at>>} /\ failed' = failed \ {<<row[s].job, row[s].at>>}
  /\ UNCHANGED <<clock, rowVars, sent, table, now, batch, row, todo, userVars, left>>

\* What Complete...Job writes, whoever holds the lease.
Written(s, r, n) ==
  LET j == r.job IN
  /\ on' = [on EXCEPT ![j] = @ /\ n # Never]
  /\ next' = [next EXCEPT ![j] = IF n = Never THEN @ ELSE n]
  /\ count' = [count EXCEPT ![j] = @ + IF TableOf[j] = 2 THEN 1 ELSE 0]
  /\ lease' = [lease EXCEPT ![j] = "null"]
  /\ batch' = [batch EXCEPT ![s] = @ \ {r}]
  /\ row' = [row EXCEPT ![s] = NoRow]

\* The lease is dropped whoever holds it.
Complete(s) ==
  /\ phase[s] = "completing"
  /\ Written(s, row[s], NextRun(row[s], now[s]))
  /\ Continues(s, "completing")
  /\ UNCHANGED <<clock, effects, todo, userVars, left>>

Stop(s) ==
  \E r \in batch[s] :
    /\ phase[s] = "picking" /\ TableOf[r.job] = 2 /\ Stopped(r)
    /\ Written(s, r, Never)
    /\ Continues(s, "picking")
    /\ UNCHANGED <<clock, effects, todo, userVars, left>>

\* An error at any statement ends the pass, a crash the process: what is
\* claimed and not completed stays leased.
Abort(s) ==
  /\ phase[s] # "idle" /\ Spend("abort")
  /\ phase' = [phase EXCEPT ![s] = "idle"]
  /\ table' = [table EXCEPT ![s] = 1] /\ now' = [now EXCEPT ![s] = 0]
  /\ batch' = [batch EXCEPT ![s] = {}] /\ row' = [row EXCEPT ![s] = NoRow]
  /\ todo' = [todo EXCEPT ![s] = {}]
  /\ UNCHANGED <<clock, rowVars, effects, userVars>>

-----------------------------------------------------------------------------
(* Time and users *)

Tick ==
  /\ clock < Horizon /\ clock' = clock + 1
  /\ UNCHANGED <<rowVars, effects, passVars, userVars, left>>

Holds(s, j) == \E r \in batch[s] : r.job = j
Held(j) == \E s \in Schedulers : Holds(s, j)

\* A minute after the claim; a lapse when the claimer is still at work.
LeaseExpires(j) ==
  /\ lease[j] = "live"
  /\ IF Held(j) THEN Spend("lapse") ELSE UNCHANGED left
  /\ lease' = [lease EXCEPT ![j] = "expired"]
  /\ UNCHANGED <<clock, on, next, count, effects, passVars, userVars>>

\* Variant: the job stays switched off.
RescheduleOnly(j, t) ==
  /\ Spend("edit")
  /\ t > clock /\ (Until[j] # Never => t < Until[j])
  /\ next' = [next EXCEPT ![j] = t]
  /\ \E c \in {0, count[j]} : count' = [count EXCEPT ![j] = c]
  /\ lease' = [lease EXCEPT ![j] = "null"]
  /\ asked' = [asked EXCEPT ![j] = IF Held(j) THEN Never ELSE t]
  /\ touched' = touched \cup {j} /\ paused' = paused \ {j}
  /\ UNCHANGED <<clock, on, effects, passVars>>

\* A new time, with enabled and perhaps fired_count 0; the lease is dropped.
Reschedule(j, t) ==
  /\ Spend("edit")
  /\ t > clock /\ (Until[j] # Never => t < Until[j])
  /\ next' = [next EXCEPT ![j] = t] /\ on' = [on EXCEPT ![j] = TRUE]
  /\ \E c \in {0, count[j]} : count' = [count EXCEPT ![j] = c]
  /\ lease' = [lease EXCEPT ![j] = "null"]
  /\ asked' = [asked EXCEPT ![j] = IF Held(j) THEN Never ELSE t]
  /\ touched' = touched \cup {j} /\ paused' = paused \ {j}
  /\ UNCHANGED <<clock, effects, passVars>>

\* Pause and resume leave the rest of the row alone.
Toggle(j) ==
  /\ TableOf[j] = 2 /\ Spend("toggle")
  /\ on' = [on EXCEPT ![j] = ~@]
  /\ paused' = IF on[j] THEN paused \cup {j} ELSE paused \ {j}
  /\ asked' = [asked EXCEPT ![j] = Never]
  /\ UNCHANGED <<clock, next, count, lease, effects, passVars, touched>>

-----------------------------------------------------------------------------
SchedulerStep(s) ==
  \/ Begin(s) \/ Claim(s) \/ Fire(s) \/ Evaluate(s) \/ Send(s) \/ Record(s)
  \/ Complete(s) \/ Stop(s)

Next ==
  \/ \E s \in Schedulers : SchedulerStep(s) \/ Abort(s)
  \/ Tick
  \/ \E j \in Jobs : LeaseExpires(j) \/ Toggle(j) \/ \E t \in 1..Horizon : Reschedule(j, t)

Spec == Init /\ [][Next]_vars

\* The loops tick, and leases end.
Fairness ==
  /\ \A s \in Schedulers : WF_vars(SchedulerStep(s))
  /\ \A j \in Jobs : WF_vars(LeaseExpires(j))

FairSpec == Spec /\ Fairness

-----------------------------------------------------------------------------
(* Properties *)

Handled(j) == {t \in Times : <<j, t>> \in fired \cup failed}
Grid(j) == {t \in Times : /\ \E k \in 0..Horizon : t = First[j] + k * Period[j]
                          /\ Until[j] # Never => t < Until[j]}
Course(j) == {t \in Grid(j) : Count[j] > 0 => t < First[j] + Count[j] * Period[j]}
NoLapse == left["lapse"] = Budget["lapse"]

\* A job nobody has moved fires only at its times, all past and before
\* repeat_until, and at most repeat_count times.  Unless a lease lapsed under a
\* scheduler at work (both then count the fire), an interval or @once reminder
\* fires at every one of them before the row moves on or is switched off,
\* through deaths, errors, pauses and resumes (docs/concepts/reminders-jobs.md).
RunsItsCourse ==
  \A j \in Jobs \ touched :
    /\ Handled(j) \subseteq Grid(j) \cap 0..clock
    /\ Count[j] > 0 => Cardinality(Handled(j)) <= Count[j]
    /\ NoLapse /\ (j \in Interval \/ Period[j] = 0) =>
         /\ \A t \in Course(j) : t < next[j] => t \in Handled(j)
         /\ ~on[j] /\ j \notin paused => Course(j) \subseteq Handled(j)

\* The time a user moves a job to is kept until it has fired, unless a
\* scheduler had the row in hand (its completion overwrites the row), or the
\* count is used up.
AskedFires ==
  \A j \in Jobs :
    asked[j] # Never =>
      \/ asked[j] \in Handled(j)
      \/ on[j] /\ next[j] = asked[j]
      \/ Count[j] > 0 /\ count[j] >= Count[j]

\* A fire of a shared job is recorded as succeeded only when every subscriber
\* has its delivery, whoever took part in it (runSharedSchedulerJob).
FanoutComplete ==
  \A f \in fired : \A u \in Subscribers[f[1]] : <<f[1], f[2], u>> \in sent

\* No job stays overdue: it is fired and moved on until it has caught up, or is
\* switched off.  A pass that fails leaves what it claimed leased and so delays
\* the other jobs of its batch, but does not starve them (as long as passes do
\* not fail for ever).
DueJobFires == \A j \in Jobs : []<>~(on[j] /\ next[j] <= clock)
=============================================================================
