----------------------------- MODULE SharedRuns -----------------------------
(***************************************************************************)
(* A shared scheduler job that reaches its subscribers by way of durable   *)
(* runs, or directly (internal/db/shared_scheduler.go, internal/scheduler).*)
(* A fire selects subscribers, by a service of the customer's if there is  *)
(* one, and creates for each agent among them one run with one delivery;   *)
(* when the run is completed, each subscriber of the delivery is written   *)
(* to.  The job's lease lapses, or an edit takes it away, and another      *)
(* scheduler repeats the fire, perhaps with another selection or action.   *)
(***************************************************************************)
EXTENDS Naturals, FiniteSets

CONSTANTS
  Users, Agents,
  First,       \* user -> agent: what the subscriptions may be at first
  JobSchedulers,
  External,    \* the job asks a service whom to write to
  MaxFires,    \* bound: how often it is due
  SharedBudget \* bound: edits, lapses, failures

Actions == {"outbound_intent", "durable_run"}
Fires == 1..MaxFires

VARIABLES
  job,           \* [exists, enabled, action, next, lease]
  subs,          \* user -> [exists, enabled, agent]
  pass,          \* scheduler -> its runSharedSchedulerJob
  runs,          \* <<fire, agent>> -> state of its run; "absent" before CreateRun
  deliveries,    \* <<fire, agent>> -> [status, users]: the rows of durable runs
  sharedIntents, \* <<fire, user>> -> messages created, by action
  fires,         \* fire -> [status, users] as recorded
  courier,       \* scheduler -> the deliveries it carries out
  sharedSpent    \* [events, switched: the action was changed]

jobVars == <<job, subs>>
sharedVars == <<job, subs, pass, runs, deliveries, sharedIntents, fires, courier, sharedSpent>>

NoPass == [phase |-> "idle", fire |-> 0, action |-> "none", users |-> {}, todo |-> {}, agentOf |-> <<>>]
NoDelivery == [status |-> "none", users |-> {}]
NoCourier == [rest |-> {}, key |-> <<>>, todo |-> {}]
RunKeys == Fires \X Agents

CreateSharedSchedulerJob(action) ==
  [exists |-> TRUE, enabled |-> TRUE, action |-> action, next |-> 1, lease |-> "none"]

\* One row for a user and a job, whatever it was before.
Subscribed(a) == [exists |-> TRUE, enabled |-> TRUE, agent |-> a]

SharedInit ==
  /\ \E action \in Actions : job = CreateSharedSchedulerJob(action)
  /\ \E agent \in First : subs = [u \in Users |-> Subscribed(agent[u])]
  /\ pass = [s \in JobSchedulers |-> NoPass]
  /\ runs = [k \in RunKeys |-> "absent"]
  /\ deliveries = [k \in RunKeys |-> NoDelivery]
  /\ sharedIntents = [f \in Fires |-> [u \in Users |-> [a \in Actions |-> 0]]]
  /\ fires = [f \in Fires |-> [status |-> "none", users |-> {}]]
  /\ courier = [s \in JobSchedulers |-> NoCourier]
  /\ sharedSpent = [events |-> 0, switched |-> FALSE]

SpendOne == sharedSpent.events < SharedBudget /\ sharedSpent' = [sharedSpent EXCEPT !.events = @ + 1]

-----------------------------------------------------------------------------
(* The tables, as administrators and users change them *)

\* An edit takes the lease from whoever holds it.
Edits(j) == {[j EXCEPT !.lease = "none", !.enabled = ~@]}
              \cup {[j EXCEPT !.lease = "none", !.action = a] : a \in Actions \ {j.action}}

UpdateSharedSchedulerJob ==
  /\ job.exists /\ sharedSpent.events < SharedBudget
  /\ job' \in Edits(job)
  /\ sharedSpent' = [sharedSpent EXCEPT !.events = @ + 1, !.switched = @ \/ job'.action # job.action]
  /\ UNCHANGED <<subs, pass, runs, deliveries, sharedIntents, fires, courier>>

\* The rows of subscriptions, fires and deliveries go with it.
DeleteSharedSchedulerJob ==
  /\ job.exists /\ SpendOne
  /\ job' = [job EXCEPT !.exists = FALSE]
  /\ subs' = [u \in Users |-> [subs[u] EXCEPT !.exists = FALSE]]
  /\ deliveries' = [k \in RunKeys |-> NoDelivery]
  /\ fires' = [f \in Fires |-> [status |-> "none", users |-> {}]]
  /\ UNCHANGED <<pass, runs, sharedIntents, courier>>

CreateSharedSchedulerSubscription(u) ==
  /\ job.exists /\ SpendOne
  /\ \E a \in Agents : subs' = [subs EXCEPT ![u] = Subscribed(a)]
  /\ subs' # subs
  /\ UNCHANGED <<job, pass, runs, deliveries, sharedIntents, fires, courier>>

UpdateSharedSchedulerSubscription(u) ==
  /\ subs[u].exists /\ SpendOne /\ subs' = [subs EXCEPT ![u].enabled = ~@]
  /\ UNCHANGED <<job, pass, runs, deliveries, sharedIntents, fires, courier>>

DeleteSharedSchedulerSubscription(u) ==
  /\ subs[u].exists /\ SpendOne /\ subs' = [subs EXCEPT ![u].exists = FALSE]
  /\ UNCHANGED <<job, pass, runs, deliveries, sharedIntents, fires, courier>>

-----------------------------------------------------------------------------
(* A fire *)

ClaimDueSharedSchedulerJobs(s) ==
  /\ pass[s].phase = "idle" /\ courier[s] = NoCourier
  /\ job.exists /\ job.enabled /\ job.lease # "live" /\ job.next <= MaxFires
  /\ job' = [job EXCEPT !.lease = "live"]
  /\ pass' = [pass EXCEPT ![s] = [NoPass EXCEPT !.phase = "select", !.fire = job.next, !.action = job.action]]
  /\ UNCHANGED <<subs, runs, deliveries, sharedIntents, fires, courier, sharedSpent>>

ListSharedSchedulerSubscriptions == {u \in Users : subs[u].exists}
ActiveSharedSubscriptions == {u \in ListSharedSchedulerSubscriptions : subs[u].enabled}

\* Whomever the answer names among the active subscribers, in a list or an object;
\* all of them, if it has no place for targets.
MapSharedTargets == SUBSET ActiveSharedSubscriptions

SelectSharedSubscribers ==
  IF External THEN MapSharedTargets ELSE {ActiveSharedSubscriptions}

RunSharedSchedulerJob(s) ==
  /\ pass[s].phase = "select"
  /\ \E U \in SelectSharedSubscribers :
       pass' = [pass EXCEPT ![s] = [@ EXCEPT
         !.phase = "create", !.users = U,
         !.todo = IF pass[s].action = "durable_run" THEN {subs[u].agent : u \in U} ELSE U,
         !.agentOf = [u \in U |-> subs[u].agent]]]
  /\ UNCHANGED <<job, subs, runs, deliveries, sharedIntents, fires, courier, sharedSpent>>

\* The service fails: so does the fire, and the job goes on.
ConditionFails(s) ==
  /\ External /\ pass[s].phase = "select" /\ SpendOne
  /\ fires' = IF job.exists THEN [fires EXCEPT ![pass[s].fire] = [status |-> "failed", users |-> {}]] ELSE fires
  /\ pass' = [pass EXCEPT ![s].phase = "complete"]
  /\ UNCHANGED <<job, subs, runs, deliveries, sharedIntents, courier>>

\* Rows of deliveries are unique for fire, user and action, and come with a message.
Outbound(count) == IF count = 0 THEN 1 ELSE count

CreateSharedSchedulerOutbound(s) ==
  LET p == pass[s] IN
  /\ p.phase = "create" /\ p.action = "outbound_intent" /\ job.exists
  /\ \E u \in p.todo :
       /\ sharedIntents' = [sharedIntents EXCEPT ![p.fire][u]["outbound_intent"] = Outbound(@)]
       /\ pass' = [pass EXCEPT ![s].todo = @ \ {u}]
  /\ UNCHANGED <<job, subs, runs, deliveries, fires, courier, sharedSpent>>

\* The key of the run is of the fire and the agent: a repeated fire finds it.
CreateRun(s) ==
  LET p == pass[s] IN
  /\ p.phase = "create" /\ p.action = "durable_run"
  /\ \E a \in p.todo :
       /\ runs' = [runs EXCEPT ![<<p.fire, a>>] = IF @ = "absent" THEN "queued" ELSE @]
       /\ pass' = [pass EXCEPT ![s].phase = a]
  /\ UNCHANGED <<job, subs, deliveries, sharedIntents, fires, courier, sharedSpent>>

\* The first delivery of the fire and the agent stays, with its subscribers.
CreateSharedSchedulerRunDelivery(s) ==
  LET p == pass[s] IN
  /\ p.phase \in Agents /\ job.exists
  /\ deliveries' = [deliveries EXCEPT ![<<p.fire, p.phase>>] =
       IF @ = NoDelivery
       THEN [status |-> "pending", users |-> {u \in p.users : p.agentOf[u] = p.phase}] ELSE @]
  /\ pass' = [pass EXCEPT ![s].todo = @ \ {p.phase}, ![s].phase = "create"]
  /\ UNCHANGED <<job, subs, runs, sharedIntents, fires, courier, sharedSpent>>

RecordSharedSchedulerFire(s) ==
  LET p == pass[s] IN
  /\ p.phase = "create" /\ p.todo = {} /\ job.exists
  /\ fires' = [fires EXCEPT ![p.fire] = [status |-> "succeeded", users |-> p.users]]
  /\ pass' = [pass EXCEPT ![s].phase = "complete"]
  /\ UNCHANGED <<job, subs, runs, deliveries, sharedIntents, courier, sharedSpent>>

\* Whatever the row has become: the next time is the next after the fire's.
CompleteSharedSchedulerJob(s) ==
  /\ pass[s].phase = "complete"
  /\ job' = [job EXCEPT !.next = pass[s].fire + 1, !.lease = "none"]
  /\ pass' = [pass EXCEPT ![s] = NoPass]
  /\ UNCHANGED <<subs, runs, deliveries, sharedIntents, fires, courier, sharedSpent>>

\* A statement fails, for want of the job for instance, or the process dies.
PassAborts(s) ==
  /\ pass[s].phase # "idle"
  /\ IF ~job.exists THEN UNCHANGED sharedSpent ELSE SpendOne
  /\ pass' = [pass EXCEPT ![s] = NoPass]
  /\ UNCHANGED <<job, subs, runs, deliveries, sharedIntents, fires, courier>>

FiringLeaseLapses ==
  /\ job.lease = "live" /\ SpendOne /\ job' = [job EXCEPT !.lease = "lapsed"]
  /\ UNCHANGED <<subs, pass, runs, deliveries, sharedIntents, fires, courier>>

-----------------------------------------------------------------------------
(* The deliveries of completed runs *)

SharedRunEnds ==
  /\ \E k \in RunKeys, end \in {"completed", "failed"} :
       runs[k] = "queued" /\ runs' = [runs EXCEPT ![k] = end]
  /\ UNCHANGED <<job, subs, pass, deliveries, sharedIntents, fires, courier, sharedSpent>>

Stale(k) == runs[k] = "completed" /\ deliveries[k].status = "processing"
DeliveryPends(k) == runs[k] = "completed" /\ deliveries[k].status = "pending"

\* All that is pending; and, once five minutes have passed, what is processing.
ClaimCompletedSharedSchedulerRunDeliveries(s) ==
  /\ courier[s] = NoCourier /\ pass[s].phase = "idle"
  /\ \E C \in {{k \in RunKeys : DeliveryPends(k)}, {k \in RunKeys : DeliveryPends(k) \/ Stale(k)}} :
       /\ C # {}
       /\ IF \E k \in C : Stale(k) THEN SpendOne ELSE UNCHANGED sharedSpent
       /\ deliveries' = [k \in RunKeys |-> IF k \in C THEN [deliveries[k] EXCEPT !.status = "processing"]
                                        ELSE deliveries[k]]
       /\ courier' = [courier EXCEPT ![s].rest = C]
  /\ UNCHANGED <<job, subs, pass, runs, sharedIntents, fires>>

\* Its subscribers are those it had when it was claimed.
TakeUp(s) ==
  /\ courier[s].key = <<>>
  /\ \E k \in courier[s].rest :
       courier' = [courier EXCEPT ![s] = [rest |-> @.rest \ {k}, key |-> k, todo |-> deliveries[k].users]]
  /\ UNCHANGED <<job, subs, pass, runs, deliveries, sharedIntents, fires, sharedSpent>>

\* A row for fire and user makes the message the only one of its kind.
DeliveryOutbound(count) == IF count = 0 THEN 1 ELSE count

\* Where the delivery itself is gone there is no row to copy, and no message.
CreateSharedSchedulerDeliveryOutbound(s) ==
  LET c == courier[s] IN
  /\ \E u \in c.todo :
       /\ sharedIntents' = IF deliveries[c.key] = NoDelivery THEN sharedIntents
                     ELSE [sharedIntents EXCEPT ![c.key[1]][u]["durable_run"] = DeliveryOutbound(@)]
       /\ courier' = [courier EXCEPT ![s].todo = @ \ {u}]
  /\ UNCHANGED <<job, subs, pass, runs, deliveries, fires, sharedSpent>>

RunBecomes(k, status) ==
  deliveries' = IF deliveries[k] = NoDelivery THEN deliveries
                ELSE [deliveries EXCEPT ![k].status = status]

CompleteSharedSchedulerRunDelivery(s) ==
  /\ courier[s].key # <<>> /\ courier[s].todo = {}
  /\ RunBecomes(courier[s].key, "completed")
  /\ courier' = [courier EXCEPT ![s] = [NoCourier EXCEPT !.rest = courier[s].rest]]
  /\ UNCHANGED <<job, subs, pass, runs, sharedIntents, fires, sharedSpent>>

\* An error gives up the rest, also of a row that another has completed.
DeliveryFails(s) ==
  /\ courier[s].todo # {} /\ SpendOne
  /\ RunBecomes(courier[s].key, "failed")
  /\ courier' = [courier EXCEPT ![s] = NoCourier]
  /\ UNCHANGED <<job, subs, pass, runs, sharedIntents, fires>>

CourierDies(s) ==
  /\ courier[s] # NoCourier /\ SpendOne
  /\ courier' = [courier EXCEPT ![s] = NoCourier]
  /\ UNCHANGED <<job, subs, pass, runs, deliveries, sharedIntents, fires>>

SharedNext ==
  \/ UpdateSharedSchedulerJob \/ DeleteSharedSchedulerJob
  \/ \E u \in Users : \/ CreateSharedSchedulerSubscription(u)
                      \/ UpdateSharedSchedulerSubscription(u)
                      \/ DeleteSharedSchedulerSubscription(u)
  \/ FiringLeaseLapses \/ SharedRunEnds
  \/ \E s \in JobSchedulers :
       \/ ClaimDueSharedSchedulerJobs(s) \/ RunSharedSchedulerJob(s) \/ ConditionFails(s)
       \/ CreateSharedSchedulerOutbound(s) \/ CreateRun(s) \/ CreateSharedSchedulerRunDelivery(s)
       \/ RecordSharedSchedulerFire(s) \/ CompleteSharedSchedulerJob(s) \/ PassAborts(s)
       \/ ClaimCompletedSharedSchedulerRunDeliveries(s) \/ TakeUp(s)
       \/ CreateSharedSchedulerDeliveryOutbound(s) \/ CompleteSharedSchedulerRunDelivery(s)
       \/ DeliveryFails(s) \/ CourierDies(s)

-----------------------------------------------------------------------------
(* Properties *)

\* However often a fire is repeated, and whomever it selects then, a user gets one
\* message of it; or one of each kind, if the job's action was changed meanwhile.
OncePerFire ==
  \A f \in Fires, u \in Users :
    LET n == sharedIntents[f][u] IN
    /\ \A a \in Actions : n[a] <= 1
    /\ ~sharedSpent.switched => \E a \in Actions : n[a] = 0

\* A completed delivery was carried out: all its subscribers have their message.
CompletedIsSent ==
  \A k \in RunKeys : deliveries[k].status = "completed" =>
    \A u \in deliveries[k].users : sharedIntents[k[1]][u]["durable_run"] = 1

\* Whoever a recorded fire selected has a message or is in the delivery of an agent;
\* a fire that was repeated may have kept a delivery of an earlier selection.
RecordedIsUnderWay ==
  \A f \in Fires : fires[f].status = "succeeded" =>
    \A u \in fires[f].users :
      \/ sharedIntents[f][u]["outbound_intent"] = 1
      \/ \E a \in Agents : /\ deliveries[<<f, a>>] # NoDelivery
                           /\ sharedSpent.events > 0 \/ u \in deliveries[<<f, a>>].users

\* A message is of a run that was completed, or of a fire without one.
SaidByARun ==
  \A f \in Fires, u \in Users :
    sharedIntents[f][u]["durable_run"] = 1 => \E a \in Agents : runs[<<f, a>>] = "completed"
=============================================================================
