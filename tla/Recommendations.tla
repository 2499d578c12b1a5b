--------------------------- MODULE Recommendations --------------------------
(***************************************************************************)
(* Beside the answer of a run a recommendation is looked for.  In time it  *)
(* is merged into the answer; too late it becomes a job, whose result goes *)
(* out as a message of its own.  What became of it is a decision's row.    *)
(***************************************************************************)
EXTENDS Naturals, FiniteSets

CONSTANTS
  Items,          \* of the catalog
  SponsoredItems, \* those somebody pays for
  AllowSponsored, \* of the agent's profile
  MaxCandidates,
  Workers,        \* loops that take up jobs
  MaxTroubles     \* bound: how often the run is taken up again, leases lapse and items change

NoItem == "none"

VARIABLES
  catalog,   \* status of the items: "active", "paused", "deleted"
  blocked,   \* the session's channel wants no recommendations
  run,       \* the run that is answered
  decisions, \* rows of recommendation_decisions
  jobs,      \* rows of recommendation_jobs
  worker,    \* what the loops are doing
  shown,     \* recommendations that went out: item and how
  trouble    \* what went wrong: lives of the run, lapses, deletions

recommendationVars == <<catalog, blocked, run, decisions, jobs, worker, shown, trouble>>

FreshRun == [phase |-> "search", candidates |-> {}, item |-> NoItem]
RestingWorker  == [phase |-> "rest", job |-> 0, candidates |-> {}, item |-> NoItem, decision |-> 0]

RecommendationInit ==
  /\ catalog = [i \in Items |-> "active"]
  /\ blocked = FALSE
  /\ run = FreshRun
  /\ decisions = <<>> /\ jobs = <<>>
  /\ worker = [w \in Workers |-> RestingWorker]
  /\ shown = <<>>
  /\ trouble = [taken |-> 0, lapses |-> 0, deleted |-> FALSE, changes |-> 0]

WithRow(rows, row) == [n \in DOMAIN rows \cup {Cardinality(DOMAIN rows) + 1} |->
                     IF n \in DOMAIN rows THEN rows[n] ELSE row]
Show(item, how) == shown' = WithRow(shown, [item |-> item, how |-> how])

-----------------------------------------------------------------------------
(* The catalog and the channel *)

Changing == trouble.changes < MaxTroubles
Changed(t) == [t EXCEPT !.changes = @ + 1]

UpdateRecommendationItem(i, status) ==
  /\ Changing /\ catalog[i] \notin {"deleted", status}
  /\ catalog' = [catalog EXCEPT ![i] = status] /\ trouble' = Changed(trouble)
  /\ UNCHANGED <<blocked, run, decisions, jobs, worker, shown>>

\* Decisions lose their item.
DeleteRecommendationItem(i) ==
  /\ Changing /\ catalog[i] # "deleted"
  /\ catalog' = [catalog EXCEPT ![i] = "deleted"]
  /\ decisions' = [n \in DOMAIN decisions |->
                     IF decisions[n].item = i THEN [decisions[n] EXCEPT !.item = NoItem] ELSE decisions[n]]
  /\ trouble' = [Changed(trouble) EXCEPT !.deleted = TRUE]
  /\ UNCHANGED <<blocked, run, jobs, worker, shown>>

MergeSessionMetadata ==
  /\ Changing /\ blocked' = ~blocked /\ trouble' = Changed(trouble)
  /\ UNCHANGED <<catalog, run, decisions, jobs, worker, shown>>

SearchRecommendationItems ==
  {C \in SUBSET {i \in Items : catalog[i] = "active" /\ (AllowSponsored \/ i \notin SponsoredItems)} :
     Cardinality(C) <= MaxCandidates}

\* An item that is gone is refused by the table, and there is no row.
Recorded(item, status) ==
  IF item # NoItem /\ catalog[item] = "deleted" THEN decisions
  ELSE WithRow(decisions, [item |-> item, status |-> status])

-----------------------------------------------------------------------------
(* The run *)

\* The sidecar: candidates, and what a model says of them; or nothing, if there
\* are none or the message is of a kind that wants none.
StartRecommendationSidecar ==
  /\ run.phase = "search"
  /\ \E C \in SearchRecommendationItems : run' = [run EXCEPT !.phase = IF C = {} THEN "none" ELSE "select", !.candidates = C]
  /\ UNCHANGED <<catalog, blocked, decisions, jobs, worker, shown, trouble>>

\* One of the candidates, none, an error, or no answer in time.
RunRecommendationSelection ==
  /\ run.phase \in {"search", "select"}
  /\ \/ run.phase = "select" /\ \E i \in run.candidates : run' = [run EXCEPT !.phase = "chosen", !.item = i]
     \/ \E phase \in {"none", "failed", "timeout"} : run' = [run EXCEPT !.phase = phase]
  /\ UNCHANGED <<catalog, blocked, decisions, jobs, worker, shown, trouble>>

EnqueueRecommendationJob == jobs' = WithRow(jobs, [status |-> "queued", holder |-> NoItem])

\* The answer is ready, and waits for the sidecar: too late is a job for later.
ApplyRecommendationResult ==
  /\ run.phase \in {"none", "failed", "timeout"}
  /\ LET late == run.phase = "timeout"
     IN /\ decisions' = Recorded(NoItem, IF late /\ blocked THEN "channel_suppressed"
                                   ELSE IF run.phase = "none" THEN "no_candidate" ELSE run.phase)
        /\ IF late /\ ~blocked THEN EnqueueRecommendationJob ELSE UNCHANGED jobs
  /\ run' = [FreshRun EXCEPT !.phase = "answer"]
  /\ UNCHANGED <<catalog, blocked, worker, shown, trouble>>

RecommendationSuppressed ==
  /\ run.phase = "chosen" /\ blocked
  /\ decisions' = Recorded(run.item, "channel_suppressed")
  /\ run' = [FreshRun EXCEPT !.phase = "answer"]
  /\ UNCHANGED <<catalog, blocked, jobs, worker, shown, trouble>>

BeginMerge ==
  /\ run.phase = "chosen" /\ ~blocked
  /\ run' = [run EXCEPT !.phase = "merge"]
  /\ UNCHANGED <<catalog, blocked, decisions, jobs, worker, shown, trouble>>

\* A second call of the model; if it fails the answer stays as it was.
MergeRecommendation ==
  /\ run.phase = "merge"
  /\ \/ /\ decisions' = Recorded(run.item, "inline_merged")
        /\ run' = [run EXCEPT !.phase = "answer"]
     \/ /\ decisions' = Recorded(run.item, "failed")
        /\ run' = [FreshRun EXCEPT !.phase = "answer"]
  /\ UNCHANGED <<catalog, blocked, jobs, worker, shown, trouble>>

EmitFinalOutbound ==
  /\ run.phase = "answer"
  /\ IF run.item = NoItem THEN UNCHANGED shown ELSE Show(run.item, "inline_merged")
  /\ run' = [FreshRun EXCEPT !.phase = "done"]
  /\ UNCHANGED <<catalog, blocked, decisions, jobs, worker, trouble>>

\* The worker of the run dies, or loses it.
RunIsTakenUpAgain ==
  /\ run.phase # "done" /\ trouble.taken < MaxTroubles
  /\ run' = FreshRun /\ trouble' = [trouble EXCEPT !.taken = @ + 1]
  /\ UNCHANGED <<catalog, blocked, decisions, jobs, worker, shown>>

-----------------------------------------------------------------------------
(* The jobs *)

\* Variant: a lease is not looked at.
ClaimableAnyway(j) == jobs[j].status \in {"queued", "leased"}

Claimable(j) == jobs[j].status = "queued" \/ (jobs[j].status = "leased" /\ jobs[j].holder = NoItem)

ClaimRecommendationJobs(w) ==
  /\ worker[w].phase = "rest"
  /\ \E j \in DOMAIN jobs :
       /\ Claimable(j)
       /\ jobs' = [jobs EXCEPT ![j] = [status |-> "leased", holder |-> w]]
       /\ worker' = [worker EXCEPT ![w] = [RestingWorker EXCEPT !.phase = "search", !.job = j]]
  /\ UNCHANGED <<catalog, blocked, run, decisions, shown, trouble>>

\* The lease ends under a slow worker, or its worker died: nobody renews it.
JobLeaseLapses(j) ==
  /\ jobs[j].status = "leased" /\ jobs[j].holder # NoItem /\ trouble.lapses < MaxTroubles
  /\ jobs' = [jobs EXCEPT ![j].holder = NoItem] /\ trouble' = [trouble EXCEPT !.lapses = @ + 1]
  /\ UNCHANGED <<catalog, blocked, run, decisions, worker, shown>>

WorkerDies(w) ==
  /\ worker[w].phase # "rest"
  /\ worker' = [worker EXCEPT ![w] = RestingWorker]
  /\ UNCHANGED <<catalog, blocked, run, decisions, jobs, shown, trouble>>

CompleteRecommendationJob(w, status) ==
  /\ jobs' = [jobs EXCEPT ![worker[w].job] = [status |-> status, holder |-> NoItem]]
  /\ worker' = [worker EXCEPT ![w] = RestingWorker]

\* The same search and selection again, without a limit of time.
ProcessSearches(w) ==
  /\ worker[w].phase = "search"
  /\ \E C \in SearchRecommendationItems \ {{}} : worker' = [worker EXCEPT ![w].phase = "select", ![w].candidates = C]
  /\ UNCHANGED <<catalog, blocked, run, decisions, jobs, shown, trouble>>

ProcessSelects(w) ==
  /\ worker[w].phase = "select"
  /\ \E i \in worker[w].candidates : worker' = [worker EXCEPT ![w].phase = "chosen", ![w].candidates = {}, ![w].item = i]
  /\ UNCHANGED <<catalog, blocked, run, decisions, jobs, shown, trouble>>

ProcessFindsNone(w) ==
  /\ worker[w].phase \in {"search", "select"}
  /\ decisions' = Recorded(NoItem, "no_candidate")
  /\ CompleteRecommendationJob(w, "no_candidate")
  /\ UNCHANGED <<catalog, blocked, run, shown, trouble>>

\* An error before or after the message went out: the job failed.
ProcessFails(w) ==
  /\ worker[w].phase \notin {"rest", "chosen"}
  /\ CompleteRecommendationJob(w, "failed")
  /\ UNCHANGED <<catalog, blocked, run, decisions, shown, trouble>>

ProcessDecides(w) ==
  /\ worker[w].phase = "chosen"
  /\ IF blocked
     THEN /\ decisions' = Recorded(worker[w].item, "channel_suppressed")
          /\ CompleteRecommendationJob(w, "cancelled")
     ELSE /\ decisions' = Recorded(worker[w].item, "outbound_pending")
          /\ worker' = [worker EXCEPT ![w].phase = "emit",
                          ![w].decision = IF decisions' = decisions THEN 0 ELSE Cardinality(DOMAIN decisions')]
          /\ UNCHANGED jobs
  /\ UNCHANGED <<catalog, blocked, run, shown, trouble>>

ProcessEmits(w) ==
  /\ worker[w].phase = "emit"
  /\ Show(worker[w].item, "outbound_queued")
  /\ worker' = [worker EXCEPT ![w].phase = "update"]
  /\ UNCHANGED <<catalog, blocked, run, decisions, jobs, trouble>>

UpdateRecommendationDecisionStatus(w) ==
  /\ worker[w].phase = "update"
  /\ decisions' = [n \in DOMAIN decisions |->
       IF n = worker[w].decision THEN [decisions[n] EXCEPT !.status = "outbound_queued"] ELSE decisions[n]]
  /\ worker' = [worker EXCEPT ![w].phase = "complete"]
  /\ UNCHANGED <<catalog, blocked, run, jobs, shown, trouble>>

ProcessCompletes(w) ==
  /\ worker[w].phase = "complete"
  /\ CompleteRecommendationJob(w, "sent")
  /\ UNCHANGED <<catalog, blocked, run, decisions, shown, trouble>>

RecommendationNext ==
  \/ \E i \in Items : DeleteRecommendationItem(i) \/ \E s \in {"active", "paused"} : UpdateRecommendationItem(i, s)
  \/ MergeSessionMetadata
  \/ StartRecommendationSidecar \/ RunRecommendationSelection \/ ApplyRecommendationResult
  \/ RecommendationSuppressed \/ BeginMerge \/ MergeRecommendation \/ EmitFinalOutbound \/ RunIsTakenUpAgain
  \/ \E j \in DOMAIN jobs : JobLeaseLapses(j)
  \/ \E w \in Workers :
       \/ ClaimRecommendationJobs(w) \/ WorkerDies(w) \/ ProcessSearches(w) \/ ProcessSelects(w)
       \/ ProcessFindsNone(w) \/ ProcessFails(w) \/ ProcessDecides(w) \/ ProcessEmits(w)
       \/ UpdateRecommendationDecisionStatus(w) \/ ProcessCompletes(w)

-----------------------------------------------------------------------------
(* Properties *)

\* A message gets one recommendation, in its answer or after it: a second one is
\* paid for by a life of the run or a lapse of a job's lease.
OneRecommendation == Cardinality(DOMAIN shown) <= 1 + trouble.taken + trouble.lapses

\* What the user was shown is on record, as merged, as sent or as about to be, with
\* its item, unless an item was deleted: then the row refers to none or was refused.
ShownIsRecorded ==
  trouble.deleted \/
    \A n \in DOMAIN shown : \E d \in DOMAIN decisions :
      /\ decisions[d].item = shown[n].item
      /\ decisions[d].status \in {shown[n].how} \cup (IF shown[n].how = "outbound_queued" THEN {"outbound_pending"} ELSE {})
=============================================================================
