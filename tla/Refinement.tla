----------------------------- MODULE Refinement -----------------------------
(***************************************************************************)
(* Rapid follow-ups in one chat session: the start-run handler that defers *)
(* a message to the run being processed, the interrupt window of that run, *)
(* and the finalizer that turns deferred messages into a refinement run.   *)
(*                                                                         *)
(* RunLifecycle models how the session's pipeline is claimed, leased and   *)
(* recovered; here the session has one pipeline and a crash hands its run  *)
(* back to the queue.  A database transaction of the handler that stays    *)
(* open across other steps is two steps.                                   *)
(***************************************************************************)
EXTENDS Naturals, FiniteSets

CONSTANTS
  Messages,    \* user messages, one per idempotency key
  Requests,    \* HTTP requests that submit them
  KeyOf,       \* the message a request carries: retries share it
  MaxDepth,    \* max_refinement_depth
  Allowed,     \* which of Events the environment may cause
  MaxCrashes

Events == {"deny", "fail", "ask", "cancel", "straddle"}
NoRun == <<>>

ASSUME RefinementAssumption ==
  /\ KeyOf \in [Requests -> Messages]
  /\ MaxDepth \in Nat /\ MaxCrashes \in Nat
  /\ Allowed \subseteq Events

\* <<m, 0>> is the run created for m; <<m, d>> is its d-th refinement, whose
\* idempotency key refine:<parent>:<d> makes it unique.
RunIds   == Messages \X (0..MaxDepth)
RunOf(m) == <<m, 0>>
Depth(r) == r[2]

VARIABLES
  state,    \* runs.state
  window,   \* runs.interrupt_window_started_at: unset, open or past
  carries,  \* the messages a run's input holds
  answers,  \* final outbound messages of a run
  replies,  \* final replies to a message: answers of the runs that carry it (history)
  dstate,   \* deferred_run_messages.state of a message
  target,   \* deferred_run_messages.active_run_id
  hpc, hrun,   \* each request: where its handler is, the run row it locked
  pc, cur, got, \* the pipeline: phase, run, and deferred messages in hand
  crashes,
  seen      \* which of Events have happened

outVars == <<answers, replies>>
rowVars == <<state, window, carries, outVars>>
handlerVars == <<hpc, hrun>>
pipeVars == <<pc, cur, got>>
vars == <<rowVars, dstate, target, handlerVars, pipeVars, crashes, seen>>

Active   == {"running", "awaiting_user"}
Terminal == {"completed", "failed", "cancelled"}

\* Types; the pipeline has a run in hand unless it is idle, and deferred
\* messages only between their claim and the refinement run.
TypeOK ==
  /\ state \in [RunIds -> {"absent", "queued"} \cup Active \cup Terminal]
  /\ window \in [RunIds -> {"unset", "open", "past"}]
  /\ carries \in [RunIds -> SUBSET Messages]
  /\ answers \in [RunIds -> Nat] /\ replies \in [Messages -> Nat]
  /\ dstate \in [Messages -> {"none", "deferred", "claimed"}]
  /\ target \in [Messages -> RunIds \cup {NoRun}]
  /\ hpc \in [Requests -> {"new", "unknown", "undeferred", "tx", "create", "done"}]
  /\ hrun \in [Requests -> RunIds \cup {NoRun}]
  /\ pc \in {"idle", "judging", "working", "finalizing", "replying", "replied",
             "suppressing", "refining"}
  /\ cur \in RunIds \cup {NoRun} /\ (cur = NoRun <=> pc = "idle")
  /\ got \subseteq Messages /\ (got # {} => pc \in {"suppressing", "refining"})
  /\ crashes \in Nat /\ seen \subseteq Allowed

Init ==
  /\ state = [r \in RunIds |-> "absent"]
  /\ window = [r \in RunIds |-> "unset"]
  /\ carries = [r \in RunIds |-> {}]
  /\ answers = [r \in RunIds |-> 0] /\ replies = [m \in Messages |-> 0]
  /\ dstate = [m \in Messages |-> "none"]
  /\ target = [m \in Messages |-> NoRun]
  /\ hpc = [q \in Requests |-> "new"]
  /\ hrun = [q \in Requests |-> NoRun]
  /\ pc = "idle" /\ cur = NoRun /\ got = {}
  /\ crashes = 0 /\ seen = {}

-----------------------------------------------------------------------------
(* The handler of POST /acp/runs *)

\* A defer transaction holds the run FOR UPDATE: writers of the row wait.
RowFree(r) == \A q \in Requests : hpc[q] = "tx" => hrun[q] # r

HandlerAt(q, from, to) == hpc[q] = from /\ hpc' = [hpc EXCEPT ![q] = to]

\* startRun returns the run of the key, if any; the session upsert and the
\* profile refresh that follow take their time.
CheckRun(q) ==
  /\ HandlerAt(q, "new", IF state[RunOf(KeyOf[q])] = "absent" THEN "unknown" ELSE "done")
  /\ UNCHANGED <<rowVars, dstate, target, hrun, pipeVars, crashes, seen>>

\* DeferRunIfActive: off, answered by an earlier deferral, or to be tried.
CheckDeferred(q) ==
  /\ HandlerAt(q, "unknown", IF MaxDepth = 0 THEN "create"
                             ELSE IF dstate[KeyOf[q]] # "none" THEN "done"
                             ELSE "undeferred")
  /\ UNCHANGED <<rowVars, dstate, target, hrun, pipeVars, crashes, seen>>

\* The active run of the session whose window is open, below the last depth.
Interruptible(r) == state[r] \in Active /\ window[r] = "open" /\ Depth(r) < MaxDepth

DeferSelect(q) ==
  /\ \/ \E r \in RunIds :
          /\ Interruptible(r) /\ RowFree(r)
          /\ HandlerAt(q, "undeferred", "tx")
          /\ hrun' = [hrun EXCEPT ![q] = r]
     \/ /\ ~\E r \in RunIds : Interruptible(r)
        /\ HandlerAt(q, "undeferred", "create")
        /\ UNCHANGED hrun
  /\ UNCHANGED <<rowVars, dstate, target, pipeVars, crashes, seen>>

\* The insert does nothing on a key that is there already.
DeferCommit(q) ==
  LET m == KeyOf[q] IN
  /\ HandlerAt(q, "tx", "done")
  /\ hrun' = [hrun EXCEPT ![q] = NoRun]
  /\ IF dstate[m] = "none"
     THEN /\ dstate' = [dstate EXCEPT ![m] = "deferred"]
          /\ target' = [target EXCEPT ![m] = hrun[q]]
     ELSE UNCHANGED <<dstate, target>>
  /\ UNCHANGED <<rowVars, pipeVars, crashes, seen>>

\* CreateRun upserts on (customer, session, idempotency key).
CreateRun(q) ==
  LET r == RunOf(KeyOf[q]) IN
  /\ HandlerAt(q, "create", "done")
  /\ IF state[r] = "absent"
     THEN /\ state' = [state EXCEPT ![r] = "queued"]
          /\ carries' = [carries EXCEPT ![r] = {KeyOf[q]}]
     ELSE UNCHANGED <<state, carries>>
  /\ UNCHANGED <<window, outVars, dstate, target, hrun, pipeVars, crashes, seen>>

-----------------------------------------------------------------------------
(* The pipeline *)

SetState(r, s) == RowFree(r) /\ state' = [state EXCEPT ![r] = s]

At(from, to) == pc = from /\ pc' = to

Stop == pc' = "idle" /\ cur' = NoRun /\ got' = {}

Aside == <<target, handlerVars, crashes>>
NoHandler == UNCHANGED <<Aside, seen>>

\* One kind of event, perhaps several times.
Happens(e) ==
  /\ e \in Allowed /\ seen \subseteq {e}
  /\ seen' = {e}

\* Claimed when no run of the session is active, and marked as started: the
\* window opens with the first execution of the run and never again.
StartRun(r) ==
  /\ At("idle", "judging")
  /\ state[r] = "queued" /\ ~\E q \in RunIds : state[q] \in Active
  /\ SetState(r, "running")
  /\ window' = [window EXCEPT ![r] = IF @ = "unset" THEN "open" ELSE @]
  /\ cur' = r
  /\ UNCHANGED <<carries, outVars, dstate, got>> /\ NoHandler

\* Out of scope or refused by moderation: straight to a reply.
JudgeScope ==
  /\ \/ At("judging", "working") /\ UNCHANGED seen
     \/ At("judging", "replying") /\ Happens("deny")
  /\ UNCHANGED <<rowVars, dstate, cur, got, Aside>>

\* Context, model and tools; ensureRunnable ends a cancelled run.
Work ==
  /\ pc = "working"
  /\ IF state[cur] = "cancelled"
     THEN Stop
     ELSE pc' = "finalizing" /\ UNCHANGED <<cur, got>>
  /\ UNCHANGED <<rowVars, dstate>> /\ NoHandler

AskUser ==
  /\ pc = "working" /\ Happens("ask")
  /\ SetState(cur, "awaiting_user")
  /\ Stop
  /\ UNCHANGED <<window, carries, outVars, dstate, Aside>>

\* Variants: no wait for the window; whatever the session has deferred.
ClaimEarly ==
  /\ pc = "finalizing"
  /\ IF Depth(cur) < MaxDepth
     THEN /\ got' = {m \in Messages : dstate[m] = "deferred" /\ target[m] = cur}
          /\ dstate' = [m \in Messages |-> IF m \in got' THEN "claimed" ELSE dstate[m]]
          /\ pc' = IF got' = {} THEN "replying" ELSE "suppressing"
     ELSE pc' = "replying" /\ UNCHANGED <<got, dstate>>
  /\ UNCHANGED <<rowVars, cur>> /\ NoHandler

ClaimAll ==
  /\ pc = "finalizing"
  /\ IF Depth(cur) < MaxDepth
     THEN /\ window[cur] = "past"
          /\ got' = {m \in Messages : dstate[m] # "none"}
          /\ dstate' = [m \in Messages |-> IF m \in got' THEN "claimed" ELSE dstate[m]]
          /\ pc' = IF got' = {} THEN "replying" ELSE "suppressing"
     ELSE pc' = "replying" /\ UNCHANGED <<got, dstate>>
  /\ UNCHANGED <<rowVars, cur>> /\ NoHandler

\* finalizeAssistantResponse waits for the window to pass, then claims what
\* was deferred to this run and is committed.
ClaimDeferred ==
  /\ pc = "finalizing"
  /\ IF Depth(cur) < MaxDepth
     THEN /\ window[cur] = "past"
          /\ got' = {m \in Messages : dstate[m] = "deferred" /\ target[m] = cur}
          /\ dstate' = [m \in Messages |-> IF m \in got' THEN "claimed" ELSE dstate[m]]
          /\ pc' = IF got' = {} THEN "replying" ELSE "suppressing"
     ELSE pc' = "replying" /\ UNCHANGED <<got, dstate>>
  /\ UNCHANGED <<rowVars, cur>> /\ NoHandler

EmitReply ==
  /\ At("replying", "replied")
  /\ answers' = [answers EXCEPT ![cur] = @ + 1]
  /\ replies' = [m \in Messages |-> IF m \in carries[cur] THEN replies[m] + 1 ELSE replies[m]]
  /\ UNCHANGED <<state, window, carries, dstate, cur, got>> /\ NoHandler

CompleteRun ==
  /\ pc = "replied"
  /\ SetState(cur, "completed")
  /\ Stop
  /\ UNCHANGED <<window, carries, outVars, dstate>> /\ NoHandler

CompleteRunSuppressed ==
  /\ At("suppressing", "refining")
  /\ SetState(cur, "completed")
  /\ UNCHANGED <<window, carries, outVars, dstate, cur, got>> /\ NoHandler

\* Variant: the input holds the parent's input only.
RefineParentOnly ==
  LET r == <<cur[1], cur[2] + 1>> IN
  /\ pc = "refining"
  /\ IF state[r] = "absent"
     THEN /\ state' = [state EXCEPT ![r] = "queued"]
          /\ carries' = [carries EXCEPT ![r] = carries[cur]]
     ELSE UNCHANGED <<state, carries>>
  /\ Stop
  /\ UNCHANGED <<window, outVars, dstate>> /\ NoHandler

\* An upsert on refine:<parent>:<depth>: the first input written stays.
CreateRefinementRun ==
  LET r == <<cur[1], cur[2] + 1>> IN
  /\ pc = "refining"
  /\ IF state[r] = "absent"
     THEN /\ state' = [state EXCEPT ![r] = "queued"]
          /\ carries' = [carries EXCEPT ![r] = carries[cur] \cup got]
     ELSE UNCHANGED <<state, carries>>
  /\ Stop
  /\ UNCHANGED <<window, outVars, dstate>> /\ NoHandler

\* An error anywhere in process, also after the suppressed completion.
FailRun ==
  /\ pc # "idle" /\ Happens("fail")
  /\ SetState(cur, "failed")
  /\ Stop
  /\ UNCHANGED <<window, carries, outVars, dstate, Aside>>

-----------------------------------------------------------------------------
(* Time, users and crashes *)

\* Two seconds after the start.  A transaction that read the open window may
\* outlast it.
WindowPasses(r) ==
  /\ window[r] = "open"
  /\ IF RowFree(r) THEN UNCHANGED seen ELSE Happens("straddle")
  /\ window' = [window EXCEPT ![r] = "past"]
  /\ UNCHANGED <<state, carries, outVars, dstate, target, handlerVars, pipeVars, crashes>>

Cancel(r) ==
  /\ state[r] # "absent" /\ Happens("cancel")
  /\ SetState(r, "cancelled")
  /\ UNCHANGED <<window, carries, outVars, dstate, target, handlerVars, pipeVars, crashes>>

Resume(r) ==
  /\ state[r] = "awaiting_user"
  /\ SetState(r, "queued")
  /\ UNCHANGED <<window, carries, outVars, dstate, target, handlerVars, pipeVars, crashes, seen>>

\* The worker dies; RecoverExpiredLeases requeues the run it left active.
Crash ==
  /\ crashes < MaxCrashes /\ pc # "idle"
  /\ crashes' = crashes + 1
  /\ IF state[cur] = "running" THEN SetState(cur, "queued") ELSE UNCHANGED state
  /\ Stop
  /\ UNCHANGED <<window, carries, outVars, dstate, target, handlerVars, seen>>

-----------------------------------------------------------------------------
HandlerStep(q) ==
  CheckRun(q) \/ CheckDeferred(q) \/ DeferSelect(q) \/ DeferCommit(q) \/ CreateRun(q)

PipelineStep ==
  \/ \E r \in RunIds : StartRun(r)
  \/ JudgeScope \/ Work \/ AskUser \/ ClaimDeferred \/ EmitReply \/ CompleteRun
  \/ CompleteRunSuppressed \/ CreateRefinementRun \/ FailRun

Next ==
  \/ \E q \in Requests : HandlerStep(q)
  \/ PipelineStep
  \/ \E r \in RunIds : WindowPasses(r) \/ Cancel(r) \/ Resume(r)
  \/ Crash

Spec == Init /\ [][Next]_vars

\* A handler that read the request runs to its end, the worker loops, time
\* passes.
Fairness ==
  /\ \A q \in Requests : WF_vars(hpc[q] # "new" /\ HandlerStep(q))
  /\ WF_vars(PipelineStep)
  /\ \A r \in RunIds : WF_vars(WindowPasses(r))

FairSpec == Spec /\ Fairness

-----------------------------------------------------------------------------
(* Properties *)

Received == {m \in Messages : state[RunOf(m)] # "absent" \/ dstate[m] # "none"}

Chat == INSTANCE Conversation WITH received <- Received

\* Every accepted message, deferred or not, is replied to once, with those that
\* interrupted it (docs/concepts/durable-runs.md).
ExactlyOneReply == Chat!Spec

\* Only a crash makes a reply that Conversation does not know: finished runs,
\* drafts and refinements never reply to a message twice by themselves.
SpeaksInTurn == Chat!Init /\ [][Chat!Next \/ crashes' > 0]_(Chat!vars)

\* And each accepted message has its reply until one of Events or a crash.
RepliedUnlessDisturbed ==
  /\ SpeaksInTurn
  /\ \A m \in Messages :
       m \in Received ~> replies[m] > 0 \/ seen # {} \/ crashes > 0

\* A message has a second reply only after a crash, one per crash.
RepliesPaid == \A m \in Messages : replies[m] <= 1 + crashes

\* A deferred message has somebody who will read it: its run has not ended
\* (ClaimDeferredRunMessages).  A run that is denied, cancelled or fails drops
\* it, and so does a claim that overtakes the insert; a crash does not.
DeferredHasListener ==
  seen \subseteq {"ask"} =>
    \A m \in Messages : dstate[m] = "deferred" => state[target[m]] \notin Terminal

\* A claimed message is in the input of a refinement run, or on its way there,
\* unless the worker died or failed in between.
ClaimedIsCarried ==
  crashes = 0 /\ "fail" \notin seen =>
    \A m \in Messages :
      dstate[m] = "claimed" =>
        \/ \E r \in RunIds : Depth(r) > 0 /\ m \in carries[r]
        \/ m \in got

\* A suppressed draft is not the end, with the same exceptions: a completed run
\* has replied, is being refined, or has a refinement that carries all it did.
DraftIsRefined ==
  crashes = 0 /\ "fail" \notin seen =>
    \A r \in RunIds :
      state[r] = "completed" /\ answers[r] = 0 =>
        \/ cur = r
        \/ \E q \in RunIds : /\ q[1] = r[1] /\ Depth(q) = Depth(r) + 1
                             /\ carries[r] \subseteq carries[q]

\* Nothing that was accepted is dropped on the way through deferral, claim and
\* refinement, but for the events each part names.
NothingIsDropped == DeferredHasListener /\ ClaimedIsCarried /\ DraftIsRefined
=============================================================================
