----------------------------- MODULE Broadcasts -----------------------------
(* A broadcast (internal/db/broadcasts.go): its targets, the runs that write its
   text, the schedulers that turn finished runs into outbound intents, the
   status callbacks of the intents, and a cancellation in three statements.

   A callback is a transaction of two statements that matter: the first writes
   the intent and its target, the second looks at the other targets as they are
   committed and writes the broadcast.  Texts and titles are left out, and the
   limit on the number of targets (10000). *)
EXTENDS Naturals, FiniteSets, Folds

CONSTANTS
  Sessions,      \* [user, agent, at]: the sessions there are, at is their last update
  Selections,    \* [all, agent, users]: what may be asked for
  Blocked,       \* sessions whose channel takes no broadcasts
  Modes,         \* "direct", "agent_per_instance", "per_user"
  Schedulers,
  Reports,       \* statuses that the receiver reports of an intent
  Faults, Budget \* bound: faults in a behaviour, a cancellation among them

VARIABLES
  mode, targets, \* the request
  creator,       \* place in CreateBroadcastFromSpec
  status,        \* of the broadcast; "none" before its row
  target,        \* session -> status of its target; "none" before its row
  generationRun, \* session -> run of its target, or None
  runState,      \* run -> "absent", "queued", or its end
  intents,       \* session -> number of outbound intents made for it
  intent,        \* session -> status of its intent
  claimed,       \* scheduler -> targets in hand with the run state it was told
  aged,          \* targets that have been processing for five minutes
  open,          \* session -> status a callback has written and not committed
  reported,      \* session -> statuses reported so far
  canceller,     \* place in CancelBroadcast
  spent          \* fault -> number of times; "overlap", "regress", "creating"

rowVars == <<status, target, generationRun, intents, intent>>
broadcastVars == <<mode, targets, creator, rowVars, runState, claimed, aged, open,
          reported, canceller, spent>>

None == "none"
GenerationRuns == {s.user : s \in Sessions} \cup {"agent"}
Ended == {"completed", "empty", "failed"}

-----------------------------------------------------------------------------
(* Targets *)

\* The latest session of each user among S.
Latest(S) == {s \in S : \A t \in S : t.user = s.user => t.at <= s.at}

ResolveBroadcastTargets(selection) ==
  (IF selection.all THEN Latest(Sessions) ELSE {})
    \cup Latest({s \in Sessions : s.agent = selection.agent})
    \cup Latest({s \in Sessions : s.user \in selection.users})

BroadcastsInit ==
  /\ mode \in Modes
  /\ \E selection \in Selections :
       targets = ResolveBroadcastTargets(selection) /\ targets # {}
  /\ creator = "begin" /\ status = None
  /\ target = [s \in Sessions |-> None]
  /\ generationRun = [s \in Sessions |-> None]
  /\ runState = [r \in GenerationRuns |-> "absent"]
  /\ intents = [s \in Sessions |-> 0]
  /\ intent = [s \in Sessions |-> None]
  /\ claimed = [w \in Schedulers |-> {}]
  /\ aged = {}
  /\ open = [s \in Sessions |-> None]
  /\ reported = [s \in Sessions |-> {}]
  /\ canceller = "idle"
  /\ spent = [f \in Faults \cup {"overlap", "regress", "creating"} |-> 0]

FaultsLeft == MapThenFoldSet(+, 0, LAMBDA f : spent[f], LAMBDA T : CHOOSE f \in T : TRUE, Faults) < Budget
Spend(f) == FaultsLeft /\ spent' = [spent EXCEPT ![f] = @ + 1]

-----------------------------------------------------------------------------
(* Creation *)

\* A direct broadcast is one transaction: rows, targets and intents.
CreateDirectBroadcast ==
  /\ creator = "begin" /\ mode = "direct"
  /\ target' = [s \in Sessions |->
                 IF s \notin targets THEN None
                 ELSE IF s \in Blocked THEN "channel_suppressed" ELSE "queued"]
  /\ status' = IF targets \subseteq Blocked THEN "channel_suppressed" ELSE "queued"
  /\ intents' = [s \in Sessions |-> IF s \in targets \ Blocked THEN 1 ELSE 0]
  /\ intent' = [s \in Sessions |-> IF s \in targets \ Blocked THEN "queued" ELSE None]
  /\ creator' = "done"
  /\ UNCHANGED <<mode, targets, generationRun, runState, claimed, aged, open,
                 reported, canceller, spent>>

InsertBroadcast ==
  /\ creator = "begin" /\ mode # "direct"
  /\ status' = "queued" /\ creator' = "targets"
  /\ UNCHANGED <<mode, targets, target, generationRun, intents, intent, runState,
                 claimed, aged, open, reported, canceller, spent>>

\* One statement for each target, outside a transaction.
InsertTarget ==
  /\ creator = "targets"
  /\ \E s \in targets :
       /\ target[s] = None
       /\ target' = [target EXCEPT ![s] =
                      IF s \in Blocked THEN "channel_suppressed" ELSE "generating"]
  /\ UNCHANGED <<mode, targets, creator, status, generationRun, intents, intent,
                 runState, claimed, aged, open, reported, canceller, spent>>

Allowed == targets \ Blocked

TargetsInserted ==
  /\ creator = "targets" /\ \A s \in targets : target[s] # None
  /\ IF Allowed = {}
     THEN status' = "channel_suppressed" /\ creator' = "done"
     ELSE UNCHANGED status /\ creator' = "runs"
  /\ UNCHANGED <<mode, targets, target, generationRun, intents, intent, runState,
                 claimed, aged, open, reported, canceller, spent>>

RunOf(s) == IF mode = "per_user" THEN s.user ELSE "agent"

\* A system run of its key; the user's or the agent's run if there is one.
CreateSystemRun ==
  /\ creator = "runs"
  /\ \E s \in Allowed :
       /\ runState[RunOf(s)] = "absent" \/ generationRun[s] = None
       /\ runState' = [runState EXCEPT ![RunOf(s)] = IF @ = "absent" THEN "queued" ELSE @]
       /\ creator' = RunOf(s)
  /\ UNCHANGED <<mode, targets, rowVars, claimed, aged, open, reported, canceller, spent>>

\* The agent's run is written to every target that still generates, a user's to
\* its own target in the order of the list.
LinkRun ==
  /\ creator \in GenerationRuns
  /\ IF mode = "agent_per_instance"
     THEN /\ generationRun' = [s \in Sessions |->
                IF target[s] = "generating" THEN creator ELSE generationRun[s]]
          /\ creator' = "done"
     ELSE /\ \E s \in Allowed :
               /\ RunOf(s) = creator /\ generationRun[s] = None
               /\ generationRun' = [generationRun EXCEPT ![s] = creator]
          /\ creator' = IF \A s \in Allowed : generationRun'[s] # None THEN "done" ELSE "runs"
  /\ UNCHANGED <<mode, targets, status, target, intents, intent, runState, claimed,
                 aged, open, reported, canceller, spent>>

\* A quota or an error on the way: what still generates is given up.
FailBroadcastGeneration ==
  /\ creator \in {"runs"} \cup GenerationRuns /\ Spend("error")
  /\ status' = "generation_failed" /\ creator' = "done"
  /\ target' = [s \in Sessions |->
       IF target[s] \in {"generating", "processing"} THEN "generation_failed" ELSE target[s]]
  /\ UNCHANGED <<mode, targets, generationRun, intents, intent, runState, claimed,
                 aged, open, reported, canceller>>

\* The process dies in the middle of the request, or a statement before the runs
\* fails: the request ends where it is.
CreatorDies ==
  /\ creator \notin {"begin", "done"} /\ Spend("crash") /\ creator' = "done"
  /\ UNCHANGED <<mode, targets, rowVars, runState, claimed, aged, open, reported, canceller>>

\* The run of a text ends with a text, without one, or badly.
RunEnds ==
  /\ \E r \in GenerationRuns, e \in Ended :
       runState[r] = "queued" /\ runState' = [runState EXCEPT ![r] = e]
  /\ UNCHANGED <<mode, targets, creator, rowVars, claimed, aged, open, reported,
                 canceller, spent>>

-----------------------------------------------------------------------------
(* Deliveries *)

ClaimableTargets == {s \in Sessions :
  /\ generationRun[s] # None /\ runState[generationRun[s]] \in Ended
  /\ target[s] = "generating" \/ (target[s] = "processing" /\ s \in aged)}

ClaimCompletedGenerations(w) ==
  /\ claimed[w] = {} /\ ClaimableTargets # {}
  /\ claimed' = [claimed EXCEPT ![w] = ClaimableTargets]
  /\ target' = [s \in Sessions |-> IF s \in ClaimableTargets THEN "processing" ELSE target[s]]
  /\ aged' = aged \ ClaimableTargets
  /\ UNCHANGED <<mode, targets, creator, status, generationRun, intents, intent,
                 runState, open, reported, canceller, spent>>

Ages(s) ==
  /\ target[s] = "processing" /\ s \notin aged /\ Spend("stall")
  /\ aged' = aged \cup {s}
  /\ UNCHANGED <<mode, targets, creator, rowVars, runState, claimed, open, reported, canceller>>

Drop(w, s) == claimed' = [claimed EXCEPT ![w] = @ \ {s}]

\* Variant: the target is not looked at again.
CreateOutboundUnlocked(w, s) ==
  /\ s \in claimed[w] /\ runState[generationRun[s]] = "completed"
  /\ target' = [target EXCEPT ![s] = "queued"]
  /\ intents' = [intents EXCEPT ![s] = @ + 1]
  /\ intent' = [intent EXCEPT ![s] = "queued"]
  /\ Drop(w, s)
  /\ UNCHANGED <<mode, targets, creator, status, generationRun, runState, aged, open,
                 reported, canceller, spent>>

\* The text is there: under the target's lock, unless it is no longer processing.
CreateGenerationOutbound(w, s) ==
  /\ s \in claimed[w] /\ runState[generationRun[s]] = "completed"
  /\ IF target[s] = "processing"
     THEN /\ target' = [target EXCEPT ![s] = "queued"]
          /\ intents' = [intents EXCEPT ![s] = @ + 1]
          /\ intent' = [intent EXCEPT ![s] = "queued"]
          /\ aged' = aged \ {s}
     ELSE UNCHANGED <<target, intents, intent, aged>>
  /\ Drop(w, s)
  /\ UNCHANGED <<mode, targets, creator, status, generationRun, runState, open,
                 reported, canceller, spent>>

Overwriting(s, f) ==
  IF target[s] = "processing" THEN f ELSE [f EXCEPT !["regress"] = 1]

\* No text, or an error: written over whatever the target has become.
CompleteGenerationDelivery(w, s) ==
  /\ s \in claimed[w] /\ open[s] = None
  /\ \/ runState[generationRun[s]] # "completed" /\ Drop(w, s) /\ spent' = Overwriting(s, spent)
     \/ /\ FaultsLeft
        /\ spent' = [Overwriting(s, spent) EXCEPT !["error"] = @ + 1]
        /\ claimed' = [claimed EXCEPT ![w] = {}]
  /\ target' = [target EXCEPT ![s] = "generation_failed"]
  /\ status' = IF status \in {"delivered", "cancelled"} THEN status ELSE "generation_failed"
  /\ aged' = aged \ {s}
  /\ UNCHANGED <<mode, targets, creator, generationRun, intents, intent, runState,
                 open, reported, canceller>>

\* The rest of a claim is left processing until it is old enough.
SchedulerDies(w) ==
  /\ claimed[w] # {} /\ Spend("crash") /\ claimed' = [claimed EXCEPT ![w] = {}]
  /\ UNCHANGED <<mode, targets, creator, rowVars, runState, aged, open, reported, canceller>>

-----------------------------------------------------------------------------
(* Status callbacks *)

\* The first statements: the intent and its target, whatever they are, under
\* the locks of both.  (The item leaves the outbox although the intent may be
\* cancelled.)
SetOutboundIntentStatus(s, report) ==
  /\ intents[s] > 0 /\ open[s] = None /\ report \in Reports \ reported[s]
  /\ open' = [open EXCEPT ![s] = report]
  /\ reported' = [reported EXCEPT ![s] = @ \cup {report}]
  /\ spent' = [spent EXCEPT
       !["overlap"] = IF \E t \in Sessions \ {s} : open[t] # None THEN 1 ELSE @,
       !["regress"] = IF target[s] \in {"delivered", "cancelled"} THEN 1 ELSE @]
  /\ UNCHANGED <<mode, targets, creator, rowVars, runState, claimed, aged, canceller>>

\* What the transaction sees: its own writes and what others have committed.
Seen(s) == [target EXCEPT ![s] = open[s]]
AllIn(s, states) == \A t \in Sessions : Seen(s)[t] \in states \cup {None}

\* The last statement: what the broadcast becomes by this report.
BroadcastBecomes(s) ==
  CASE open[s] = "delivered" ->
         IF AllIn(s, {"delivered", "cancelled", "channel_suppressed"}) THEN "delivered" ELSE status
    [] open[s] = "sent_to_nexus" ->
         IF /\ status \notin {"delivered", "failed", "cancelled"}
            /\ AllIn(s, {"sent_to_nexus", "delivered", "cancelled", "channel_suppressed"})
         THEN "sent_to_nexus" ELSE status
    [] open[s] = "failed" -> IF status \in {"delivered", "cancelled"} THEN status ELSE "failed"
    [] OTHER -> status

CommitStatus(s) ==
  /\ open[s] # None
  /\ status' = BroadcastBecomes(s)
  /\ target' = Seen(s)
  /\ intent' = [intent EXCEPT ![s] = open[s]]
  /\ open' = [open EXCEPT ![s] = None]
  /\ UNCHANGED <<mode, targets, creator, generationRun, intents, runState, claimed,
                 aged, reported, canceller, spent>>

-----------------------------------------------------------------------------
(* Cancellation *)

CancelBroadcast ==
  /\ canceller = "idle" /\ status # None /\ FaultsLeft
  /\ spent' = [spent EXCEPT !["cancel"] = @ + 1,
                           !["creating"] = IF creator # "done" THEN 1 ELSE @]
  /\ status' = "cancelled" /\ canceller' = "targets"
  /\ UNCHANGED <<mode, targets, creator, target, generationRun, intents, intent,
                 runState, claimed, aged, open, reported>>

\* It waits for the callbacks that hold one of the rows.
CancelTargets ==
  /\ canceller = "targets"
  /\ \A s \in Sessions : open[s] # None => target[s] # "queued"
  /\ target' = [s \in Sessions |->
       IF target[s] \in {"generating", "processing", "queued"} THEN "cancelled" ELSE target[s]]
  /\ aged' = {}
  /\ canceller' = "intents"
  /\ UNCHANGED <<mode, targets, creator, status, generationRun, intents, intent,
                 runState, claimed, open, reported, spent>>

CancelIntents ==
  /\ canceller = "intents"
  /\ \A s \in Sessions : open[s] # None => intent[s] # "queued"
  /\ intent' = [s \in Sessions |-> IF intent[s] = "queued" THEN "cancelled" ELSE intent[s]]
  /\ canceller' = "done"
  /\ UNCHANGED <<mode, targets, creator, status, target, generationRun, intents,
                 runState, claimed, aged, open, reported, spent>>

BroadcastsNext ==
  \/ CreateDirectBroadcast \/ InsertBroadcast \/ InsertTarget \/ TargetsInserted
  \/ CreateSystemRun \/ LinkRun \/ FailBroadcastGeneration \/ CreatorDies \/ RunEnds
  \/ \E w \in Schedulers :
       \/ ClaimCompletedGenerations(w) \/ SchedulerDies(w)
       \/ \E s \in Sessions : CreateGenerationOutbound(w, s) \/ CompleteGenerationDelivery(w, s)
  \/ \E s \in Sessions :
       \/ Ages(s) \/ CommitStatus(s)
       \/ \E report \in Reports : SetOutboundIntentStatus(s, report)
  \/ CancelBroadcast \/ CancelTargets \/ CancelIntents

-----------------------------------------------------------------------------
(* Properties *)

\* Claims lapse and are taken over, but a target is sent to once.
OneIntentPerTarget ==
  \A s \in Sessions : intents[s] <= 1 /\ (intents[s] = 1 => s \in targets \ Blocked)

NoCallback == \A s \in Sessions : open[s] = None

\* The broadcast is delivered if and only if its targets are (but those that a
\* receiver reports cancelled), unless a report overlapped another, came after a
\* later one (or a failure did that a scheduler saw before its claim lapsed), or met
\* a cancellation.
DeliveredMeansAll ==
  creator = "done" /\ NoCallback /\ canceller = "idle"
  /\ spent["overlap"] = 0 /\ spent["regress"] = 0 =>
    LET live == {s \in targets : target[s] # "channel_suppressed"} IN
    /\ status = "delivered" => \A s \in live : target[s] \in {"delivered", "cancelled"}
    /\ live # {} /\ (\A s \in live : target[s] = "delivered") => status = "delivered"

\* What generates has a run that will end it, unless its creator died.
GenerationEnds ==
  creator = "done" /\ spent["crash"] = 0 =>
    \A s \in Sessions :
      target[s] = "generating" => generationRun[s] # None

\* Nothing is left to be sent, and nothing becomes so, after a cancellation of a
\* broadcast that was created.
CancelledStays ==
  canceller = "done" /\ spent["creating"] = 0 => \A s \in Sessions : intent[s] # "queued"
=============================================================================
