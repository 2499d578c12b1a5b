-------------------------- MODULE ToolEvaluations --------------------------
(***************************************************************************)
(* The tool evaluator (internal/toolevaluator, internal/db/                *)
(* tool_evaluations.go): completed runs that look as if a tool was missed  *)
(* or failed get a row; loops, and requests of an administrator, claim the *)
(* row, ask a model for a verdict, may send the user a correction, and     *)
(* complete the row without a look at its lease.                           *)
(***************************************************************************)
EXTENDS Naturals, FiniteSets

CONSTANTS
  EvaluatedRuns,
  Histories,           \* of a completed run: [selected, called, failed, events]
  Profiles,            \* of an agent's version: [enabled, repair], enabled as it is written
  Global,              \* the evaluator is on for every run
  RepairMode,          \* repair_mode of the service: "safe" or "record_only"
  ConfidenceThreshold, \* confidence_threshold, in percent
  Verdicts,            \* what the model may say: [category, confidence, safe]
  Loops, Requests,
  EvaluationFaults     \* bound: crashes, failures and leases that lapse

VARIABLES
  runHistory, runProfile, \* run -> what happened in it, and its version's profile
  evaluationRow,          \* run -> its evaluation, or NoRow
  evaluator,              \* loop or request -> what it is doing
  repairs,                \* run -> corrections sent
  asked,                  \* run -> requests made
  evaluationTrouble       \* [left, faults]: runs that were left behind since they were claimed

evaluationVars == <<runHistory, runProfile, evaluationRow, evaluator, repairs, asked, evaluationTrouble>>

NoEvaluation == [status |-> "none", signals |-> {}, lease |-> "none", category |-> "", repair |-> ""]
RestingEvaluator ==
  [phase |-> "rest", items |-> {}, run |-> "none", signals |-> {}, category |-> "", confident |-> FALSE, repair |-> ""]

EvaluationsInit ==
  /\ runHistory \in [EvaluatedRuns -> Histories] /\ runProfile \in [EvaluatedRuns -> Profiles]
  /\ evaluationRow = [r \in EvaluatedRuns |-> NoEvaluation]
  /\ evaluator = [e \in Loops \cup Requests |-> RestingEvaluator]
  /\ repairs = [r \in EvaluatedRuns |-> 0] /\ asked = [r \in EvaluatedRuns |-> 0]
  /\ evaluationTrouble = [left |-> {}, faults |-> 0]

-----------------------------------------------------------------------------
(* Suspicion *)

ToolEvents == {"required_missing", "suppressed", "tool_failed_event"}

Signals(h) ==
  {s \in {"tool_event", "tool_failed", "selected_tool_missing"} :
     \/ s = "tool_event" /\ h.events \cap ToolEvents # {}
     \/ s = "tool_failed" /\ h.failed
     \/ s = "selected_tool_missing" /\ h.selected >= ConfidenceThreshold /\ ~h.called}

\* The query takes the words a JSON string may say for a switch that is on...
QueueEnabled(r) == Global \/ runProfile[r].enabled \in {"true", "yes"}

\* ...the decoder only the boolean, and drops a profile it cannot decode.  A
\* profile's mode of repair, if it names one, stands for the service's.
ConfigForRun(r) ==
  LET profile == IF runProfile[r].enabled = "yes" THEN [enabled |-> "no", repair |-> "absent"] ELSE runProfile[r]
  IN [enabled |-> Global \/ profile.enabled = "true",
      safe |-> (IF profile.repair = "absent" THEN RepairMode ELSE profile.repair) = "safe"]

QueueSuspiciousToolEvaluations(rows) ==
  [r \in EvaluatedRuns |->
     IF rows[r] = NoEvaluation /\ QueueEnabled(r) /\ Signals(runHistory[r]) # {}
     THEN [NoEvaluation EXCEPT !.status = "queued", !.signals = Signals(runHistory[r])] ELSE rows[r]]

-----------------------------------------------------------------------------
(* Claims *)

\* Runs whose rows an evaluator has claimed.
Has(e) ==
  evaluator[e].items \cup {r \in EvaluatedRuns : evaluator[e].run = r /\ evaluator[e].phase # "claim"}
IsTakenUp(S) == evaluationTrouble' = [evaluationTrouble EXCEPT !.left = @ \ S]

Claimed(rows, S) ==
  [r \in EvaluatedRuns |-> IF r \in S THEN [rows[r] EXCEPT !.status = "running", !.lease = "live"] ELSE rows[r]]

ClaimableEvaluations(rows) == {r \in EvaluatedRuns : rows[r].status = "queued" /\ rows[r].lease # "live"}

\* A round of a loop: two statements, queueing and claiming.
RunOnce(e) ==
  /\ e \in Loops /\ evaluator[e].phase = "rest"
  /\ LET rows == QueueSuspiciousToolEvaluations(evaluationRow) IN
     /\ ClaimableEvaluations(rows) # {}
     /\ evaluationRow' = Claimed(rows, ClaimableEvaluations(rows))
     /\ evaluator' = [evaluator EXCEPT ![e] =
          [RestingEvaluator EXCEPT !.phase = "next", !.items = ClaimableEvaluations(rows)]]
     /\ IsTakenUp(ClaimableEvaluations(rows))
  /\ UNCHANGED <<runHistory, runProfile, repairs, asked>>

NextItem(e) ==
  /\ evaluator[e].phase = "next"
  /\ \E r \in evaluator[e].items :
       evaluator' = [evaluator EXCEPT ![e] =
         [RestingEvaluator EXCEPT !.phase = "evaluate", !.items = evaluator[e].items \ {r},
                         !.run = r, !.signals = evaluationRow[r].signals]]
  /\ UNCHANGED <<runHistory, runProfile, evaluationRow, repairs, asked, evaluationTrouble>>

\* A request puts the row back in the queue, whoever works on it.
QueueToolEvaluation(rows, r) ==
  [rows EXCEPT ![r].status = "queued", ![r].signals = {"manual"}, ![r].lease = "none"]

EvaluateRunTools(e, r) ==
  /\ e \in Requests /\ evaluator[e].phase = "rest" /\ asked[r] = 0
  /\ asked' = [asked EXCEPT ![r] = @ + 1]
  /\ evaluationRow' = QueueToolEvaluation(evaluationRow, r)
  /\ evaluator' = [evaluator EXCEPT ![e] = [RestingEvaluator EXCEPT !.phase = "claim", !.run = r]]
  /\ UNCHANGED <<runHistory, runProfile, repairs, evaluationTrouble>>

\* It is claimed unless a loop was quicker and still holds it.
ClaimToolEvaluation(e) ==
  /\ evaluator[e].phase = "claim"
  /\ LET r == evaluator[e].run IN
     IF evaluationRow[r].status = "queued" \/ evaluationRow[r].lease # "live"
     THEN /\ evaluationRow' = Claimed(evaluationRow, {r})
          /\ evaluator' = [evaluator EXCEPT ![e] =
               [@ EXCEPT !.phase = "evaluate", !.signals = evaluationRow[r].signals]]
          /\ IsTakenUp({r})
     ELSE /\ evaluator' = [evaluator EXCEPT ![e] = RestingEvaluator]
          /\ UNCHANGED <<evaluationRow, evaluationTrouble>>
  /\ UNCHANGED <<runHistory, runProfile, repairs, asked>>

-----------------------------------------------------------------------------
(* Evaluation *)

DeterministicVerdict(h, signals) ==
  CASE h.failed -> [category |-> "tool_failed", confidence |-> 90]
    [] ~h.failed /\ "selected_tool_missing" \in signals /\ h.selected > 0 /\ ~h.called ->
         [category |-> "missed_tool", confidence |-> 82]
    [] OTHER ->
         CASE "required_missing" \in h.events -> [category |-> "missed_tool", confidence |-> 88]
           [] "suppressed" \in h.events -> [category |-> "wrong_tool", confidence |-> 75]
           [] OTHER -> [category |-> "ok", confidence |-> 50]

After(e) == IF evaluator[e].items = {} THEN "rest" ELSE "next"
Over(e) == [RestingEvaluator EXCEPT !.phase = After(e), !.items = evaluator[e].items]
Completed(r, status, category, repair) ==
  evaluationRow' = [evaluationRow EXCEPT ![r] = [@ EXCEPT !.status = status, !.lease = "none",
                                      !.category = category, !.repair = repair]]

Skipped(e) ==
  LET r == evaluator[e].run IN
  /\ evaluator[e].phase = "evaluate"
  /\ ~ConfigForRun(r).enabled /\ "manual" \notin evaluator[e].signals
  /\ Completed(r, "completed", "skipped", "")
  /\ evaluator' = [evaluator EXCEPT ![e] = Over(e)]
  /\ UNCHANGED <<runHistory, runProfile, repairs, asked, evaluationTrouble>>

\* The model's verdict, with the deterministic one's confidence if it names none;
\* or that one alone, if the model fails.
LLMVerdict(e) ==
  LET r == evaluator[e].run
      fallback == DeterministicVerdict(runHistory[r], evaluator[e].signals) IN
  /\ evaluator[e].phase = "evaluate"
  /\ ConfigForRun(r).enabled \/ "manual" \in evaluator[e].signals
  /\ \E v \in Verdicts \cup {[category |-> fallback.category, confidence |-> fallback.confidence, safe |-> FALSE]} :
       LET confidence == IF v.confidence = 0 THEN fallback.confidence ELSE v.confidence IN
       evaluator' = [evaluator EXCEPT ![e] =
         [@ EXCEPT !.phase = "repair", !.category = v.category,
                   !.confident = v.safe /\ confidence >= ConfidenceThreshold]]
  /\ UNCHANGED <<runHistory, runProfile, evaluationRow, repairs, asked, evaluationTrouble>>

MaybeRepair(e) ==
  LET ev == evaluator[e]
      Ends(how) == evaluator' = [evaluator EXCEPT ![e].phase = "complete", ![e].repair = how] IN
  /\ ev.phase = "repair"
  /\ IF /\ ConfigForRun(ev.run).safe /\ ev.confident
        /\ ev.category \in {"clarification_needed", "false_success_claim"}
     THEN \/ Ends("queued") /\ repairs' = [repairs EXCEPT ![ev.run] = @ + 1]
          \/ Ends("failed") /\ UNCHANGED repairs
     ELSE Ends("skipped") /\ UNCHANGED repairs
  /\ UNCHANGED <<runHistory, runProfile, evaluationRow, asked, evaluationTrouble>>

CompleteToolEvaluation(e) ==
  LET ev == evaluator[e] IN
  /\ ev.phase = "complete"
  /\ Completed(ev.run, "completed", ev.category, ev.repair)
  /\ evaluator' = [evaluator EXCEPT ![e] = Over(e)]
  /\ UNCHANGED <<runHistory, runProfile, repairs, asked, evaluationTrouble>>

-----------------------------------------------------------------------------
(* Failures *)

Trouble(t) == evaluationTrouble.faults < EvaluationFaults /\ evaluationTrouble' = [t EXCEPT !.faults = @ + 1]

LeavesBehind(S) == Trouble([evaluationTrouble EXCEPT !.left = @ \cup S])

\* An error on the way: the row fails; the correction, once queued, is on its way.
EvaluationFails(e) ==
  /\ evaluator[e].phase \in {"evaluate", "complete"} /\ Trouble(evaluationTrouble)
  /\ Completed(evaluator[e].run, "failed", "evaluation_failed", "")
  /\ evaluator' = [evaluator EXCEPT ![e] = Over(e)]
  /\ UNCHANGED <<runHistory, runProfile, repairs, asked>>

\* The failure is not written, and nobody notices: the context of a request whose
\* caller gave it up takes that statement with it, or the statement fails too.
FailureIsLost(e) ==
  /\ evaluator[e].phase \in {"evaluate", "complete"} \cup (IF e \in Requests THEN {"claim", "repair"} ELSE {})
  /\ LeavesBehind(Has(e) \ evaluator[e].items)
  /\ evaluator' = [evaluator EXCEPT ![e] = Over(e)]
  /\ UNCHANGED <<runHistory, runProfile, evaluationRow, repairs, asked>>

Crash(e) ==
  /\ evaluator[e].phase # "rest" /\ LeavesBehind(Has(e))
  /\ evaluator' = [evaluator EXCEPT ![e] = RestingEvaluator]
  /\ UNCHANGED <<runHistory, runProfile, evaluationRow, repairs, asked>>

EvaluationLeaseLapses(r) ==
  /\ evaluationRow[r].lease = "live" /\ Trouble(evaluationTrouble)
  /\ evaluationRow' = [evaluationRow EXCEPT ![r].lease = "lapsed"]
  /\ UNCHANGED <<runHistory, runProfile, evaluator, repairs, asked>>

EvaluationsNext ==
  \/ \E e \in Loops \cup Requests :
       \/ RunOnce(e) \/ NextItem(e) \/ ClaimToolEvaluation(e)
       \/ \E r \in EvaluatedRuns : EvaluateRunTools(e, r)
       \/ Skipped(e) \/ LLMVerdict(e) \/ MaybeRepair(e) \/ CompleteToolEvaluation(e)
       \/ EvaluationFails(e) \/ FailureIsLost(e) \/ Crash(e)
  \/ \E r \in EvaluatedRuns : EvaluationLeaseLapses(r)

-----------------------------------------------------------------------------
(* Properties *)

\* A user is corrected once for what nobody asked about, however often leases
\* lapse; a request may correct twice more: a loop takes it from the queue and
\* finishes before the request claims the row.
RepairsBounded == \A r \in EvaluatedRuns : repairs[r] <= 1 + 2 * asked[r]

\* Nothing is evaluated unasked that was not suspicious, or for an agent that did
\* not want it; and nobody is corrected for it.
UnaskedIsSuspicious ==
  \A r \in EvaluatedRuns : asked[r] = 0 =>
    /\ evaluationRow[r] # NoEvaluation => Signals(runHistory[r]) # {} /\ QueueEnabled(r)
    /\ repairs[r] > 0 => ConfigForRun(r).enabled /\ ConfigForRun(r).safe

\* A row that says running is somebody's, whatever requests get between an
\* evaluator and its row, unless who claimed it last died or failed without a word:
\* no loop takes such a row again.
RunningIsInHand ==
  \A r \in EvaluatedRuns : evaluationRow[r].status = "running" =>
    r \in evaluationTrouble.left \cup UNION {Has(e) : e \in Loops \cup Requests}

\* A row that tells of a correction tells the truth.
RecordedRepairHappened == \A r \in EvaluatedRuns : evaluationRow[r].repair = "queued" => repairs[r] > 0
=============================================================================
