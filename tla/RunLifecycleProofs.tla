------------------------- MODULE RunLifecycleProofs -------------------------
(***************************************************************************)
(* Theorems about RunLifecycle for every set of workers, runs and sessions *)
(* and every budget of faults.                                             *)
(***************************************************************************)
EXTENDS RunLifecycle, TLAPS, FiniteSetTheorems

USE DEF rowVars, workerVars, Ledger, Rest, Active, Recoverable, Terminal, RunStates,
        Processing, Phases, Faults

\* Every step keeps the rows, the workers and the counters well-typed.
THEOREM TypeCorrect == Spec => []TypeOK
<1> USE RunLifecycleAssumption DEF TypeOK
<1>1. Init => TypeOK
  BY DEF Init
<1>2. TypeOK /\ [Next]_vars => TypeOK'
  <2> SUFFICES ASSUME TypeOK, [Next]_vars PROVE TypeOK'
    OBVIOUS
  <2>1. ASSUME NEW r \in Runs, CreateRun(r) PROVE TypeOK'
    BY <2>1 DEF CreateRun
  <2>2. ASSUME NEW r \in Runs, Cancel(r) PROVE TypeOK'
    BY <2>2 DEF Cancel, SetRunState, Spend
  <2>3. ASSUME NEW r \in Runs, ResumeCheck(r) PROVE TypeOK'
    BY <2>3 DEF ResumeCheck, Spend
  <2>4. ASSUME NEW r \in Runs, ResumeWrite(r) PROVE TypeOK'
    BY <2>4 DEF ResumeWrite, SetRunState
  <2>5. ASSUME NEW r \in Runs, LeaseExpires(r) PROVE TypeOK'
    BY <2>5 DEF LeaseExpires
  <2>6. ASSUME NEW r \in Runs, LeaseLapses(r) PROVE TypeOK'
    BY <2>6 DEF LeaseLapses, Spend
  <2>7. ASSUME NEW w \in Workers, Crash(w) PROVE TypeOK'
    BY <2>7 DEF Crash, Leave, GoTo, Spend
  <2>8. ASSUME NEW w \in Workers, WorkerStep(w) PROVE TypeOK'
    <3>1. CASE RecoverExpiredLeases(w)
      BY <3>1 DEF RecoverExpiredLeases, GoTo
    <3>2. CASE ClaimSelect(w)
      BY <3>2 DEF ClaimSelect, GoTo
    <3>3. CASE ClaimNothing(w)
      BY <3>3 DEF ClaimNothing, GoTo
    <3>4. CASE ClaimCommit(w)
      BY <3>4 DEF ClaimCommit, GoTo
    <3>5. CASE AdmitRun(w)
      BY <3>5 DEF AdmitRun, GoTo
    <3>6. CASE BeginProcess(w)
      BY <3>6 DEF BeginProcess, SetRunState, GoTo
    <3>7. CASE EnsureRunnable(w)
      BY <3>7 DEF EnsureRunnable, CheckedPhase, Leave, GoTo
    <3>8. CASE JudgeScope(w)
      BY <3>8 DEF JudgeScope, GoTo
    <3>9. CASE EnterWorkflow(w) \/ FindWaiting(w) \/ NodeWaits(w)
      BY <3>9 DEF EnterWorkflow, FindWaiting, NodeWaits, SetRunState, Leave, GoTo
    <3>10. CASE WorkflowSucceeds(w)
      BY <3>10 DEF WorkflowSucceeds, GoTo
    <3>11. CASE WorkflowFails(w)
      BY <3>11 DEF WorkflowFails, SetRunState, GoTo
    <3>12. CASE AskUser(w)
      BY <3>12 DEF AskUser, SetRunState, Leave, GoTo
    <3>13. CASE ToolsDone(w)
      BY <3>13 DEF ToolsDone, GoTo
    <3>14. CASE EmitAnswer(w)
      BY <3>14 DEF EmitAnswer, GoTo
    <3>15. CASE CompleteRun(w)
      BY <3>15 DEF CompleteRun, SetRunState, Leave, GoTo
    <3>16. CASE FailRun(w)
      BY <3>16 DEF FailRun, SetRunState, Leave, GoTo
    <3> QED
      BY <2>8, <3>1, <3>2, <3>3, <3>4, <3>5, <3>6, <3>7, <3>8, <3>9, <3>10,
         <3>11, <3>12, <3>13, <3>14, <3>15, <3>16 DEF WorkerStep
  <2>9. CASE UNCHANGED vars
    BY <2>9 DEF vars
  <2> QED
    BY <2>1, <2>2, <2>3, <2>4, <2>5, <2>6, <2>7, <2>8, <2>9 DEF Next
<1> QED
  BY <1>1, <1>2, PTL DEF Spec

-----------------------------------------------------------------------------
\* However often a run is executed, by however many workers at once, it is
\* completed only after a final message of it went out.
THEOREM CompletionAnswers == Spec => []CompletedHasAnswer
<1> USE RunLifecycleAssumption DEF TypeOK, AnswerInv, CompletedHasAnswer
<1>1. Init => AnswerInv
  BY DEF Init
<1>2. TypeOK /\ AnswerInv /\ [Next]_vars => AnswerInv'
  <2> SUFFICES ASSUME TypeOK, AnswerInv, [Next]_vars PROVE AnswerInv'
    OBVIOUS
  <2>1. ASSUME NEW r \in Runs, CreateRun(r) PROVE AnswerInv'
    BY <2>1 DEF CreateRun
  <2>2. ASSUME NEW r \in Runs, Cancel(r) PROVE AnswerInv'
    BY <2>2 DEF Cancel, SetRunState
  <2>3. ASSUME NEW r \in Runs, ResumeCheck(r) PROVE AnswerInv'
    BY <2>3 DEF ResumeCheck
  <2>4. ASSUME NEW r \in Runs, ResumeWrite(r) PROVE AnswerInv'
    BY <2>4 DEF ResumeWrite, SetRunState
  <2>5. ASSUME NEW r \in Runs, LeaseExpires(r) \/ LeaseLapses(r) PROVE AnswerInv'
    BY <2>5 DEF LeaseExpires, LeaseLapses
  <2>6. ASSUME NEW w \in Workers, Crash(w) PROVE AnswerInv'
    BY <2>6 DEF Crash, Leave, GoTo
  <2>7. ASSUME NEW w \in Workers, WorkerStep(w) PROVE AnswerInv'
    <3>1. CASE RecoverExpiredLeases(w)
      BY <3>1 DEF RecoverExpiredLeases, GoTo
    <3>2. CASE ClaimSelect(w) \/ ClaimNothing(w)
      BY <3>2 DEF ClaimSelect, ClaimNothing, GoTo
    <3>3. CASE ClaimCommit(w)
      BY <3>3 DEF ClaimCommit, GoTo
    <3>4. CASE AdmitRun(w)
      BY <3>4 DEF AdmitRun, GoTo
    <3>5. CASE BeginProcess(w)
      BY <3>5 DEF BeginProcess, SetRunState, GoTo
    <3>6. CASE EnsureRunnable(w)
      BY <3>6 DEF EnsureRunnable, CheckedPhase, Leave, GoTo
    <3>7. CASE JudgeScope(w) \/ ToolsDone(w)
      BY <3>7 DEF JudgeScope, ToolsDone, GoTo
    <3>8. CASE EnterWorkflow(w) \/ FindWaiting(w) \/ NodeWaits(w)
      BY <3>8 DEF EnterWorkflow, FindWaiting, NodeWaits, SetRunState, Leave, GoTo
    <3>9. CASE WorkflowSucceeds(w) \/ WorkflowFails(w)
      BY <3>9 DEF WorkflowSucceeds, WorkflowFails, SetRunState, GoTo
    <3>10. CASE AskUser(w) \/ FailRun(w)
      BY <3>10 DEF AskUser, FailRun, SetRunState, Leave, GoTo
    <3>11. CASE EmitAnswer(w)
      BY <3>11 DEF EmitAnswer, GoTo
    <3>12. CASE CompleteRun(w)
      BY <3>12 DEF CompleteRun, SetRunState, Leave, GoTo
    <3> QED
      BY <2>7, <3>1, <3>2, <3>3, <3>4, <3>5, <3>6, <3>7, <3>8, <3>9, <3>10,
         <3>11, <3>12 DEF WorkerStep
  <2>8. CASE UNCHANGED vars
    BY <2>8 DEF vars
  <2> QED
    BY <2>1, <2>2, <2>3, <2>4, <2>5, <2>6, <2>7, <2>8 DEF Next
<1>3. AnswerInv => CompletedHasAnswer
  OBVIOUS
<1> QED
  BY <1>1, <1>2, <1>3, TypeCorrect, PTL DEF Spec

-----------------------------------------------------------------------------
\* Fencing survives every fault as long as the workers' owner strings differ.
THEOREM Fencing ==
  ASSUME \A v, w \in Workers : OwnerOf[v] = OwnerOf[w] => v = w
  PROVE  Spec => FenceHolds
<1> USE RunLifecycleAssumption DEF TypeOK, OwnerIsClaimer
<1>1. Init => OwnerIsClaimer
  BY DEF Init
<1>2. TypeOK /\ OwnerIsClaimer /\ [Next]_vars => OwnerIsClaimer'
  <2> SUFFICES ASSUME TypeOK, OwnerIsClaimer, [Next]_vars PROVE OwnerIsClaimer'
    OBVIOUS
  <2>1. ASSUME NEW r \in Runs,
               \/ CreateRun(r) \/ Cancel(r) \/ ResumeCheck(r) \/ ResumeWrite(r)
               \/ LeaseExpires(r) \/ LeaseLapses(r)
        PROVE  OwnerIsClaimer'
    BY <2>1 DEF CreateRun, Cancel, ResumeCheck, ResumeWrite, LeaseExpires, LeaseLapses,
                SetRunState
  <2>2. ASSUME NEW w \in Workers, Crash(w) PROVE OwnerIsClaimer'
    BY <2>2 DEF Crash
  <2>3. ASSUME NEW w \in Workers, RecoverExpiredLeases(w) PROVE OwnerIsClaimer'
    BY <2>3 DEF RecoverExpiredLeases
  <2>4. ASSUME NEW w \in Workers, ClaimCommit(w) PROVE OwnerIsClaimer'
    BY <2>4 DEF ClaimCommit
  <2>5. ASSUME NEW w \in Workers,
               WorkerStep(w), ~RecoverExpiredLeases(w), ~ClaimCommit(w)
        PROVE  OwnerIsClaimer'
    <3>1. claimer' = claimer /\ \A r \in Runs : owner'[r] \in {owner[r], None}
      BY <2>5 DEF WorkerStep, ClaimSelect, ClaimNothing, AdmitRun, BeginProcess,
           EnsureRunnable, JudgeScope, EnterWorkflow, FindWaiting, NodeWaits, WorkflowSucceeds, WorkflowFails,
           AskUser, ToolsDone, EmitAnswer, CompleteRun, FailRun, SetRunState
    <3> QED
      BY <3>1
  <2>6. CASE UNCHANGED vars
    BY <2>6 DEF vars
  <2> QED
    BY <2>1, <2>2, <2>3, <2>4, <2>5, <2>6 DEF Next
<1>3. TypeOK /\ OwnerIsClaimer /\ [Next]_vars
      => [FencedStep]_vars
  <2> SUFFICES ASSUME TypeOK, OwnerIsClaimer, Next, NEW w \in Workers, PassesCheck(w)
               PROVE  claimer[cur[w]] = w
    BY DEF FencedStep
  <2>1. pc'[w] # pc[w] /\ pc'[w] \notin {"idle", "failing"} /\ pc[w] \in {"begun", "context", "model"}
    BY DEF PassesCheck, CheckedPhase
  <2>2. WorkerStep(w)
    <3>1. ASSUME NEW r \in Runs,
                 \/ CreateRun(r) \/ Cancel(r) \/ ResumeCheck(r) \/ ResumeWrite(r)
                 \/ LeaseExpires(r) \/ LeaseLapses(r)
          PROVE  FALSE
      BY <2>1, <3>1 DEF CreateRun, Cancel, ResumeCheck, ResumeWrite, LeaseExpires, LeaseLapses
    <3>2. ASSUME NEW v \in Workers, Crash(v) PROVE FALSE
      BY <2>1, <3>2 DEF Crash, Leave, GoTo
    <3>3. ASSUME NEW v \in Workers, v # w, WorkerStep(v) PROVE FALSE
      BY <2>1, <3>3 DEF WorkerStep, RecoverExpiredLeases, ClaimSelect, ClaimNothing,
           ClaimCommit, AdmitRun, BeginProcess, EnsureRunnable, JudgeScope, EnterWorkflow, FindWaiting, NodeWaits,
           WorkflowSucceeds, WorkflowFails, AskUser, ToolsDone, EmitAnswer, CompleteRun,
           FailRun, Leave, GoTo
    <3> QED
      BY <3>1, <3>2, <3>3 DEF Next
  <2>3. EnsureRunnable(w)
    BY <2>1, <2>2 DEF WorkerStep, RecoverExpiredLeases, ClaimSelect, ClaimNothing,
         ClaimCommit, AdmitRun, BeginProcess, JudgeScope, EnterWorkflow, FindWaiting, NodeWaits,
         WorkflowSucceeds, WorkflowFails, AskUser, ToolsDone, EmitAnswer, CompleteRun,
         FailRun, Leave, GoTo
  <2>4. owner[cur[w]] = OwnerOf[w]
    BY <2>1, <2>3 DEF EnsureRunnable, Leave, GoTo
  <2>5. cur[w] \in Runs /\ OwnerOf[w] # None
    BY <2>1
  <2> QED
    BY <2>4, <2>5
<1> QED
  BY <1>1, <1>2, <1>3, TypeCorrect, PTL DEF Spec, FenceHolds

-----------------------------------------------------------------------------
\* A lapse is not forgotten.
LEMMA LapsesStay ==
  ASSUME TypeOK, [Next]_vars, spent'["lapse"] = 0
  PROVE  spent["lapse"] = 0
<1> USE RunLifecycleAssumption DEF TypeOK
<1>1. ASSUME NEW f \in Faults, Spend(f) PROVE spent["lapse"] = 0
  BY <1>1 DEF Spend
<1>2. ASSUME NEW w \in Workers, WorkerStep(w) PROVE UNCHANGED spent
  BY <1>2 DEF WorkerStep, RecoverExpiredLeases, ClaimSelect, ClaimNothing, ClaimCommit,
       AdmitRun, BeginProcess, EnsureRunnable, JudgeScope, EnterWorkflow, FindWaiting,
       NodeWaits, WorkflowSucceeds, WorkflowFails, AskUser, ToolsDone, EmitAnswer,
       CompleteRun, FailRun
<1>3. (\E f \in Faults : Spend(f)) \/ UNCHANGED spent
  BY <1>2 DEF Next, Crash, CreateRun, Cancel, ResumeCheck, ResumeWrite, LeaseExpires,
       LeaseLapses, vars
<1> QED
  BY <1>1, <1>3

\* Until a lease lapses under its holder, the row of a run in somebody's hands is
\* neither free to be claimed nor about to become so.
LEMMA InHandKept ==
  ASSUME MaxResumers <= 1
  PROVE  Spec => []ExclusiveInv
<1> USE RunLifecycleAssumption DEF TypeOK, InHandInv
<1>1. Init => ExclusiveInv
  BY DEF Init, ExclusiveInv
<1>2. TypeOK /\ ExclusiveInv /\ [Next]_vars => ExclusiveInv'
  <2> SUFFICES ASSUME TypeOK, InHandInv, [Next]_vars, spent'["lapse"] = 0 PROVE InHandInv'
    BY LapsesStay DEF ExclusiveInv
  <2>1. ASSUME NEW r \in Runs, CreateRun(r) PROVE InHandInv'
    BY <2>1 DEF CreateRun
  <2>2. ASSUME NEW r \in Runs, Cancel(r) PROVE InHandInv'
    BY <2>2 DEF Cancel, SetRunState, RowFree
  <2>3. ASSUME NEW r \in Runs, ResumeCheck(r) PROVE InHandInv'
    BY <2>3 DEF ResumeCheck
  <2>4. ASSUME NEW r \in Runs, ResumeWrite(r) PROVE InHandInv'
    BY <2>4 DEF ResumeWrite, SetRunState, RowFree
  <2>5. ASSUME NEW r \in Runs, LeaseExpires(r) PROVE InHandInv'
    BY <2>5 DEF LeaseExpires, Working
  <2>6. ASSUME NEW r \in Runs, LeaseLapses(r) PROVE InHandInv'
    BY <2>6 DEF LeaseLapses, Spend
  <2>7. ASSUME NEW w \in Workers, Crash(w) PROVE InHandInv'
    BY <2>7 DEF Crash, Leave, GoTo
  <2>8. ASSUME NEW w \in Workers, WorkerStep(w) PROVE InHandInv'
    <3>1. CASE RecoverExpiredLeases(w)
      BY <3>1 DEF RecoverExpiredLeases, GoTo
    <3>2. CASE ClaimSelect(w)
      BY <3>2 DEF ClaimSelect, Claimable, RowFree, GoTo
    <3>3. CASE ClaimNothing(w)
      BY <3>3 DEF ClaimNothing, GoTo
    <3>4. CASE ClaimCommit(w)
      BY <3>4 DEF ClaimCommit, GoTo
    <3>5. CASE AdmitRun(w)
      BY <3>5 DEF AdmitRun, GoTo
    <3>6. CASE BeginProcess(w)
      BY <3>6 DEF BeginProcess, SetRunState, GoTo
    <3>7. CASE EnsureRunnable(w)
      BY <3>7 DEF EnsureRunnable, CheckedPhase, Leave, GoTo
    <3>8. CASE JudgeScope(w)
      BY <3>8 DEF JudgeScope, GoTo
    <3>9. CASE EnterWorkflow(w) \/ FindWaiting(w) \/ NodeWaits(w)
      BY SMTT(60), <3>9 DEF EnterWorkflow, FindWaiting, NodeWaits, SetRunState, Leave, GoTo
    <3>10. CASE WorkflowSucceeds(w)
      BY <3>10 DEF WorkflowSucceeds, GoTo
    <3>11. CASE WorkflowFails(w)
      BY <3>11 DEF WorkflowFails, SetRunState, GoTo
    <3>12. CASE AskUser(w)
      BY <3>12 DEF AskUser, SetRunState, Leave, GoTo
    <3>13. CASE ToolsDone(w)
      BY <3>13 DEF ToolsDone, GoTo
    <3>14. CASE EmitAnswer(w)
      BY <3>14 DEF EmitAnswer, GoTo
    <3>15. CASE CompleteRun(w)
      BY <3>15 DEF CompleteRun, SetRunState, Leave, GoTo
    <3>16. CASE FailRun(w)
      BY <3>16 DEF FailRun, SetRunState, Leave, GoTo
    <3> QED
      BY <2>8, <3>1, <3>2, <3>3, <3>4, <3>5, <3>6, <3>7, <3>8, <3>9, <3>10,
         <3>11, <3>12, <3>13, <3>14, <3>15, <3>16 DEF WorkerStep
  <2>9. CASE UNCHANGED vars
    BY <2>9 DEF vars
  <2> QED
    BY <2>1, <2>2, <2>3, <2>4, <2>5, <2>6, <2>7, <2>8, <2>9 DEF Next
<1> QED
  BY <1>1, <1>2, TypeCorrect, PTL DEF Spec

\* Until a lease lapses while its holder works, and if one resume request of a
\* run is handled at a time, a run is executed by one worker at a time.
THEOREM Exclusion ==
  ASSUME MaxResumers <= 1
  PROVE  Spec => []ExclusiveProcessing
<1>1. TypeOK /\ ExclusiveInv => ExclusiveProcessing
  BY DEF TypeOK, InHandInv, ExclusiveInv, ExclusiveProcessing
<1> QED
  BY <1>1, TypeCorrect, InHandKept, PTL

-----------------------------------------------------------------------------
(* Every answer beyond the first is paid for. *)

\* A worker in one of these phases may still answer its run.
MayAnswer == Processing \ {"answered", "failing"}
Answerers(r) == {w \in Workers : cur[w] = r /\ pc[w] \in MayAnswer}

One(condition) == IF condition THEN 1 ELSE 0

\* The executions the row of r still holds in store: a queued row will be leased,
\* a row that waits or has a resume handler under way will be queued, a lapsed
\* lease will be recovered, and so will one that nobody renews any more.
Stored(r) ==
  One(state[r] = "queued") + One(state[r] = "awaiting_user" \/ resumers[r] > 0)
  + One(lease[r] = "expired")
  + One(lease[r] = "live" /\ state[r] \in Recoverable /\ ~Working(r))

\* What was answered and what may yet be is paid for.
Paid(r) ==
  /\ IsFiniteSet(Answerers(r))
  /\ answers[r] + Cardinality(Answerers(r)) + Stored(r) <= 1 + spent["crash"] + spent["lapse"]

\* A row that is being claimed is queued and locked by one worker; an ended run
\* has no lease; a run that was not submitted has nothing at all.
Rows ==
  /\ \A w \in Workers : pc[w] = "claiming" => state[cur[w]] = "queued"
  /\ \A v, w \in Workers :
       v # w /\ pc[v] = "claiming" /\ pc[w] = "claiming" => cur[v] # cur[w]
  /\ \A r \in Runs :
       /\ resumers[r] <= 1
       /\ state[r] \in Terminal => lease[r] = "null"
       /\ state[r] = "absent" =>
            /\ lease[r] = "null" /\ answers[r] = 0 /\ resumers[r] = 0
            /\ \A w \in Workers : cur[w] # r

AnswersPaid == Rows /\ \A r \in Runs : Paid(r)
-----------------------------------------------------------------------------
\* The rows keep what is known of them, if one resume request is handled at a time.
LEMMA RowsKept ==
  ASSUME MaxResumers <= 1, TypeOK, Rows, [Next]_vars
  PROVE  Rows'
<1> USE RunLifecycleAssumption DEF TypeOK, Rows
<1>1. ASSUME NEW r \in Runs, CreateRun(r) PROVE Rows'
  BY <1>1 DEF CreateRun
<1>2. ASSUME NEW r \in Runs, Cancel(r) PROVE Rows'
  BY <1>2 DEF Cancel, SetRunState, RowFree
<1>3. ASSUME NEW r \in Runs, ResumeCheck(r) PROVE Rows'
  BY <1>3 DEF ResumeCheck
<1>4. ASSUME NEW r \in Runs, ResumeWrite(r) PROVE Rows'
  BY <1>4 DEF ResumeWrite, SetRunState, RowFree
<1>5. ASSUME NEW r \in Runs, LeaseExpires(r) \/ LeaseLapses(r) PROVE Rows'
  BY <1>5 DEF LeaseExpires, LeaseLapses
<1>6. ASSUME NEW w \in Workers, Crash(w) PROVE Rows'
  BY <1>6 DEF Crash, Leave, GoTo
<1>7. ASSUME NEW w \in Workers, RecoverExpiredLeases(w) PROVE Rows'
  BY <1>7 DEF RecoverExpiredLeases, GoTo
<1>8. ASSUME NEW w \in Workers, ClaimSelect(w) PROVE Rows'
  BY <1>8 DEF ClaimSelect, Claimable, RowFree, GoTo
<1>9. ASSUME NEW w \in Workers, ClaimNothing(w) \/ AdmitRun(w) \/ JudgeScope(w) PROVE Rows'
  BY <1>9 DEF ClaimNothing, AdmitRun, JudgeScope, GoTo
<1>10. ASSUME NEW w \in Workers, ClaimCommit(w) PROVE Rows'
  BY <1>10 DEF ClaimCommit, GoTo
<1>11. ASSUME NEW w \in Workers, BeginProcess(w) \/ EnterWorkflow(w) PROVE Rows'
  BY SMTT(60), <1>11 DEF BeginProcess, EnterWorkflow, SetRunState, RowFree, GoTo
<1>12. ASSUME NEW w \in Workers, EnsureRunnable(w) PROVE Rows'
  BY <1>12 DEF EnsureRunnable, CheckedPhase, RowFree, Leave, GoTo
<1>13. ASSUME NEW w \in Workers, FindWaiting(w) \/ NodeWaits(w) \/ WorkflowSucceeds(w) PROVE Rows'
  BY SMTT(60), <1>13 DEF FindWaiting, NodeWaits, WorkflowSucceeds, Leave, GoTo
<1>14. ASSUME NEW w \in Workers, WorkflowFails(w) PROVE Rows'
  BY <1>14 DEF WorkflowFails, SetRunState, RowFree, GoTo
<1>15. ASSUME NEW w \in Workers, AskUser(w) \/ CompleteRun(w) \/ FailRun(w) PROVE Rows'
  BY SMTT(60), <1>15 DEF AskUser, CompleteRun, FailRun, SetRunState, RowFree, Leave, GoTo
<1>16. ASSUME NEW w \in Workers, ToolsDone(w) \/ EmitAnswer(w) PROVE Rows'
  BY <1>16 DEF ToolsDone, EmitAnswer, GoTo
<1>17. CASE UNCHANGED vars
  BY <1>17 DEF vars
<1> QED
  BY <1>1, <1>2, <1>3, <1>4, <1>5, <1>6, <1>7, <1>8, <1>9, <1>10, <1>11, <1>12, <1>13,
     <1>14, <1>15, <1>16, <1>17 DEF Next, WorkerStep

\* What the faults so far allow.
Allowed == 1 + spent["crash"] + spent["lapse"]

LEMMA StoredNat ==
  ASSUME NEW r \in Runs
  PROVE  Stored(r) \in Nat /\ Stored(r)' \in Nat
  BY DEF Stored, One

\* The account holds if no worker comes to the run and no more is stored than paid.
LEMMA NoneComes ==
  ASSUME TypeOK, TypeOK', NEW r \in Runs, Paid(r),
         Answerers(r)' \subseteq Answerers(r), answers'[r] = answers[r],
         Stored(r)' + Allowed <= Stored(r) + Allowed'
  PROVE  Paid(r)'
<1>1. /\ IsFiniteSet(Answerers(r)')
      /\ Cardinality(Answerers(r)') <= Cardinality(Answerers(r))
  BY FS_Subset DEF Paid
<1>2. Cardinality(Answerers(r)) \in Nat /\ Cardinality(Answerers(r)') \in Nat
  BY <1>1, FS_CardinalityType DEF Paid
<1> QED
  BY <1>1, <1>2, StoredNat DEF Paid, Allowed, TypeOK, Faults

\* ... if a worker lets go of it, for one more answer or one more stored execution.
LEMMA OneGoes ==
  ASSUME TypeOK, TypeOK', NEW r \in Runs, Paid(r), NEW w \in Answerers(r),
         Answerers(r)' \subseteq Answerers(r) \ {w},
         answers'[r] + Stored(r)' + Allowed <= answers[r] + Stored(r) + 1 + Allowed'
  PROVE  Paid(r)'
<1>1. /\ IsFiniteSet(Answerers(r) \ {w})
      /\ Cardinality(Answerers(r) \ {w}) = Cardinality(Answerers(r)) - 1
  BY FS_RemoveElement DEF Paid
<1>2. /\ IsFiniteSet(Answerers(r)')
      /\ Cardinality(Answerers(r)') <= Cardinality(Answerers(r) \ {w})
  BY <1>1, FS_Subset
<1>3. Cardinality(Answerers(r)) \in Nat /\ Cardinality(Answerers(r)') \in Nat
  BY <1>2, FS_CardinalityType DEF Paid
<1> QED
  BY <1>1, <1>2, <1>3, StoredNat DEF Paid, Allowed, TypeOK, Faults

\* ... and if a worker comes to it for an execution that was stored.
LEMMA OneComes ==
  ASSUME TypeOK, TypeOK', NEW r \in Runs, Paid(r), NEW w \in Workers,
         Answerers(r)' \subseteq Answerers(r) \cup {w}, answers'[r] = answers[r],
         Stored(r)' + 1 + Allowed <= Stored(r) + Allowed'
  PROVE  Paid(r)'
<1>1. /\ IsFiniteSet(Answerers(r) \cup {w})
      /\ Cardinality(Answerers(r) \cup {w}) \in {Cardinality(Answerers(r)), Cardinality(Answerers(r)) + 1}
  BY FS_AddElement DEF Paid
<1>2. /\ IsFiniteSet(Answerers(r)')
      /\ Cardinality(Answerers(r)') <= Cardinality(Answerers(r) \cup {w})
  BY <1>1, FS_Subset
<1>3. Cardinality(Answerers(r)) \in Nat /\ Cardinality(Answerers(r)') \in Nat
  BY <1>2, FS_CardinalityType DEF Paid
<1> QED
  BY <1>1, <1>2, <1>3, StoredNat DEF Paid, Allowed, TypeOK, Faults

\* Only w moves.
Moves(w) == \A v \in Workers \ {w} : pc'[v] = pc[v] /\ cur'[v] = cur[v]

\* A step of w is nothing to a run it does not hold, unless it writes its row.
LEMMA Elsewhere ==
  ASSUME TypeOK, TypeOK', NEW w \in Workers, Moves(w), NEW r \in Runs, Paid(r),
         pc[w] \in Processing => cur[w] # r, pc'[w] \in Processing => cur'[w] # r,
         UNCHANGED <<state[r], lease[r], resumers[r], answers[r]>>, Allowed <= Allowed'
  PROVE  Paid(r)'
<1>1. Answerers(r)' = Answerers(r) /\ (Working(r)' <=> Working(r))
  BY DEF Moves, Answerers, MayAnswer, Working, TypeOK
<1>2. Stored(r)' = Stored(r)
  BY <1>1 DEF Stored, One
<1>3. Allowed \in Nat /\ Allowed' \in Nat
  BY DEF Allowed, TypeOK, Faults
<1> QED
  BY <1>1, <1>2, <1>3, StoredNat, NoneComes

\* A worker that goes on with its run stores nothing for it.
LEMMA GoesOn ==
  ASSUME TypeOK, TypeOK', NEW w \in Workers, NEW r \in Runs, Moves(w), Paid(r),
         cur[w] = r, cur'[w] = r, pc[w] \in Processing, pc'[w] \in Processing,
         pc'[w] \in MayAnswer => pc[w] \in MayAnswer,
         state'[r] \in {"queued", "awaiting_user"} => state'[r] = state[r],
         lease'[r] = "expired" => lease[r] = "expired",
         UNCHANGED <<resumers[r], answers[r], spent>>
  PROVE  Paid(r)'
<1>1. Answerers(r)' \subseteq Answerers(r) /\ Working(r) /\ Working(r)'
  BY DEF Moves, Answerers, MayAnswer, Working, TypeOK
<1>2. Stored(r)' <= Stored(r)
  BY <1>1 DEF Stored, One
<1>3. Allowed \in Nat /\ Allowed' = Allowed
  BY DEF Allowed, TypeOK, Faults
<1> QED
  BY <1>1, <1>2, <1>3, StoredNat, NoneComes

\* A run that ends stores no more than a resume handler under way.
LEMMA Ends ==
  ASSUME TypeOK, TypeOK', NEW r \in Runs, Paid(r), Answerers(r)' \subseteq Answerers(r),
         state'[r] \in Terminal, lease'[r] = "null",
         UNCHANGED <<resumers[r], answers[r]>>, Allowed <= Allowed'
  PROVE  Paid(r)'
<1>1. Stored(r)' <= Stored(r)
  BY DEF Stored, One
<1>2. Allowed \in Nat /\ Allowed' \in Nat
  BY DEF Allowed, TypeOK, Faults
<1> QED
  BY <1>1, <1>2, StoredNat, NoneComes

\* A worker that might have answered leaves its run to be recovered or resumed.
LEMMA LetsGo ==
  ASSUME TypeOK, TypeOK', NEW w \in Workers, NEW r \in Runs, Moves(w), Paid(r),
         w \in Answerers(r), Leave(w),
         state'[r] \in {state[r], "awaiting_user"},
         UNCHANGED <<lease[r], resumers[r], answers[r], spent>>
  PROVE  Paid(r)'
<1>1. Answerers(r)' \subseteq Answerers(r) \ {w} /\ Working(r)
  BY DEF Moves, Answerers, MayAnswer, Working, Leave, GoTo, TypeOK
<1>2. Stored(r)' <= Stored(r) + 1
  BY <1>1 DEF Stored, One
<1>3. Allowed \in Nat /\ Allowed' = Allowed
  BY DEF Allowed, TypeOK, Faults
<1>4. answers[r] \in Nat
  BY DEF TypeOK
<1> QED
  BY <1>1, <1>2, <1>3, <1>4, StoredNat, OneGoes

\* A step of w that writes no other row than its run's is nothing to the others.
OneRow(r) ==
  \A q \in Runs \ {r} : UNCHANGED <<state[q], lease[q], resumers[q], answers[q]>>

LEMMA Others ==
  ASSUME TypeOK, TypeOK', NEW w \in Workers, Moves(w), NEW r \in Runs, cur[w] = r,
         cur'[w] \in {r, None}, OneRow(r), \A q \in Runs : Paid(q),
         Allowed <= Allowed', Paid(r)'
  PROVE  \A q \in Runs : Paid(q)'
<1> SUFFICES ASSUME NEW q \in Runs, q # r PROVE Paid(q)'
  OBVIOUS
<1>1. pc[w] \in Processing => cur[w] # q
  OBVIOUS
<1>2. pc'[w] \in Processing => cur'[w] # q
  BY DEF TypeOK
<1>3. UNCHANGED <<state[q], lease[q], resumers[q], answers[q]>> /\ Paid(q)
  BY DEF OneRow
<1> QED
  BY <1>1, <1>2, <1>3, Elsewhere

\* A user gets a second final message of one run only after a fault: cancels and
\* resumptions, follow-ups of any length and any number of workers cost nothing.
THEOREM DuplicatesPaid ==
  ASSUME MaxResumers <= 1
  PROVE  Spec => []DuplicatesNeedFaults
<1> USE RunLifecycleAssumption
<1>1. Init => AnswersPaid
  <2> SUFFICES ASSUME Init PROVE AnswersPaid
    OBVIOUS
  <2>1. Rows
    BY DEF Init, Rows
  <2>2. ASSUME NEW r \in Runs PROVE Paid(r)
    <3>1. Answerers(r) = {}
      BY DEF Init, Answerers
    <3>2. Stored(r) = 0
      BY DEF Init, Stored, One
    <3>3. answers[r] = 0 /\ spent["crash"] = 0 /\ spent["lapse"] = 0
      BY DEF Init
    <3> QED
      BY <3>1, <3>2, <3>3, FS_EmptySet DEF Paid
  <2> QED
    BY <2>1, <2>2 DEF AnswersPaid
<1>2. TypeOK /\ TypeOK' /\ AnswersPaid /\ [Next]_vars => AnswersPaid'
  <2> SUFFICES ASSUME TypeOK, TypeOK', Rows, \A r \in Runs : Paid(r), [Next]_vars
               PROVE  \A r \in Runs : Paid(r)'
    BY RowsKept DEF AnswersPaid
  <2>A. Allowed \in Nat /\ Allowed' \in Nat /\ (spent' = spent => Allowed' = Allowed)
    BY DEF Allowed, TypeOK
  <2>B. \A r \in Runs : /\ Stored(r) \in Nat /\ Stored(r)' \in Nat
                        /\ answers[r] \in Nat /\ answers'[r] \in Nat
    BY StoredNat DEF TypeOK
  \* the handlers and the environment
  <2>1. ASSUME NEW q \in Runs, CreateRun(q) PROVE \A r \in Runs : Paid(r)'
    <3> SUFFICES ASSUME NEW r \in Runs PROVE Paid(r)'
      OBVIOUS
    <3>1. Answerers(r)' = Answerers(r) /\ (Working(r)' <=> Working(r)) /\ answers'[r] = answers[r]
          /\ spent' = spent
      BY <2>1 DEF CreateRun, Answerers, Working
    <3>2. CASE r # q
      <4>1. Stored(r)' = Stored(r)
        BY <2>1, <3>1, <3>2 DEF CreateRun, Stored, One, TypeOK
      <4> QED
        BY <2>A, <2>B, <3>1, <4>1, NoneComes
    <3>3. CASE r = q
      <4>1. Answerers(r) = {} /\ answers[r] = 0
        BY <2>1, <3>3 DEF Rows, CreateRun, Answerers
      <4>2. Stored(r)' = 1
        BY <2>1, <3>3 DEF Rows, CreateRun, Stored, One, TypeOK
      <4>3. 1 <= Allowed'
        BY <2>1 DEF Allowed, TypeOK
      <4> QED
        BY <3>1, <4>1, <4>2, <4>3, FS_EmptySet DEF Paid, Allowed
    <3> QED
      BY <3>2, <3>3
  <2>2. ASSUME NEW q \in Runs, Cancel(q) PROVE \A r \in Runs : Paid(r)'
    <3> SUFFICES ASSUME NEW r \in Runs PROVE Paid(r)'
      OBVIOUS
    <3>1. Answerers(r)' = Answerers(r) /\ (Working(r)' <=> Working(r)) /\ Allowed' = Allowed
      BY <2>2 DEF Cancel, Spend, Allowed, Answerers, Working, TypeOK
    <3>2. CASE r # q
      <4>1. Stored(r)' = Stored(r)
        BY <2>2, <3>1, <3>2 DEF Cancel, SetRunState, Stored, One, TypeOK
      <4> QED
        BY <2>2, <2>A, <2>B, <3>1, <4>1, NoneComes DEF Cancel
    <3>3. CASE r = q
      <4>1. state'[r] \in Terminal /\ lease'[r] = "null" /\ UNCHANGED <<resumers[r], answers[r]>>
        BY <2>2, <3>3 DEF Cancel, SetRunState, TypeOK
      <4> QED
        BY <2>A, <3>1, <4>1, Ends
    <3> QED
      BY <3>2, <3>3
  <2>3. ASSUME NEW q \in Runs, ResumeCheck(q) \/ ResumeWrite(q) PROVE \A r \in Runs : Paid(r)'
    <3> SUFFICES ASSUME NEW r \in Runs PROVE Paid(r)'
      OBVIOUS
    <3>1. Answerers(r)' = Answerers(r) /\ (Working(r)' <=> Working(r)) /\ Allowed' = Allowed
          /\ answers'[r] = answers[r]
      BY <2>3 DEF ResumeCheck, ResumeWrite, Spend, Allowed, Answerers, Working, TypeOK
    <3>2. Stored(r)' <= Stored(r)
      <4>1. CASE ResumeCheck(q)
        BY <3>1, <4>1 DEF ResumeCheck, Stored, One, TypeOK
      <4>2. CASE ResumeWrite(q)
        BY <3>1, <4>2 DEF ResumeWrite, SetRunState, Rows, Stored, One, TypeOK
      <4> QED
        BY <2>3, <4>1, <4>2
    <3> QED
      BY <2>A, <2>B, <3>1, <3>2, NoneComes
  <2>4. ASSUME NEW q \in Runs, LeaseExpires(q) \/ LeaseLapses(q) PROVE \A r \in Runs : Paid(r)'
    <3> SUFFICES ASSUME NEW r \in Runs PROVE Paid(r)'
      OBVIOUS
    <3>1. Answerers(r)' = Answerers(r) /\ (Working(r)' <=> Working(r)) /\ answers'[r] = answers[r]
      BY <2>4 DEF LeaseExpires, LeaseLapses, Answerers, Working
    <3>2. Stored(r)' + Allowed <= Stored(r) + Allowed'
      <4>1. CASE LeaseExpires(q)
        <5>1. Stored(r)' <= Stored(r)
          BY <3>1, <4>1 DEF LeaseExpires, Stored, One, TypeOK
        <5>2. Allowed' = Allowed
          BY <4>1 DEF LeaseExpires, Allowed
        <5> QED
          BY <2>A, <2>B, <5>1, <5>2
      <4>2. CASE LeaseLapses(q)
        <5>1. Stored(r)' <= Stored(r) + 1
          BY <3>1, <4>2 DEF LeaseLapses, Stored, One, TypeOK
        <5>2. Allowed' = Allowed + 1
          BY <4>2 DEF LeaseLapses, Spend, Allowed, TypeOK
        <5> QED
          BY <2>A, <2>B, <5>1, <5>2
      <4> QED
        BY <2>4, <4>1, <4>2
    <3> QED
      BY <3>1, <3>2, NoneComes
  \* a crash costs what the worker might have answered
  <2>5. ASSUME NEW w \in Workers, Crash(w) PROVE \A r \in Runs : Paid(r)'
    <3> SUFFICES ASSUME NEW r \in Runs PROVE Paid(r)'
      OBVIOUS
    <3>1. Answerers(r)' \subseteq Answerers(r) /\ answers'[r] = answers[r]
      BY <2>5 DEF Crash, Leave, GoTo, Answerers, MayAnswer, TypeOK
    <3>2. Stored(r)' <= Stored(r) + 1
      BY <2>5 DEF Crash, Stored, One
    <3>3. Allowed' = Allowed + 1
      BY <2>5 DEF Crash, Spend, Allowed, TypeOK
    <3> QED
      BY <2>A, <2>B, <3>1, <3>2, <3>3, NoneComes
  \* between two runs
  <2>6. ASSUME NEW w \in Workers, RecoverExpiredLeases(w) PROVE \A r \in Runs : Paid(r)'
    <3> SUFFICES ASSUME NEW r \in Runs PROVE Paid(r)'
      OBVIOUS
    <3>1. Answerers(r)' \subseteq Answerers(r) /\ (Working(r)' <=> Working(r)) /\ answers'[r] = answers[r]
      BY <2>6 DEF RecoverExpiredLeases, GoTo, Answerers, MayAnswer, Working, TypeOK
    <3>2. Stored(r)' <= Stored(r)
      BY <2>6, <3>1 DEF RecoverExpiredLeases, Stored, One, TypeOK
    <3> QED
      BY <2>6, <2>A, <2>B, <3>1, <3>2, NoneComes DEF RecoverExpiredLeases
  <2>7. ASSUME NEW w \in Workers, ClaimSelect(w) \/ ClaimNothing(w) PROVE \A r \in Runs : Paid(r)'
    <3> SUFFICES ASSUME NEW r \in Runs PROVE Paid(r)'
      OBVIOUS
    <3>1. Moves(w) /\ pc[w] \notin Processing /\ pc'[w] \notin Processing
      BY <2>7 DEF ClaimSelect, ClaimNothing, GoTo, Moves, TypeOK
    <3> QED
      BY <2>7, <2>A, <3>1, Elsewhere DEF ClaimSelect, ClaimNothing
  <2>8. ASSUME NEW w \in Workers, ClaimCommit(w) PROVE \A r \in Runs : Paid(r)'
    <3> SUFFICES ASSUME NEW r \in Runs PROVE Paid(r)'
      OBVIOUS
    <3>1. Moves(w) /\ cur[w] \in Runs /\ cur'[w] = cur[w] /\ pc[w] \notin Processing
      BY <2>8 DEF ClaimCommit, GoTo, Moves, TypeOK
    <3>2. CASE r # cur[w]
      <4>1. UNCHANGED <<state[r], lease[r], resumers[r], answers[r], spent>>
        BY <2>8, <3>1, <3>2 DEF ClaimCommit, TypeOK
      <4> QED
        BY <2>A, <3>1, <3>2, <4>1, Elsewhere
    <3>3. CASE r = cur[w]
      <4>1. /\ Answerers(r)' \subseteq Answerers(r) \cup {w} /\ Working(r)'
            /\ UNCHANGED <<answers[r], spent>>
        BY <2>8, <3>1, <3>3 DEF ClaimCommit, GoTo, Moves, Answerers, MayAnswer, Working, TypeOK
      <4>2. state[r] = "queued" /\ state'[r] = "leased" /\ lease'[r] = "live" /\ resumers'[r] = resumers[r]
        BY <2>8, <3>1, <3>3 DEF ClaimCommit, Rows, TypeOK
      <4>3. Stored(r)' + 1 <= Stored(r)
        BY <4>1, <4>2 DEF Stored, One
      <4> QED
        BY <2>A, <2>B, <4>1, <4>3, OneComes
    <3> QED
      BY <3>2, <3>3
  \* with a run in hand
  <2>9. ASSUME NEW w \in Workers,
               \/ AdmitRun(w) \/ BeginProcess(w) \/ JudgeScope(w) \/ EnterWorkflow(w) \/ NodeWaits(w)
               \/ WorkflowSucceeds(w) \/ WorkflowFails(w) \/ ToolsDone(w)
               \/ EnsureRunnable(w) /\ cur'[w] = cur[w]
        PROVE  \A r \in Runs : Paid(r)'
    <3> PICK c \in Runs : c = cur[w]
      BY <2>9 DEF AdmitRun, BeginProcess, JudgeScope, EnterWorkflow, NodeWaits, WorkflowSucceeds,
           WorkflowFails, ToolsDone, EnsureRunnable, CheckedPhase, TypeOK
    <3>1. /\ Moves(w) /\ cur[w] = c /\ cur'[w] = c
          /\ pc[w] \in Processing /\ pc'[w] \in Processing
          /\ pc'[w] \in MayAnswer => pc[w] \in MayAnswer
      BY <2>9 DEF AdmitRun, BeginProcess, JudgeScope, EnterWorkflow, NodeWaits, WorkflowSucceeds,
           WorkflowFails, ToolsDone, EnsureRunnable, CheckedPhase, GoTo, Leave, Moves, MayAnswer, TypeOK
    <3>2. /\ state'[c] \in {"queued", "awaiting_user"} => state'[c] = state[c]
          /\ lease'[c] = "expired" => lease[c] = "expired"
      BY <2>9, <3>1 DEF AdmitRun, BeginProcess, JudgeScope, EnterWorkflow, NodeWaits, WorkflowSucceeds,
           WorkflowFails, ToolsDone, EnsureRunnable, SetRunState, TypeOK
    <3>3. OneRow(c) /\ UNCHANGED <<resumers, answers, spent>>
      BY <2>9, <3>1 DEF AdmitRun, BeginProcess, JudgeScope, EnterWorkflow, NodeWaits, WorkflowSucceeds,
           WorkflowFails, ToolsDone, EnsureRunnable, SetRunState, OneRow, TypeOK
    <3>4. Paid(c)'
      BY <3>1, <3>2, <3>3, GoesOn
    <3> QED
      BY <2>A, <3>1, <3>3, <3>4, Others
  <2>10. ASSUME NEW w \in Workers,
                \/ AskUser(w) \/ FindWaiting(w)
                \/ EnsureRunnable(w) /\ cur'[w] # cur[w]
         PROVE  \A r \in Runs : Paid(r)'
    <3> PICK c \in Runs : c = cur[w]
      BY <2>10 DEF AskUser, FindWaiting, EnsureRunnable, CheckedPhase, TypeOK
    <3>1. Moves(w) /\ cur[w] = c /\ Leave(w) /\ w \in Answerers(c) /\ cur'[w] = None
      BY <2>10 DEF AskUser, FindWaiting, EnsureRunnable, CheckedPhase, GoTo, Leave, Moves,
           Answerers, MayAnswer, TypeOK
    <3>2. state'[c] \in {state[c], "awaiting_user"} /\ lease'[c] = lease[c]
      BY <2>10, <3>1 DEF AskUser, FindWaiting, EnsureRunnable, SetRunState, TypeOK
    <3>3. OneRow(c) /\ UNCHANGED <<resumers, answers, spent>>
      BY <2>10, <3>1 DEF AskUser, FindWaiting, EnsureRunnable, SetRunState, OneRow, TypeOK
    <3>4. Paid(c)'
      BY <3>1, <3>2, <3>3, LetsGo
    <3> QED
      BY <2>A, <3>1, <3>3, <3>4, Others
  <2>11. ASSUME NEW w \in Workers, EmitAnswer(w) PROVE \A r \in Runs : Paid(r)'
    <3> PICK c \in Runs : c = cur[w]
      BY <2>11 DEF EmitAnswer, TypeOK
    <3>1. Moves(w) /\ cur[w] = c /\ cur'[w] = c /\ w \in Answerers(c)
      BY <2>11 DEF EmitAnswer, GoTo, Moves, Answerers, MayAnswer, TypeOK
    <3>2. /\ Answerers(c)' \subseteq Answerers(c) \ {w} /\ Working(c) /\ Working(c)'
          /\ answers'[c] = answers[c] + 1
      BY <2>11, <3>1 DEF EmitAnswer, GoTo, Moves, Answerers, MayAnswer, Working, TypeOK
    <3>3. OneRow(c) /\ UNCHANGED <<state, lease, resumers, spent>>
      BY <2>11 DEF EmitAnswer, OneRow, TypeOK
    <3>4. Stored(c)' = Stored(c)
      BY <3>2, <3>3 DEF Stored, One
    <3>5. Paid(c)'
      BY <2>A, <2>B, <3>1, <3>2, <3>3, <3>4, OneGoes
    <3> QED
      BY <2>A, <3>1, <3>3, <3>5, Others
  <2>12. ASSUME NEW w \in Workers, CompleteRun(w) \/ FailRun(w) PROVE \A r \in Runs : Paid(r)'
    <3> PICK c \in Runs : c = cur[w]
      BY <2>12 DEF CompleteRun, FailRun, TypeOK
    <3>1. Moves(w) /\ cur[w] = c /\ cur'[w] = None /\ Answerers(c)' \subseteq Answerers(c)
      BY <2>12 DEF CompleteRun, FailRun, GoTo, Leave, Moves, Answerers, MayAnswer, TypeOK
    <3>2. state'[c] \in Terminal /\ lease'[c] = "null"
      BY <2>12, <3>1 DEF CompleteRun, FailRun, SetRunState, TypeOK
    <3>3. OneRow(c) /\ UNCHANGED <<resumers, answers, spent>>
      BY <2>12, <3>1 DEF CompleteRun, FailRun, SetRunState, OneRow, TypeOK
    <3>4. Paid(c)'
      BY <2>A, <3>1, <3>2, <3>3, Ends
    <3> QED
      BY <2>A, <3>1, <3>3, <3>4, Others
  <2>13. CASE UNCHANGED vars
    <3> SUFFICES ASSUME NEW r \in Runs PROVE Paid(r)'
      OBVIOUS
    <3> QED
      BY <2>13 DEF vars, Paid, Answerers, Stored, Working
  <2>14. ASSUME NEW w \in Workers, WorkerStep(w) PROVE \A r \in Runs : Paid(r)'
    <3>1. CASE EnsureRunnable(w)
      BY <2>9, <2>10, <3>1
    <3>2. CASE AskUser(w)
      BY <2>10, <3>2
    <3>4. CASE FindWaiting(w)
      BY <2>10, <3>4
    <3>3. CASE \/ AdmitRun(w) \/ BeginProcess(w) \/ JudgeScope(w) \/ EnterWorkflow(w) \/ NodeWaits(w)
               \/ WorkflowSucceeds(w) \/ WorkflowFails(w) \/ ToolsDone(w)
      BY <2>9, <3>3
    <3> QED
      BY <2>6, <2>7, <2>8, <2>11, <2>12, <2>14, <3>1, <3>2, <3>3, <3>4 DEF WorkerStep
  <2> QED
    BY <2>1, <2>2, <2>3, <2>4, <2>5, <2>13, <2>14 DEF Next
<1>3. TypeOK /\ AnswersPaid => DuplicatesNeedFaults
  <2> SUFFICES ASSUME TypeOK, AnswersPaid, NEW r \in Runs
               PROVE  answers[r] <= 1 + spent["crash"] + spent["lapse"]
    BY DEF DuplicatesNeedFaults
  <2>1. Cardinality(Answerers(r)) \in Nat
    BY FS_CardinalityType DEF AnswersPaid, Paid
  <2> QED
    BY <2>1, StoredNat DEF AnswersPaid, Paid, TypeOK
<1> QED
  BY <1>1, <1>2, <1>3, TypeCorrect, PTL DEF Spec

-----------------------------------------------------------------------------
\* The run in hand is the only active one of its session.
OneInHand ==
  \A w \in Workers, q \in Runs :
    /\ pc[w] \notin {"idle", "polling"} /\ SessionOf[q] = SessionOf[cur[w]] /\ q # cur[w]
    => state[q] \notin Active

\* Ranks grow, and a run without a claimer was never touched but by a cancel.
Ranked ==
  \A r \in Runs :
    /\ created[r] <= clock
    /\ created[r] = 0 <=> state[r] = "absent"
    /\ state[r] = "absent" => claimer[r] = None
    /\ claimer[r] = None =>
         /\ state[r] \in {"absent", "queued", "cancelled"} /\ resumers[r] = 0
         /\ \A w \in Workers : pc[w] \in Processing => cur[w] # r

\* The run being claimed overtakes nobody.
ClaimsInOrder ==
  \A w \in Workers, r \in Runs :
    /\ pc[w] = "claiming" /\ SessionOf[r] = SessionOf[cur[w]]
    /\ 0 < created[r] /\ created[r] < created[cur[w]]
    => claimer[r] # None \/ state[r] \in Terminal

\* A row that is being claimed is queued.
QueuedClaims == \A w \in Workers : pc[w] = "claiming" => state[cur[w]] = "queued"

SerialInv == OneActivePerSession /\ SessionFIFO /\ OneInHand /\ Ranked /\ ClaimsInOrder /\ QueuedClaims

\* A worker that writes the row of its run keeps the session to itself.
LEMMA OwnRow ==
  ASSUME \A v, w \in Workers : v = w, TypeOK, SerialInv,
         NEW w \in Workers, pc[w] \in Processing,
         NEW s \in RunStates \ {"absent", "queued"},
         state' = [state EXCEPT ![cur[w]] = s],
         UNCHANGED <<created, clock, claimer, resumers>>,
         \/ pc'[w] \in Processing /\ cur'[w] = cur[w]
         \/ pc'[w] = "idle"
  PROVE  SerialInv'
<1> USE RunLifecycleAssumption DEF TypeOK, SerialInv
<1>a. PICK c \in Runs : c = cur[w]
  OBVIOUS
<1>1. c = cur[w] /\ claimer[c] # None /\ created[c] # 0
  BY <1>a DEF Ranked
<1>2. \A v \in Workers : v = w
  OBVIOUS
<1>3. \A q \in Runs : q # c => state'[q] = state[q]
  BY <1>1
<1>4. \A q \in Runs : q # c /\ SessionOf[q] = SessionOf[c] => state[q] \notin Active
  BY <1>1 DEF OneInHand
<1>5. OneActivePerSession'
  BY <1>1, <1>3, <1>4 DEF OneActivePerSession
<1>6. SessionFIFO'
  BY <1>1, <1>3 DEF SessionFIFO
<1>7. OneInHand'
  BY <1>1, <1>2, <1>3, <1>4 DEF OneInHand
<1>8. Ranked'
  BY <1>1, <1>2, <1>3 DEF Ranked
<1>9. ClaimsInOrder' /\ QueuedClaims'
  BY <1>2 DEF ClaimsInOrder, QueuedClaims
<1> QED
  BY <1>5, <1>6, <1>7, <1>8, <1>9

\* One worker executes the runs of a session one at a time and starts them in the
\* order of their creation, whatever is cancelled, resumed, lost or slow.
THEOREM OneWorkerIsSerial ==
  ASSUME \A v, w \in Workers : v = w
  PROVE  Spec => []SessionIsSerial
<1> USE RunLifecycleAssumption DEF TypeOK
<1>1. Init => SerialInv
  BY DEF Init, SerialInv, OneActivePerSession, SessionFIFO, OneInHand, Ranked, ClaimsInOrder, QueuedClaims
<1>2. TypeOK /\ SerialInv /\ [Next]_vars => SerialInv'
  <2> SUFFICES ASSUME TypeOK, SerialInv, [Next]_vars PROVE SerialInv'
    OBVIOUS
  <2>1. ASSUME NEW r \in Runs, CreateRun(r) PROVE SerialInv'
    <3>1. /\ state[r] = "absent" /\ state' = [state EXCEPT ![r] = "queued"]
          /\ clock' = clock + 1 /\ created' = [created EXCEPT ![r] = clock + 1]
          /\ UNCHANGED <<claimer, workerVars, resumers>>
      BY <2>1 DEF CreateRun
    <3>2. claimer[r] = None /\ created[r] = 0
      BY <3>1 DEF SerialInv, Ranked
    <3>3. \A w \in Workers : pc[w] \notin {"idle", "polling"} => cur[w] # r
      BY <3>1, <3>2 DEF SerialInv, Ranked, QueuedClaims
    <3>4. OneActivePerSession' /\ OneInHand' /\ QueuedClaims'
      BY <3>1, <3>3 DEF SerialInv, OneActivePerSession, OneInHand, QueuedClaims
    <3>5. SessionFIFO' /\ ClaimsInOrder'
      BY SMTT(60), <3>1, <3>2, <3>3 DEF SerialInv, Ranked, SessionFIFO, ClaimsInOrder
    <3>6. Ranked'
      BY <3>1, <3>2 DEF SerialInv, Ranked
    <3> QED
      BY <3>4, <3>5, <3>6 DEF SerialInv
  <2>2. ASSUME NEW r \in Runs, Cancel(r) PROVE SerialInv'
    BY <2>2
       DEF Cancel, SetRunState, RowFree,
           SerialInv, OneActivePerSession, SessionFIFO, OneInHand, Ranked, ClaimsInOrder, QueuedClaims
  <2>3. ASSUME NEW r \in Runs, ResumeCheck(r) PROVE SerialInv'
    BY <2>3
       DEF ResumeCheck,
           SerialInv, OneActivePerSession, SessionFIFO, OneInHand, Ranked, ClaimsInOrder, QueuedClaims
  <2>4. ASSUME NEW r \in Runs, ResumeWrite(r) PROVE SerialInv'
    <3>1. claimer[r] # None /\ created[r] # 0 /\ state' = [state EXCEPT ![r] = "queued"]
      BY <2>4 DEF ResumeWrite, SetRunState, SerialInv, Ranked
    <3>2. /\ UNCHANGED <<created, clock, claimer, workerVars>>
          /\ \A q \in Runs \ {r} : resumers'[q] = resumers[q]
      BY <2>4 DEF ResumeWrite
    <3>3. \A w \in Workers : pc[w] = "claiming" => cur[w] # r
      BY <2>4 DEF ResumeWrite, SetRunState, RowFree
    <3>4. OneActivePerSession' /\ OneInHand' /\ QueuedClaims'
      BY <3>1, <3>2, <3>3 DEF SerialInv, OneActivePerSession, OneInHand, QueuedClaims
    <3>5. SessionFIFO' /\ ClaimsInOrder'
      BY <3>1, <3>2, <3>3 DEF SerialInv, SessionFIFO, ClaimsInOrder
    <3>6. Ranked'
      BY <3>1, <3>2 DEF SerialInv, Ranked
    <3> QED
      BY <3>4, <3>5, <3>6 DEF SerialInv
  <2>5. ASSUME NEW r \in Runs, LeaseExpires(r) \/ LeaseLapses(r) PROVE SerialInv'
    BY <2>5
       DEF LeaseExpires, LeaseLapses,
           SerialInv, OneActivePerSession, SessionFIFO, OneInHand, Ranked, ClaimsInOrder, QueuedClaims
  <2>6. ASSUME NEW w \in Workers, Crash(w) PROVE SerialInv'
    BY <2>6
       DEF Crash, Leave, GoTo,
           SerialInv, OneActivePerSession, SessionFIFO, OneInHand, Ranked, ClaimsInOrder, QueuedClaims
  <2>7. ASSUME NEW w \in Workers, RecoverExpiredLeases(w) PROVE SerialInv'
    BY <2>7
       DEF RecoverExpiredLeases, GoTo,
           SerialInv, OneActivePerSession, SessionFIFO, OneInHand, Ranked, ClaimsInOrder, QueuedClaims
  <2>8. ASSUME NEW w \in Workers, ClaimSelect(w) PROVE SerialInv'
    BY <2>8
       DEF ClaimSelect, Claimable, SessionActive, RowFree, GoTo,
           SerialInv, OneActivePerSession, SessionFIFO, OneInHand, Ranked, ClaimsInOrder, QueuedClaims
  <2>9. ASSUME NEW w \in Workers, ClaimNothing(w) PROVE SerialInv'
    BY <2>9
       DEF ClaimNothing, GoTo,
           SerialInv, OneActivePerSession, SessionFIFO, OneInHand, Ranked, ClaimsInOrder, QueuedClaims
  <2>10. ASSUME NEW w \in Workers, ClaimCommit(w) PROVE SerialInv'
    BY <2>10
       DEF ClaimCommit, GoTo,
           SerialInv, OneActivePerSession, SessionFIFO, OneInHand, Ranked, ClaimsInOrder, QueuedClaims
  <2>11. ASSUME NEW w \in Workers, AdmitRun(w) PROVE SerialInv'
    BY <2>11
       DEF AdmitRun, GoTo,
           SerialInv, OneActivePerSession, SessionFIFO, OneInHand, Ranked, ClaimsInOrder, QueuedClaims
  <2>12. ASSUME NEW w \in Workers, BeginProcess(w) PROVE SerialInv'
    BY <2>12, OwnRow DEF BeginProcess, SetRunState, GoTo
  <2>13. ASSUME NEW w \in Workers, EnsureRunnable(w) PROVE SerialInv'
    BY SMTT(60), <2>13
       DEF EnsureRunnable, CheckedPhase, Leave, GoTo,
           SerialInv, OneActivePerSession, SessionFIFO, OneInHand, Ranked, ClaimsInOrder, QueuedClaims
  <2>14. ASSUME NEW w \in Workers, JudgeScope(w) PROVE SerialInv'
    BY <2>14
       DEF JudgeScope, GoTo,
           SerialInv, OneActivePerSession, SessionFIFO, OneInHand, Ranked, ClaimsInOrder, QueuedClaims
  <2>15. ASSUME NEW w \in Workers, EnterWorkflow(w) PROVE SerialInv'
    <3>1. CASE cur[w] \in flow
      BY <2>15, <3>1 DEF EnterWorkflow, GoTo, SerialInv, OneActivePerSession, SessionFIFO, OneInHand, Ranked, ClaimsInOrder, QueuedClaims
    <3>2. CASE cur[w] \notin flow
      BY <2>15, <3>2, OwnRow DEF EnterWorkflow, SetRunState, GoTo
    <3> QED
      BY <3>1, <3>2
  <2>16. ASSUME NEW w \in Workers, FindWaiting(w) PROVE SerialInv'
    BY <2>16
       DEF FindWaiting, Leave, GoTo,
           SerialInv, OneActivePerSession, SessionFIFO, OneInHand, Ranked, ClaimsInOrder, QueuedClaims
  <2>17. ASSUME NEW w \in Workers, NodeWaits(w) PROVE SerialInv'
    BY <2>17
       DEF NodeWaits, GoTo,
           SerialInv, OneActivePerSession, SessionFIFO, OneInHand, Ranked, ClaimsInOrder, QueuedClaims
  <2>18. ASSUME NEW w \in Workers, WorkflowSucceeds(w) PROVE SerialInv'
    BY <2>18
       DEF WorkflowSucceeds, GoTo,
           SerialInv, OneActivePerSession, SessionFIFO, OneInHand, Ranked, ClaimsInOrder, QueuedClaims
  <2>19. ASSUME NEW w \in Workers, WorkflowFails(w) PROVE SerialInv'
    BY <2>19, OwnRow DEF WorkflowFails, SetRunState, GoTo
  <2>20. ASSUME NEW w \in Workers, AskUser(w) PROVE SerialInv'
    BY <2>20, OwnRow DEF AskUser, SetRunState, Leave, GoTo
  <2>21. ASSUME NEW w \in Workers, ToolsDone(w) PROVE SerialInv'
    BY <2>21
       DEF ToolsDone, GoTo,
           SerialInv, OneActivePerSession, SessionFIFO, OneInHand, Ranked, ClaimsInOrder, QueuedClaims
  <2>22. ASSUME NEW w \in Workers, EmitAnswer(w) PROVE SerialInv'
    BY <2>22
       DEF EmitAnswer, GoTo,
           SerialInv, OneActivePerSession, SessionFIFO, OneInHand, Ranked, ClaimsInOrder, QueuedClaims
  <2>23. ASSUME NEW w \in Workers, CompleteRun(w) PROVE SerialInv'
    BY <2>23, OwnRow DEF CompleteRun, SetRunState, Leave, GoTo
  <2>24. ASSUME NEW w \in Workers, FailRun(w) PROVE SerialInv'
    BY <2>24, OwnRow DEF FailRun, SetRunState, Leave, GoTo
  <2>25. CASE UNCHANGED vars
    BY <2>25
       DEF vars,
           SerialInv, OneActivePerSession, SessionFIFO, OneInHand, Ranked, ClaimsInOrder, QueuedClaims
  <2> QED
    BY <2>1, <2>2, <2>3, <2>4, <2>5, <2>6, <2>7, <2>8, <2>9, <2>10, <2>11, <2>12, <2>13, <2>14, <2>15, <2>16, <2>17, <2>18, <2>19, <2>20, <2>21, <2>22, <2>23, <2>24, <2>25
       DEF Next, WorkerStep
<1>3. SerialInv => SessionIsSerial
  BY DEF SessionIsSerial, SerialInv
<1> QED
  BY <1>1, <1>2, <1>3, TypeCorrect, PTL DEF Spec

-----------------------------------------------------------------------------
(* Where nobody cancels and no lease lapses under its holder. *)

Calm == Budget["cancel"] = 0 /\ Budget["lapse"] = 0

\* A run in hand is executing and has a lease; a failed one may be failed again.
Leased ==
  /\ spent["lapse"] = 0 /\ spent["cancel"] = 0
  /\ \A r \in Runs : state[r] \in Recoverable => lease[r] # "null"
  /\ \A w \in Workers :
       /\ pc[w] \in Processing \ {"failing"} => state[cur[w]] \in Recoverable
       /\ pc[w] = "failing" => state[cur[w]] \in Recoverable \cup {"failed"}
  /\ \A r \in Runs : resumers[r] > 0 => state[r] = "awaiting_user"

LEMMA LeasedKept ==
  ASSUME Calm, MaxResumers <= 1
  PROVE  Spec => []Leased
<1> USE RunLifecycleAssumption DEF TypeOK, InHandInv, Leased, Calm
<1>1. Init => Leased
  BY DEF Init
<1>2. TypeOK /\ ExclusiveInv /\ Leased /\ [Next]_vars => Leased'
  <2> SUFFICES ASSUME TypeOK, InHandInv, Leased, [Next]_vars PROVE Leased'
    BY DEF ExclusiveInv
  <2>1. ASSUME NEW r \in Runs, CreateRun(r) PROVE Leased'
    BY <2>1 DEF CreateRun
  <2>2. ASSUME NEW r \in Runs, ResumeCheck(r) PROVE Leased'
    BY <2>2 DEF ResumeCheck, Spend
  <2>3. ASSUME NEW r \in Runs, ResumeWrite(r) PROVE Leased'
    BY <2>3 DEF ResumeWrite, SetRunState
  <2>4. ASSUME NEW r \in Runs, LeaseExpires(r) PROVE Leased'
    BY <2>4 DEF LeaseExpires
  <2>5. ASSUME NEW w \in Workers, Crash(w) PROVE Leased'
    BY <2>5 DEF Crash, Leave, GoTo, Spend
  <2>6. ASSUME NEW w \in Workers, RecoverExpiredLeases(w) PROVE Leased'
    BY <2>6 DEF RecoverExpiredLeases, GoTo
  <2>7. ASSUME NEW w \in Workers, ClaimSelect(w) PROVE Leased'
    BY <2>7 DEF ClaimSelect, Claimable, RowFree, GoTo
  <2>8. ASSUME NEW w \in Workers, ClaimNothing(w) PROVE Leased'
    BY <2>8 DEF ClaimNothing, GoTo
  <2>9. ASSUME NEW w \in Workers, ClaimCommit(w) PROVE Leased'
    BY <2>9 DEF ClaimCommit, GoTo
  <2>10. ASSUME NEW w \in Workers, AdmitRun(w) PROVE Leased'
    BY <2>10 DEF AdmitRun, GoTo
  <2>11. ASSUME NEW w \in Workers, BeginProcess(w) PROVE Leased'
    BY <2>11 DEF BeginProcess, SetRunState, GoTo
  <2>12. ASSUME NEW w \in Workers, EnsureRunnable(w) PROVE Leased'
    BY <2>12 DEF EnsureRunnable, CheckedPhase, Leave, GoTo
  <2>13. ASSUME NEW w \in Workers, JudgeScope(w) PROVE Leased'
    BY <2>13 DEF JudgeScope, GoTo
  <2>14. ASSUME NEW w \in Workers, EnterWorkflow(w) PROVE Leased'
    BY <2>14 DEF EnterWorkflow, SetRunState, GoTo
  <2>15. ASSUME NEW w \in Workers, FindWaiting(w) PROVE Leased'
    BY <2>15 DEF FindWaiting, Leave, GoTo
  <2>16. ASSUME NEW w \in Workers, NodeWaits(w) PROVE Leased'
    BY <2>16 DEF NodeWaits, GoTo
  <2>17. ASSUME NEW w \in Workers, WorkflowSucceeds(w) PROVE Leased'
    BY <2>17 DEF WorkflowSucceeds, GoTo
  <2>18. ASSUME NEW w \in Workers, WorkflowFails(w) PROVE Leased'
    BY <2>18 DEF WorkflowFails, SetRunState, GoTo
  <2>19. ASSUME NEW w \in Workers, AskUser(w) PROVE Leased'
    BY <2>19 DEF AskUser, SetRunState, Leave, GoTo
  <2>20. ASSUME NEW w \in Workers, ToolsDone(w) PROVE Leased'
    BY <2>20 DEF ToolsDone, GoTo
  <2>21. ASSUME NEW w \in Workers, EmitAnswer(w) PROVE Leased'
    BY <2>21 DEF EmitAnswer, GoTo
  <2>22. ASSUME NEW w \in Workers, CompleteRun(w) PROVE Leased'
    BY <2>22 DEF CompleteRun, SetRunState, Leave, GoTo
  <2>23. ASSUME NEW w \in Workers, FailRun(w) PROVE Leased'
    BY <2>23 DEF FailRun, SetRunState, Leave, GoTo
  <2>24. ASSUME NEW r \in Runs, Cancel(r) \/ LeaseLapses(r) PROVE FALSE
    BY <2>24 DEF Cancel, LeaseLapses, Spend
  <2>25. CASE UNCHANGED vars
    BY <2>25 DEF vars
  <2> QED
    BY <2>1, <2>2, <2>3, <2>4, <2>5, <2>6, <2>7, <2>8, <2>9, <2>10, <2>11, <2>12, <2>13, <2>14, <2>15, <2>16, <2>17, <2>18, <2>19, <2>20, <2>21, <2>22, <2>23, <2>24, <2>25
       DEF Next, WorkerStep
<1> QED
  BY <1>1, <1>2, TypeCorrect, InHandKept, PTL DEF Spec

\* Whatever crashes, an executing run can be recovered: it has a lease that ends.
THEOREM NobodyIsOrphaned ==
  ASSUME Calm, MaxResumers <= 1
  PROVE  Spec => []NoOrphan
<1>1. Leased => NoOrphan
  BY DEF Leased, NoOrphan
<1> QED
  BY <1>1, LeasedKept, PTL

-----------------------------------------------------------------------------
\* A late write may bring a run back to life, but nobody goes on with it: with
\* distinct owner strings, whatever crashes, lapses, cancellations and resumes
\* happen.  A terminal write takes the owner from the row, only a claim puts one
\* back, and a claim's candidate is locked while it is queued.
THEOREM EndedRunsAreLeft ==
  ASSUME \A v, w \in Workers : OwnerOf[v] = OwnerOf[w] => v = w
  PROVE  Spec => EndedIsLeft
<1> USE RunLifecycleAssumption DEF TypeOK, OwnedStands
<1>1. Init => OwnedStands
  BY DEF Init
<1>2. TypeOK /\ OwnedStands /\ [Next]_vars => OwnedStands'
  <2> SUFFICES ASSUME TypeOK, OwnedStands, [Next]_vars PROVE OwnedStands'
    OBVIOUS
  <2>1. ASSUME NEW r \in Runs, CreateRun(r) PROVE OwnedStands'
    BY <2>1 DEF CreateRun
  <2>2. ASSUME NEW r \in Runs, Cancel(r) \/ ResumeWrite(r) PROVE OwnedStands'
    BY <2>2 DEF Cancel, ResumeWrite, SetRunState, RowFree
  <2>3. ASSUME NEW r \in Runs, ResumeCheck(r) \/ LeaseExpires(r) \/ LeaseLapses(r) PROVE OwnedStands'
    BY <2>3 DEF ResumeCheck, LeaseExpires, LeaseLapses
  <2>4. ASSUME NEW w \in Workers, Crash(w) PROVE OwnedStands'
    BY <2>4 DEF Crash, Leave, GoTo
  <2>5. ASSUME NEW w \in Workers, RecoverExpiredLeases(w) PROVE OwnedStands'
    BY <2>5 DEF RecoverExpiredLeases, GoTo
  <2>6. ASSUME NEW w \in Workers, ClaimSelect(w) PROVE OwnedStands'
    BY <2>6 DEF ClaimSelect, Claimable, RowFree, GoTo
  <2>7. ASSUME NEW w \in Workers, ClaimCommit(w) PROVE OwnedStands'
    BY <2>7 DEF ClaimCommit, GoTo
  <2>8. ASSUME NEW w \in Workers,
               \/ ClaimNothing(w) \/ AdmitRun(w) \/ JudgeScope(w) \/ FindWaiting(w) \/ NodeWaits(w)
               \/ WorkflowSucceeds(w) \/ ToolsDone(w) \/ EmitAnswer(w)
        PROVE  OwnedStands'
    BY <2>8 DEF ClaimNothing, AdmitRun, JudgeScope, FindWaiting, NodeWaits, WorkflowSucceeds, ToolsDone,
         EmitAnswer, Leave, GoTo
  <2>9. ASSUME NEW w \in Workers, EnsureRunnable(w) PROVE OwnedStands'
    BY <2>9 DEF EnsureRunnable, CheckedPhase, Leave, GoTo
  <2>10. ASSUME NEW w \in Workers, BeginProcess(w) \/ EnterWorkflow(w) \/ WorkflowFails(w)
         PROVE  OwnedStands'
    BY <2>10 DEF BeginProcess, EnterWorkflow, WorkflowFails, SetRunState, RowFree, GoTo
  <2>11. ASSUME NEW w \in Workers, AskUser(w) \/ CompleteRun(w) \/ FailRun(w) PROVE OwnedStands'
    BY <2>11 DEF AskUser, CompleteRun, FailRun, SetRunState, RowFree, Leave, GoTo
  <2>12. CASE UNCHANGED vars
    BY <2>12 DEF vars
  <2> QED
    BY <2>1, <2>2, <2>3, <2>4, <2>5, <2>6, <2>7, <2>8, <2>9, <2>10, <2>11, <2>12 DEF Next, WorkerStep
<1>3. TypeOK /\ OwnedStands /\ [Next]_vars => [LeftStep]_vars
  <2> SUFFICES ASSUME TypeOK, OwnedStands, Next PROVE LeftStep
    OBVIOUS
  <2>1. ASSUME NEW w \in Workers, PassesCheck(w) PROVE cur[w] \in standing
    <3>1. PICK v \in Workers : WorkerStep(v) \/ Crash(v)
      BY <2>1 DEF Next, PassesCheck, CheckedPhase, CreateRun, Cancel, ResumeCheck, ResumeWrite, LeaseExpires, LeaseLapses
    <3>2. EnsureRunnable(v) /\ v = w
      BY <2>1, <3>1 DEF PassesCheck, CheckedPhase, WorkerStep, Crash, RecoverExpiredLeases, ClaimSelect,
           ClaimNothing, ClaimCommit, AdmitRun, BeginProcess, EnsureRunnable, JudgeScope, EnterWorkflow,
           FindWaiting, NodeWaits, WorkflowSucceeds, WorkflowFails, AskUser, ToolsDone, EmitAnswer,
           CompleteRun, FailRun, Leave, GoTo
    <3>3. owner[cur[w]] = OwnerOf[w]
      BY <2>1, <3>2 DEF EnsureRunnable, PassesCheck, CheckedPhase, Leave, GoTo
    <3> QED
      BY <2>1, <3>3 DEF PassesCheck, CheckedPhase
  <2>2. ASSUME NEW q \in Runs, state[q] \in Terminal, resumers[q] = 0, ~Working(q)
        PROVE  state'[q] \in Terminal
    <3>1. ASSUME NEW r \in Runs,
                 \/ CreateRun(r) \/ Cancel(r) \/ ResumeCheck(r) \/ ResumeWrite(r)
                 \/ LeaseExpires(r) \/ LeaseLapses(r)
          PROVE  state'[q] \in Terminal
      BY <2>2, <3>1 DEF CreateRun, Cancel, ResumeCheck, ResumeWrite, LeaseExpires, LeaseLapses, SetRunState
    <3>2. ASSUME NEW w \in Workers,
                 \/ Crash(w) \/ RecoverExpiredLeases(w) \/ ClaimSelect(w) \/ ClaimNothing(w) \/ ClaimCommit(w)
          PROVE  state'[q] \in Terminal
      BY <2>2, <3>2 DEF Crash, RecoverExpiredLeases, ClaimSelect, ClaimNothing, ClaimCommit
    <3>3. ASSUME NEW w \in Workers, WorkerStep(w), pc[w] \in Processing PROVE state'[q] \in Terminal
      <4>1. cur[w] # q /\ cur[w] \in Runs
        BY <2>2, <3>3 DEF Working
      <4> QED
        BY <2>2, <3>3, <4>1 DEF WorkerStep, RecoverExpiredLeases, ClaimSelect, ClaimNothing, ClaimCommit,
             AdmitRun, BeginProcess, EnsureRunnable, JudgeScope, EnterWorkflow, FindWaiting, NodeWaits,
             WorkflowSucceeds, WorkflowFails, AskUser, ToolsDone, EmitAnswer, CompleteRun, FailRun, SetRunState
    <3> QED
      BY <3>1, <3>2, <3>3 DEF Next, WorkerStep, AdmitRun, BeginProcess, EnsureRunnable, CheckedPhase, JudgeScope,
           EnterWorkflow, FindWaiting, NodeWaits, WorkflowSucceeds, WorkflowFails, AskUser, ToolsDone,
           EmitAnswer, CompleteRun, FailRun
  <2> QED
    BY <2>1, <2>2 DEF LeftStep
<1> QED
  BY <1>1, <1>2, <1>3, TypeCorrect, PTL DEF Spec, EndedIsLeft
=============================================================================
