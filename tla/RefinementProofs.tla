-------------------------- MODULE RefinementProofs --------------------------
(***************************************************************************)
(* Theorems about Refinement for every set of messages and requests, every *)
(* depth of refinement and every number of crashes.                        *)
(***************************************************************************)
EXTENDS Refinement, TLAPS

USE DEF Depth, Events, Active, Terminal, outVars, rowVars, handlerVars,
        pipeVars, Aside, NoHandler

\* A run that has ended and is in nobody's hands: no step brings it back.
Dead(r) == state[r] \in Terminal /\ cur # r

\* The states of the run the pipeline holds.
InHand ==
  /\ cur # NoRun => state[cur] \notin {"absent", "queued", "awaiting_user"}
  /\ pc = "refining" => state[cur] \in Terminal
  /\ pc \in {"suppressing", "refining"} => Depth(cur) < MaxDepth
  /\ pc = "replied" => answers[cur] > 0

\* A refinement exists only of a run that is over.
Chain ==
  \A r, s \in RunIds :
    r[1] = s[1] /\ Depth(r) < Depth(s) /\ state[s] # "absent" => Dead(r)

\* What was read under the row's lock holds until the deferral commits.
Unwritten ==
  /\ \A r \in RunIds : state[r] = "absent" => carries[r] = {}
  /\ \A m \in got : dstate[m] = "claimed"
  /\ \A m \in Messages : dstate[m] # "none" => target[m] \in RunIds
  /\ \A q \in Requests : hpc[q] = "tx" => hrun[q] \in RunIds

Shape == TypeOK /\ InHand /\ Chain /\ Unwritten

\* A message whose handler is still busy, that waits deferred or has just been
\* claimed is in no run and has no reply.
Unplaced(m) == replies[m] = 0 /\ \A r \in RunIds : m \notin carries[r]

\* A message is in one place: on its way in, deferred, claimed, or in the runs of
\* one family, of which one at most is not over.
OnePlace ==
  /\ \A q \in Requests :
       hpc[q] # "done" =>
         /\ Unplaced(KeyOf[q]) /\ dstate[KeyOf[q]] = "none"
         /\ state[RunOf(KeyOf[q])] = "absent"
  /\ \A m \in Messages : dstate[m] = "deferred" => Unplaced(m)
  /\ \A m \in got : Unplaced(m)
  /\ \A m \in Messages, r, s \in RunIds :
       m \in carries[r] /\ m \in carries[s] => r[1] = s[1]

\* A run that may still reply.
MayReply(r) == state[r] # "absent" /\ ~Dead(r) /\ ~(cur = r /\ pc = "replied")

\* Every reply but the last was paid for by a crash, and so is the last if a run
\* that carries the message may still reply.
RepliesCounted ==
  \A m \in Messages :
    /\ replies[m] <= 1 + crashes
    /\ \A r \in RunIds : m \in carries[r] /\ MayReply(r) => replies[m] <= crashes

\* The replies are those of the runs that carry the message: none without a run.
Placement == OnePlace /\ RepliesCounted

\* A message deferred to a run will be claimed by it.
Listened ==
  seen \subseteq {"ask"} =>
    /\ \A q \in Requests :
         hpc[q] = "tx" => /\ state[hrun[q]] \in Active /\ window[hrun[q]] = "open"
                          /\ Depth(hrun[q]) < MaxDepth
    /\ \A m \in Messages :
         dstate[m] = "deferred" =>
           /\ state[target[m]] \notin Terminal /\ Depth(target[m]) < MaxDepth
           /\ cur = target[m] => pc \in {"judging", "working", "finalizing"}
    /\ pc \in {"replying", "replied", "suppressing", "refining"} /\ Depth(cur) < MaxDepth =>
         window[cur] = "past"

Dropped == Listened /\ ClaimedIsCarried /\ DraftIsRefined
-----------------------------------------------------------------------------
\* What identifies a run.
LEMMA Ids ==
  /\ NoRun \notin RunIds
  /\ \A r \in RunIds : r[1] \in Messages /\ r[2] \in Nat
  /\ \A r, s \in RunIds : r[1] = s[1] /\ r[2] = s[2] => r = s
  /\ \A m \in Messages : /\ RunOf(m) \in RunIds
                          /\ RunOf(m)[1] = m /\ RunOf(m)[2] = 0
  BY RefinementAssumption DEF RunIds, RunOf, NoRun

\* The refinement of a run below the last depth.
LEMMA Refined ==
  ASSUME NEW r \in RunIds, Depth(r) < MaxDepth
  PROVE  \E n \in RunIds : n = <<r[1], r[2] + 1>> /\ n[1] = r[1] /\ n[2] = r[2] + 1
<1>1. r[1] \in Messages /\ r[2] + 1 \in 0..MaxDepth
  BY RefinementAssumption DEF RunIds
<1>2. <<r[1], r[2] + 1>> \in RunIds
  BY <1>1 DEF RunIds
<1> QED
  BY <1>2

\* Creating the refinement of the run in hand: nobody created it before.
LEMMA RefinementIsNew ==
  ASSUME TypeOK, InHand, Chain, CreateRefinementRun
  PROVE  \E n \in RunIds :
           /\ n[1] = cur[1] /\ n[2] = cur[2] + 1
           /\ state[n] = "absent" /\ state' = [state EXCEPT ![n] = "queued"]
           /\ carries' = [carries EXCEPT ![n] = carries[cur] \cup got]
<1>1. cur \in RunIds /\ Depth(cur) < MaxDepth
  BY DEF TypeOK, InHand, CreateRefinementRun
<1>2. PICK n \in RunIds : n = <<cur[1], cur[2] + 1>> /\ n[1] = cur[1] /\ n[2] = cur[2] + 1
  BY <1>1, Refined
<1>3. ~Dead(cur) /\ cur[2] < n[2]
  BY <1>1, <1>2, Ids DEF Dead
<1>4. state[n] = "absent"
  BY <1>1, <1>2, <1>3 DEF Chain
<1> QED
  BY <1>2, <1>4 DEF CreateRefinementRun

\* The events that are noted are those that are allowed.
LEMMA Noted ==
  ASSUME TypeOK, NEW e, Happens(e)
  PROVE  seen' = {e} /\ seen' \subseteq Allowed
  BY DEF TypeOK, Happens

\* Every step keeps rows, handlers and the pipeline in shape.
THEOREM ShapeKept == Spec => []Shape
<1> USE RefinementAssumption, Ids
<1>1. Init => Shape
  BY DEF Init, Shape, TypeOK, InHand, Chain, Unwritten, Dead
<1>2. Shape /\ [Next]_vars => Shape'
  <2> SUFFICES ASSUME TypeOK, InHand, Chain, Unwritten, [Next]_vars PROVE Shape'
    BY DEF Shape
  <2>1. ASSUME NEW q \in Requests, CheckRun(q) PROVE Shape'
    <3>1. TypeOK'
      BY <2>1 DEF TypeOK, InHand, Unwritten, CheckRun, HandlerAt
    <3>2. InHand'
      BY <2>1 DEF TypeOK, InHand, Unwritten, CheckRun, HandlerAt
    <3>3. Chain'
      BY <2>1 DEF TypeOK, InHand, Chain, Dead, CheckRun, HandlerAt
    <3>4. Unwritten'
      BY <2>1 DEF TypeOK, InHand, Unwritten, CheckRun, HandlerAt
    <3> QED
      BY <3>1, <3>2, <3>3, <3>4 DEF Shape
  <2>2. ASSUME NEW q \in Requests, CheckDeferred(q) PROVE Shape'
    <3>1. TypeOK'
      BY <2>2 DEF TypeOK, InHand, Unwritten, CheckDeferred, HandlerAt
    <3>2. InHand'
      BY <2>2 DEF TypeOK, InHand, Unwritten, CheckDeferred, HandlerAt
    <3>3. Chain'
      BY <2>2 DEF TypeOK, InHand, Chain, Dead, CheckDeferred, HandlerAt
    <3>4. Unwritten'
      BY <2>2 DEF TypeOK, InHand, Unwritten, CheckDeferred, HandlerAt
    <3> QED
      BY <3>1, <3>2, <3>3, <3>4 DEF Shape
  <2>3. ASSUME NEW q \in Requests, DeferSelect(q) PROVE Shape'
    <3>1. TypeOK'
      BY SMTT(60), <2>3 DEF TypeOK, InHand, Unwritten, DeferSelect, HandlerAt, Interruptible, RowFree
    <3>2. InHand'
      BY <2>3 DEF TypeOK, InHand, Unwritten, DeferSelect, HandlerAt, Interruptible, RowFree
    <3>3. Chain'
      BY <2>3 DEF TypeOK, InHand, Chain, Dead, DeferSelect, HandlerAt, Interruptible, RowFree
    <3>4. Unwritten'
      BY <2>3 DEF TypeOK, InHand, Unwritten, DeferSelect, HandlerAt, Interruptible, RowFree
    <3> QED
      BY <3>1, <3>2, <3>3, <3>4 DEF Shape
  <2>4. ASSUME NEW q \in Requests, DeferCommit(q) PROVE Shape'
    <3>1. TypeOK'
      <4>1. KeyOf[q] \in Messages /\ hrun[q] \in RunIds
        BY <2>4 DEF Unwritten, DeferCommit, HandlerAt
      <4>2. /\ dstate' \in [Messages -> {"none", "deferred", "claimed"}]
            /\ target' \in [Messages -> RunIds \cup {NoRun}]
        BY <2>4, <4>1 DEF TypeOK, DeferCommit
      <4> QED
        BY <2>4, <4>2 DEF TypeOK, DeferCommit, HandlerAt
    <3>2. InHand'
      BY <2>4 DEF TypeOK, InHand, Unwritten, DeferCommit, HandlerAt
    <3>3. Chain'
      BY <2>4 DEF TypeOK, InHand, Chain, Dead, DeferCommit, HandlerAt
    <3>4. Unwritten'
      BY <2>4 DEF TypeOK, InHand, Unwritten, DeferCommit, HandlerAt
    <3> QED
      BY <3>1, <3>2, <3>3, <3>4 DEF Shape
  <2>5. ASSUME NEW q \in Requests, CreateRun(q) PROVE Shape'
    <3>1. TypeOK'
      <4>1. RunOf(KeyOf[q]) \in RunIds /\ KeyOf[q] \in Messages
        OBVIOUS
      <4>2. state' \in [RunIds -> {"absent", "queued"} \cup Active \cup Terminal]
        BY <2>5, <4>1 DEF TypeOK, CreateRun
      <4>3. carries' \in [RunIds -> SUBSET Messages]
        BY <2>5, <4>1 DEF TypeOK, CreateRun
      <4> QED
        BY <2>5, <4>2, <4>3 DEF TypeOK, CreateRun, HandlerAt
    <3>2. InHand'
      BY <2>5 DEF TypeOK, InHand, Unwritten, CreateRun, HandlerAt
    <3>3. Chain'
      BY <2>5 DEF TypeOK, InHand, Chain, Dead, CreateRun, HandlerAt
    <3>4. Unwritten'
      BY <2>5 DEF TypeOK, InHand, Unwritten, CreateRun, HandlerAt
    <3> QED
      BY <3>1, <3>2, <3>3, <3>4 DEF Shape
  <2>6. CASE JudgeScope
    <3>1. TypeOK'
      <4>1. seen' \subseteq Allowed
        BY <2>6, Noted DEF TypeOK, JudgeScope
      <4> QED
        BY <2>6, <4>1 DEF TypeOK, JudgeScope, At
    <3>2. InHand'
      BY <2>6 DEF TypeOK, InHand, Unwritten, JudgeScope, At, Happens
    <3>3. Chain'
      BY <2>6 DEF TypeOK, InHand, Chain, Dead, JudgeScope, At, Happens
    <3>4. Unwritten'
      BY <2>6 DEF TypeOK, InHand, Unwritten, JudgeScope, At, Happens
    <3> QED
      BY <3>1, <3>2, <3>3, <3>4 DEF Shape
  <2>7. CASE Work
    <3>1. TypeOK'
      BY <2>7 DEF TypeOK, InHand, Unwritten, Work, Stop
    <3>2. InHand'
      BY <2>7 DEF TypeOK, InHand, Unwritten, Work, Stop
    <3>3. Chain'
      BY <2>7 DEF TypeOK, InHand, Chain, Dead, Work, Stop
    <3>4. Unwritten'
      BY <2>7 DEF TypeOK, InHand, Unwritten, Work, Stop
    <3> QED
      BY <3>1, <3>2, <3>3, <3>4 DEF Shape
  <2>8. CASE AskUser
    <3>1. TypeOK'
      BY <2>8 DEF TypeOK, InHand, Unwritten, AskUser, SetState, RowFree, Happens, Stop
    <3>2. InHand'
      BY <2>8 DEF TypeOK, InHand, Unwritten, AskUser, SetState, RowFree, Happens, Stop
    <3>3. Chain'
      BY <2>8 DEF TypeOK, InHand, Chain, Dead, AskUser, SetState, RowFree, Happens, Stop
    <3>4. Unwritten'
      BY <2>8 DEF TypeOK, InHand, Unwritten, AskUser, SetState, RowFree, Happens, Stop
    <3> QED
      BY <3>1, <3>2, <3>3, <3>4 DEF Shape
  <2>9. CASE ClaimDeferred
    <3>1. TypeOK'
      BY <2>9 DEF TypeOK, InHand, Unwritten, ClaimDeferred
    <3>2. InHand'
      BY <2>9 DEF TypeOK, InHand, Unwritten, ClaimDeferred
    <3>3. Chain'
      BY <2>9 DEF TypeOK, InHand, Chain, Dead, ClaimDeferred
    <3>4. Unwritten'
      BY <2>9 DEF TypeOK, InHand, Unwritten, ClaimDeferred
    <3> QED
      BY <3>1, <3>2, <3>3, <3>4 DEF Shape
  <2>10. CASE EmitReply
    <3>1. TypeOK'
      BY <2>10 DEF TypeOK, InHand, Unwritten, EmitReply, At
    <3>2. InHand'
      BY <2>10 DEF TypeOK, InHand, Unwritten, EmitReply, At
    <3>3. Chain'
      BY <2>10 DEF TypeOK, InHand, Chain, Dead, EmitReply, At
    <3>4. Unwritten'
      BY <2>10 DEF TypeOK, InHand, Unwritten, EmitReply, At
    <3> QED
      BY <3>1, <3>2, <3>3, <3>4 DEF Shape
  <2>11. CASE CompleteRun
    <3>1. TypeOK'
      BY <2>11 DEF TypeOK, InHand, Unwritten, CompleteRun, SetState, RowFree, Stop
    <3>2. InHand'
      BY <2>11 DEF TypeOK, InHand, Unwritten, CompleteRun, SetState, RowFree, Stop
    <3>3. Chain'
      BY <2>11 DEF TypeOK, InHand, Chain, Dead, CompleteRun, SetState, RowFree, Stop
    <3>4. Unwritten'
      BY <2>11 DEF TypeOK, InHand, Unwritten, CompleteRun, SetState, RowFree, Stop
    <3> QED
      BY <3>1, <3>2, <3>3, <3>4 DEF Shape
  <2>12. CASE CompleteRunSuppressed
    <3>1. TypeOK'
      BY <2>12 DEF TypeOK, InHand, Unwritten, CompleteRunSuppressed, SetState, RowFree, At
    <3>2. InHand'
      BY <2>12 DEF TypeOK, InHand, Unwritten, CompleteRunSuppressed, SetState, RowFree, At
    <3>3. Chain'
      BY <2>12 DEF TypeOK, InHand, Chain, Dead, CompleteRunSuppressed, SetState, RowFree, At
    <3>4. Unwritten'
      BY <2>12 DEF TypeOK, InHand, Unwritten, CompleteRunSuppressed, SetState, RowFree, At
    <3> QED
      BY <3>1, <3>2, <3>3, <3>4 DEF Shape
  <2>13. CASE CreateRefinementRun
    <3>a. PICK n \in RunIds :
            /\ n[1] = cur[1] /\ n[2] = cur[2] + 1
            /\ state[n] = "absent" /\ state' = [state EXCEPT ![n] = "queued"]
            /\ carries' = [carries EXCEPT ![n] = carries[cur] \cup got]
      BY <2>13, RefinementIsNew
    <3>b. cur \in RunIds /\ state[cur] \in Terminal /\ cur # n
      BY <2>13, <3>a DEF TypeOK, InHand, CreateRefinementRun
    <3>1. TypeOK'
      <4>1. /\ state' \in [RunIds -> {"absent", "queued"} \cup Active \cup Terminal]
            /\ carries' \in [RunIds -> SUBSET Messages]
        BY <3>a, <3>b DEF TypeOK
      <4> QED
        BY <2>13, <4>1 DEF TypeOK, CreateRefinementRun, Stop
    <3>2. InHand'
      BY <2>13 DEF InHand, TypeOK, CreateRefinementRun, Stop
    <3>3. Chain'
      <4> SUFFICES ASSUME NEW r \in RunIds, NEW s \in RunIds,
                          r[1] = s[1], r[2] < s[2], state'[s] # "absent"
                   PROVE  Dead(r)'
        BY DEF Chain
      <4>0. cur' = NoRun
        BY <2>13 DEF CreateRefinementRun, Stop
      <4>1. CASE s = n
        <5>1. r[2] <= cur[2] /\ (r = cur \/ r[2] < cur[2])
          BY <3>a, <3>b, <4>1
        <5>2. state[r] \in Terminal
          BY <3>a, <3>b, <4>1, <5>1 DEF Chain, Dead
        <5> QED
          BY <3>a, <4>0, <5>2 DEF Dead, TypeOK
      <4>2. CASE s # n
        <5>1. Dead(r)
          BY <3>a, <4>2 DEF Chain, TypeOK
        <5> QED
          BY <3>a, <4>0, <5>1 DEF Dead, TypeOK
      <4> QED
        BY <4>1, <4>2
    <3>4. Unwritten'
      BY <2>13, <3>a DEF TypeOK, Unwritten, CreateRefinementRun, Stop
    <3> QED
      BY <3>1, <3>2, <3>3, <3>4 DEF Shape
  <2>14. CASE FailRun
    <3>1. TypeOK'
      BY <2>14 DEF TypeOK, InHand, Unwritten, FailRun, SetState, RowFree, Happens, Stop
    <3>2. InHand'
      BY <2>14 DEF TypeOK, InHand, Unwritten, FailRun, SetState, RowFree, Happens, Stop
    <3>3. Chain'
      BY <2>14 DEF TypeOK, InHand, Chain, Dead, FailRun, SetState, RowFree, Happens, Stop
    <3>4. Unwritten'
      BY <2>14 DEF TypeOK, InHand, Unwritten, FailRun, SetState, RowFree, Happens, Stop
    <3> QED
      BY <3>1, <3>2, <3>3, <3>4 DEF Shape
  <2>15. CASE Crash
    <3>1. TypeOK'
      BY SMTT(60), <2>15 DEF TypeOK, InHand, Unwritten, Crash, SetState, RowFree, Stop
    <3>2. InHand'
      BY <2>15 DEF TypeOK, InHand, Unwritten, Crash, SetState, RowFree, Stop
    <3>3. Chain'
      BY <2>15 DEF TypeOK, InHand, Chain, Dead, Crash, SetState, RowFree, Stop
    <3>4. Unwritten'
      BY <2>15 DEF TypeOK, InHand, Unwritten, Crash, SetState, RowFree, Stop
    <3> QED
      BY <3>1, <3>2, <3>3, <3>4 DEF Shape
  <2>16. ASSUME NEW r \in RunIds, StartRun(r) PROVE Shape'
    <3>1. TypeOK'
      BY <2>16 DEF TypeOK, InHand, Unwritten, StartRun, At, SetState, RowFree
    <3>2. InHand'
      BY <2>16 DEF TypeOK, InHand, Unwritten, StartRun, At, SetState, RowFree
    <3>3. Chain'
      BY <2>16 DEF TypeOK, InHand, Chain, Dead, StartRun, At, SetState, RowFree
    <3>4. Unwritten'
      BY <2>16 DEF TypeOK, InHand, Unwritten, StartRun, At, SetState, RowFree
    <3> QED
      BY <3>1, <3>2, <3>3, <3>4 DEF Shape
  <2>17. ASSUME NEW r \in RunIds, WindowPasses(r) PROVE Shape'
    <3>1. TypeOK'
      <4>1. seen' \subseteq Allowed
        BY <2>17, Noted DEF TypeOK, WindowPasses
      <4> QED
        BY <2>17, <4>1 DEF TypeOK, WindowPasses
    <3>2. InHand'
      BY <2>17 DEF TypeOK, InHand, Unwritten, WindowPasses, Happens
    <3>3. Chain'
      BY <2>17 DEF TypeOK, InHand, Chain, Dead, WindowPasses, Happens
    <3>4. Unwritten'
      BY <2>17 DEF TypeOK, InHand, Unwritten, WindowPasses, Happens
    <3> QED
      BY <3>1, <3>2, <3>3, <3>4 DEF Shape
  <2>18. ASSUME NEW r \in RunIds, Cancel(r) PROVE Shape'
    <3>1. TypeOK'
      BY <2>18 DEF TypeOK, InHand, Unwritten, Cancel, SetState, RowFree, Happens
    <3>2. InHand'
      BY <2>18 DEF TypeOK, InHand, Unwritten, Cancel, SetState, RowFree, Happens
    <3>3. Chain'
      BY <2>18 DEF TypeOK, InHand, Chain, Dead, Cancel, SetState, RowFree, Happens
    <3>4. Unwritten'
      BY <2>18 DEF TypeOK, InHand, Unwritten, Cancel, SetState, RowFree, Happens
    <3> QED
      BY <3>1, <3>2, <3>3, <3>4 DEF Shape
  <2>19. ASSUME NEW r \in RunIds, Resume(r) PROVE Shape'
    <3>1. TypeOK'
      BY <2>19 DEF TypeOK, InHand, Unwritten, Resume, SetState, RowFree
    <3>2. InHand'
      BY <2>19 DEF TypeOK, InHand, Unwritten, Resume, SetState, RowFree
    <3>3. Chain'
      BY <2>19 DEF TypeOK, InHand, Chain, Dead, Resume, SetState, RowFree
    <3>4. Unwritten'
      BY <2>19 DEF TypeOK, InHand, Unwritten, Resume, SetState, RowFree
    <3> QED
      BY <3>1, <3>2, <3>3, <3>4 DEF Shape
  <2>20. CASE UNCHANGED vars
    BY <2>20 DEF vars, Shape, Chain, Dead, InHand, TypeOK, Unwritten
  <2> QED
    BY <2>1, <2>2, <2>3, <2>4, <2>5, <2>6, <2>7, <2>8, <2>9, <2>10, <2>11, <2>12, <2>13, <2>14, <2>15, <2>16, <2>17, <2>18, <2>19, <2>20
       DEF Next, HandlerStep, PipelineStep
<1> QED
  BY <1>1, <1>2, PTL DEF Spec

\* Every step keeps a message in one place, if each was submitted once.
THEOREM PlacementKept ==
  ASSUME \A p, q \in Requests : KeyOf[p] = KeyOf[q] => p = q
  PROVE  Spec => []Placement
<1> USE RefinementAssumption, Ids
<1>1. Init => Placement
  BY DEF Init, Placement, OnePlace, Unplaced, RepliesCounted
<1>2. Shape /\ Shape' /\ Placement /\ [Next]_vars => Placement'
  <2> SUFFICES ASSUME TypeOK, InHand, Chain, Unwritten, OnePlace, RepliesCounted, [Next]_vars
               PROVE  Placement'
    BY DEF Shape, Placement
  <2>1. ASSUME NEW q \in Requests, CheckRun(q) PROVE Placement'
    <3>1. OnePlace'
      BY <2>1 DEF TypeOK, Unwritten, OnePlace, Unplaced, CheckRun, HandlerAt
    <3>2. RepliesCounted'
      BY <2>1 DEF TypeOK, OnePlace, Unplaced, RepliesCounted, MayReply, Dead, CheckRun, HandlerAt
    <3> QED
      BY <3>1, <3>2 DEF Placement
  <2>2. ASSUME NEW q \in Requests, CheckDeferred(q) PROVE Placement'
    <3>1. OnePlace'
      BY <2>2 DEF TypeOK, Unwritten, OnePlace, Unplaced, CheckDeferred, HandlerAt
    <3>2. RepliesCounted'
      BY <2>2 DEF TypeOK, OnePlace, Unplaced, RepliesCounted, MayReply, Dead, CheckDeferred, HandlerAt
    <3> QED
      BY <3>1, <3>2 DEF Placement
  <2>3. ASSUME NEW q \in Requests, DeferSelect(q) PROVE Placement'
    <3>1. OnePlace'
      BY <2>3 DEF TypeOK, Unwritten, OnePlace, Unplaced, DeferSelect, HandlerAt, Interruptible, RowFree
    <3>2. RepliesCounted'
      BY <2>3 DEF TypeOK, OnePlace, Unplaced, RepliesCounted, MayReply, Dead, DeferSelect, HandlerAt, Interruptible, RowFree
    <3> QED
      BY <3>1, <3>2 DEF Placement
  <2>4. ASSUME NEW q \in Requests, DeferCommit(q) PROVE Placement'
    <3>1. OnePlace'
      <4>1. hpc[q] = "tx" /\ Unplaced(KeyOf[q]) /\ dstate[KeyOf[q]] = "none" /\ KeyOf[q] \in Messages
        BY <2>4 DEF OnePlace, DeferCommit, HandlerAt
      <4>2. /\ hpc' = [hpc EXCEPT ![q] = "done"]
            /\ dstate' = [dstate EXCEPT ![KeyOf[q]] = "deferred"]
            /\ UNCHANGED <<rowVars, got>>
        BY <2>4, <4>1 DEF DeferCommit, HandlerAt
      <4>3. \A m \in Messages : Unplaced(m)' <=> Unplaced(m)
        BY <4>2 DEF Unplaced
      <4>4. ASSUME NEW p \in Requests, hpc'[p] # "done"
            PROVE  Unplaced(KeyOf[p]) /\ dstate'[KeyOf[p]] = "none" /\ state[RunOf(KeyOf[p])] = "absent"
        <5>1. p # q /\ hpc[p] # "done"
          BY <4>2, <4>4 DEF TypeOK
        <5>2. KeyOf[p] # KeyOf[q] /\ KeyOf[p] \in Messages
          BY <5>1
        <5> QED
          BY <4>2, <5>1, <5>2 DEF OnePlace, TypeOK
      <4>5. \A m \in Messages : dstate'[m] = "deferred" => Unplaced(m)
        BY <4>1, <4>2 DEF OnePlace, TypeOK
      <4>6. got \subseteq Messages
        BY DEF TypeOK
      <4> QED
        BY <4>2, <4>3, <4>4, <4>5, <4>6 DEF OnePlace
    <3>2. RepliesCounted'
      BY <2>4 DEF TypeOK, OnePlace, Unplaced, RepliesCounted, MayReply, Dead, DeferCommit, HandlerAt
    <3> QED
      BY <3>1, <3>2 DEF Placement
  <2>5. ASSUME NEW q \in Requests, CreateRun(q) PROVE Placement'
    <3>a. PICK n \in RunIds : n = RunOf(KeyOf[q]) /\ n[1] = KeyOf[q]
      OBVIOUS
    <3>b. /\ hpc[q] = "create" /\ Unplaced(KeyOf[q]) /\ dstate[KeyOf[q]] = "none"
          /\ state[n] = "absent" /\ KeyOf[q] \in Messages
      BY <2>5, <3>a DEF OnePlace, CreateRun, HandlerAt
    <3>c. /\ hpc' = [hpc EXCEPT ![q] = "done"]
          /\ state' = [state EXCEPT ![n] = "queued"]
          /\ carries' = [carries EXCEPT ![n] = {KeyOf[q]}]
          /\ UNCHANGED <<outVars, dstate, got, cur, pc, crashes>>
      BY <2>5, <3>a, <3>b DEF CreateRun, HandlerAt
    <3>d. \A m \in Messages : m # KeyOf[q] /\ Unplaced(m) => Unplaced(m)'
      BY <3>c DEF Unplaced, TypeOK
    <3>1. OnePlace'
      <4>1. ASSUME NEW p \in Requests, hpc'[p] # "done"
            PROVE  /\ Unplaced(KeyOf[p])' /\ dstate'[KeyOf[p]] = "none"
                   /\ state'[RunOf(KeyOf[p])] = "absent"
        <5>1. p # q /\ hpc[p] # "done"
          BY <3>c, <4>1 DEF TypeOK
        <5>2. KeyOf[p] # KeyOf[q] /\ KeyOf[p] \in Messages
          BY <5>1
        <5>3. RunOf(KeyOf[p]) # n
          BY <3>a, <5>2
        <5> QED
          BY <3>c, <3>d, <5>1, <5>2, <5>3 DEF OnePlace, TypeOK
      <4>2. \A m \in Messages : dstate'[m] = "deferred" => Unplaced(m)'
        BY <3>b, <3>c, <3>d DEF OnePlace
      <4>3. \A m \in got' : Unplaced(m)'
        BY <3>b, <3>c, <3>d DEF OnePlace, Unwritten, TypeOK
      <4>4. ASSUME NEW m \in Messages, NEW r \in RunIds, NEW s \in RunIds,
                   m \in carries'[r], m \in carries'[s]
            PROVE  r[1] = s[1]
        <5>1. CASE m = KeyOf[q]
          BY <3>b, <3>c, <4>4, <5>1 DEF Unplaced, TypeOK
        <5>2. CASE m # KeyOf[q]
          BY <3>c, <4>4, <5>2 DEF OnePlace, TypeOK
        <5> QED
          BY <5>1, <5>2
      <4> QED
        BY <4>1, <4>2, <4>3, <4>4 DEF OnePlace
    <3>2. RepliesCounted'
      <4> SUFFICES ASSUME NEW m \in Messages, NEW r \in RunIds, m \in carries'[r], MayReply(r)'
                   PROVE  replies[m] <= crashes
        BY <3>c DEF RepliesCounted
      <4>1. CASE r = n
        BY <3>b, <3>c, <4>1 DEF Unplaced, TypeOK
      <4>2. CASE r # n
        BY <3>c, <4>2 DEF RepliesCounted, MayReply, Dead, TypeOK
      <4> QED
        BY <4>1, <4>2
    <3> QED
      BY <3>1, <3>2 DEF Placement
  <2>6. CASE JudgeScope
    <3>1. OnePlace'
      BY <2>6 DEF TypeOK, Unwritten, OnePlace, Unplaced, JudgeScope, At, Happens
    <3>2. RepliesCounted'
      BY <2>6 DEF TypeOK, OnePlace, Unplaced, RepliesCounted, MayReply, Dead, JudgeScope, At, Happens
    <3> QED
      BY <3>1, <3>2 DEF Placement
  <2>7. CASE Work
    <3>1. OnePlace'
      BY <2>7 DEF TypeOK, Unwritten, OnePlace, Unplaced, Work, Stop
    <3>2. RepliesCounted'
      BY <2>7 DEF TypeOK, OnePlace, Unplaced, RepliesCounted, MayReply, Dead, Work, Stop
    <3> QED
      BY <3>1, <3>2 DEF Placement
  <2>8. CASE AskUser
    <3>a. cur \in RunIds /\ state[cur] # "absent"
      BY <2>8 DEF TypeOK, InHand, AskUser, At
    <3>1. OnePlace'
      <4>1. \A q \in Requests : hpc[q] # "done" => state[RunOf(KeyOf[q])] = "absent"
        BY DEF OnePlace
      <4>2. \A q \in Requests : hpc[q] # "done" => state'[RunOf(KeyOf[q])] = "absent"
        BY <2>8, <3>a, <4>1 DEF TypeOK, AskUser, SetState, Happens, Stop
      <4> QED
        BY <2>8, <3>a, <4>2 DEF OnePlace, Unplaced, AskUser, SetState, Happens, Stop
    <3>2. RepliesCounted'
      <4> SUFFICES ASSUME NEW m \in Messages, NEW r \in RunIds, m \in carries[r], MayReply(r)'
                   PROVE  MayReply(r)
        BY <2>8 DEF RepliesCounted, AskUser, SetState, Happens, Stop
      <4> QED
        BY <2>8, <3>a DEF TypeOK, MayReply, Dead, AskUser, SetState, Happens, Stop
    <3> QED
      BY <3>1, <3>2 DEF Placement
  <2>9. CASE ClaimDeferred
    <3>1. OnePlace'
      BY <2>9 DEF TypeOK, Unwritten, OnePlace, Unplaced, ClaimDeferred
    <3>2. RepliesCounted'
      BY <2>9 DEF TypeOK, OnePlace, Unplaced, RepliesCounted, MayReply, Dead, ClaimDeferred
    <3> QED
      BY <3>1, <3>2 DEF Placement
  <2>10. CASE EmitReply
    <3>1. OnePlace'
      BY <2>10 DEF TypeOK, Unwritten, OnePlace, Unplaced, EmitReply, At
    <3>2. RepliesCounted'
      <4>1. /\ cur \in RunIds /\ pc = "replying" /\ state[cur] # "absent"
            /\ pc' = "replied" /\ UNCHANGED <<state, carries, cur, crashes>>
            /\ replies' = [m \in Messages |-> IF m \in carries[cur] THEN replies[m] + 1 ELSE replies[m]]
        BY <2>10 DEF TypeOK, InHand, EmitReply, At
      <4>2. MayReply(cur)
        BY <4>1 DEF MayReply, Dead
      <4>3. \A m \in Messages : replies'[m] <= 1 + crashes
        BY <4>1, <4>2 DEF RepliesCounted, TypeOK
      <4>4. ASSUME NEW m \in Messages, NEW r \in RunIds, m \in carries[r], MayReply(r)'
            PROVE  replies'[m] <= crashes
        <5>1. r # cur /\ state[r] # "absent" /\ ~Dead(r)
          BY <4>1, <4>4 DEF MayReply, Dead
        <5>2. MayReply(r)
          BY <5>1 DEF MayReply
        <5>3. r[1] # cur[1]
          BY <4>1, <4>2, <5>1 DEF Chain, MayReply
        <5>4. m \notin carries[cur]
          BY <4>1, <4>4, <5>3 DEF OnePlace
        <5> QED
          BY <4>1, <4>4, <5>2, <5>4 DEF RepliesCounted
      <4> QED
        BY <4>1, <4>3, <4>4 DEF RepliesCounted
    <3> QED
      BY <3>1, <3>2 DEF Placement
  <2>11. CASE CompleteRun
    <3>a. cur \in RunIds /\ state[cur] # "absent"
      BY <2>11 DEF TypeOK, InHand, CompleteRun, At
    <3>1. OnePlace'
      <4>1. \A q \in Requests : hpc[q] # "done" => state[RunOf(KeyOf[q])] = "absent"
        BY DEF OnePlace
      <4>2. \A q \in Requests : hpc[q] # "done" => state'[RunOf(KeyOf[q])] = "absent"
        BY <2>11, <3>a, <4>1 DEF TypeOK, CompleteRun, SetState, Stop
      <4> QED
        BY <2>11, <3>a, <4>2 DEF OnePlace, Unplaced, CompleteRun, SetState, Stop
    <3>2. RepliesCounted'
      <4> SUFFICES ASSUME NEW m \in Messages, NEW r \in RunIds, m \in carries[r], MayReply(r)'
                   PROVE  MayReply(r)
        BY <2>11 DEF RepliesCounted, CompleteRun, SetState, Stop
      <4> QED
        BY <2>11, <3>a DEF TypeOK, MayReply, Dead, CompleteRun, SetState, Stop
    <3> QED
      BY <3>1, <3>2 DEF Placement
  <2>12. CASE CompleteRunSuppressed
    <3>a. cur \in RunIds /\ state[cur] # "absent"
      BY <2>12 DEF TypeOK, InHand, CompleteRunSuppressed, At
    <3>1. OnePlace'
      <4>1. \A q \in Requests : hpc[q] # "done" => state[RunOf(KeyOf[q])] = "absent"
        BY DEF OnePlace
      <4>2. \A q \in Requests : hpc[q] # "done" => state'[RunOf(KeyOf[q])] = "absent"
        BY <2>12, <3>a, <4>1 DEF TypeOK, CompleteRunSuppressed, SetState, At
      <4> QED
        BY <2>12, <3>a, <4>2 DEF OnePlace, Unplaced, CompleteRunSuppressed, SetState, At
    <3>2. RepliesCounted'
      <4> SUFFICES ASSUME NEW m \in Messages, NEW r \in RunIds, m \in carries[r], MayReply(r)'
                   PROVE  MayReply(r)
        BY <2>12 DEF RepliesCounted, CompleteRunSuppressed, SetState, At
      <4> QED
        BY <2>12, <3>a DEF TypeOK, MayReply, Dead, CompleteRunSuppressed, SetState, At
    <3> QED
      BY <3>1, <3>2 DEF Placement
  <2>13. CASE CreateRefinementRun
    <3>a. PICK n \in RunIds :
            /\ n[1] = cur[1] /\ n[2] = cur[2] + 1
            /\ state[n] = "absent" /\ state' = [state EXCEPT ![n] = "queued"]
            /\ carries' = [carries EXCEPT ![n] = carries[cur] \cup got]
      BY <2>13, RefinementIsNew
    <3>b. /\ cur \in RunIds /\ pc = "refining" /\ MayReply(cur)
          /\ cur' = NoRun /\ got' = {} /\ UNCHANGED <<outVars, dstate, hpc, crashes>>
      BY <2>13 DEF TypeOK, InHand, MayReply, Dead, CreateRefinementRun, Stop
    <3>c. ASSUME NEW m \in Messages, Unplaced(m), m \notin got
          PROVE  Unplaced(m)'
      BY <3>a, <3>b, <3>c DEF Unplaced, TypeOK
    <3>1. OnePlace'
      <4>1. ASSUME NEW p \in Requests, hpc'[p] # "done"
            PROVE  /\ Unplaced(KeyOf[p])' /\ dstate'[KeyOf[p]] = "none"
                   /\ state'[RunOf(KeyOf[p])] = "absent"
        <5>1. /\ Unplaced(KeyOf[p]) /\ dstate[KeyOf[p]] = "none" /\ KeyOf[p] \in Messages
              /\ state[RunOf(KeyOf[p])] = "absent"
          BY <3>b, <4>1 DEF OnePlace
        <5>2. KeyOf[p] \notin got
          BY <5>1 DEF Unwritten
        <5>3. RunOf(KeyOf[p]) # n
          BY <3>a, <3>b, <5>1
        <5> QED
          BY <3>a, <3>b, <3>c, <5>1, <5>2, <5>3 DEF TypeOK
      <4>2. \A m \in Messages : dstate'[m] = "deferred" => Unplaced(m)'
        BY <3>b, <3>c DEF OnePlace, Unwritten
      <4>3. \A m \in got' : Unplaced(m)'
        BY <3>b
      <4>4. ASSUME NEW m \in Messages, NEW r \in RunIds, m \in carries'[r]
            PROVE  \/ m \in carries[r]
                   \/ m \in carries[cur] /\ r = n
                   \/ m \in got /\ r = n
        BY <3>a, <4>4 DEF TypeOK
      <4>5. ASSUME NEW m \in Messages, NEW r \in RunIds, NEW s \in RunIds,
                   m \in carries'[r], m \in carries'[s]
            PROVE  r[1] = s[1]
        <5>1. CASE m \in got
          BY <4>4, <4>5, <5>1, <3>b DEF OnePlace, Unplaced
        <5>2. CASE m \notin got
          BY <3>a, <3>b, <4>4, <4>5, <5>2 DEF OnePlace
        <5> QED
          BY <5>1, <5>2
      <4> QED
        BY <4>1, <4>2, <4>3, <4>5 DEF OnePlace
    <3>2. RepliesCounted'
      <4> SUFFICES ASSUME NEW m \in Messages, NEW r \in RunIds, m \in carries'[r], MayReply(r)'
                   PROVE  replies[m] <= crashes
        BY <3>b DEF RepliesCounted
      <4>1. CASE r = n
        <5>1. m \in carries[cur] \/ m \in got
          BY <3>a, <4>1 DEF TypeOK
        <5>2. m \in got => replies[m] = 0
          BY DEF OnePlace, Unplaced
        <5> QED
          BY <3>b, <5>1, <5>2 DEF RepliesCounted, TypeOK
      <4>2. CASE r # n
        <5>1. m \in carries[r] /\ state'[r] = state[r]
          BY <3>a, <4>2 DEF TypeOK
        <5>2. MayReply(r)
          BY <3>b, <5>1 DEF MayReply, Dead
        <5> QED
          BY <5>1, <5>2 DEF RepliesCounted
      <4> QED
        BY <4>1, <4>2
    <3> QED
      BY <3>1, <3>2 DEF Placement
  <2>14. CASE FailRun
    <3>a. cur \in RunIds /\ state[cur] # "absent"
      BY <2>14 DEF TypeOK, InHand, FailRun, At
    <3>1. OnePlace'
      <4>1. \A q \in Requests : hpc[q] # "done" => state[RunOf(KeyOf[q])] = "absent"
        BY DEF OnePlace
      <4>2. \A q \in Requests : hpc[q] # "done" => state'[RunOf(KeyOf[q])] = "absent"
        BY <2>14, <3>a, <4>1 DEF TypeOK, FailRun, SetState, Happens, Stop
      <4> QED
        BY <2>14, <3>a, <4>2 DEF OnePlace, Unplaced, FailRun, SetState, Happens, Stop
    <3>2. RepliesCounted'
      <4> SUFFICES ASSUME NEW m \in Messages, NEW r \in RunIds, m \in carries[r], MayReply(r)'
                   PROVE  MayReply(r)
        BY <2>14 DEF RepliesCounted, FailRun, SetState, Happens, Stop
      <4> QED
        BY <2>14, <3>a DEF TypeOK, MayReply, Dead, FailRun, SetState, Happens, Stop
    <3> QED
      BY <3>1, <3>2 DEF Placement
  <2>15. CASE Crash
    <3>1. OnePlace'
      BY <2>15 DEF TypeOK, Unwritten, OnePlace, Unplaced, Crash, SetState, RowFree, Stop
    <3>2. RepliesCounted'
      BY <2>15 DEF TypeOK, OnePlace, Unplaced, RepliesCounted, MayReply, Dead, Crash, SetState, RowFree, Stop
    <3> QED
      BY <3>1, <3>2 DEF Placement
  <2>16. ASSUME NEW r \in RunIds, StartRun(r) PROVE Placement'
    <3>1. OnePlace'
      BY <2>16 DEF TypeOK, Unwritten, OnePlace, Unplaced, StartRun, At, SetState, RowFree
    <3>2. RepliesCounted'
      BY <2>16 DEF TypeOK, OnePlace, Unplaced, RepliesCounted, MayReply, Dead, StartRun, At, SetState, RowFree
    <3> QED
      BY <3>1, <3>2 DEF Placement
  <2>17. ASSUME NEW r \in RunIds, WindowPasses(r) PROVE Placement'
    <3>1. OnePlace'
      BY <2>17 DEF TypeOK, Unwritten, OnePlace, Unplaced, WindowPasses, Happens, RowFree
    <3>2. RepliesCounted'
      BY <2>17 DEF TypeOK, OnePlace, Unplaced, RepliesCounted, MayReply, Dead, WindowPasses, Happens, RowFree
    <3> QED
      BY <3>1, <3>2 DEF Placement
  <2>18. ASSUME NEW r \in RunIds, Cancel(r) PROVE Placement'
    <3>1. OnePlace'
      BY <2>18 DEF TypeOK, Unwritten, OnePlace, Unplaced, Cancel, SetState, RowFree, Happens
    <3>2. RepliesCounted'
      BY <2>18 DEF TypeOK, OnePlace, Unplaced, RepliesCounted, MayReply, Dead, Cancel, SetState, RowFree, Happens
    <3> QED
      BY <3>1, <3>2 DEF Placement
  <2>19. ASSUME NEW r \in RunIds, Resume(r) PROVE Placement'
    <3>1. OnePlace'
      BY <2>19 DEF TypeOK, Unwritten, OnePlace, Unplaced, Resume, SetState, RowFree
    <3>2. RepliesCounted'
      BY <2>19 DEF TypeOK, OnePlace, Unplaced, RepliesCounted, MayReply, Dead, Resume, SetState, RowFree
    <3> QED
      BY <3>1, <3>2 DEF Placement
  <2>20. CASE UNCHANGED vars
    BY <2>20 DEF vars, Placement, OnePlace, Unplaced, RepliesCounted, MayReply, Dead
  <2> QED
    BY <2>1, <2>2, <2>3, <2>4, <2>5, <2>6, <2>7, <2>8, <2>9, <2>10, <2>11, <2>12, <2>13, <2>14, <2>15, <2>16, <2>17, <2>18, <2>19, <2>20
       DEF Next, HandlerStep, PipelineStep
<1> QED
  BY <1>1, <1>2, ShapeKept, PTL DEF Spec

\* What a run carries was accepted.
Known == \A r \in RunIds : carries[r] \subseteq Received

\* A message has a second reply only after a crash, one per crash, whatever is
\* cancelled, fails, is denied or straddles a window.
THEOREM RepliesArePaid ==
  ASSUME \A p, q \in Requests : KeyOf[p] = KeyOf[q] => p = q
  PROVE  Spec => []RepliesPaid
<1>1. Placement => RepliesPaid
  BY DEF Placement, RepliesCounted, RepliesPaid
<1> QED
  BY <1>1, PlacementKept, PTL

\* The accepted messages and their replies behave as Conversation says until the
\* first crash: nothing the pipeline does with drafts, refinements and failures
\* shows as anything but accepting a message and replying to some of them once.
THEOREM ConversationKept ==
  ASSUME \A p, q \in Requests : KeyOf[p] = KeyOf[q] => p = q
  PROVE  Spec => SpeaksInTurn
<1> USE RefinementAssumption, Ids
<1>1. Init => Chat!Init /\ Known
  BY DEF Init, Chat!Init, Received, Known
<1>2. Shape /\ Placement /\ Known /\ [Next]_vars =>
        Known' /\ [Chat!Next \/ crashes' > 0]_(Chat!vars)
  <2> DEFINE Goal == Known' /\ [Chat!Next \/ crashes' > 0]_(Chat!vars)
  <2> SUFFICES ASSUME TypeOK, InHand, Chain, Unwritten, OnePlace, RepliesCounted, Known,
                      [Next]_vars
               PROVE  Goal
    BY DEF Shape, Placement
  <2>1. ASSUME NEW q \in Requests, CheckRun(q) PROVE Goal
    <3>1. UNCHANGED <<carries, replies>>
      BY <2>1 DEF CheckRun
    <3>2. Received' = Received
      BY <2>1 DEF TypeOK, InHand, Received, CheckRun, HandlerAt
    <3> QED
      BY <3>1, <3>2 DEF Known, Chat!vars
  <2>2. ASSUME NEW q \in Requests, CheckDeferred(q) PROVE Goal
    <3>1. UNCHANGED <<carries, replies>>
      BY <2>2 DEF CheckDeferred
    <3>2. Received' = Received
      BY <2>2 DEF TypeOK, InHand, Received, CheckDeferred, HandlerAt
    <3> QED
      BY <3>1, <3>2 DEF Known, Chat!vars
  <2>3. ASSUME NEW q \in Requests, DeferSelect(q) PROVE Goal
    <3>1. UNCHANGED <<carries, replies>>
      BY <2>3 DEF DeferSelect
    <3>2. Received' = Received
      BY <2>3 DEF TypeOK, InHand, Received, DeferSelect, HandlerAt, Interruptible
    <3> QED
      BY <3>1, <3>2 DEF Known, Chat!vars
  <2>4. ASSUME NEW q \in Requests, DeferCommit(q) PROVE Goal
    <3>1. /\ KeyOf[q] \in Messages /\ dstate[KeyOf[q]] = "none"
          /\ state[RunOf(KeyOf[q])] = "absent"
      BY <2>4 DEF OnePlace, DeferCommit, HandlerAt
    <3>2. dstate' = [dstate EXCEPT ![KeyOf[q]] = "deferred"] /\ UNCHANGED rowVars
      BY <2>4, <3>1 DEF DeferCommit
    <3>3. KeyOf[q] \notin Received /\ Received' = Received \cup {KeyOf[q]}
      BY <3>1, <3>2 DEF Received, TypeOK
    <3>4. Chat!Receive(KeyOf[q])
      BY <3>2, <3>3 DEF Chat!Receive
    <3> QED
      BY <3>1, <3>2, <3>3, <3>4 DEF Known, Chat!Next
  <2>5. ASSUME NEW q \in Requests, CreateRun(q) PROVE Goal
    <3>1. /\ KeyOf[q] \in Messages /\ dstate[KeyOf[q]] = "none"
          /\ RunOf(KeyOf[q]) \in RunIds /\ state[RunOf(KeyOf[q])] = "absent"
      BY <2>5 DEF OnePlace, CreateRun, HandlerAt
    <3>2. /\ state' = [state EXCEPT ![RunOf(KeyOf[q])] = "queued"]
          /\ carries' = [carries EXCEPT ![RunOf(KeyOf[q])] = {KeyOf[q]}]
          /\ UNCHANGED <<outVars, dstate>>
      BY <2>5, <3>1 DEF CreateRun
    <3>3. \A m \in Messages : RunOf(m) = RunOf(KeyOf[q]) => m = KeyOf[q]
      BY <3>1
    <3>4. KeyOf[q] \notin Received /\ Received' = Received \cup {KeyOf[q]}
      BY <3>1, <3>2, <3>3 DEF Received, TypeOK
    <3>5. Chat!Receive(KeyOf[q])
      BY <3>2, <3>4 DEF Chat!Receive
    <3>6. Known'
      BY <3>1, <3>2, <3>4 DEF Known, TypeOK
    <3> QED
      BY <3>1, <3>5, <3>6 DEF Chat!Next
  <2>6. CASE JudgeScope
    <3>1. UNCHANGED <<carries, replies>>
      BY <2>6 DEF JudgeScope
    <3>2. Received' = Received
      BY <2>6 DEF TypeOK, InHand, Received, JudgeScope, At, Happens
    <3> QED
      BY <3>1, <3>2 DEF Known, Chat!vars
  <2>7. CASE Work
    <3>1. UNCHANGED <<carries, replies>>
      BY <2>7 DEF Work
    <3>2. Received' = Received
      BY <2>7 DEF TypeOK, InHand, Received, Work, Stop
    <3> QED
      BY <3>1, <3>2 DEF Known, Chat!vars
  <2>8. CASE AskUser
    <3>1. UNCHANGED <<carries, replies>>
      BY <2>8 DEF AskUser
    <3>2. Received' = Received
      BY <2>8 DEF TypeOK, InHand, Received, AskUser, SetState, Happens, Stop
    <3> QED
      BY <3>1, <3>2 DEF Known, Chat!vars
  <2>9. CASE ClaimDeferred
    <3>1. UNCHANGED <<carries, replies>>
      BY <2>9 DEF ClaimDeferred
    <3>2. Received' = Received
      BY <2>9 DEF TypeOK, InHand, Received, ClaimDeferred
    <3> QED
      BY <3>1, <3>2 DEF Known, Chat!vars
  <2>10. CASE EmitReply
    <3>1. /\ cur \in RunIds /\ pc = "replying" /\ state[cur] # "absent"
          /\ UNCHANGED <<state, dstate, carries, crashes>>
          /\ replies' = [m \in Messages |-> IF m \in carries[cur] THEN replies[m] + 1 ELSE replies[m]]
      BY <2>10 DEF TypeOK, InHand, EmitReply, At
    <3>2. Received' = Received /\ Known'
      BY <3>1 DEF Received, Known
    <3>3. CASE carries[cur] = {}
      <4>1. replies' = replies
        BY <3>1, <3>3 DEF TypeOK
      <4> QED
        BY <3>2, <4>1 DEF Chat!vars
    <3>4. CASE crashes # 0
      BY <3>1, <3>2, <3>4 DEF TypeOK
    <3>5. CASE carries[cur] # {} /\ crashes = 0
      <4>1. MayReply(cur)
        BY <3>1 DEF MayReply, Dead
      <4>2. carries[cur] \subseteq Messages /\ carries[cur] \subseteq Received
        BY <3>1 DEF Known, TypeOK
      <4>3. \A m \in carries[cur] : replies[m] = 0
        BY <3>1, <3>5, <4>1, <4>2 DEF RepliesCounted, TypeOK
      <4>4. replies' = [m \in Messages |-> IF m \in carries[cur] THEN 1 ELSE replies[m]]
        BY <3>1, <4>3
      <4>5. Chat!Reply(carries[cur])
        BY <3>2, <3>5, <4>2, <4>3, <4>4 DEF Chat!Reply
      <4> QED
        BY <3>2, <4>2, <4>5 DEF Chat!Next
    <3> QED
      BY <3>3, <3>4, <3>5
  <2>11. CASE CompleteRun
    <3>1. UNCHANGED <<carries, replies>>
      BY <2>11 DEF CompleteRun
    <3>2. Received' = Received
      BY <2>11 DEF TypeOK, InHand, Received, CompleteRun, SetState, Stop
    <3> QED
      BY <3>1, <3>2 DEF Known, Chat!vars
  <2>12. CASE CompleteRunSuppressed
    <3>1. UNCHANGED <<carries, replies>>
      BY <2>12 DEF CompleteRunSuppressed
    <3>2. Received' = Received
      BY <2>12 DEF TypeOK, InHand, Received, CompleteRunSuppressed, SetState, At
    <3> QED
      BY <3>1, <3>2 DEF Known, Chat!vars
  <2>13. CASE CreateRefinementRun
    <3>1. PICK n \in RunIds :
            /\ n[1] = cur[1] /\ n[2] = cur[2] + 1
            /\ state[n] = "absent" /\ state' = [state EXCEPT ![n] = "queued"]
            /\ carries' = [carries EXCEPT ![n] = carries[cur] \cup got]
      BY <2>13, RefinementIsNew
    <3>2. cur \in RunIds /\ UNCHANGED <<outVars, dstate>>
      BY <2>13 DEF TypeOK, CreateRefinementRun
    <3>3. \A m \in Messages : RunOf(m) # n
      BY <3>1, <3>2
    <3>4. Received' = Received
      BY <3>1, <3>2, <3>3 DEF Received, TypeOK
    <3>5. got \subseteq Received
      BY DEF Unwritten, Received, TypeOK
    <3>6. Known'
      BY <3>1, <3>2, <3>4, <3>5 DEF Known, TypeOK
    <3> QED
      BY <3>2, <3>4, <3>6 DEF Chat!vars
  <2>14. CASE FailRun
    <3>1. UNCHANGED <<carries, replies>>
      BY <2>14 DEF FailRun
    <3>2. Received' = Received
      BY <2>14 DEF TypeOK, InHand, Received, FailRun, SetState, Happens, Stop
    <3> QED
      BY <3>1, <3>2 DEF Known, Chat!vars
  <2>15. CASE Crash
    <3>1. UNCHANGED <<carries, replies>>
      BY <2>15 DEF Crash
    <3>2. Received' = Received
      BY <2>15 DEF TypeOK, InHand, Received, Crash, SetState, Stop
    <3> QED
      BY <3>1, <3>2 DEF Known, Chat!vars
  <2>16. ASSUME NEW r \in RunIds, StartRun(r) PROVE Goal
    <3>1. UNCHANGED <<carries, replies>>
      BY <2>16 DEF StartRun
    <3>2. Received' = Received
      BY <2>16 DEF TypeOK, InHand, Received, StartRun, At, SetState
    <3> QED
      BY <3>1, <3>2 DEF Known, Chat!vars
  <2>17. ASSUME NEW r \in RunIds, WindowPasses(r) PROVE Goal
    <3>1. UNCHANGED <<carries, replies>>
      BY <2>17 DEF WindowPasses
    <3>2. Received' = Received
      BY <2>17 DEF TypeOK, InHand, Received, WindowPasses, Happens
    <3> QED
      BY <3>1, <3>2 DEF Known, Chat!vars
  <2>18. ASSUME NEW r \in RunIds, Cancel(r) PROVE Goal
    <3>1. UNCHANGED <<carries, replies>>
      BY <2>18 DEF Cancel
    <3>2. Received' = Received
      BY <2>18 DEF TypeOK, InHand, Received, Cancel, SetState, Happens
    <3> QED
      BY <3>1, <3>2 DEF Known, Chat!vars
  <2>19. ASSUME NEW r \in RunIds, Resume(r) PROVE Goal
    <3>1. UNCHANGED <<carries, replies>>
      BY <2>19 DEF Resume
    <3>2. Received' = Received
      BY <2>19 DEF TypeOK, InHand, Received, Resume, SetState
    <3> QED
      BY <3>1, <3>2 DEF Known, Chat!vars
  <2>20. CASE UNCHANGED vars
    BY <2>20 DEF vars, Known, Received, Chat!vars
  <2> QED
    BY <2>1, <2>2, <2>3, <2>4, <2>5, <2>6, <2>7, <2>8, <2>9, <2>10, <2>11, <2>12, <2>13, <2>14, <2>15, <2>16, <2>17, <2>18, <2>19, <2>20
       DEF Next, HandlerStep, PipelineStep
<1> QED
  BY <1>1, <1>2, ShapeKept, PlacementKept, PTL DEF Spec, SpeaksInTurn

\* Nothing that was accepted is dropped on the way through deferral, claim and
\* refinement, but for the events each part of NothingIsDropped names.
THEOREM NothingLost == Spec => []NothingIsDropped
<1> USE RefinementAssumption, Ids
<1>1. Init => Dropped
  BY DEF Init, Dropped, Listened, ClaimedIsCarried, DraftIsRefined
<1>2. Shape /\ Dropped /\ [Next]_vars => Dropped'
  <2> SUFFICES ASSUME TypeOK, InHand, Chain, Unwritten, Listened, ClaimedIsCarried, DraftIsRefined,
                      [Next]_vars
               PROVE  Dropped'
    BY DEF Shape, Dropped
  <2>1. ASSUME NEW q \in Requests, CheckRun(q) PROVE Dropped'
    <3>1. Listened'
      BY <2>1 DEF TypeOK, InHand, Unwritten, Listened, CheckRun, HandlerAt
    <3>2. ClaimedIsCarried'
      BY <2>1 DEF TypeOK, InHand, Unwritten, ClaimedIsCarried, CheckRun, HandlerAt
    <3>3. DraftIsRefined'
      BY <2>1 DEF TypeOK, InHand, Unwritten, DraftIsRefined, CheckRun, HandlerAt
    <3> QED
      BY <3>1, <3>2, <3>3 DEF Dropped
  <2>2. ASSUME NEW q \in Requests, CheckDeferred(q) PROVE Dropped'
    <3>1. Listened'
      BY <2>2 DEF TypeOK, InHand, Unwritten, Listened, CheckDeferred, HandlerAt
    <3>2. ClaimedIsCarried'
      BY <2>2 DEF TypeOK, InHand, Unwritten, ClaimedIsCarried, CheckDeferred, HandlerAt
    <3>3. DraftIsRefined'
      BY <2>2 DEF TypeOK, InHand, Unwritten, DraftIsRefined, CheckDeferred, HandlerAt
    <3> QED
      BY <3>1, <3>2, <3>3 DEF Dropped
  <2>3. ASSUME NEW q \in Requests, DeferSelect(q) PROVE Dropped'
    <3>1. Listened'
      BY <2>3 DEF TypeOK, InHand, Unwritten, Listened, DeferSelect, HandlerAt, Interruptible, RowFree
    <3>2. ClaimedIsCarried'
      BY <2>3 DEF TypeOK, InHand, Unwritten, ClaimedIsCarried, DeferSelect, HandlerAt, Interruptible, RowFree
    <3>3. DraftIsRefined'
      BY <2>3 DEF TypeOK, InHand, Unwritten, DraftIsRefined, DeferSelect, HandlerAt, Interruptible, RowFree
    <3> QED
      BY <3>1, <3>2, <3>3 DEF Dropped
  <2>4. ASSUME NEW q \in Requests, DeferCommit(q) PROVE Dropped'
    <3>1. Listened'
      BY <2>4 DEF TypeOK, InHand, Unwritten, Listened, DeferCommit, HandlerAt
    <3>2. ClaimedIsCarried'
      BY <2>4 DEF TypeOK, InHand, Unwritten, ClaimedIsCarried, DeferCommit, HandlerAt
    <3>3. DraftIsRefined'
      BY <2>4 DEF TypeOK, InHand, Unwritten, DraftIsRefined, DeferCommit, HandlerAt
    <3> QED
      BY <3>1, <3>2, <3>3 DEF Dropped
  <2>5. ASSUME NEW q \in Requests, CreateRun(q) PROVE Dropped'
    <3>1. Listened'
      BY SMTT(60), <2>5 DEF TypeOK, InHand, Unwritten, Listened, CreateRun, HandlerAt
    <3>2. ClaimedIsCarried'
      BY <2>5 DEF TypeOK, InHand, Unwritten, ClaimedIsCarried, CreateRun, HandlerAt
    <3>3. DraftIsRefined'
      <4> SUFFICES ASSUME crashes = 0, "fail" \notin seen, NEW r \in RunIds,
                          state'[r] = "completed", answers[r] = 0, cur # r
                   PROVE  \E s \in RunIds : /\ s[1] = r[1] /\ s[2] = r[2] + 1
                                            /\ carries'[r] \subseteq carries'[s]
        BY <2>5 DEF DraftIsRefined, CreateRun
      <4>1. /\ RunOf(KeyOf[q]) \in RunIds
            /\ \A s \in RunIds : \/ state'[s] = state[s] /\ carries'[s] = carries[s]
                                 \/ state[s] = "absent" /\ state'[s] = "queued"
        BY <2>5 DEF TypeOK, CreateRun
      <4>2. state[r] = "completed" /\ carries'[r] = carries[r]
        BY <4>1
      <4>3. PICK s \in RunIds : s[1] = r[1] /\ s[2] = r[2] + 1 /\ carries[r] \subseteq carries[s]
        BY <4>2 DEF DraftIsRefined
      <4>4. carries[s] \subseteq carries'[s]
        BY <4>1 DEF Unwritten
      <4> QED
        BY <4>2, <4>3, <4>4
    <3> QED
      BY <3>1, <3>2, <3>3 DEF Dropped
  <2>6. CASE JudgeScope
    <3>1. Listened'
      BY <2>6 DEF TypeOK, InHand, Unwritten, Listened, JudgeScope, At, Happens
    <3>2. ClaimedIsCarried'
      BY <2>6 DEF TypeOK, InHand, Unwritten, ClaimedIsCarried, JudgeScope, At, Happens
    <3>3. DraftIsRefined'
      BY <2>6 DEF TypeOK, InHand, Unwritten, DraftIsRefined, JudgeScope, At, Happens
    <3> QED
      BY <3>1, <3>2, <3>3 DEF Dropped
  <2>7. CASE Work
    <3>1. Listened'
      BY <2>7 DEF TypeOK, InHand, Unwritten, Listened, Work, Stop
    <3>2. ClaimedIsCarried'
      BY <2>7 DEF TypeOK, InHand, Unwritten, ClaimedIsCarried, Work, Stop
    <3>3. DraftIsRefined'
      BY <2>7 DEF TypeOK, InHand, Unwritten, DraftIsRefined, Work, Stop
    <3> QED
      BY <3>1, <3>2, <3>3 DEF Dropped
  <2>8. CASE AskUser
    <3>1. Listened'
      BY <2>8 DEF TypeOK, InHand, Unwritten, Listened, AskUser, SetState, RowFree, Happens, Stop
    <3>2. ClaimedIsCarried'
      BY <2>8 DEF TypeOK, InHand, Unwritten, ClaimedIsCarried, AskUser, SetState, RowFree, Happens, Stop
    <3>3. DraftIsRefined'
      BY <2>8 DEF TypeOK, InHand, Unwritten, DraftIsRefined, AskUser, SetState, RowFree, Happens, Stop
    <3> QED
      BY <3>1, <3>2, <3>3 DEF Dropped
  <2>9. CASE ClaimDeferred
    <3>1. Listened'
      BY <2>9 DEF TypeOK, InHand, Unwritten, Listened, ClaimDeferred
    <3>2. ClaimedIsCarried'
      BY <2>9 DEF TypeOK, InHand, Unwritten, ClaimedIsCarried, ClaimDeferred
    <3>3. DraftIsRefined'
      BY <2>9 DEF TypeOK, InHand, Unwritten, DraftIsRefined, ClaimDeferred
    <3> QED
      BY <3>1, <3>2, <3>3 DEF Dropped
  <2>10. CASE EmitReply
    <3>1. Listened'
      BY <2>10 DEF TypeOK, InHand, Unwritten, Listened, EmitReply, At
    <3>2. ClaimedIsCarried'
      BY <2>10 DEF TypeOK, InHand, Unwritten, ClaimedIsCarried, EmitReply, At
    <3>3. DraftIsRefined'
      BY <2>10 DEF TypeOK, InHand, Unwritten, DraftIsRefined, EmitReply, At
    <3> QED
      BY <3>1, <3>2, <3>3 DEF Dropped
  <2>11. CASE CompleteRun
    <3>1. Listened'
      BY <2>11 DEF TypeOK, InHand, Unwritten, Listened, CompleteRun, SetState, RowFree, Stop
    <3>2. ClaimedIsCarried'
      BY <2>11 DEF TypeOK, InHand, Unwritten, ClaimedIsCarried, CompleteRun, SetState, RowFree, Stop
    <3>3. DraftIsRefined'
      BY <2>11 DEF TypeOK, InHand, Unwritten, DraftIsRefined, CompleteRun, SetState, RowFree, Stop
    <3> QED
      BY <3>1, <3>2, <3>3 DEF Dropped
  <2>12. CASE CompleteRunSuppressed
    <3>1. Listened'
      BY <2>12 DEF TypeOK, InHand, Unwritten, Listened, CompleteRunSuppressed, SetState, RowFree, At
    <3>2. ClaimedIsCarried'
      BY <2>12 DEF TypeOK, InHand, Unwritten, ClaimedIsCarried, CompleteRunSuppressed, SetState, RowFree, At
    <3>3. DraftIsRefined'
      BY <2>12 DEF TypeOK, InHand, Unwritten, DraftIsRefined, CompleteRunSuppressed, SetState, RowFree, At
    <3> QED
      BY <3>1, <3>2, <3>3 DEF Dropped
  <2>13. CASE CreateRefinementRun
    <3>a. PICK n \in RunIds :
            /\ n[1] = cur[1] /\ n[2] = cur[2] + 1
            /\ state[n] = "absent" /\ state' = [state EXCEPT ![n] = "queued"]
            /\ carries' = [carries EXCEPT ![n] = carries[cur] \cup got]
      BY <2>13, RefinementIsNew
    <3>b. /\ cur \in RunIds /\ cur # n /\ carries[n] = {}
          /\ pc' = "idle" /\ cur' = NoRun /\ got' = {}
          /\ UNCHANGED <<window, outVars, dstate, target, hpc, hrun, crashes, seen>>
      BY <2>13, <3>a DEF TypeOK, Unwritten, CreateRefinementRun, Stop
    <3>c. \A s \in RunIds : s # n => state'[s] = state[s] /\ carries'[s] = carries[s]
      BY <3>a DEF TypeOK
    <3>d. state'[n] = "queued" /\ carries'[n] = carries[cur] \cup got
      BY <3>a DEF TypeOK
    <3>1. Listened'
      <4> SUFFICES ASSUME seen \subseteq {"ask"} PROVE Listened'
        BY <3>b DEF Listened
      <4>1. \A q \in Requests :
              hpc[q] = "tx" => /\ state'[hrun[q]] \in Active /\ window[hrun[q]] = "open"
                               /\ Depth(hrun[q]) < MaxDepth
        BY <3>a, <3>c DEF Listened, Unwritten
      <4>2. \A m \in Messages :
              dstate[m] = "deferred" => /\ target[m] \in RunIds
                                        /\ state'[target[m]] \notin Terminal
                                        /\ Depth(target[m]) < MaxDepth
        BY <3>c, <3>d DEF Listened, Unwritten
      <4> QED
        BY <3>b, <4>1, <4>2 DEF Listened
    <3>2. ClaimedIsCarried'
      <4> SUFFICES ASSUME crashes = 0, "fail" \notin seen,
                          NEW m \in Messages, dstate[m] = "claimed"
                   PROVE  \E r \in RunIds : Depth(r) > 0 /\ m \in carries'[r]
        BY <3>b DEF ClaimedIsCarried
      <4>1. CASE m \in got
        BY <3>a, <3>b, <3>d, <4>1
      <4>2. CASE m \notin got
        <5>1. PICK r \in RunIds : Depth(r) > 0 /\ m \in carries[r]
          BY <4>2 DEF ClaimedIsCarried
        <5> QED
          BY <3>b, <3>c, <5>1
      <4> QED
        BY <4>1, <4>2
    <3>3. DraftIsRefined'
      <4> SUFFICES ASSUME crashes = 0, "fail" \notin seen, NEW r \in RunIds,
                          state'[r] = "completed", answers[r] = 0
                   PROVE  \E s \in RunIds : /\ s[1] = r[1] /\ s[2] = r[2] + 1
                                            /\ carries'[r] \subseteq carries'[s]
        BY <3>b DEF DraftIsRefined
      <4>1. r # n /\ state[r] = "completed" /\ carries'[r] = carries[r]
        BY <3>c, <3>d
      <4>2. CASE r = cur
        BY <3>a, <3>d, <4>1, <4>2
      <4>3. CASE r # cur
        <5>1. PICK s \in RunIds : s[1] = r[1] /\ s[2] = r[2] + 1 /\ carries[r] \subseteq carries[s]
          BY <4>1, <4>3 DEF DraftIsRefined
        <5> QED
          BY <3>b, <3>c, <3>d, <4>1, <5>1
      <4> QED
        BY <4>2, <4>3
    <3> QED
      BY <3>1, <3>2, <3>3 DEF Dropped
  <2>14. CASE FailRun
    <3>1. Listened'
      BY <2>14 DEF TypeOK, InHand, Unwritten, Listened, FailRun, SetState, RowFree, Happens, Stop
    <3>2. ClaimedIsCarried'
      BY <2>14 DEF TypeOK, InHand, Unwritten, ClaimedIsCarried, FailRun, SetState, RowFree, Happens, Stop
    <3>3. DraftIsRefined'
      BY <2>14 DEF TypeOK, InHand, Unwritten, DraftIsRefined, FailRun, SetState, RowFree, Happens, Stop
    <3> QED
      BY <3>1, <3>2, <3>3 DEF Dropped
  <2>15. CASE Crash
    <3>1. Listened'
      BY <2>15 DEF TypeOK, InHand, Unwritten, Listened, Crash, SetState, RowFree, Stop
    <3>2. ClaimedIsCarried'
      BY <2>15 DEF TypeOK, InHand, Unwritten, ClaimedIsCarried, Crash, SetState, RowFree, Stop
    <3>3. DraftIsRefined'
      BY <2>15 DEF TypeOK, InHand, Unwritten, DraftIsRefined, Crash, SetState, RowFree, Stop
    <3> QED
      BY <3>1, <3>2, <3>3 DEF Dropped
  <2>16. ASSUME NEW r \in RunIds, StartRun(r) PROVE Dropped'
    <3>1. Listened'
      BY <2>16 DEF TypeOK, InHand, Unwritten, Listened, StartRun, At, SetState, RowFree
    <3>2. ClaimedIsCarried'
      BY <2>16 DEF TypeOK, InHand, Unwritten, ClaimedIsCarried, StartRun, At, SetState, RowFree
    <3>3. DraftIsRefined'
      BY <2>16 DEF TypeOK, InHand, Unwritten, DraftIsRefined, StartRun, At, SetState, RowFree
    <3> QED
      BY <3>1, <3>2, <3>3 DEF Dropped
  <2>17. ASSUME NEW r \in RunIds, WindowPasses(r) PROVE Dropped'
    <3>1. Listened'
      BY <2>17 DEF TypeOK, InHand, Unwritten, Listened, WindowPasses, Happens, RowFree
    <3>2. ClaimedIsCarried'
      BY <2>17 DEF TypeOK, InHand, Unwritten, ClaimedIsCarried, WindowPasses, Happens, RowFree
    <3>3. DraftIsRefined'
      BY <2>17 DEF TypeOK, InHand, Unwritten, DraftIsRefined, WindowPasses, Happens, RowFree
    <3> QED
      BY <3>1, <3>2, <3>3 DEF Dropped
  <2>18. ASSUME NEW r \in RunIds, Cancel(r) PROVE Dropped'
    <3>1. Listened'
      BY <2>18 DEF TypeOK, InHand, Unwritten, Listened, Cancel, SetState, RowFree, Happens
    <3>2. ClaimedIsCarried'
      BY <2>18 DEF TypeOK, InHand, Unwritten, ClaimedIsCarried, Cancel, SetState, RowFree, Happens
    <3>3. DraftIsRefined'
      BY <2>18 DEF TypeOK, InHand, Unwritten, DraftIsRefined, Cancel, SetState, RowFree, Happens
    <3> QED
      BY <3>1, <3>2, <3>3 DEF Dropped
  <2>19. ASSUME NEW r \in RunIds, Resume(r) PROVE Dropped'
    <3>1. Listened'
      BY <2>19 DEF TypeOK, InHand, Unwritten, Listened, Resume, SetState, RowFree
    <3>2. ClaimedIsCarried'
      BY <2>19 DEF TypeOK, InHand, Unwritten, ClaimedIsCarried, Resume, SetState, RowFree
    <3>3. DraftIsRefined'
      BY <2>19 DEF TypeOK, InHand, Unwritten, DraftIsRefined, Resume, SetState, RowFree
    <3> QED
      BY <3>1, <3>2, <3>3 DEF Dropped
  <2>20. CASE UNCHANGED vars
    BY <2>20 DEF vars, Dropped, Listened, ClaimedIsCarried, DraftIsRefined
  <2> QED
    BY <2>1, <2>2, <2>3, <2>4, <2>5, <2>6, <2>7, <2>8, <2>9, <2>10, <2>11, <2>12, <2>13, <2>14, <2>15, <2>16, <2>17, <2>18, <2>19, <2>20
       DEF Next, HandlerStep, PipelineStep
<1>3. Dropped => NothingIsDropped
  BY DEF Dropped, Listened, NothingIsDropped, DeferredHasListener
<1> QED
  BY <1>1, <1>2, <1>3, ShapeKept, PTL DEF Spec
=============================================================================
