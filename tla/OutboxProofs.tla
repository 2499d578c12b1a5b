---------------------------- MODULE OutboxProofs ----------------------------
(***************************************************************************)
(* Theorems about Outbox for every set of items and workers, every batch   *)
(* limit, every assignment of topics and every budget of faults.           *)
(***************************************************************************)
EXTENDS Outbox, TLAPS

USE DEF claimVars, workerVars, Phases, Faults, Rest

\* A group of a non-empty batch is a non-empty part of it.
LEMMA GroupsOf == ASSUME NEW S, NEW G \in Groups(S) PROVE G # {} /\ G \subseteq S
  BY DEF Groups

\* What the workers hold after one of them returned.
Kept(w) ==
  /\ pc' \in [Workers -> Phases]
  /\ batch' \in [Workers -> SUBSET Items]
  /\ call' \in [Workers -> SUBSET Items]
  /\ sure' \in [Workers -> SUBSET Items]
  /\ \A v \in Workers \ {w} : /\ pc'[v] = pc[v] /\ batch'[v] = batch[v]
                             /\ call'[v] = call[v] /\ sure'[v] = sure[v]

\* A worker whose RunOnce returns has nothing in hand.
LEMMA Returned ==
  ASSUME TypeOK, NEW w \in Workers, Return(w)
  PROVE  /\ Kept(w)
         /\ pc'[w] = "idle" /\ call'[w] = {} /\ sure'[w] = {} /\ batch'[w] = {}
  BY DEF TypeOK, Return, Kept

\* Writing the row of i takes it out of the call, and out of what is sure.
LEMMA WrittenOne ==
  ASSUME TypeOK, NEW w \in Workers, pc[w] \notin {"idle", "between"},
         NEW i \in call[w], NEW onward, Written(w, i, onward)
  PROVE  /\ Kept(w)
         /\ batch'[w] \subseteq batch[w]
         /\ \/ pc'[w] = "idle" /\ batch'[w] = {} /\ call'[w] = {} /\ sure'[w] = {}
            \/ pc'[w] = "between" /\ call'[w] = {} /\ sure'[w] = {}
            \/ /\ pc'[w] = pc[w] /\ call'[w] # {}
               /\ call'[w] = call[w] \ {i} /\ sure'[w] = sure[w] \ {i}
<1>1. CASE call[w] = {i} /\ onward /\ batch[w] # {}
  BY <1>1 DEF TypeOK, Written, Kept
<1>2. CASE call[w] = {i} /\ ~(onward /\ batch[w] # {})
  <2>1. Return(w)
    BY <1>2 DEF Written
  <2> QED
    BY <2>1, Returned
<1>3. CASE call[w] # {i}
  <2>1. call[w] \ {i} # {}
    BY <1>3
  <2> QED
    BY <1>3, <2>1 DEF TypeOK, Written, Kept
<1> QED
  BY <1>1, <1>2, <1>3

\* A worker that writes a row or returns only lets go.
Shrinks ==
  \A v \in Workers :
    /\ batch'[v] \subseteq batch[v] /\ call'[v] \subseteq call[v]
    /\ sure'[v] \subseteq sure[v]
    /\ sure[v] \subseteq call[v] => sure'[v] \subseteq call'[v]
    /\ pc'[v] = "completing" => pc[v] = "completing"

\* A step that only takes items out of calls keeps what is known of the others.
LEMMA LettingGo ==
  ASSUME TypeOK, NEW w \in Workers, pc[w] \notin {"idle", "between"},
         NEW i \in call[w],
         Return(w) \/ \E onward \in BOOLEAN : Written(w, i, onward)
  PROVE  Shrinks
<1>1. Kept(w) => \A v \in Workers \ {w} :
        /\ pc'[v] = pc[v] /\ batch'[v] = batch[v]
        /\ call'[v] = call[v] /\ sure'[v] = sure[v]
  BY DEF Kept
<1>2. CASE Return(w)
  BY <1>1, <1>2, Returned DEF Shrinks
<1>3. ASSUME NEW onward \in BOOLEAN, Written(w, i, onward) PROVE Shrinks
  <2>1. /\ Kept(w) /\ batch'[w] \subseteq batch[w]
        /\ \/ pc'[w] \in {"idle", "between"} /\ call'[w] = {} /\ sure'[w] = {}
           \/ /\ pc'[w] = pc[w]
              /\ call'[w] = call[w] \ {i} /\ sure'[w] = sure[w] \ {i}
    BY <1>3, WrittenOne
  <2> QED
    BY <1>1, <2>1 DEF Shrinks
<1> QED
  BY <1>2, <1>3

\* Every step keeps rows, claims and workers well-typed.
THEOREM TypeCorrect == Spec => []TypeOK
<1> USE OutboxAssumption DEF TypeOK
<1>1. Init => TypeOK
  BY DEF Init
<1>2. TypeOK /\ [Next]_vars => TypeOK'
  <2> SUFFICES ASSUME TypeOK, [Next]_vars PROVE TypeOK'
    OBVIOUS
  <2>1. ASSUME NEW w \in Workers, ClaimOutbox(w) PROVE TypeOK'
    <3>1. PICK S \in SUBSET Items :
            /\ owner' = [i \in Items |-> IF i \in S THEN OwnerOf[w] ELSE owner[i]]
            /\ lease' = [i \in Items |-> IF i \in S THEN "fresh" ELSE lease[i]]
            /\ BeginCall(w, S)
      BY <2>1 DEF ClaimOutbox
    <3>2. PICK G \in Groups(S) :
            /\ pc' = [pc EXCEPT ![w] = "calling"]
            /\ call' = [call EXCEPT ![w] = G]
            /\ batch' = [batch EXCEPT ![w] = S \ G]
            /\ sure' = [sure EXCEPT ![w] = {i \in G : owner'[i] = OwnerOf[w] /\ lease'[i] = "fresh"}]
      BY <3>1 DEF BeginCall
    <3>3. G # {} /\ G \subseteq Items
      BY <3>1, GroupsOf
    <3>4. UNCHANGED <<row, due, sent, spent>>
      BY <2>1 DEF ClaimOutbox
    <3> QED
      BY <3>1, <3>2, <3>3, <3>4
  <2>2. ASSUME NEW w \in Workers, NextCall(w) PROVE TypeOK'
    BY <2>2, GroupsOf DEF NextCall, BeginCall
  <2>3. ASSUME NEW w \in Workers, SinkAccepts(w) PROVE TypeOK'
    BY <2>3 DEF SinkAccepts
  <2>4. ASSUME NEW w \in Workers, SinkFails(w) PROVE TypeOK'
    BY <2>4 DEF SinkFails, Spend
  <2>5. ASSUME NEW w \in Workers, CompleteOutbox(w) PROVE TypeOK'
    <3>1. PICK i \in call[w] :
            IF Owns(w, i)
            THEN row' = [row EXCEPT ![i] = "done"] /\ Written(w, i, TRUE)
            ELSE Return(w) /\ UNCHANGED row
      BY <2>5 DEF CompleteOutbox
    <3>2. pc[w] = "completing" /\ UNCHANGED <<claimVars, sent, spent>>
      BY <2>5 DEF CompleteOutbox
    <3>3. row' \in [Items -> {"absent", "pending", "done"}]
      BY <3>1
    <3>4. CASE Owns(w, i)
      BY ZenonT(60), <3>1, <3>2, <3>3, <3>4, WrittenOne DEF Kept
    <3>5. CASE ~Owns(w, i)
      BY <3>1, <3>2, <3>3, <3>5, Returned DEF Kept
    <3> QED
      BY <3>4, <3>5
  <2>6. ASSUME NEW w \in Workers, ReleaseOutbox(w) PROVE TypeOK'
    <3>1. PICK i \in call[w] : Written(w, i, FALSE)
      BY <2>6 DEF ReleaseOutbox
    <3>2. /\ due' \subseteq Items
          /\ owner' \in [Items -> Owners \cup {None}]
          /\ lease' \in [Items -> {"null", "fresh", "ending", "expired"}]
      BY <2>6 DEF ReleaseOutbox
    <3>3. pc[w] = "releasing" /\ UNCHANGED <<row, sent, spent>>
      BY <2>6 DEF ReleaseOutbox
    <3> QED
      BY ZenonT(60), <3>1, <3>2, <3>3, WrittenOne DEF Kept
  <2>7. ASSUME NEW w \in Workers, ExtendOutboxClaim(w) PROVE TypeOK'
    BY <2>7 DEF ExtendOutboxClaim
  <2>8. ASSUME NEW w \in Workers, Crash(w) PROVE TypeOK'
    BY <2>8 DEF Crash, Return, Spend
  <2>9. ASSUME NEW i \in Items, CreateOutboundIntent(i) \/ RetryDelayPasses(i)
        PROVE  TypeOK'
    BY <2>9 DEF CreateOutboundIntent, RetryDelayPasses
  <2>10. ASSUME NEW i \in Items, ClaimEnds(i) \/ ClaimExpires(i) \/ HeartbeatStalls(i)
         PROVE  TypeOK'
    <3>1. spent' \in [Faults -> Nat]
      BY <2>10 DEF ClaimEnds, ClaimExpires, HeartbeatStalls, Spend
    <3>2. lease' \in [Items -> {"null", "fresh", "ending", "expired"}]
      BY <2>10 DEF ClaimEnds, ClaimExpires, HeartbeatStalls, Age
    <3>3. UNCHANGED <<row, due, owner, workerVars, sent>>
      BY <2>10 DEF ClaimEnds, ClaimExpires, HeartbeatStalls, Age
    <3> QED
      BY <3>1, <3>2, <3>3
  <2>11. CASE UNCHANGED vars
    BY <2>11 DEF vars
  <2> QED
    BY <2>1, <2>2, <2>3, <2>4, <2>5, <2>6, <2>7, <2>8, <2>9, <2>10, <2>11
       DEF Next, WorkerStep
<1> QED
  BY <1>1, <1>2, PTL DEF Spec

-----------------------------------------------------------------------------
\* Workers handle only rows that exist, and complete only what was sent.
HandledInv ==
  /\ CompletionInv
  /\ \A w \in Workers : \A i \in batch[w] \cup call[w] : row[i] # "absent"

\* No claim, lapse, crash or refusal makes a worker complete an unsent row.
LEMMA Handled == Spec => []HandledInv
<1> USE OutboxAssumption DEF TypeOK, HandledInv, CompletionInv
<1>1. Init => HandledInv
  BY DEF Init
<1>2. TypeOK /\ HandledInv /\ [Next]_vars => HandledInv'
  <2> SUFFICES ASSUME TypeOK, HandledInv, [Next]_vars PROVE HandledInv'
    OBVIOUS
  <2>1. ASSUME NEW w \in Workers, ClaimOutbox(w) PROVE HandledInv'
    BY <2>1, GroupsOf DEF ClaimOutbox, BeginCall, Claimable
  <2>2. ASSUME NEW w \in Workers, NextCall(w) PROVE HandledInv'
    BY <2>2, GroupsOf DEF NextCall, BeginCall
  <2>3. ASSUME NEW w \in Workers, SinkAccepts(w) PROVE HandledInv'
    BY <2>3 DEF SinkAccepts
  <2>4. ASSUME NEW w \in Workers, SinkFails(w) PROVE HandledInv'
    BY <2>4 DEF SinkFails
  <2>5. ASSUME NEW w \in Workers, CompleteOutbox(w) PROVE HandledInv'
    <3>1. PICK i \in call[w] :
            IF Owns(w, i)
            THEN row' = [row EXCEPT ![i] = "done"] /\ Written(w, i, TRUE)
            ELSE Return(w) /\ UNCHANGED row
      BY <2>5 DEF CompleteOutbox
    <3>2. pc[w] = "completing" /\ UNCHANGED sent /\ i \in Items /\ sent[i] > 0
      BY <2>5 DEF CompleteOutbox
    <3>3. Shrinks
      BY <3>1, <3>2, LettingGo
    <3>4. /\ row' \in [Items -> {"absent", "pending", "done"}]
          /\ \A j \in Items : row'[j] = row[j] \/ (j = i /\ row'[j] = "done")
      BY <3>1
    <3> QED
      BY ZenonT(60), <3>2, <3>3, <3>4 DEF Shrinks
  <2>6. ASSUME NEW w \in Workers, ReleaseOutbox(w) PROVE HandledInv'
    <3>1. PICK i \in call[w] : Written(w, i, FALSE)
      BY <2>6 DEF ReleaseOutbox
    <3>2. pc[w] = "releasing" /\ UNCHANGED <<row, sent>>
      BY <2>6 DEF ReleaseOutbox
    <3>3. Shrinks
      BY <3>1, <3>2, LettingGo
    <3> QED
      BY <3>2, <3>3 DEF Shrinks
  <2>7. ASSUME NEW w \in Workers, ExtendOutboxClaim(w) PROVE HandledInv'
    BY <2>7 DEF ExtendOutboxClaim
  <2>8. ASSUME NEW w \in Workers, Crash(w) PROVE HandledInv'
    BY <2>8 DEF Crash, Return
  <2>9. ASSUME NEW i \in Items, CreateOutboundIntent(i) \/ RetryDelayPasses(i)
        PROVE  HandledInv'
    BY <2>9 DEF CreateOutboundIntent, RetryDelayPasses
  <2>10. ASSUME NEW i \in Items, ClaimEnds(i) \/ ClaimExpires(i) \/ HeartbeatStalls(i)
         PROVE  HandledInv'
    BY <2>10 DEF ClaimEnds, ClaimExpires, HeartbeatStalls, Age
  <2>11. CASE UNCHANGED vars
    BY <2>11 DEF vars
  <2> QED
    BY <2>1, <2>2, <2>3, <2>4, <2>5, <2>6, <2>7, <2>8, <2>9, <2>10, <2>11
       DEF Next, WorkerStep
<1> QED
  BY <1>1, <1>2, TypeCorrect, PTL DEF Spec

\* Whatever fails, a row is completed only after the sink has taken the item,
\* and once completed stays so: every step of the outbox is one of Delivery.
THEOREM AtLeastOnceSafety == Spec => NoLossStep
<1> USE OutboxAssumption
<1>1. Init => Promise!Init
  BY DEF Init, Promise!Init
<1>2. TypeOK /\ HandledInv /\ [Next]_vars => [Promise!Next]_(Promise!vars)
  <2> SUFFICES ASSUME TypeOK, HandledInv, [Next]_vars
               PROVE  Promise!Next \/ UNCHANGED Promise!vars
    OBVIOUS
  <2> USE DEF TypeOK, HandledInv, CompletionInv, Promise!vars
  <2>1. ASSUME NEW w \in Workers, ClaimOutbox(w) \/ NextCall(w) \/ ExtendOutboxClaim(w)
                                  \/ ReleaseOutbox(w) \/ Crash(w)
        PROVE  UNCHANGED Promise!vars
    BY <2>1 DEF ClaimOutbox, NextCall, ExtendOutboxClaim, ReleaseOutbox, Crash
  <2>2. ASSUME NEW w \in Workers, SinkAccepts(w) PROVE Promise!Next
    <3>1. Promise!Deliver(call[w])
      BY <2>2 DEF SinkAccepts, Promise!Deliver
    <3> QED
      BY <3>1 DEF Promise!Next
  <2>3. ASSUME NEW w \in Workers, SinkFails(w)
        PROVE  Promise!Next \/ UNCHANGED Promise!vars
    <3>1. PICK D \in SUBSET call[w] :
            sent' = [i \in Items |-> IF i \in D THEN sent[i] + 1 ELSE sent[i]]
      BY <2>3 DEF SinkFails
    <3>2. CASE D = {}
      BY <2>3, <3>1, <3>2 DEF SinkFails
    <3>3. CASE D # {}
      <4>1. Promise!Deliver(D)
        BY <2>3, <3>1, <3>3 DEF SinkFails, Promise!Deliver
      <4> QED
        BY <4>1 DEF Promise!Next
    <3> QED
      BY <3>2, <3>3
  <2>4. ASSUME NEW w \in Workers, CompleteOutbox(w)
        PROVE  Promise!Next \/ UNCHANGED Promise!vars
    <3>1. PICK i \in call[w] : row' = [row EXCEPT ![i] = "done"] \/ UNCHANGED row
      BY <2>4 DEF CompleteOutbox
    <3>2. UNCHANGED sent /\ i \in Items /\ row[i] # "absent" /\ sent[i] > 0
      BY <2>4 DEF CompleteOutbox
    <3>3. CASE row[i] = "pending" /\ ~UNCHANGED row
      <4>1. Promise!StrikeOff(i)
        BY <3>1, <3>2, <3>3 DEF Promise!StrikeOff
      <4> QED
        BY <3>2, <4>1 DEF Promise!Next
    <3>4. CASE row[i] = "done"
      <4>1. [row EXCEPT ![i] = "done"] = row
        BY <3>4
      <4> QED
        BY <3>1, <3>2, <4>1
    <3>5. CASE UNCHANGED row
      BY <3>2, <3>5
    <3> QED
      BY <3>2, <3>3, <3>4, <3>5
  <2>5. ASSUME NEW i \in Items, CreateOutboundIntent(i) PROVE Promise!Next
    <3>1. Promise!Put(i)
      BY <2>5 DEF CreateOutboundIntent, Promise!Put
    <3> QED
      BY <3>1 DEF Promise!Next
  <2>6. ASSUME NEW i \in Items, RetryDelayPasses(i) \/ ClaimEnds(i) \/ ClaimExpires(i)
                                \/ HeartbeatStalls(i)
        PROVE  UNCHANGED Promise!vars
    BY <2>6 DEF RetryDelayPasses, ClaimEnds, ClaimExpires, HeartbeatStalls, Age
  <2>7. CASE UNCHANGED vars
    BY <2>7 DEF vars
  <2> QED
    BY <2>1, <2>2, <2>3, <2>4, <2>5, <2>6, <2>7 DEF Next, WorkerStep
<1> QED
  BY <1>1, <1>2, TypeCorrect, Handled, PTL DEF Spec, NoLossStep, Promise!SafeSpec

-----------------------------------------------------------------------------
\* What the workers are sure of is theirs.
SureInv ==
  \A w \in Workers :
    sure[w] \subseteq call[w] /\ \A i \in sure[w] : Owns(w, i) /\ lease[i] = "fresh"

ClaimInv == spent["stall"] = 0 => SureInv

\* Stalls are not forgotten.
LEMMA StallsStay ==
  ASSUME TypeOK, [Next]_vars, spent'["stall"] = 0
  PROVE  spent["stall"] = 0
<1> USE OutboxAssumption DEF TypeOK
<1>1. ASSUME NEW f \in Faults, Spend(f) PROVE spent["stall"] = 0
  BY <1>1 DEF Spend
<1>2. (\E f \in Faults : Spend(f)) \/ UNCHANGED spent
  BY DEF Next, WorkerStep, ClaimOutbox, NextCall, SinkAccepts, SinkFails, CompleteOutbox,
         ReleaseOutbox, ExtendOutboxClaim, Crash, CreateOutboundIntent, RetryDelayPasses,
         ClaimEnds, ClaimExpires, HeartbeatStalls, vars
<1> QED
  BY <1>1, <1>2

\* Until a heartbeat stalls, workers with distinct owner strings never lose a
\* claim during a call they began with it.
THEOREM ClaimsSurvive ==
  ASSUME \A v, w \in Workers : OwnerOf[v] = OwnerOf[w] => v = w
  PROVE  Spec => []ClaimSurvivesCall
<1> USE DEF SureInv
<1>1. Init => ClaimInv
  BY DEF Init, ClaimInv
<1>2. TypeOK /\ ClaimInv /\ [Next]_vars => ClaimInv'
  <2> SUFFICES ASSUME TypeOK, SureInv, [Next]_vars, spent'["stall"] = 0 PROVE SureInv'
    BY StallsStay DEF ClaimInv
  <2>1. ASSUME NEW w \in Workers, ClaimOutbox(w) PROVE SureInv'
    BY <2>1, GroupsOf DEF ClaimOutbox, BeginCall, Claimable, TypeOK, Owns
  <2>2. ASSUME NEW w \in Workers, NextCall(w) PROVE SureInv'
    BY <2>2, GroupsOf DEF NextCall, BeginCall, TypeOK, Owns
  <2>3. ASSUME NEW w \in Workers, SinkAccepts(w) \/ SinkFails(w) PROVE SureInv'
    <3>1. UNCHANGED <<claimVars, call, sure>>
      BY <2>3 DEF SinkAccepts, SinkFails
    <3> QED
      BY <3>1 DEF Owns
  <2>4. ASSUME NEW w \in Workers, CompleteOutbox(w) PROVE SureInv'
    <3>1. PICK i \in call[w] : Written(w, i, TRUE) \/ Return(w)
      BY <2>4 DEF CompleteOutbox
    <3>2. pc[w] = "completing" /\ UNCHANGED claimVars
      BY <2>4 DEF CompleteOutbox
    <3>3. Shrinks
      BY <3>1, <3>2, LettingGo
    <3> QED
      BY <3>2, <3>3 DEF Shrinks, Owns
  <2>5. ASSUME NEW w \in Workers, ReleaseOutbox(w) PROVE SureInv'
    <3>1. PICK i \in call[w] :
            /\ \/ /\ Owns(w, i)
                  /\ owner' = [owner EXCEPT ![i] = None]
                  /\ lease' = [lease EXCEPT ![i] = "null"]
               \/ UNCHANGED <<owner, lease>>
            /\ Written(w, i, FALSE)
      BY <2>5 DEF ReleaseOutbox
    <3>2. /\ Kept(w) /\ i \notin sure'[w]
          /\ sure'[w] \subseteq sure[w] /\ sure'[w] \subseteq call'[w]
      BY ZenonT(60), <2>5, <3>1, WrittenOne DEF ReleaseOutbox
    <3>3. ASSUME NEW v \in Workers PROVE sure'[v] \subseteq sure[v]
      BY <3>2 DEF Kept
    <3>4. ASSUME NEW v \in Workers, i \in sure'[v], Owns(w, i) PROVE FALSE
      BY <3>2, <3>3, <3>4 DEF Owns
    <3>5. ASSUME NEW v \in Workers, NEW j \in sure'[v]
          PROVE  Owns(v, j)' /\ lease'[j] = "fresh"
      BY <3>1, <3>3, <3>4, <3>5 DEF Owns, TypeOK
    <3> QED
      BY <3>2, <3>5 DEF Kept
  <2>6. ASSUME NEW w \in Workers, ExtendOutboxClaim(w) PROVE SureInv'
    BY <2>6 DEF ExtendOutboxClaim, TypeOK, Owns
  <2>7. ASSUME NEW w \in Workers, Crash(w) PROVE SureInv'
    BY <2>7, Returned DEF Crash, Kept, Owns
  <2>8. ASSUME NEW i \in Items, CreateOutboundIntent(i) \/ RetryDelayPasses(i)
        PROVE  SureInv'
    <3>1. UNCHANGED <<owner, lease, call, sure>>
      BY <2>8 DEF CreateOutboundIntent, RetryDelayPasses
    <3> QED
      BY <3>1 DEF Owns
  <2>9. ASSUME NEW i \in Items, ClaimEnds(i) \/ ClaimExpires(i) PROVE SureInv'
    <3>1. UNCHANGED <<owner, call, sure>>
      BY <2>9 DEF ClaimEnds, ClaimExpires, Age
    <3>2. \A w \in Workers : i \notin sure[w]
      BY <2>9 DEF ClaimEnds, ClaimExpires, Age, Attended
    <3>3. \A j \in Items \ {i} : lease'[j] = lease[j]
      BY <2>9 DEF ClaimEnds, ClaimExpires, Age, TypeOK
    <3> QED
      BY <3>1, <3>2, <3>3 DEF Owns, TypeOK
  <2>10. ASSUME NEW i \in Items, HeartbeatStalls(i) PROVE FALSE
    BY <2>10, OutboxAssumption DEF HeartbeatStalls, Spend, TypeOK
  <2>11. CASE UNCHANGED vars
    BY <2>11 DEF vars, Owns
  <2> QED
    BY <2>1, <2>2, <2>3, <2>4, <2>5, <2>6, <2>7, <2>8, <2>9, <2>10, <2>11
       DEF Next, WorkerStep
<1>3. ClaimInv => ClaimSurvivesCall
  BY DEF ClaimInv, ClaimSurvivesCall
<1> QED
  BY <1>1, <1>2, <1>3, TypeCorrect, PTL DEF Spec
=============================================================================
