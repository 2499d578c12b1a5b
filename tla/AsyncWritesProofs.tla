-------------------------- MODULE AsyncWritesProofs --------------------------
(***************************************************************************)
(* Theorems about AsyncWrites for every set of jobs and writers, every     *)
(* buffer, claim limit and attempt limit, and every budget of faults.      *)
(***************************************************************************)
EXTENDS AsyncWrites, TLAPS, FiniteSetTheorems

USE DEF jobVars, writerVars, Phases, Faults, Settled

\* What a writer's RunOnce has in hand.
Held(w) == batch[w] \cup ({hand[w]} \cap Jobs)

\* The channels are finite, and no job is in two of them.
Channels ==
  /\ \A w \in Writers : IsFiniteSet(memory[w])
  /\ \A v, w \in Writers : v # w => memory[v] \cap memory[w] = {}

\* What a RunOnce holds in each of its phases.
Phased ==
  \A w \in Writers :
    /\ pc[w] \in {"draining", "claiming"} => batch[w] = {} /\ hand[w] = None
    /\ pc[w] = "applying" => hand[w] = None
    /\ pc[w] \in {"completing", "releasing"} => hand[w] \in Jobs \ batch[w]

\* A job in hand is leased, and in one writer's hand only: although no lease is
\* ever compared, the claim of queued rows alone keeps the writers apart.
Apart ==
  /\ \A w \in Writers : \A j \in Held(w) : state[j] = "leased"
  /\ \A v, w \in Writers : v # w => Held(v) \cap Held(w) = {}

Custody == TypeOK /\ Channels /\ Phased /\ Apart

\* A job counts its failures, and the attempt it is in.
Counted ==
  \A j \in Jobs :
    /\ attempts[j] \in {failures[j], failures[j] + 1}
    /\ applied[j] <= failures[j] + 1
    /\ state[j] \in {"new", "buffered", "lost", "dropped"} =>
         attempts[j] = 0 /\ applied[j] = 0 /\ failures[j] = 0
    /\ state[j] = "queued" =>
         /\ attempts[j] = failures[j] /\ attempts[j] < MaxAttempts
         /\ applied[j] <= failures[j]
    /\ attempts[j] <= MaxAttempts
    /\ state[j] = "failed" => failures[j] = MaxAttempts
    /\ state[j] \in {"completed", "degraded"} => applied[j] > 0

\* What is known of the jobs a writer holds, from the phase it is in.
InHand ==
  \A w \in Writers :
    /\ \A j \in batch[w] : attempts[j] = failures[j] + 1 /\ applied[j] <= failures[j]
    /\ pc[w] = "completing" => applied[hand[w]] > 0
    /\ pc[w] = "releasing" => /\ attempts[hand[w]] = failures[hand[w]]
                              /\ applied[hand[w]] <= failures[hand[w]]

Accounts == Counted /\ InHand

\* What is lost is finite and was paid for.
Losses == IsFiniteSet(Lost) /\ LossBounded

-----------------------------------------------------------------------------
\* A channel that takes a job in, or lets one go, stays finite.
LEMMA OneMore ==
  ASSUME NEW S, IsFiniteSet(S), NEW x
  PROVE  /\ IsFiniteSet(S \cup {x})
         /\ Cardinality(S) \in Nat /\ Cardinality(S \cup {x}) \in Nat
         /\ Cardinality(S \cup {x}) <= Cardinality(S) + 1
<1>1. Cardinality(S) \in Nat
  BY FS_CardinalityType
<1>2. /\ IsFiniteSet(S \cup {x})
      /\ Cardinality(S \cup {x}) = IF x \in S THEN Cardinality(S) ELSE Cardinality(S) + 1
  BY FS_AddElement
<1> QED
  BY <1>1, <1>2

LEMMA OneLess ==
  ASSUME NEW S, IsFiniteSet(S), NEW x
  PROVE  /\ IsFiniteSet(S \ {x})
         /\ Cardinality(S) \in Nat /\ Cardinality(S \ {x}) \in Nat
         /\ Cardinality(S \ {x}) <= Cardinality(S)
<1>1. Cardinality(S) \in Nat
  BY FS_CardinalityType
<1>2. IsFiniteSet(S \ {x}) /\ Cardinality(S \ {x}) <= Cardinality(S)
  BY FS_Subset
<1>3. Cardinality(S \ {x}) \in Nat
  BY <1>2, FS_CardinalityType
<1> QED
  BY <1>1, <1>2, <1>3

\* The insert of a job leaves it queued, dropped or lost.
LEMMA Inserted ==
  ASSUME TypeOK, NEW j \in Jobs, EnqueueAsyncWrite(j)
  PROVE  /\ \E s \in {"queued", "dropped", "lost"} : state' = [state EXCEPT ![j] = s]
         /\ spent' \in [Faults -> Nat]
  BY AsyncWritesAssumption
     DEF TypeOK, EnqueueAsyncWrite, InsertedAs, SetState, Spend

\* Types, channels, phases and hands are kept by every step.
THEOREM CustodyKept == Spec => []Custody
<1> USE AsyncWritesAssumption
<1>1. Init => Custody
  BY FS_EmptySet DEF Init, Custody, TypeOK, Channels, Phased, Apart, Held
<1>2. Custody /\ [Next]_vars => Custody'
  <2> SUFFICES ASSUME Custody, [Next]_vars PROVE Custody'
    OBVIOUS
  <2> USE DEF Custody
  <2>1. ASSUME NEW w \in Writers, Drain(w) PROVE Custody'
    <3> PICK j \in memory[w] : /\ EnqueueAsyncWrite(j)
                               /\ memory' = [memory EXCEPT ![w] = @ \ {j}]
      BY <2>1 DEF Drain
    <3>a. j \in Jobs /\ state[j] = "buffered"
      BY DEF TypeOK
    <3>b. IsFiniteSet(memory[w] \ {j}) /\ Cardinality(memory[w] \ {j}) <= Buffer
      <4>1. IsFiniteSet(memory[w]) /\ Cardinality(memory[w]) <= Buffer
        BY DEF TypeOK, Channels
      <4>2. /\ IsFiniteSet(memory[w] \ {j})
            /\ Cardinality(memory[w]) \in Nat /\ Cardinality(memory[w] \ {j}) \in Nat
            /\ Cardinality(memory[w] \ {j}) <= Cardinality(memory[w])
        BY <4>1, OneLess
      <4> QED
        BY <4>1, <4>2
    <3>2. Channels'
      BY <3>b DEF TypeOK, Channels
    <3>c. \A v \in Writers : /\ Cardinality(memory'[v]) <= Buffer
                             /\ memory'[v] \subseteq memory[v] \ {j}
      BY <3>b DEF TypeOK, Channels
    <3>1. TypeOK'
      BY <2>1, <3>a, <3>b, <3>c, Inserted DEF TypeOK, Drain
    <3>3. Phased'
      BY <2>1 DEF TypeOK, Phased, Drain, EnqueueAsyncWrite, InsertedAs, SetState, Spend
    <3>4. Apart'
      BY <2>1 DEF TypeOK, Phased, Apart, Held, Drain, EnqueueAsyncWrite, InsertedAs, SetState, Spend
    <3> QED
      BY <3>1, <3>2, <3>3, <3>4
  <2>2. ASSUME NEW w \in Writers, Drained(w) PROVE Custody'
    <3>1. TypeOK'
      BY <2>2 DEF TypeOK, Channels, Phased, Apart, Held, Drained, GoTo
    <3>2. Channels'
      BY <2>2 DEF TypeOK, Channels, Drained, GoTo
    <3>3. Phased'
      BY <2>2 DEF TypeOK, Phased, Drained, GoTo
    <3>4. Apart'
      BY <2>2 DEF TypeOK, Phased, Apart, Held, Drained, GoTo
    <3> QED
      BY <3>1, <3>2, <3>3, <3>4
  <2>3. ASSUME NEW w \in Writers, ClaimAsyncWriteJobs(w) PROVE Custody'
    <3>1. TypeOK'
      BY <2>3 DEF TypeOK, Channels, Phased, Apart, Held, ClaimAsyncWriteJobs, Claimable, GoTo
    <3>2. Channels'
      BY <2>3 DEF TypeOK, Channels, ClaimAsyncWriteJobs, Claimable, GoTo
    <3>3. Phased'
      BY <2>3 DEF TypeOK, Phased, ClaimAsyncWriteJobs, Claimable, GoTo
    <3>4. Apart'
      BY <2>3 DEF TypeOK, Phased, Apart, Held, ClaimAsyncWriteJobs, Claimable, GoTo
    <3> QED
      BY <3>1, <3>2, <3>3, <3>4
  <2>4. ASSUME NEW w \in Writers, Apply(w) PROVE Custody'
    <3>1. TypeOK'
      <4>1. spent' \in [Faults -> Nat] /\ failures' \in [Jobs -> Nat]
        BY <2>4 DEF TypeOK, Apply, Spend
      <4>2. applied' \in [Jobs -> Nat]
        BY <2>4 DEF TypeOK, Apply
      <4> QED
        BY <2>4, <4>1, <4>2 DEF TypeOK, Apply, GoTo
    <3>2. Channels'
      BY <2>4 DEF TypeOK, Channels, Apply, GoTo, Spend
    <3>3. Phased'
      BY <2>4 DEF TypeOK, Phased, Apply, GoTo, Spend
    <3>4. Apart'
      BY <2>4 DEF TypeOK, Phased, Apart, Held, Apply, GoTo, Spend
    <3> QED
      BY <3>1, <3>2, <3>3, <3>4
  <2>5. ASSUME NEW w \in Writers, CompleteAsyncWriteJob(w) PROVE Custody'
    <3>1. TypeOK'
      <4>1. hand[w] \in Jobs /\ state[hand[w]] = "leased"
        BY <2>5 DEF Phased, Apart, Held, CompleteAsyncWriteJob
      <4>2. spent' \in [Faults -> Nat]
        BY <2>5 DEF TypeOK, CompleteAsyncWriteJob, Spend
      <4>3. /\ pc' \in [Writers -> Phases]
            /\ batch' \in [Writers -> SUBSET Jobs]
            /\ hand' \in [Writers -> Jobs \cup {None}]
        BY <2>5 DEF TypeOK, CompleteAsyncWriteJob, Return, GoTo
      <4> QED
        BY <2>5, <4>1, <4>2, <4>3 DEF TypeOK, CompleteAsyncWriteJob, SetState
    <3>2. Channels'
      BY <2>5 DEF TypeOK, Channels, CompleteAsyncWriteJob, SetState, Return, GoTo, Spend
    <3>3. Phased'
      BY <2>5 DEF TypeOK, Phased, CompleteAsyncWriteJob, SetState, Return, GoTo, Spend
    <3>4. Apart'
      BY <2>5 DEF TypeOK, Phased, Apart, Held, CompleteAsyncWriteJob, SetState, Return, GoTo, Spend
    <3> QED
      BY <3>1, <3>2, <3>3, <3>4
  <2>6. ASSUME NEW w \in Writers, ReleaseAsyncWriteJob(w) PROVE Custody'
    <3>1. TypeOK'
      BY <2>6 DEF TypeOK, Channels, Phased, Apart, Held, ReleaseAsyncWriteJob, SetState, Return, GoTo, Spend
    <3>2. Channels'
      BY <2>6 DEF TypeOK, Channels, ReleaseAsyncWriteJob, SetState, Return, GoTo, Spend
    <3>3. Phased'
      BY <2>6 DEF TypeOK, Phased, ReleaseAsyncWriteJob, SetState, Return, GoTo, Spend
    <3>4. Apart'
      BY <2>6 DEF TypeOK, Phased, Apart, Held, ReleaseAsyncWriteJob, SetState, Return, GoTo, Spend
    <3> QED
      BY <3>1, <3>2, <3>3, <3>4
  <2>7. ASSUME NEW w \in Writers, Crash(w) PROVE Custody'
    <3>1. TypeOK'
      BY <2>7, FS_EmptySet DEF TypeOK, Channels, Phased, Apart, Held, Crash, Return, GoTo, Spend
    <3>2. Channels'
      BY <2>7, FS_EmptySet DEF TypeOK, Channels, Crash, Return, GoTo, Spend
    <3>3. Phased'
      BY <2>7 DEF TypeOK, Phased, Crash, Return, GoTo, Spend
    <3>4. Apart'
      BY <2>7 DEF TypeOK, Phased, Apart, Held, Crash, Return, GoTo, Spend
    <3> QED
      BY <3>1, <3>2, <3>3, <3>4
  <2>8. ASSUME NEW w \in Writers, NEW j \in Jobs, Enqueue(w, j) PROVE Custody'
    <3>a. /\ IsFiniteSet(memory[w]) /\ IsFiniteSet(memory[w] \cup {j})
          /\ Cardinality(memory[w]) < Buffer => Cardinality(memory[w] \cup {j}) <= Buffer
      <4>1. IsFiniteSet(memory[w])
        BY DEF Channels
      <4>2. /\ IsFiniteSet(memory[w] \cup {j})
            /\ Cardinality(memory[w]) \in Nat /\ Cardinality(memory[w] \cup {j}) \in Nat
            /\ Cardinality(memory[w] \cup {j}) <= Cardinality(memory[w]) + 1
        BY <4>1, OneMore
      <4> QED
        BY <4>1, <4>2
    <3>b. \A v \in Writers : j \notin memory[v]
      BY <2>8 DEF TypeOK, Enqueue
    <3>1. TypeOK'
      <4>1. CASE Cardinality(memory[w]) < Buffer
        <5>1. /\ memory' = [memory EXCEPT ![w] = @ \cup {j}]
              /\ state' = [state EXCEPT ![j] = "buffered"]
              /\ UNCHANGED spent
          BY <2>8, <4>1 DEF Enqueue, SetState
        <5>2. \A v \in Writers : Cardinality(memory'[v]) <= Buffer
          BY <3>a, <4>1, <5>1 DEF TypeOK
        <5>3. \A v \in Writers : \A i \in memory'[v] : state'[i] = "buffered"
          BY <5>1 DEF TypeOK
        <5>4. /\ memory' \in [Writers -> SUBSET Jobs]
              /\ state' \in [Jobs -> {"new", "buffered", "lost", "queued", "leased"} \cup Settled]
          BY <5>1 DEF TypeOK
        <5>5. UNCHANGED <<due, attempts, applied, failures, pc, batch, hand>>
          BY <2>8 DEF Enqueue
        <5> QED
          BY <5>1, <5>2, <5>3, <5>4, <5>5 DEF TypeOK
      <4>2. CASE ~(Cardinality(memory[w]) < Buffer)
        BY <2>8, <3>b, <4>2, Inserted DEF TypeOK, Enqueue
      <4> QED
        BY <4>1, <4>2
    <3>2. Channels'
      <4>1. UNCHANGED memory \/ memory' = [memory EXCEPT ![w] = @ \cup {j}]
        BY <2>8 DEF Enqueue
      <4>2. \A v \in Writers : IsFiniteSet(memory'[v])
        BY <3>a, <4>1 DEF TypeOK, Channels
      <4>3. \A u, v \in Writers : u # v => memory'[u] \cap memory'[v] = {}
        BY <3>b, <4>1 DEF TypeOK, Channels
      <4> QED
        BY <4>2, <4>3 DEF Channels
    <3>3. Phased'
      BY <2>8 DEF TypeOK, Phased, Enqueue
    <3>4. Apart'
      BY <2>8 DEF TypeOK, Apart, Held, Enqueue, EnqueueAsyncWrite, InsertedAs, SetState, Spend
    <3> QED
      BY <3>1, <3>2, <3>3, <3>4
  <2>9. ASSUME NEW j \in Jobs, RetryDelayPasses(j) PROVE Custody'
    BY <2>9 DEF TypeOK, Channels, Phased, Apart, Held, RetryDelayPasses
  <2>10. CASE UNCHANGED vars
    BY <2>10 DEF TypeOK, Channels, Phased, Apart, Held, vars
  <2> QED
    BY <2>1, <2>2, <2>3, <2>4, <2>5, <2>6, <2>7, <2>8, <2>9, <2>10 DEF Next, WriterStep
<1> QED
  BY <1>1, <1>2, PTL DEF Spec

-----------------------------------------------------------------------------
\* Attempts, failures and effects keep their account at every step.
LEMMA AccountsKept == Spec => []Accounts
<1> USE AsyncWritesAssumption
<1>1. Init => Accounts
  BY DEF Init, Accounts, Counted, InHand
<1>2. Custody /\ Accounts /\ [Next]_vars => Accounts'
  <2> SUFFICES ASSUME Custody, Accounts, [Next]_vars PROVE Accounts'
    OBVIOUS
  <2> USE DEF Custody, Accounts, TypeOK
  <2>1. ASSUME NEW w \in Writers, Drain(w) PROVE Accounts'
    <3>1. Counted'
      <4>1. PICK j \in memory[w] : EnqueueAsyncWrite(j)
        BY <2>1 DEF Drain
      <4>2. j \in Jobs /\ state[j] = "buffered"
        OBVIOUS
      <4> QED
        BY <2>1, <4>1, <4>2, Inserted DEF Counted, Drain
    <3>2. InHand'
      BY <2>1 DEF Counted, InHand, Phased, Apart, Held, Drain
    <3> QED
      BY <3>1, <3>2
  <2>2. ASSUME NEW w \in Writers, Drained(w) PROVE Accounts'
    <3>1. Counted'
      BY <2>2 DEF Counted, InHand, Phased, Apart, Held, Drained, GoTo
    <3>2. InHand'
      BY <2>2 DEF Counted, InHand, Phased, Apart, Held, Drained, GoTo
    <3> QED
      BY <3>1, <3>2
  <2>3. ASSUME NEW w \in Writers, ClaimAsyncWriteJobs(w) PROVE Accounts'
    <3>1. Counted'
      BY <2>3 DEF Counted, InHand, Phased, Apart, Held, ClaimAsyncWriteJobs, Claimable, GoTo
    <3>2. InHand'
      BY <2>3 DEF Counted, InHand, Phased, Apart, Held, ClaimAsyncWriteJobs, Claimable, GoTo
    <3> QED
      BY <3>1, <3>2
  <2>4. ASSUME NEW w \in Writers, Apply(w) PROVE Accounts'
    <3>1. Counted'
      BY SMTT(60), <2>4 DEF Counted, InHand, Phased, Apart, Held, Apply, GoTo, Spend
    <3>2. InHand'
      BY <2>4 DEF Counted, InHand, Phased, Apart, Held, Apply, GoTo, Spend
    <3> QED
      BY <3>1, <3>2
  <2>5. ASSUME NEW w \in Writers, CompleteAsyncWriteJob(w) PROVE Accounts'
    <3>1. Counted'
      BY <2>5 DEF Counted, InHand, Phased, Apart, Held, CompleteAsyncWriteJob, SetState, Return, GoTo
    <3>2. InHand'
      BY <2>5 DEF Counted, InHand, Phased, Apart, Held, CompleteAsyncWriteJob, SetState, Return, GoTo
    <3> QED
      BY <3>1, <3>2
  <2>6. ASSUME NEW w \in Writers, ReleaseAsyncWriteJob(w) PROVE Accounts'
    <3>1. Counted'
      <4> DEFINE j == hand[w]
      <4>1. /\ j \in Jobs /\ state[j] = "leased"
            /\ attempts[j] = failures[j] /\ applied[j] <= failures[j]
        BY <2>6 DEF InHand, Phased, Apart, Held, ReleaseAsyncWriteJob
      <4>2. /\ UNCHANGED <<attempts, applied, failures>>
            /\ \/ UNCHANGED state
               \/ attempts[j] >= MaxAttempts /\ state' = [state EXCEPT ![j] = "failed"]
               \/ attempts[j] < MaxAttempts /\ state' = [state EXCEPT ![j] = "queued"]
        BY <2>6, <4>1 DEF ReleaseAsyncWriteJob, SetState
      <4> HIDE DEF j
      <4> QED
        BY SMTT(60), <4>1, <4>2 DEF Counted
    <3>2. InHand'
      BY <2>6 DEF Counted, InHand, Phased, Apart, Held, ReleaseAsyncWriteJob, SetState, Return, GoTo
    <3> QED
      BY <3>1, <3>2
  <2>7. ASSUME NEW w \in Writers, Crash(w) PROVE Accounts'
    <3>1. Counted'
      BY <2>7 DEF Counted, InHand, Phased, Apart, Held, Crash, Return, GoTo
    <3>2. InHand'
      BY <2>7 DEF Counted, InHand, Phased, Apart, Held, Crash, Return, GoTo
    <3> QED
      BY <3>1, <3>2
  <2>8. ASSUME NEW w \in Writers, NEW j \in Jobs, Enqueue(w, j) PROVE Accounts'
    <3>1. Counted'
      BY <2>8, Inserted DEF Counted, Enqueue, SetState
    <3>2. InHand'
      BY <2>8 DEF InHand, Enqueue
    <3> QED
      BY <3>1, <3>2
  <2>9. ASSUME NEW j \in Jobs, RetryDelayPasses(j) PROVE Accounts'
    BY <2>9 DEF Counted, InHand, RetryDelayPasses
  <2>10. CASE UNCHANGED vars
    BY <2>10 DEF Counted, InHand, vars
  <2> QED
    BY <2>1, <2>2, <2>3, <2>4, <2>5, <2>6, <2>7, <2>8, <2>9, <2>10 DEF Next, WriterStep
<1> QED
  BY <1>1, <1>2, CustodyKept, PTL DEF Spec

\* A job is given up only at the last attempt; an effect is repeated only after a
\* failure; what the table says of a settled job is what happened to it.
THEOREM SettledIsTrue == Spec => [](AttemptsBounded /\ EffectsPaid /\ SettledTruly)
<1>1. Custody /\ Accounts => AttemptsBounded /\ EffectsPaid /\ SettledTruly
  <2> SUFFICES ASSUME Custody, Accounts
               PROVE  AttemptsBounded /\ EffectsPaid /\ SettledTruly
    OBVIOUS
  <2> QED
    BY DEF Custody, TypeOK, Accounts, Counted, AttemptsBounded, EffectsPaid, SettledTruly
<1> QED
  BY <1>1, CustodyKept, AccountsKept, PTL

\* What one step may add to the lost, and what it pays for it.
LEMMA LossesGrow ==
  ASSUME Custody, NEW S, IsFiniteSet(S), NEW n \in Nat, Cardinality(S) <= n,
         Losses, Lost' \subseteq Lost \cup S, spent' \in [Faults -> Nat],
         n + Buffer * spent["crash"] + spent["database"] <= Buffer * spent'["crash"] + spent'["database"]
  PROVE  Losses'
<1>1. /\ IsFiniteSet(Lost \cup S)
      /\ Cardinality(Lost \cup S) = Cardinality(Lost) + Cardinality(S) - Cardinality(Lost \cap S)
  BY FS_Union DEF Losses
<1>2. IsFiniteSet(Lost \cap S)
  BY FS_Subset DEF Losses
<1>3. /\ Cardinality(Lost) \in Nat /\ Cardinality(S) \in Nat /\ Cardinality(Lost \cap S) \in Nat
  BY <1>2, FS_CardinalityType DEF Losses
<1>4. /\ IsFiniteSet(Lost') /\ Cardinality(Lost') <= Cardinality(Lost \cup S)
  BY <1>1, FS_Subset
<1>5. Cardinality(Lost') \in Nat
  BY <1>4, FS_CardinalityType
<1>6. /\ Buffer * spent["crash"] \in Nat /\ spent["database"] \in Nat
      /\ Buffer * spent'["crash"] \in Nat /\ spent'["database"] \in Nat
  BY AsyncWritesAssumption DEF Custody, TypeOK
<1>7. Cardinality(Lost) <= Buffer * spent["crash"] + spent["database"]
  BY DEF Losses, LossBounded
<1>8. Cardinality(Lost') <= Buffer * spent'["crash"] + spent'["database"]
  BY <1>1, <1>3, <1>4, <1>5, <1>6, <1>7
<1> QED
  BY <1>4, <1>8 DEF Losses, LossBounded

\* An insert loses the job at most, and then a database fault is spent.
LEMMA InsertLosses ==
  ASSUME Custody, Losses, NEW j \in Jobs, EnqueueAsyncWrite(j)
  PROVE  Losses'
<1>1. /\ IsFiniteSet({}) /\ Cardinality({}) = 0
      /\ IsFiniteSet({j}) /\ Cardinality({j}) = 1
  BY FS_EmptySet, FS_Singleton
<1>2. CASE SetState(j, InsertedAs(j)) /\ UNCHANGED spent
  <2>1. Lost' \subseteq Lost \cup {}
    BY <1>2 DEF Custody, TypeOK, Lost, SetState, InsertedAs
  <2>2. spent' \in [Faults -> Nat] /\ spent' = spent
    BY <1>2 DEF Custody, TypeOK
  <2>3. 0 + Buffer * spent["crash"] + spent["database"] <= Buffer * spent'["crash"] + spent'["database"]
    BY <2>2, AsyncWritesAssumption
  <2> QED
    BY <1>1, <2>1, <2>2, <2>3, LossesGrow
<1>3. CASE SetState(j, "lost") /\ Spend("database")
  <2>1. Lost' \subseteq Lost \cup {j}
    BY <1>3 DEF Custody, TypeOK, Lost, SetState
  <2>2. /\ spent' \in [Faults -> Nat] /\ spent'["crash"] = spent["crash"]
        /\ spent'["database"] = spent["database"] + 1
        /\ spent["database"] \in Nat /\ spent["crash"] \in Nat
    BY <1>3 DEF Custody, TypeOK, Spend
  <2>3. 1 + Buffer * spent["crash"] + spent["database"] <= Buffer * spent'["crash"] + spent'["database"]
    <3>1. Buffer * spent["crash"] \in Nat
      BY <2>2, AsyncWritesAssumption
    <3> QED
      BY <2>2, <3>1
  <2> QED
    BY <1>1, <2>1, <2>2, <2>3, LossesGrow
<1> QED
  BY <1>2, <1>3 DEF EnqueueAsyncWrite

\* A step that loses nothing and gives no fault back keeps the account.
LEMMA NothingLost ==
  ASSUME Custody, Losses, Lost' \subseteq Lost, spent' \in [Faults -> Nat],
         spent'["crash"] >= spent["crash"], spent'["database"] >= spent["database"]
  PROVE  Losses'
<1>1. IsFiniteSet({}) /\ Cardinality({}) = 0
  BY FS_EmptySet
<1>2. 0 + Buffer * spent["crash"] + spent["database"] <= Buffer * spent'["crash"] + spent'["database"]
  <2>1. /\ Buffer \in Nat /\ spent["crash"] \in Nat /\ spent'["crash"] \in Nat
        /\ spent["database"] \in Nat /\ spent'["database"] \in Nat
    BY AsyncWritesAssumption DEF Custody, TypeOK
  <2>2. Buffer * spent["crash"] <= Buffer * spent'["crash"]
    BY <2>1
  <2>3. Buffer * spent["crash"] \in Nat /\ Buffer * spent'["crash"] \in Nat
    BY <2>1
  <2> QED
    BY <2>1, <2>2, <2>3
<1> QED
  BY <1>1, <1>2, LossesGrow

\* At most a buffer of jobs is lost by a crash, and one by a failing insert:
\* the sum is never more than the faults that happened.
THEOREM LossesPaid == Spec => []LossBounded
<1> USE AsyncWritesAssumption
<1>1. Init => Losses
  <2> SUFFICES ASSUME Init PROVE Losses
    OBVIOUS
  <2>1. Lost = {}
    BY DEF Init, Lost
  <2>2. spent["crash"] = 0 /\ spent["database"] = 0
    BY DEF Init
  <2> QED
    BY <2>1, <2>2, FS_EmptySet DEF Losses, LossBounded
<1>2. Custody /\ Losses /\ [Next]_vars => Losses'
  <2> SUFFICES ASSUME Custody, Losses, [Next]_vars PROVE Losses'
    OBVIOUS
  <2>1. ASSUME NEW w \in Writers, Drain(w) PROVE Losses'
    BY <2>1, InsertLosses DEF Drain, Custody, TypeOK
  <2>2. ASSUME NEW w \in Writers, NEW j \in Jobs, Enqueue(w, j) PROVE Losses'
    <3>1. CASE EnqueueAsyncWrite(j)
      BY <3>1, InsertLosses
    <3>2. CASE SetState(j, "buffered") /\ UNCHANGED spent
      <4>1. Lost' \subseteq Lost
        BY <3>2 DEF Custody, TypeOK, Lost, SetState
      <4> QED
        BY <3>2, <4>1, NothingLost DEF Custody, TypeOK
    <3> QED
      BY <2>2, <3>1, <3>2 DEF Enqueue
  <2>3. ASSUME NEW w \in Writers, Crash(w) PROVE Losses'
    <3>1. IsFiniteSet(memory[w]) /\ Cardinality(memory[w]) <= Buffer /\ Buffer \in Nat
      BY DEF Custody, Channels, TypeOK
    <3>2. Lost' \subseteq Lost \cup memory[w]
      BY <2>3 DEF Crash, Lost, Custody, TypeOK
    <3>3. /\ spent' \in [Faults -> Nat] /\ spent'["crash"] = spent["crash"] + 1
          /\ spent'["database"] = spent["database"]
          /\ spent["crash"] \in Nat /\ spent["database"] \in Nat
      BY <2>3 DEF Crash, Spend, Custody, TypeOK
    <3>4. Buffer * (spent["crash"] + 1) = Buffer + Buffer * spent["crash"]
      BY <3>1, <3>3
    <3>5. Buffer * spent["crash"] \in Nat
      BY <3>1, <3>3
    <3>6. Buffer + Buffer * spent["crash"] + spent["database"] <= Buffer * spent'["crash"] + spent'["database"]
      BY <3>1, <3>3, <3>4, <3>5
    <3> QED
      BY <3>1, <3>2, <3>3, <3>6, LossesGrow
  <2>4. ASSUME NEW w \in Writers,
               Drained(w) \/ ClaimAsyncWriteJobs(w) \/ Apply(w)
               \/ CompleteAsyncWriteJob(w) \/ ReleaseAsyncWriteJob(w)
        PROVE  Losses'
    <3>1. Lost' \subseteq Lost
      BY <2>4 DEF Drained, ClaimAsyncWriteJobs, Apply, CompleteAsyncWriteJob,
                  ReleaseAsyncWriteJob, SetState, Lost, Custody, TypeOK
    <3>2. /\ spent' \in [Faults -> Nat]
          /\ spent'["crash"] >= spent["crash"] /\ spent'["database"] >= spent["database"]
      BY <2>4 DEF Drained, ClaimAsyncWriteJobs, Apply, CompleteAsyncWriteJob,
                  ReleaseAsyncWriteJob, Spend, Custody, TypeOK
    <3> QED
      BY <3>1, <3>2, NothingLost
  <2>5. ASSUME NEW j \in Jobs, RetryDelayPasses(j) PROVE Losses'
    BY <2>5 DEF RetryDelayPasses, Losses, LossBounded, Lost
  <2>6. CASE UNCHANGED vars
    BY <2>6 DEF vars, Losses, LossBounded, Lost
  <2> QED
    BY <2>1, <2>2, <2>3, <2>4, <2>5, <2>6 DEF Next, WriterStep
<1>3. Losses => LossBounded
  BY DEF Losses
<1> QED
  BY <1>1, <1>2, <1>3, CustodyKept, PTL DEF Spec

\* Losses, attempts and repeated effects are each bounded by what caused them.
THEOREM CostsPaid == Spec => []CostsArePaid
<1>1. LossBounded /\ (AttemptsBounded /\ EffectsPaid /\ SettledTruly) => CostsArePaid
  BY DEF CostsArePaid
<1> QED
  BY <1>1, LossesPaid, SettledIsTrue, PTL
=============================================================================
