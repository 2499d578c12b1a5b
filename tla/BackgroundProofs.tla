-------------------------- MODULE BackgroundProofs --------------------------
(***************************************************************************)
(* Theorems about what goes on beside the answer to a message:             *)
(* delegations, recommendations, the tool evaluator, the session monitor,  *)
(* shared jobs, the users' profiles and broadcasts; and what follows for   *)
(* Services.                                                               *)
(***************************************************************************)
EXTENDS ServiceProofs

-----------------------------------------------------------------------------
(* Delegations *)

DelegationSpec == DelegationInit /\ [][DelegationNext]_delegationVars

\* The tables, and what the worker of a child has done: it speaks to the parent
\* after the run has ended and the delegation says how.
HandFits(c) ==
  /\ hand[c] \in {"none", "leased", "working", "completed", "failed", "cancelled",
                  "completed told", "failed told", "cancelled told"}
  /\ hand[c] = "leased" => childState[c] \in {"leased", "cancelled"}
  /\ hand[c] = "working" => childState[c] \in {"running", "cancelled"}
  /\ hand[c] \in {"completed", "completed told"} => childState[c] = "completed"
  /\ hand[c] \in {"failed", "failed told"} => childState[c] = "failed"
  /\ hand[c] \in {"cancelled", "cancelled told"} => childState[c] = "cancelled"
  /\ hand[c] \in {"completed told", "failed told", "cancelled told"} =>
       delegation[c].status = childState[c]
  /\ c \notin disturbed =>
       \/ told[c] = <<>> /\ (hand[c] = "none" => childState[c] \in {"absent", "queued"})
       \/ /\ hand[c] = "none" /\ childState[c] \in ChildEnded
          /\ told[c] = <<childState[c]>> /\ delegation[c].status = childState[c]

HandsFit ==
  /\ childState \in [Children -> {"absent", "queued", "leased", "running"} \cup ChildEnded]
  /\ DOMAIN delegation = Children /\ \A c \in Children : "status" \in DOMAIN delegation[c]
  /\ DOMAIN hand = Children /\ DOMAIN told = Children
  /\ \A c \in Children : HandFits(c)

\* A step of one child leaves the others as they were.
LEMMA OneChild ==
  ASSUME HandsFit, NEW c \in Children,
         childState' \in [Children -> {"absent", "queued", "leased", "running"} \cup ChildEnded],
         DOMAIN delegation' = Children, DOMAIN hand' = Children, DOMAIN told' = Children,
         \A d \in Children : "status" \in DOMAIN delegation'[d],
         \A d \in Children \ {c} :
           /\ childState'[d] = childState[d] /\ delegation'[d] = delegation[d]
           /\ hand'[d] = hand[d] /\ told'[d] = told[d] /\ (d \in disturbed' <=> d \in disturbed),
         HandFits(c)'
  PROVE  HandsFit'
  BY ZenonT(60) DEF HandsFit, HandFits

\* The parent hears of a child once, and what is true, unless a named fault
\* struck the child.
THEOREM ParentHears == DelegationSpec => []ParentIsTold
<1> USE DEF ChildEnded
<1>1. DelegationInit => HandsFit
  BY DEF DelegationInit, HandsFit, HandFits
<1>2. HandsFit /\ [DelegationNext]_delegationVars => HandsFit'
  <2> SUFFICES ASSUME HandsFit, [DelegationNext]_delegationVars PROVE HandsFit'
    OBVIOUS
  <2>1. CASE CreateAgentDelegationRun
    <3>1. PICK c \in Children :
            /\ childState[c] = "absent"
            /\ childState' = [childState EXCEPT ![c] = "queued"]
            /\ delegation' = [delegation EXCEPT ![c] = [handle |-> Mentions[parent.next], status |-> "queued"]]
      BY <2>1 DEF CreateAgentDelegationRun
    <3>2. UNCHANGED <<hand, told, disturbed>>
      BY <2>1 DEF CreateAgentDelegationRun
    <3>3. HandFits(c)'
      BY <3>1, <3>2 DEF HandsFit, HandFits
    <3> QED
      BY <3>1, <3>2, <3>3, OneChild DEF HandsFit
  <2>2. CASE SkipMention \/ CreationRefused \/ ParentAnswers \/ ParentDies
    BY <2>2 DEF SkipMention, CreationRefused, ParentAnswers, ParentDies, HandsFit, HandFits
  <2>3. ASSUME NEW c \in Children, ClaimChild(c) PROVE HandsFit'
    <3>1. HandFits(c)'
      BY <2>3 DEF ClaimChild, Run, Hand, HandsFit, HandFits
    <3> QED
      BY <2>3, <3>1, OneChild DEF ClaimChild, Run, Hand, HandsFit
  <2>4. ASSUME NEW c \in Children, StartRefused(c) PROVE HandsFit'
    <3>1. HandFits(c)'
      BY <2>4 DEF StartRefused, Run, Hand, HandsFit, HandFits
    <3> QED
      BY <2>4, <3>1, OneChild DEF StartRefused, Run, Hand, HandsFit
  <2>5. ASSUME NEW c \in Children, BeginChild(c) PROVE HandsFit'
    <3>1. HandFits(c)'
      BY <2>5 DEF BeginChild, Run, Hand, HandsFit, HandFits
    <3> QED
      BY <2>5, <3>1, OneChild DEF BeginChild, Run, Hand, HandsFit
  <2>6. ASSUME NEW c \in Children, CompleteChild(c) PROVE HandsFit'
    <3>1. HandFits(c)'
      BY <2>6 DEF CompleteChild, Run, Hand, HandsFit, HandFits
    <3> QED
      BY <2>6, <3>1, OneChild DEF CompleteChild, Run, Hand, HandsFit
  <2>7. ASSUME NEW c \in Children, RefineChild(c) PROVE HandsFit'
    <3>1. HandFits(c)'
      BY <2>7 DEF RefineChild, Run, Hand, HandsFit, HandFits
    <3> QED
      BY <2>7, <3>1, OneChild DEF RefineChild, Run, Hand, HandsFit
  <2>8. ASSUME NEW c \in Children, CompleteAgentDelegation(c) PROVE HandsFit'
    <3>1. HandFits(c)'
      BY <2>8 DEF CompleteAgentDelegation, Status, Hand, HandsFit, HandFits
    <3> QED
      BY <2>8, <3>1, OneChild DEF CompleteAgentDelegation, Status, Hand, HandsFit
  <2>9. ASSUME NEW c \in Children, FailChild(c) PROVE HandsFit'
    <3>1. HandFits(c)'
      BY <2>9 DEF FailChild, Run, Hand, HandsFit, HandFits
    <3> QED
      BY <2>9, <3>1, OneChild DEF FailChild, Run, Hand, HandsFit
  <2>10. ASSUME NEW c \in Children, FailAgentDelegation(c) PROVE HandsFit'
    <3>1. HandFits(c)'
      BY <2>10 DEF FailAgentDelegation, Status, Hand, HandsFit, HandFits
    <3> QED
      BY <2>10, <3>1, OneChild DEF FailAgentDelegation, Status, Hand, HandsFit
  <2>11. ASSUME NEW c \in Children, StopChild(c) PROVE HandsFit'
    <3>1. HandFits(c)'
      BY <2>11 DEF StopChild, Hand, HandsFit, HandFits
    <3> QED
      BY <2>11, <3>1, OneChild DEF StopChild, Hand, HandsFit
  <2>12. ASSUME NEW c \in Children, CancelAgentDelegation(c) PROVE HandsFit'
    <3>1. HandFits(c)'
      BY <2>12 DEF CancelAgentDelegation, Status, Hand, HandsFit, HandFits
    <3> QED
      BY <2>12, <3>1, OneChild DEF CancelAgentDelegation, Status, Hand, HandsFit
  <2>13. ASSUME NEW c \in Children, TellParent(c) PROVE HandsFit'
    <3>a. \A x : Append(<<>>, x) = <<x>>
      OBVIOUS
    <3>b. /\ told'[c] = Append(told[c], childState[c]) /\ hand'[c] = "none"
          /\ delegation[c].status = childState[c] /\ childState[c] \in ChildEnded
      BY <2>13 DEF TellParent, Hand, HandsFit, HandFits
    <3>c. UNCHANGED <<childState, delegation, disturbed>>
      BY <2>13 DEF TellParent
    <3>d. c \notin disturbed => told[c] = <<>>
      BY <2>13 DEF TellParent, HandsFit, HandFits
    <3>1. HandFits(c)'
      BY <3>a, <3>b, <3>c, <3>d DEF HandFits
    <3> QED
      BY <2>13, <3>1, OneChild DEF TellParent, Hand, HandsFit
  <2>14. ASSUME NEW c \in Children, OutboundFails(c) PROVE HandsFit'
    <3>1. HandFits(c)'
      BY <2>14 DEF OutboundFails, Run, Hand, HandsFit, HandFits
    <3> QED
      BY <2>14, <3>1, OneChild DEF OutboundFails, Run, Hand, HandsFit
  <2>15. ASSUME NEW c \in Children, CancelChild(c) PROVE HandsFit'
    <3>1. HandFits(c)'
      BY <2>15 DEF CancelChild, Run, HandsFit, HandFits
    <3> QED
      BY <2>15, <3>1, OneChild DEF CancelChild, Run, HandsFit
  <2>16. ASSUME NEW c \in Children, ChildDies(c) PROVE HandsFit'
    <3>1. HandFits(c)'
      BY <2>16 DEF ChildDies, Run, Hand, HandsFit, HandFits
    <3> QED
      BY <2>16, <3>1, OneChild DEF ChildDies, Run, Hand, HandsFit
  <2>17. CASE UNCHANGED delegationVars
    BY <2>17 DEF delegationVars, HandsFit, HandFits
  <2> QED
    BY <2>1, <2>2, <2>3, <2>4, <2>5, <2>6, <2>7, <2>8, <2>9, <2>10, <2>11, <2>12, <2>13, <2>14, <2>15, <2>16, <2>17
       DEF DelegationNext, ChildStep
<1>3. HandsFit => ParentIsTold
  BY DEF ParentIsTold, HandsFit, HandFits
<1> QED
  BY <1>1, <1>2, <1>3, PTL DEF DelegationSpec

\* The mentions the parent has been through in this execution.
Passed == {i \in MentionedAgentHandles : i < parent.next}
ChildrenFor(h) == {c \in Children : delegation[c].handle = h}
HandlesReached == {delegation[c].handle : c \in Children} \ {"none"}
Wanted == {Mentions[i] : i \in Passed} \cap Delegable
One(condition) == IF condition THEN 1 ELSE 0

ParentRow ==
  [phase : {"running", "failed", "acknowledged", "pipeline"}, next : Nat \ {0}, created : Nat, deaths : Nat]
DelegationRow == [handle : Handles \cup {"none"}, status : {"absent", "queued"} \cup ChildEnded]

\* A handle has a child for each execution of the parent that was given up, and
\* one for this if its mention was passed.
Delegated ==
  /\ parent \in ParentRow
  /\ parent.phase = "acknowledged" => parent.next \notin MentionedAgentHandles
  /\ DOMAIN childState = Children /\ delegation \in [Children -> DelegationRow]
  /\ \A c \in Children : childState[c] = "absent" => delegation[c].handle = "none"
  /\ \A h \in Handles :
       /\ IsFiniteSet(ChildrenFor(h))
       /\ Cardinality(ChildrenFor(h)) <=
            parent.deaths + One(\E i \in Passed : Mentions[i] = h)
  /\ parent.deaths = 0 => HandlesReached = Wanted

\* The steps of the children.
LEMMA HandlesStay ==
  ASSUME Delegated, NEW c \in Children, ChildStep(c)
  PROVE  /\ UNCHANGED parent
         /\ DOMAIN childState' = Children /\ delegation' \in [Children -> DelegationRow]
         /\ \A d \in Children : delegation'[d].handle = delegation[d].handle
         /\ \A d \in Children : childState'[d] = "absent" => childState[d] = "absent"
<1> USE DEF Delegated, DelegationRow, ChildEnded, KeepParent, Run, Hand, Status
<1>1. CASE ClaimChild(c) \/ StartRefused(c) \/ BeginChild(c) \/ CompleteChild(c) \/ RefineChild(c)
  BY <1>1 DEF ClaimChild, StartRefused, BeginChild, CompleteChild, RefineChild
<1>2. CASE CompleteAgentDelegation(c) \/ FailAgentDelegation(c) \/ CancelAgentDelegation(c)
  <2>1. PICK s \in ChildEnded : delegation' = [delegation EXCEPT ![c].status = s]
    BY <1>2 DEF CompleteAgentDelegation, FailAgentDelegation, CancelAgentDelegation
  <2>2. UNCHANGED <<parent, childState>>
    BY <1>2 DEF CompleteAgentDelegation, FailAgentDelegation, CancelAgentDelegation
  <2> QED
    BY <2>1, <2>2
<1>3. CASE FailChild(c) \/ StopChild(c) \/ TellParent(c) \/ OutboundFails(c)
  BY <1>3 DEF FailChild, StopChild, TellParent, OutboundFails
<1>4. CASE CancelChild(c) \/ ChildDies(c)
  BY <1>4 DEF CancelChild, ChildDies
<1> QED
  BY <1>1, <1>2, <1>3, <1>4 DEF ChildStep

\* What the two counts rest on stays if the handles do and mentions are passed.
LEMMA DelegatedStays ==
  ASSUME Delegated, DOMAIN childState' = Children, delegation' \in [Children -> DelegationRow],
         \A d \in Children : delegation'[d].handle = delegation[d].handle,
         \A d \in Children : childState'[d] = "absent" => childState[d] = "absent",
         UNCHANGED parent
  PROVE  Delegated'
<1>0. \A d \in Children : delegation'[d].handle = delegation[d].handle
  OBVIOUS
<1>1. \A h \in Handles : ChildrenFor(h)' = ChildrenFor(h)
  BY ONLY <1>0 DEF ChildrenFor
<1>2. HandlesReached' = HandlesReached
  BY ONLY <1>0 DEF HandlesReached
<1>3. Passed' = Passed
  BY DEF Passed
<1>4. Wanted' = Wanted
  BY <1>3 DEF Wanted
<1> QED
  BY <1>1, <1>2, <1>3, <1>4 DEF Delegated

\* The parent delegates to each of the first mentions that it may, in the order of
\* the message, and twice only if it is executed again.
THEOREM DelegatesOnce ==
  ASSUME MentionsOnce
  PROVE  DelegationSpec => []DelegatedOnce
<1> USE DEF MentionsOnce
<1>1. DelegationInit => Delegated
  <2> SUFFICES ASSUME DelegationInit PROVE Delegated
    OBVIOUS
  <2>1. Passed = {} /\ \A h \in Handles : ChildrenFor(h) = {}
    BY DEF DelegationInit, Passed, ChildrenFor, MentionedAgentHandles
  <2>2. {delegation[c].handle : c \in Children} \subseteq {"none"}
    BY DEF DelegationInit
  <2>3. \A h \in Handles : IsFiniteSet(ChildrenFor(h)) /\ Cardinality(ChildrenFor(h)) = 0
    BY <2>1, FS_EmptySet
  <2>4. /\ parent.next = 1 /\ parent.deaths = 0 /\ parent.phase = "running"
        /\ DOMAIN childState = Children /\ delegation \in [Children -> DelegationRow]
        /\ \A c \in Children : delegation[c].handle = "none"
    BY DEF DelegationInit, DelegationRow
  <2>5. HandlesReached = Wanted
    BY <2>1, <2>2 DEF HandlesReached, Wanted
  <2>6. \A h \in Handles :
          Cardinality(ChildrenFor(h)) <= parent.deaths + One(\E i \in Passed : Mentions[i] = h)
    BY <2>1, <2>3, <2>4 DEF One
  <2>7. parent \in ParentRow
    BY DEF DelegationInit, ParentRow
  <2> QED
    BY <2>3, <2>4, <2>5, <2>6, <2>7 DEF Delegated
<1>2. Delegated /\ [DelegationNext]_delegationVars => Delegated'
  <2> SUFFICES ASSUME Delegated, [DelegationNext]_delegationVars PROVE Delegated'
    OBVIOUS
  <2>1. CASE CreateAgentDelegationRun
    <3>a. PICK i \in MentionedAgentHandles : i = parent.next
      BY <2>1 DEF CreateAgentDelegationRun, Scanning
    <3>b. PICK h \in Handles : h = Mentions[i]
      BY <3>a DEF MentionedAgentHandles, Handles
    <3>1. PICK c \in Children :
            /\ childState[c] = "absent"
            /\ childState' = [childState EXCEPT ![c] = "queued"]
            /\ delegation' = [delegation EXCEPT ![c] = [handle |-> h, status |-> "queued"]]
      BY <2>1, <3>a, <3>b DEF CreateAgentDelegationRun
    <3>2. i \in MentionedAgentHandles /\ i \in DOMAIN Mentions /\ h \in Handles /\ h \in Delegable
      BY <2>1, <3>a, <3>b DEF CreateAgentDelegationRun, MentionedAgentHandles
    <3>3. parent' = [parent EXCEPT !.next = i + 1, !.created = @ + 1] /\ parent.phase = "running"
      BY <2>1, <3>a DEF CreateAgentDelegationRun, Scanning
    <3>c. /\ parent'.next = i + 1 /\ parent'.deaths = parent.deaths /\ parent'.phase = "running"
      BY <3>3 DEF Delegated, ParentRow
    <3>4. Passed' = Passed \cup {i}
      BY <3>a, <3>c DEF Passed, Delegated, ParentRow, MentionedAgentHandles
    <3>5. ~\E k \in Passed : Mentions[k] = h
      BY <3>a, <3>b DEF Passed, Delegated, ParentRow, MentionedAgentHandles
    <3>6. delegation[c].handle = "none" /\ h # "none"
      BY <3>1, <3>2 DEF Delegated
    <3>7. ChildrenFor(h)' = ChildrenFor(h) \cup {c}
      BY <3>1 DEF ChildrenFor, Delegated
    <3>8. \A g \in Handles \ {h} : ChildrenFor(g)' = ChildrenFor(g)
      BY <3>1, <3>6 DEF ChildrenFor, Delegated
    <3>9. /\ IsFiniteSet(ChildrenFor(h)) /\ Cardinality(ChildrenFor(h)) <= parent.deaths
          /\ IsFiniteSet(ChildrenFor(h)') /\ Cardinality(ChildrenFor(h)') <= parent.deaths + 1
      <4>1. IsFiniteSet(ChildrenFor(h)) /\ Cardinality(ChildrenFor(h)) <= parent.deaths
        BY <3>2, <3>5 DEF Delegated, One, ParentRow
      <4>2. Cardinality(ChildrenFor(h)) \in Nat
        BY <4>1, FS_CardinalityType
      <4>a. PICK S : S = ChildrenFor(h)
        OBVIOUS
      <4>b. /\ IsFiniteSet(S \cup {c})
            /\ Cardinality(S \cup {c}) = IF c \in S THEN Cardinality(S) ELSE Cardinality(S) + 1
        BY <4>1, <4>a, FS_AddElement
      <4>3. /\ IsFiniteSet(ChildrenFor(h) \cup {c})
            /\ Cardinality(ChildrenFor(h) \cup {c}) <= Cardinality(ChildrenFor(h)) + 1
        BY <4>2, <4>a, <4>b
      <4> QED
        BY <3>7, <4>1, <4>2, <4>3, FS_CardinalityType DEF Delegated, ParentRow
    <3>10. HandlesReached' = HandlesReached \cup {h}
      BY <3>1, <3>6 DEF Delegated, HandlesReached
    <3>11. Wanted' = Wanted \cup {h}
      BY <3>2, <3>4, <3>b DEF Wanted
    <3>12. \A g \in Handles :
             /\ IsFiniteSet(ChildrenFor(g)')
             /\ Cardinality(ChildrenFor(g)') <=
                  parent'.deaths + One(\E k \in Passed' : Mentions[k] = g)
      <4>1. CASE TRUE
        <5> SUFFICES ASSUME NEW g \in Handles
                     PROVE  /\ IsFiniteSet(ChildrenFor(g)')
                            /\ Cardinality(ChildrenFor(g)') <=
                                 parent'.deaths + One(\E k \in Passed' : Mentions[k] = g)
          OBVIOUS
        <5>1. CASE g = h
          <6>1. \E k \in Passed' : Mentions[k] = g
            BY <3>4, <3>b, <5>1
          <6> QED
            BY <3>c, <3>9, <5>1, <6>1 DEF One
        <5>2. CASE g # h
          <6>1. ChildrenFor(g)' = ChildrenFor(g)
            BY <3>8, <5>2
          <6>2. (\E k \in Passed' : Mentions[k] = g) <=> \E k \in Passed : Mentions[k] = g
            BY <3>4, <3>b, <5>2
          <6> QED
            BY <3>c, <6>1, <6>2 DEF Delegated
        <5> QED
          BY <5>1, <5>2
      <4> QED
        BY <4>1
    <3>13. parent'.deaths = 0 => HandlesReached' = Wanted'
      BY <3>c, <3>10, <3>11 DEF Delegated
    <3>14. /\ DOMAIN childState' = Children /\ delegation' \in [Children -> DelegationRow]
           /\ \A d \in Children : childState'[d] = "absent" => delegation'[d].handle = "none"
      BY <3>1, <3>2 DEF Delegated, DelegationRow
    <3>15. parent' \in ParentRow
      <4>1. parent \in ParentRow
        BY DEF Delegated
      <4>2. i + 1 \in Nat \ {0}
        BY <3>a, <4>1 DEF ParentRow
      <4> QED
        <5>1. parent' = [phase |-> parent.phase, next |-> i + 1, created |-> parent.created + 1,
                         deaths |-> parent.deaths]
          BY <3>3, <4>1 DEF ParentRow
        <5>2. parent.created + 1 \in Nat
          BY <4>1 DEF ParentRow
        <5> QED
          BY <3>3, <4>1, <4>2, <5>1, <5>2 DEF ParentRow
    <3> QED
      BY <3>c, <3>12, <3>13, <3>14, <3>15 DEF Delegated
  <2>2. CASE SkipMention
    <3>a. PICK i \in MentionedAgentHandles : i = parent.next
      BY <2>2 DEF SkipMention, Scanning
    <3>b. PICK h \in Handles : h = Mentions[i]
      BY <3>a DEF MentionedAgentHandles, Handles
    <3>1. h \notin Delegable
      BY <2>2, <3>a, <3>b DEF SkipMention
    <3>2. /\ parent'.next = i + 1 /\ parent'.deaths = parent.deaths /\ parent'.phase = "running"
          /\ UNCHANGED <<childState, delegation>>
      BY <2>2, <3>a DEF SkipMention, Scanning, Delegated, ParentRow
    <3>3. Passed' = Passed \cup {i}
      BY <3>a, <3>2 DEF Passed, Delegated, ParentRow, MentionedAgentHandles
    <3>4. \A g \in Handles : ChildrenFor(g)' = ChildrenFor(g)
      BY <3>2 DEF ChildrenFor
    <3>5. Wanted' = Wanted /\ HandlesReached' = HandlesReached
      BY <3>1, <3>2, <3>3, <3>b DEF Wanted, HandlesReached
    <3>6. \A g \in Handles :
             Cardinality(ChildrenFor(g)') <=
               parent'.deaths + One(\E k \in Passed' : Mentions[k] = g)
      <4> SUFFICES ASSUME NEW g \in Handles
                   PROVE  Cardinality(ChildrenFor(g)') <=
                            parent'.deaths + One(\E k \in Passed' : Mentions[k] = g)
        OBVIOUS
      <4>1. Cardinality(ChildrenFor(g)) \in Nat
        BY FS_CardinalityType DEF Delegated
      <4>2. (\E k \in Passed : Mentions[k] = g) => \E k \in Passed' : Mentions[k] = g
        BY <3>3
      <4> QED
        BY <3>2, <3>4, <4>1, <4>2 DEF Delegated, One, ParentRow
    <3>7. parent' \in ParentRow
      BY <2>2 DEF ParentRow, SkipMention, Delegated
    <3> QED
      BY <3>1, <3>2, <3>4, <3>5, <3>6, <3>7 DEF Delegated
  <2>3. CASE CreationRefused \/ ParentAnswers
    <3>1. /\ parent'.next = parent.next /\ parent'.deaths = parent.deaths
          /\ UNCHANGED <<childState, delegation>>
          /\ parent'.phase = "acknowledged" => parent.next \notin MentionedAgentHandles
      BY <2>3 DEF CreationRefused, ParentAnswers, Delegated, ParentRow
    <3>2. /\ Passed' = Passed /\ \A g \in Handles : ChildrenFor(g)' = ChildrenFor(g)
          /\ HandlesReached' = HandlesReached /\ Wanted' = Wanted
      BY <3>1 DEF Passed, ChildrenFor, HandlesReached, Wanted
    <3>3. parent' \in ParentRow
      BY <2>3 DEF ParentRow, CreationRefused, ParentAnswers, Delegated
    <3> QED
      BY <3>1, <3>2, <3>3 DEF Delegated
  <2>4. CASE ParentDies
    <3>1. /\ parent'.next = 1 /\ parent'.deaths = parent.deaths + 1 /\ parent'.phase = "running"
          /\ UNCHANGED <<childState, delegation>>
      BY <2>4 DEF ParentDies
    <3>2. \A g \in Handles : ChildrenFor(g)' = ChildrenFor(g)
      BY <3>1 DEF ChildrenFor
    <3>3. \A g \in Handles : Cardinality(ChildrenFor(g)') <= parent'.deaths
      <4> SUFFICES ASSUME NEW g \in Handles PROVE Cardinality(ChildrenFor(g)') <= parent'.deaths
        OBVIOUS
      <4>1. Cardinality(ChildrenFor(g)) \in Nat
        BY FS_CardinalityType DEF Delegated
      <4> QED
        BY <3>1, <3>2, <4>1 DEF Delegated, One, ParentRow
    <3>4. \A g \in Handles :
             Cardinality(ChildrenFor(g)') <=
               parent'.deaths + One(\E k \in Passed' : Mentions[k] = g)
      BY <3>1, <3>2, <3>3, FS_CardinalityType DEF Delegated, One, ParentRow
    <3>5. parent' \in ParentRow
      BY <2>4 DEF ParentRow, ParentDies, Delegated
    <3>6. parent'.deaths # 0
      BY <3>1 DEF Delegated, ParentRow
    <3> QED
      BY <3>1, <3>2, <3>4, <3>5, <3>6 DEF Delegated
  <2>5. ASSUME NEW c \in Children, ChildStep(c) PROVE Delegated'
    BY <2>5, HandlesStay, DelegatedStays
  <2>6. CASE UNCHANGED delegationVars
    BY <2>6, DelegatedStays DEF delegationVars, Delegated
  <2> QED
    BY <2>1, <2>2, <2>3, <2>4, <2>5, <2>6 DEF DelegationNext
<1>3. Delegated => DelegatedOnce
  <2> SUFFICES ASSUME Delegated PROVE DelegatedOnce
    OBVIOUS
  <2>1. \A h \in Handles : Cardinality({c \in Children : delegation[c].handle = h}) <= 1 + parent.deaths
    <3> SUFFICES ASSUME NEW h \in Handles PROVE Cardinality(ChildrenFor(h)) <= 1 + parent.deaths
      BY DEF ChildrenFor
    <3>1. Cardinality(ChildrenFor(h)) \in Nat /\ parent.deaths \in Nat
      BY FS_CardinalityType DEF Delegated, ParentRow
    <3> QED
      BY <3>1 DEF Delegated, One
  <2>2. parent.next \notin MentionedAgentHandles => Passed = MentionedAgentHandles
    BY DEF Passed, MentionedAgentHandles, Delegated, ParentRow
  <2> QED
    BY <2>1, <2>2 DEF Delegated, DelegatedOnce, HandlesReached, Wanted
<1> QED
  BY <1>1, <1>2, <1>3, PTL DEF DelegationSpec

-----------------------------------------------------------------------------
(* Recommendations *)

RecommendationSpec == RecommendationInit /\ [][RecommendationNext]_recommendationVars

Decisions ==
  {"no_candidate", "failed", "timeout", "channel_suppressed", "inline_merged", "outbound_pending", "outbound_queued"}
JobStatuses == {"queued", "leased", "no_candidate", "failed", "cancelled", "sent"}
DecisionRow == [item : Items \cup {NoItem}, status : Decisions]
JobRow == [status : JobStatuses, holder : Workers \cup {NoItem}]
ShownRow == [item : Items, how : {"inline_merged", "outbound_queued"}]

RunRow ==
  [phase : {"search", "select", "chosen", "none", "failed", "timeout", "answer", "merge", "done"},
   candidates : SUBSET Items, item : Items \cup {NoItem}]
WorkerRow ==
  [phase : {"rest", "search", "select", "chosen", "emit", "update", "complete"},
   job : Nat, candidates : SUBSET Items, item : Items \cup {NoItem}, decision : Nat]
TroubleRow == [taken : Nat, lapses : Nat, deleted : BOOLEAN, changes : Nat]

RecommendationShape ==
  /\ catalog \in [Items -> {"active", "paused", "deleted"}] /\ blocked \in BOOLEAN
  /\ run \in RunRow /\ worker \in [Workers -> WorkerRow] /\ trouble \in TroubleRow
  /\ decisions \in Seq(DecisionRow) /\ jobs \in Seq(JobRow) /\ shown \in Seq(ShownRow)
  /\ run.phase \in {"chosen", "merge"} => run.item \in Items
  /\ \A w \in Workers : worker[w].phase \in {"chosen", "emit", "update"} => worker[w].item \in Items

\* Who may still show something: the run until its answer, jobs that are to be
\* taken, and workers that have not sent yet.
RunOwes == IF run.phase = "done" \/ (run.phase = "answer" /\ run.item = NoItem) THEN 0 ELSE 1
JobsOwe == {j \in DOMAIN jobs : Claimable(j)}
WorkersOwe == {w \in Workers : worker[w].phase \in {"search", "select", "chosen", "emit"}}

OwedIsPaidFor ==
  Len(shown) + RunOwes + Cardinality(JobsOwe) + Cardinality(WorkersOwe) <= 1 + trouble.taken + trouble.lapses

\* A row changes in its place.
LEMMA RowChanges ==
  ASSUME NEW S, NEW q \in Seq(S), NEW n \in DOMAIN q, NEW e \in S
  PROVE  [q EXCEPT ![n] = e] \in Seq(S)
  OBVIOUS

\* A new row comes after the others.
LEMMA RowIsAppended ==
  ASSUME NEW S, NEW q \in Seq(S), NEW e \in S
  PROVE  /\ WithRow(q, e) \in Seq(S) /\ Len(WithRow(q, e)) = Len(q) + 1 /\ Len(q) \in Nat
         /\ DOMAIN WithRow(q, e) = 1..(Len(q) + 1) /\ DOMAIN q = 1..Len(q) /\ Cardinality(DOMAIN q) = Len(q)
         /\ \A i \in DOMAIN q : WithRow(q, e)[i] = q[i]
         /\ WithRow(q, e)[Len(q) + 1] = e
<1>1. Len(q) \in Nat /\ DOMAIN q = 1..Len(q)
  OBVIOUS
<1>2. Cardinality(1..Len(q)) = Len(q)
  BY SMTT(60), <1>1, FS_Interval
<1>3. WithRow(q, e) = [n \in 1..Len(q) \cup {Len(q) + 1} |-> IF n \in 1..Len(q) THEN q[n] ELSE e]
  BY <1>1, <1>2 DEF WithRow
<1>4. 1..Len(q) \cup {Len(q) + 1} = 1..(Len(q) + 1)
  BY <1>1
<1>5. WithRow(q, e) = [n \in 1..(Len(q) + 1) |-> IF n = Len(q) + 1 THEN e ELSE q[n]]
  BY <1>1, <1>3, <1>4
<1>6. WithRow(q, e) \in [1..(Len(q) + 1) -> S]
  BY <1>1, <1>5
<1>7. WithRow(q, e) \in Seq(S) /\ Len(WithRow(q, e)) = Len(q) + 1
  BY <1>1, <1>6
<1> QED
  BY <1>1, <1>2, <1>5, <1>7

\* The table after it has the rows it had, and one more.
LEMMA TableGrows ==
  ASSUME NEW S, NEW q \in Seq(S), NEW e \in S, NEW t, t = WithRow(q, e)
  PROVE  /\ t \in Seq(S) /\ \A n \in DOMAIN q : n \in DOMAIN t /\ t[n] = q[n]
         /\ \A n \in DOMAIN t : t[n] = e \/ (n \in DOMAIN q /\ t[n] = q[n])
         /\ Cardinality(DOMAIN t) \in DOMAIN t /\ t[Cardinality(DOMAIN t)] = e /\ t # q
<1>1. /\ t \in Seq(S) /\ Len(t) = Len(q) + 1 /\ Len(q) \in Nat
      /\ DOMAIN t = 1..(Len(q) + 1) /\ DOMAIN q = 1..Len(q)
      /\ \A i \in DOMAIN q : t[i] = q[i]
      /\ t[Len(q) + 1] = e
  <2>1. /\ WithRow(q, e) \in Seq(S) /\ Len(WithRow(q, e)) = Len(q) + 1 /\ Len(q) \in Nat
        /\ DOMAIN WithRow(q, e) = 1..(Len(q) + 1) /\ DOMAIN q = 1..Len(q)
        /\ \A i \in DOMAIN q : WithRow(q, e)[i] = q[i]
        /\ WithRow(q, e)[Len(q) + 1] = e
    BY ONLY q \in Seq(S), e \in S, RowIsAppended
  <2> QED
    BY <2>1
<1>2. Cardinality(DOMAIN t) = Len(q) + 1
  BY <1>1, FS_Interval
<1>3. \A n \in 1..(Len(q) + 1) : n = Len(q) + 1 \/ n \in 1..Len(q)
  BY <1>1
<1>4. \A n \in 1..Len(q) : n \in 1..(Len(q) + 1)
  BY <1>1
<1>5. Len(q) + 1 \in 1..(Len(q) + 1) /\ t # q
  BY <1>1
<1>6. \A n \in DOMAIN q : n \in DOMAIN t /\ t[n] = q[n]
  BY <1>1, <1>4
<1>7. \A n \in DOMAIN t : t[n] = e \/ (n \in DOMAIN q /\ t[n] = q[n])
  <2> SUFFICES ASSUME NEW n \in DOMAIN t PROVE t[n] = e \/ (n \in DOMAIN q /\ t[n] = q[n])
    OBVIOUS
  <2>0. Len(q) \in Nat /\ t[Len(q) + 1] = e
    BY <1>1
  <2>1. CASE n = Len(q) + 1
    BY <2>0, <2>1
  <2>2. CASE n \in 1..Len(q)
    BY <1>1, <2>2
  <2> QED
    BY <1>1, <1>3, <2>1, <2>2
<1>8. Cardinality(DOMAIN t) \in DOMAIN t /\ t[Cardinality(DOMAIN t)] = e /\ t # q
  BY <1>1, <1>2, <1>5
<1> QED
  BY <1>1, <1>6, <1>7, <1>8

\* A table whose rows are changed has as many.
LEMMA RowsChange ==
  ASSUME NEW S, NEW q \in Seq(S), NEW f \in [DOMAIN q -> S]
  PROVE  f \in Seq(S) /\ Len(f) = Len(q) /\ DOMAIN f = DOMAIN q
<1>1. Len(q) \in Nat /\ DOMAIN q = 1..Len(q)
  OBVIOUS
<1>2. f \in [1..Len(q) -> S]
  BY <1>1
<1> QED
  BY <1>1, <1>2

\* What is recorded is a row at the end, or refused for a deleted item.
LEMMA RecordedIsRow ==
  ASSUME RecommendationShape, NEW i \in Items \cup {NoItem}, NEW s \in Decisions
  PROVE  /\ Recorded(i, s) \in Seq(DecisionRow)
         /\ Recorded(i, s) = decisions \/ Recorded(i, s) = WithRow(decisions, [item |-> i, status |-> s])
         /\ i # NoItem /\ catalog[i] # "deleted" => Recorded(i, s) = WithRow(decisions, [item |-> i, status |-> s])
<1>1. [item |-> i, status |-> s] \in DecisionRow /\ decisions \in Seq(DecisionRow)
  BY DEF DecisionRow, RecommendationShape
<1>3. WithRow(decisions, [item |-> i, status |-> s]) \in Seq(DecisionRow)
  BY <1>1, RowIsAppended
<1> QED
  BY <1>1, <1>3 DEF Recorded

\* What goes wrong is counted.
LEMMA TroubleGrows ==
  ASSUME NEW t \in TroubleRow
  PROVE  /\ Changed(t) \in TroubleRow
         /\ Changed(t).taken = t.taken /\ Changed(t).lapses = t.lapses /\ Changed(t).deleted = t.deleted
         /\ [Changed(t) EXCEPT !.deleted = TRUE] \in TroubleRow
         /\ [Changed(t) EXCEPT !.deleted = TRUE].taken = t.taken
         /\ [Changed(t) EXCEPT !.deleted = TRUE].lapses = t.lapses
         /\ [t EXCEPT !.taken = @ + 1] \in TroubleRow
         /\ [t EXCEPT !.taken = @ + 1].taken = t.taken + 1
         /\ [t EXCEPT !.taken = @ + 1].lapses = t.lapses /\ [t EXCEPT !.taken = @ + 1].deleted = t.deleted
         /\ [t EXCEPT !.lapses = @ + 1] \in TroubleRow
         /\ [t EXCEPT !.lapses = @ + 1].lapses = t.lapses + 1
         /\ [t EXCEPT !.lapses = @ + 1].taken = t.taken /\ [t EXCEPT !.lapses = @ + 1].deleted = t.deleted
<1>1. /\ t.taken \in Nat /\ t.lapses \in Nat /\ t.deleted \in BOOLEAN /\ t.changes \in Nat
      /\ t = [taken |-> t.taken, lapses |-> t.lapses, deleted |-> t.deleted, changes |-> t.changes]
  BY DEF TroubleRow
<1>2. Changed(t) = [taken |-> t.taken, lapses |-> t.lapses, deleted |-> t.deleted, changes |-> t.changes + 1]
  BY <1>1 DEF Changed
<1>3. \A b : [Changed(t) EXCEPT !.deleted = b]
        = [taken |-> t.taken, lapses |-> t.lapses, deleted |-> b, changes |-> t.changes + 1]
  BY <1>2
<1>4. [t EXCEPT !.taken = @ + 1]
        = [taken |-> t.taken + 1, lapses |-> t.lapses, deleted |-> t.deleted, changes |-> t.changes]
  BY <1>1
<1>5. [t EXCEPT !.lapses = @ + 1]
        = [taken |-> t.taken, lapses |-> t.lapses + 1, deleted |-> t.deleted, changes |-> t.changes]
  BY <1>1
<1>6. /\ Changed(t) \in TroubleRow
      /\ Changed(t).taken = t.taken /\ Changed(t).lapses = t.lapses /\ Changed(t).deleted = t.deleted
  BY <1>1, <1>2 DEF TroubleRow
<1>7. /\ [Changed(t) EXCEPT !.deleted = TRUE] \in TroubleRow
      /\ [Changed(t) EXCEPT !.deleted = TRUE].taken = t.taken
      /\ [Changed(t) EXCEPT !.deleted = TRUE].lapses = t.lapses
  <2>1. PICK b \in BOOLEAN : b = TRUE
    OBVIOUS
  <2>2. [taken |-> t.taken, lapses |-> t.lapses, deleted |-> b, changes |-> t.changes + 1] \in TroubleRow
    BY <1>1 DEF TroubleRow
  <2> QED
    BY <1>3, <2>1, <2>2
<1>8. /\ [t EXCEPT !.taken = @ + 1] \in TroubleRow
      /\ [t EXCEPT !.taken = @ + 1].taken = t.taken + 1
      /\ [t EXCEPT !.taken = @ + 1].lapses = t.lapses /\ [t EXCEPT !.taken = @ + 1].deleted = t.deleted
  BY <1>1, <1>4 DEF TroubleRow
<1>9. /\ [t EXCEPT !.lapses = @ + 1] \in TroubleRow
      /\ [t EXCEPT !.lapses = @ + 1].lapses = t.lapses + 1
      /\ [t EXCEPT !.lapses = @ + 1].taken = t.taken /\ [t EXCEPT !.lapses = @ + 1].deleted = t.deleted
  BY <1>1, <1>5 DEF TroubleRow
<1> QED
  BY <1>6, <1>7, <1>8, <1>9

\* What a worker goes on with.
LEMMA WorkerMoves ==
  ASSUME NEW v \in WorkerRow
  PROVE  /\ \A C \in SUBSET Items :
              /\ [v EXCEPT !.phase = "select", !.candidates = C] \in WorkerRow
              /\ [v EXCEPT !.phase = "select", !.candidates = C].phase = "select"
         /\ \A n \in Nat :
              /\ [v EXCEPT !.phase = "emit", !.decision = n] \in WorkerRow
              /\ [v EXCEPT !.phase = "emit", !.decision = n].phase = "emit"
              /\ [v EXCEPT !.phase = "emit", !.decision = n].item = v.item
              /\ [v EXCEPT !.phase = "emit", !.decision = n].decision = n
<1>1. ASSUME NEW C \in SUBSET Items
      PROVE  /\ [v EXCEPT !.phase = "select", !.candidates = C] \in WorkerRow
             /\ [v EXCEPT !.phase = "select", !.candidates = C].phase = "select"
  BY DEF WorkerRow
<1>3. ASSUME NEW n \in Nat
      PROVE  /\ [v EXCEPT !.phase = "emit", !.decision = n] \in WorkerRow
             /\ [v EXCEPT !.phase = "emit", !.decision = n].phase = "emit"
             /\ [v EXCEPT !.phase = "emit", !.decision = n].item = v.item
             /\ [v EXCEPT !.phase = "emit", !.decision = n].decision = n
  BY DEF WorkerRow
<1> QED
  BY <1>1, <1>3

\* Types are kept.
LEMMA RecommendationKept ==
  ASSUME RecommendationConfigured
  PROVE  RecommendationSpec => []RecommendationShape
<1> USE DEF RecommendationConfigured, Decisions, JobStatuses
<1>1. RecommendationInit => RecommendationShape
  <2>1. FreshRun \in RunRow /\ FreshRun.phase = "search" /\ RestingWorker \in WorkerRow /\ RestingWorker.phase = "rest"
    BY DEF FreshRun, RunRow, RestingWorker, WorkerRow
  <2>2. [taken |-> 0, lapses |-> 0, deleted |-> FALSE, changes |-> 0] \in TroubleRow
    BY DEF TroubleRow
  <2>3. <<>> \in Seq(DecisionRow) /\ <<>> \in Seq(JobRow) /\ <<>> \in Seq(ShownRow)
    OBVIOUS
  <2> QED
    BY <2>1, <2>2, <2>3 DEF RecommendationInit, RecommendationShape
<1>2. RecommendationShape /\ [RecommendationNext]_recommendationVars => RecommendationShape'
  <2> SUFFICES ASSUME RecommendationShape, [RecommendationNext]_recommendationVars PROVE RecommendationShape'
    OBVIOUS
  <2>t. /\ trouble \in TroubleRow /\ Changed(trouble) \in TroubleRow
        /\ [Changed(trouble) EXCEPT !.deleted = TRUE] \in TroubleRow
        /\ [trouble EXCEPT !.taken = @ + 1] \in TroubleRow /\ [trouble EXCEPT !.lapses = @ + 1] \in TroubleRow
    BY TroubleGrows DEF RecommendationShape
  <2>r. FreshRun \in RunRow /\ [FreshRun EXCEPT !.phase = "answer"] \in RunRow
        /\ [FreshRun EXCEPT !.phase = "done"] \in RunRow
    BY DEF FreshRun, RunRow
  <2>w. RestingWorker \in WorkerRow /\ RestingWorker.phase = "rest"
    BY DEF RestingWorker, WorkerRow
  <2>d. \A i \in Items \cup {NoItem}, s \in Decisions : Recorded(i, s) \in Seq(DecisionRow)
    BY RecordedIsRow
  <2>c. ASSUME NEW w \in Workers, NEW s \in JobStatuses, CompleteRecommendationJob(w, s)
        PROVE  /\ jobs' \in Seq(JobRow)
               /\ worker' \in [Workers -> WorkerRow]
               /\ \A v \in Workers : worker'[v].phase \in {"chosen", "emit", "update"} => worker'[v].item \in Items
    <3>1. [status |-> s, holder |-> NoItem] \in JobRow /\ jobs \in Seq(JobRow)
      BY DEF JobRow, RecommendationShape
    <3>2. jobs' \in Seq(JobRow)
      <4>1. CASE worker[w].job \in DOMAIN jobs
        BY <2>c, <3>1, <4>1, RowChanges DEF CompleteRecommendationJob
      <4>2. CASE worker[w].job \notin DOMAIN jobs
        <5>1. jobs \in [DOMAIN jobs -> JobRow]
          BY <3>1
        <5> QED
          BY <2>c, <3>1, <4>2, <5>1 DEF CompleteRecommendationJob
      <4> QED
        BY <4>1, <4>2
    <3> QED
      BY <2>c, <2>w, <3>2 DEF CompleteRecommendationJob, RecommendationShape
  <2>1. ASSUME NEW i \in Items, NEW s \in {"active", "paused"}, UpdateRecommendationItem(i, s)
        PROVE  RecommendationShape'
    BY <2>1, <2>t DEF UpdateRecommendationItem, RecommendationShape
  <2>2. ASSUME NEW i \in Items, DeleteRecommendationItem(i)
        PROVE  RecommendationShape'
    <3>1. decisions' \in [DOMAIN decisions -> DecisionRow]
      <4>1. \A d \in DecisionRow : [d EXCEPT !.item = NoItem] \in DecisionRow
        BY DEF DecisionRow
      <4> QED
        BY <2>2, <4>1 DEF DeleteRecommendationItem, RecommendationShape
    <3>2. decisions' \in Seq(DecisionRow)
      BY <3>1, RowsChange DEF RecommendationShape
    <3> QED
      BY <2>2, <3>2, <2>t DEF DeleteRecommendationItem, RecommendationShape
  <2>3. CASE MergeSessionMetadata
    BY <2>3, <2>t DEF MergeSessionMetadata, RecommendationShape
  <2>4. CASE StartRecommendationSidecar
    BY ZenonT(60), <2>4 DEF StartRecommendationSidecar, SearchRecommendationItems, RunRow, RecommendationShape
  <2>5. CASE RunRecommendationSelection
    BY <2>5 DEF RunRecommendationSelection, RunRow, RecommendationShape
  <2>6. CASE ApplyRecommendationResult
    <3>1. decisions' \in Seq(DecisionRow)
      BY <2>6, <2>d DEF ApplyRecommendationResult, RecommendationShape
    <3>2. jobs' \in Seq(JobRow)
      <4>1. [status |-> "queued", holder |-> NoItem] \in JobRow /\ jobs \in Seq(JobRow)
        BY DEF JobRow, RecommendationShape
      <4> QED
        <5>1. WithRow(jobs, [status |-> "queued", holder |-> NoItem]) \in Seq(JobRow)
          BY <4>1, RowIsAppended
        <5> QED
          BY <2>6, <4>1, <5>1 DEF ApplyRecommendationResult, EnqueueRecommendationJob
    <3> QED
      BY <2>6, <2>r, <3>1, <3>2 DEF ApplyRecommendationResult, FreshRun, RecommendationShape
  <2>7. CASE RecommendationSuppressed
    BY <2>7, <2>d, <2>r DEF RecommendationSuppressed, FreshRun, RunRow, RecommendationShape
  <2>8. CASE BeginMerge
    BY <2>8 DEF BeginMerge, RunRow, RecommendationShape
  <2>9. CASE MergeRecommendation
    <3>1. run \in RunRow /\ [run EXCEPT !.phase = "answer"] \in RunRow
      BY DEF RunRow, RecommendationShape
    <3>2. decisions' \in Seq(DecisionRow)
      BY <2>9, <2>d, <3>1 DEF MergeRecommendation, RunRow
    <3>3. run' \in RunRow /\ run'.phase = "answer"
      BY <2>9, <2>r, <3>1 DEF MergeRecommendation, FreshRun, RunRow
    <3> QED
      BY <2>9, <3>2, <3>3 DEF MergeRecommendation, RecommendationShape
  <2>10. CASE EmitFinalOutbound
    <3>1. CASE run.item = NoItem
      BY <2>10, <2>r, <3>1 DEF EmitFinalOutbound, FreshRun, RecommendationShape
    <3>2. CASE run.item # NoItem
      <4>1. [item |-> run.item, how |-> "inline_merged"] \in ShownRow /\ shown \in Seq(ShownRow)
        BY <3>2 DEF ShownRow, RunRow, RecommendationShape
      <4>2. shown' \in Seq(ShownRow)
        BY <2>10, <3>2, <4>1, RowIsAppended DEF EmitFinalOutbound, Show
      <4> QED
        BY <2>10, <2>r, <4>2 DEF EmitFinalOutbound, FreshRun, RecommendationShape
    <3> QED
      BY <3>1, <3>2
  <2>11. CASE RunIsTakenUpAgain
    BY <2>11, <2>t, <2>r DEF RunIsTakenUpAgain, FreshRun, RecommendationShape
  <2>12. ASSUME NEW j \in DOMAIN jobs, JobLeaseLapses(j)
         PROVE  RecommendationShape'
    <3>1. jobs' \in [DOMAIN jobs -> JobRow]
      <4>1. \A d \in JobRow : [d EXCEPT !.holder = NoItem] \in JobRow
        BY DEF JobRow
      <4>2. jobs[j] \in JobRow /\ jobs' = [jobs EXCEPT ![j] = [jobs[j] EXCEPT !.holder = NoItem]]
        BY <2>12 DEF JobLeaseLapses, RecommendationShape
      <4>3. jobs \in [DOMAIN jobs -> JobRow]
        BY DEF RecommendationShape
      <4> QED
        BY <4>1, <4>2, <4>3
    <3>2. jobs' \in Seq(JobRow)
      BY <3>1, RowsChange DEF RecommendationShape
    <3> QED
      BY <2>12, <2>t, <3>2 DEF JobLeaseLapses, RecommendationShape
  <2>13. ASSUME NEW w \in Workers, ClaimRecommendationJobs(w)
         PROVE  RecommendationShape'
    <3>1. PICK j \in DOMAIN jobs :
            /\ jobs' = [jobs EXCEPT ![j] = [status |-> "leased", holder |-> w]]
            /\ worker' = [worker EXCEPT ![w] = [RestingWorker EXCEPT !.phase = "search", !.job = j]]
      BY <2>13 DEF ClaimRecommendationJobs
    <3>2. [status |-> "leased", holder |-> w] \in JobRow /\ jobs \in Seq(JobRow) /\ j \in Nat
      BY DEF JobRow, RecommendationShape
    <3>3. jobs' \in Seq(JobRow)
      BY <3>1, <3>2, RowChanges
    <3> QED
      BY <2>13, <3>1, <3>2, <3>3 DEF ClaimRecommendationJobs, RestingWorker, WorkerRow, RecommendationShape
  <2>14. ASSUME NEW w \in Workers, WorkerDies(w)
         PROVE  RecommendationShape'
    BY <2>14, <2>w DEF WorkerDies, RestingWorker, RecommendationShape
  <2>15. ASSUME NEW w \in Workers, ProcessSearches(w)
         PROVE  RecommendationShape'
    <3>1. PICK C \in SUBSET Items : worker' = [worker EXCEPT ![w].phase = "select", ![w].candidates = C]
      BY <2>15 DEF ProcessSearches, SearchRecommendationItems
    <3>2. worker[w] \in WorkerRow
      BY DEF RecommendationShape
    <3>3. worker' = [worker EXCEPT ![w] = [worker[w] EXCEPT !.phase = "select", !.candidates = C]]
      BY <3>1 DEF RecommendationShape
    <3>4. /\ [worker[w] EXCEPT !.phase = "select", !.candidates = C] \in WorkerRow
          /\ [worker[w] EXCEPT !.phase = "select", !.candidates = C].phase = "select"
      BY ONLY <3>2, C \in SUBSET Items, WorkerMoves
    <3> QED
      BY <2>15, <3>3, <3>4 DEF ProcessSearches, RecommendationShape
  <2>16. ASSUME NEW w \in Workers, ProcessSelects(w)
         PROVE  RecommendationShape'
    <3>1. PICK i \in worker[w].candidates :
            worker' = [worker EXCEPT ![w].phase = "chosen", ![w].candidates = {}, ![w].item = i]
      BY <2>16 DEF ProcessSelects
    <3>2. worker[w] \in WorkerRow
      BY DEF RecommendationShape
    <3>3. worker' = [worker EXCEPT ![w] = [worker[w] EXCEPT !.phase = "chosen", !.candidates = {}, !.item = i]]
      BY <3>1 DEF RecommendationShape
    <3>4. i \in Items
      BY <3>2 DEF WorkerRow
    <3>5. PICK v \in WorkerRow : v = worker[w]
      BY <3>2
    <3>6. PICK x \in WorkerRow : x = [v EXCEPT !.phase = "chosen", !.candidates = {}, !.item = i] /\ x.item = i
      <4>1. PICK C \in SUBSET Items : C = {}
        OBVIOUS
      <4>2. /\ [v EXCEPT !.phase = "chosen", !.candidates = C, !.item = i] \in WorkerRow
            /\ [v EXCEPT !.phase = "chosen", !.candidates = C, !.item = i].item = i
        BY <3>4 DEF WorkerRow
      <4> QED
        BY <4>1, <4>2
    <3>7. worker' = [worker EXCEPT ![w] = x]
      BY <3>3, <3>5, <3>6
    <3> QED
      BY <2>16, <3>4, <3>6, <3>7 DEF ProcessSelects, RecommendationShape
  <2>17. ASSUME NEW w \in Workers, ProcessFindsNone(w)
         PROVE  RecommendationShape'
    BY <2>17, <2>c, <2>d DEF ProcessFindsNone, WorkerRow, RecommendationShape
  <2>18. ASSUME NEW w \in Workers, ProcessFails(w)
         PROVE  RecommendationShape'
    BY <2>18, <2>c DEF ProcessFails, WorkerRow, RecommendationShape
  <2>19. ASSUME NEW w \in Workers, ProcessDecides(w)
         PROVE  RecommendationShape'
    <3>1. CASE blocked
      <4>1. decisions' \in Seq(DecisionRow)
        <5>1. worker[w].item \in Items
          BY <2>19 DEF ProcessDecides, RecommendationShape
        <5> QED
          BY <2>19, <2>d, <3>1, <5>1 DEF ProcessDecides
      <4>2. CompleteRecommendationJob(w, "cancelled")
        BY <2>19, <3>1 DEF ProcessDecides
      <4> QED
        BY <2>19, <2>c, <4>1, <4>2 DEF ProcessDecides, RecommendationShape
    <3>2. CASE ~blocked
      <4>1. decisions' \in Seq(DecisionRow)
        BY <2>19, <2>d, <3>2 DEF ProcessDecides, WorkerRow, RecommendationShape
      <4>2. Cardinality(DOMAIN decisions') = Len(decisions') /\ Len(decisions') \in Nat
        <5>1. [item |-> NoItem, status |-> "failed"] \in DecisionRow
          BY DEF DecisionRow, Decisions
        <5> QED
          BY <4>1, <5>1, RowIsAppended
      <4> QED
        <5>1. PICK n \in Nat : worker' = [worker EXCEPT ![w].phase = "emit", ![w].decision = n]
          BY <2>19, <3>2, <4>2 DEF ProcessDecides
        <5>2. worker[w] \in WorkerRow
          BY DEF RecommendationShape
        <5>3. worker' = [worker EXCEPT ![w] = [worker[w] EXCEPT !.phase = "emit", !.decision = n]]
          BY <5>1 DEF RecommendationShape
        <5>4. /\ [worker[w] EXCEPT !.phase = "emit", !.decision = n] \in WorkerRow
              /\ [worker[w] EXCEPT !.phase = "emit", !.decision = n].item = worker[w].item
          BY ONLY <5>2, n \in Nat, WorkerMoves
        <5> QED
          BY <2>19, <3>2, <4>1, <5>3, <5>4 DEF ProcessDecides, RecommendationShape
    <3> QED
      BY <3>1, <3>2
  <2>20. ASSUME NEW w \in Workers, ProcessEmits(w)
         PROVE  RecommendationShape'
    <3>1. [item |-> worker[w].item, how |-> "outbound_queued"] \in ShownRow /\ shown \in Seq(ShownRow)
      BY <2>20 DEF ProcessEmits, ShownRow, WorkerRow, RecommendationShape
    <3>2. shown' \in Seq(ShownRow)
      BY <2>20, <3>1, RowIsAppended DEF ProcessEmits, Show
    <3> QED
      BY ZenonT(60), <2>20, <3>2 DEF ProcessEmits, WorkerRow, RecommendationShape
  <2>21. ASSUME NEW w \in Workers, UpdateRecommendationDecisionStatus(w)
         PROVE  RecommendationShape'
    <3>1. decisions' \in [DOMAIN decisions -> DecisionRow]
      <4>1. \A d \in DecisionRow : [d EXCEPT !.status = "outbound_queued"] \in DecisionRow
        BY DEF DecisionRow
      <4> QED
        BY <2>21, <4>1 DEF UpdateRecommendationDecisionStatus, RecommendationShape
    <3>2. decisions' \in Seq(DecisionRow)
      BY <3>1, RowsChange DEF RecommendationShape
    <3> QED
      BY ZenonT(60), <2>21, <3>2 DEF UpdateRecommendationDecisionStatus, WorkerRow, RecommendationShape
  <2>22. ASSUME NEW w \in Workers, ProcessCompletes(w)
         PROVE  RecommendationShape'
    BY <2>22, <2>c DEF ProcessCompletes, WorkerRow, RecommendationShape
  <2>23. CASE UNCHANGED recommendationVars
    BY <2>23 DEF recommendationVars, RecommendationShape
  <2> QED
    BY <2>1, <2>2, <2>3, <2>4, <2>5, <2>6, <2>7, <2>8, <2>9, <2>10, <2>11, <2>12, <2>13, <2>14, <2>15, <2>16, <2>17,
       <2>18, <2>19, <2>20, <2>21, <2>22, <2>23 DEF RecommendationNext
<1> QED
  BY <1>1, <1>2, PTL DEF RecommendationSpec

\* A set grows by at most one element, or shrinks.
LEMMA CountsStay ==
  ASSUME NEW S, IsFiniteSet(S), NEW T
  PROVE  /\ Cardinality(S) \in Nat
         /\ T \subseteq S => IsFiniteSet(T) /\ Cardinality(T) \in Nat /\ Cardinality(T) <= Cardinality(S)
         /\ \A x : T \subseteq S \cup {x} =>
              IsFiniteSet(T) /\ Cardinality(T) \in Nat /\ Cardinality(T) <= Cardinality(S) + 1
         /\ \A x \in S : T \subseteq S \ {x} =>
              IsFiniteSet(T) /\ Cardinality(T) \in Nat /\ Cardinality(T) <= Cardinality(S) - 1
<1>1. Cardinality(S) \in Nat
  BY FS_CardinalityType
<1>2. ASSUME T \subseteq S
      PROVE  IsFiniteSet(T) /\ Cardinality(T) \in Nat /\ Cardinality(T) <= Cardinality(S)
  BY <1>2, FS_Subset, FS_CardinalityType
<1>3. ASSUME NEW x, T \subseteq S \cup {x}
      PROVE  IsFiniteSet(T) /\ Cardinality(T) \in Nat /\ Cardinality(T) <= Cardinality(S) + 1
  <2>1. PICK R : R = S \cup {x}
    OBVIOUS
  <2>2. IsFiniteSet(R) /\ Cardinality(R) <= Cardinality(S) + 1
    BY <1>1, <2>1, FS_AddElement
  <2>3. IsFiniteSet(T) /\ Cardinality(T) \in Nat /\ Cardinality(R) \in Nat /\ Cardinality(T) <= Cardinality(R)
    BY <1>3, <2>1, <2>2, FS_Subset, FS_CardinalityType
  <2> QED
    BY <1>1, <2>2, <2>3
<1>4. ASSUME NEW x \in S, T \subseteq S \ {x}
      PROVE  IsFiniteSet(T) /\ Cardinality(T) \in Nat /\ Cardinality(T) <= Cardinality(S) - 1
  <2>1. PICK R : R = S \ {x}
    OBVIOUS
  <2>2. IsFiniteSet(R) /\ Cardinality(R) = Cardinality(S) - 1
    BY <1>1, <2>1, FS_RemoveElement
  <2>3. IsFiniteSet(T) /\ Cardinality(T) \in Nat /\ Cardinality(R) \in Nat /\ Cardinality(T) <= Cardinality(R)
    BY <1>4, <2>1, <2>2, FS_Subset, FS_CardinalityType
  <2> QED
    BY <1>1, <2>2, <2>3
<1> QED
  BY <1>1, <1>2, <1>3, <1>4

\* What is owed is counted.
LEMMA OwedIsCounted ==
  ASSUME RecommendationConfigured, RecommendationShape
  PROVE  /\ IsFiniteSet(JobsOwe) /\ Cardinality(JobsOwe) \in Nat
         /\ IsFiniteSet(WorkersOwe) /\ Cardinality(WorkersOwe) \in Nat
         /\ RunOwes \in 0..1 /\ Len(shown) \in Nat /\ Cardinality(DOMAIN shown) = Len(shown)
         /\ trouble.taken \in Nat /\ trouble.lapses \in Nat
<1>1. DOMAIN jobs = 1..Len(jobs) /\ Len(jobs) \in Nat /\ DOMAIN shown = 1..Len(shown) /\ Len(shown) \in Nat
  BY DEF RecommendationShape
<1>2. IsFiniteSet(DOMAIN jobs) /\ Cardinality(DOMAIN shown) = Len(shown)
  <2>1. \A n \in Nat : IsFiniteSet(1..n) /\ Cardinality(1..n) = n
    BY FS_Interval
  <2> QED
    BY <1>1, <2>1
<1>3. JobsOwe \subseteq DOMAIN jobs /\ WorkersOwe \subseteq Workers
  BY DEF JobsOwe, WorkersOwe
<1>4. IsFiniteSet(JobsOwe) /\ IsFiniteSet(WorkersOwe)
  BY <1>2, <1>3, FS_Subset DEF RecommendationConfigured
<1>5. trouble.taken \in Nat /\ trouble.lapses \in Nat
  BY DEF RecommendationShape, TroubleRow
<1> QED
  BY <1>1, <1>2, <1>4, <1>5, FS_CardinalityType DEF RunOwes

\* What is done with a job it is no longer to be taken for.
LEMMA CompletedOwesNothing ==
  ASSUME RecommendationShape, NEW w \in Workers, NEW s \in JobStatuses \ {"queued", "leased"},
         CompleteRecommendationJob(w, s)
  PROVE  JobsOwe' \subseteq JobsOwe /\ WorkersOwe' \subseteq WorkersOwe \ {w} /\ worker' = [worker EXCEPT ![w] = RestingWorker]
<1>1. JobsOwe' \subseteq JobsOwe
  BY DEF CompleteRecommendationJob, JobsOwe, Claimable, RecommendationShape
<1>2. worker' = [worker EXCEPT ![w] = RestingWorker] /\ RestingWorker.phase = "rest"
  BY DEF CompleteRecommendationJob, RestingWorker
<1> QED
  BY <1>1, <1>2 DEF WorkersOwe, RecommendationShape

\* A message gets one recommendation: a second one is paid for by a life of the run
\* or by a lapse of a job's lease (RunRecommendationSelection, ProcessNext).
THEOREM RecommendedOnce ==
  ASSUME RecommendationConfigured
  PROVE  RecommendationSpec => []OneRecommendation
<1>1. RecommendationInit => OwedIsPaidFor
  <2> SUFFICES ASSUME RecommendationInit PROVE OwedIsPaidFor
    OBVIOUS
  <2>1. JobsOwe = {} /\ WorkersOwe = {} /\ RunOwes = 1 /\ Len(shown) = 0
    BY DEF RecommendationInit, JobsOwe, WorkersOwe, RunOwes, FreshRun, RestingWorker
  <2> QED
    BY <2>1, FS_EmptySet DEF RecommendationInit, OwedIsPaidFor
<1>2. RecommendationShape /\ RecommendationShape' /\ OwedIsPaidFor /\ [RecommendationNext]_recommendationVars
        => OwedIsPaidFor'
  <2> SUFFICES ASSUME RecommendationShape, RecommendationShape', OwedIsPaidFor,
                      [RecommendationNext]_recommendationVars
               PROVE  OwedIsPaidFor'
    OBVIOUS
  <2>c. /\ IsFiniteSet(JobsOwe) /\ Cardinality(JobsOwe) \in Nat
        /\ IsFiniteSet(WorkersOwe) /\ Cardinality(WorkersOwe) \in Nat
        /\ RunOwes \in 0..1 /\ Len(shown) \in Nat
        /\ trouble.taken \in Nat /\ trouble.lapses \in Nat
    BY OwedIsCounted
  <2>d. /\ Cardinality(JobsOwe') \in Nat /\ Cardinality(WorkersOwe') \in Nat
        /\ RunOwes' \in 0..1 /\ Len(shown') \in Nat
        /\ trouble'.taken \in Nat /\ trouble'.lapses \in Nat
    <3>1. JobsOwe' \subseteq DOMAIN jobs' /\ WorkersOwe' \subseteq Workers
      BY DEF JobsOwe, WorkersOwe
    <3>2. DOMAIN jobs' = 1..Len(jobs') /\ Len(jobs') \in Nat /\ Len(shown') \in Nat
      BY DEF RecommendationShape
    <3>3. IsFiniteSet(DOMAIN jobs')
      BY <3>2, FS_Interval
    <3>4. IsFiniteSet(JobsOwe') /\ IsFiniteSet(WorkersOwe')
      BY <3>1, <3>3, FS_Subset DEF RecommendationConfigured
    <3>5. trouble'.taken \in Nat /\ trouble'.lapses \in Nat
      BY DEF RecommendationShape, TroubleRow
    <3> QED
      BY <3>2, <3>4, <3>5, FS_CardinalityType DEF RunOwes
  <2>j. /\ JobsOwe' \subseteq JobsOwe => Cardinality(JobsOwe') <= Cardinality(JobsOwe)
        /\ \A x : JobsOwe' \subseteq JobsOwe \cup {x} => Cardinality(JobsOwe') <= Cardinality(JobsOwe) + 1
        /\ \A x \in JobsOwe : JobsOwe' \subseteq JobsOwe \ {x} => Cardinality(JobsOwe') <= Cardinality(JobsOwe) - 1
    BY <2>c, CountsStay
  <2>w. /\ WorkersOwe' \subseteq WorkersOwe => Cardinality(WorkersOwe') <= Cardinality(WorkersOwe)
        /\ \A x : WorkersOwe' \subseteq WorkersOwe \cup {x} => Cardinality(WorkersOwe') <= Cardinality(WorkersOwe) + 1
        /\ \A x \in WorkersOwe : WorkersOwe' \subseteq WorkersOwe \ {x} =>
             Cardinality(WorkersOwe') <= Cardinality(WorkersOwe) - 1
    BY <2>c, CountsStay
  <2>u. (jobs' = jobs => JobsOwe' = JobsOwe) /\ (worker' = worker => WorkersOwe' = WorkersOwe)
    BY DEF JobsOwe, WorkersOwe, Claimable
  <2>1. CASE /\ jobs' = jobs /\ worker' = worker /\ shown' = shown /\ RunOwes' <= RunOwes
             /\ trouble'.taken = trouble.taken /\ trouble'.lapses = trouble.lapses
    BY SMTT(60), <2>1, <2>c, <2>d, <2>u DEF OwedIsPaidFor
  <2>2. ASSUME NEW i \in Items, DeleteRecommendationItem(i) \/ \E s \in {"active", "paused"} : UpdateRecommendationItem(i, s)
        PROVE  OwedIsPaidFor'
    <3>1. trouble'.taken = trouble.taken /\ trouble'.lapses = trouble.lapses
      BY <2>2, TroubleGrows DEF DeleteRecommendationItem, UpdateRecommendationItem, RecommendationShape
    <3> QED
      BY <2>1, <2>2, <2>c, <3>1 DEF DeleteRecommendationItem, UpdateRecommendationItem, RunOwes
  <2>3. CASE MergeSessionMetadata
    <3>1. trouble'.taken = trouble.taken /\ trouble'.lapses = trouble.lapses
      BY <2>3, TroubleGrows DEF MergeSessionMetadata, RecommendationShape
    <3> QED
      BY <2>1, <2>3, <2>c, <3>1 DEF MergeSessionMetadata, RunOwes
  <2>4. CASE StartRecommendationSidecar \/ RunRecommendationSelection \/ RecommendationSuppressed \/ BeginMerge \/ MergeRecommendation
    <3>1. RunOwes = 1
      BY <2>4 DEF StartRecommendationSidecar, RunRecommendationSelection, RecommendationSuppressed, BeginMerge,
         MergeRecommendation, RunOwes
    <3>2. UNCHANGED <<jobs, worker, shown, trouble>>
      BY <2>4 DEF StartRecommendationSidecar, RunRecommendationSelection,
         RecommendationSuppressed, BeginMerge, MergeRecommendation
    <3> QED
      BY <2>1, <2>d, <3>1, <3>2
  <2>5. CASE ApplyRecommendationResult
    <3>1. RunOwes = 1 /\ RunOwes' = 0
      BY <2>5 DEF ApplyRecommendationResult, FreshRun, RunOwes
    <3>2. \E x : JobsOwe' \subseteq JobsOwe \cup {x}
      <4>1. [status |-> "queued", holder |-> NoItem] \in JobRow /\ jobs \in Seq(JobRow)
        BY DEF JobRow, RecommendationShape, JobStatuses
      <4>2. CASE jobs' = jobs
        BY <2>u, <4>2
      <4>3. CASE jobs' = WithRow(jobs, [status |-> "queued", holder |-> NoItem])
        <5>1. DOMAIN jobs' = DOMAIN jobs \cup {Len(jobs) + 1} /\ \A j \in DOMAIN jobs : jobs'[j] = jobs[j]
          <6>1. PICK e \in JobRow : e = [status |-> "queued", holder |-> NoItem]
            BY <4>1
          <6>2. /\ DOMAIN WithRow(jobs, e) = 1..(Len(jobs) + 1) /\ DOMAIN jobs = 1..Len(jobs) /\ Len(jobs) \in Nat
                /\ \A j \in DOMAIN jobs : WithRow(jobs, e)[j] = jobs[j]
            BY ONLY <4>1, e \in JobRow, RowIsAppended
          <6>3. \A n \in Nat : 1..(n + 1) = 1..n \cup {n + 1}
            OBVIOUS
          <6>4. DOMAIN WithRow(jobs, e) = DOMAIN jobs \cup {Len(jobs) + 1}
            BY ONLY <6>2, <6>3
          <6> QED
            BY <4>3, <6>1, <6>2, <6>4
        <5>2. JobsOwe' \subseteq JobsOwe \cup {Len(jobs) + 1}
          BY <5>1 DEF JobsOwe, Claimable
        <5> QED
          BY <5>2
      <4> QED
        BY <2>5, <4>2, <4>3 DEF ApplyRecommendationResult, EnqueueRecommendationJob
    <3>3. Cardinality(JobsOwe') <= Cardinality(JobsOwe) + 1
      BY <2>j, <3>2
    <3>4. WorkersOwe' = WorkersOwe /\ trouble' = trouble /\ shown' = shown
      BY <2>5, <2>u DEF ApplyRecommendationResult
    <3> QED
      BY SMTT(60), <2>c, <2>d, <3>1, <3>3, <3>4 DEF OwedIsPaidFor
  <2>6. CASE EmitFinalOutbound
    <3>1. RunOwes' = 0
      BY <2>6 DEF EmitFinalOutbound, FreshRun, RunOwes
    <3>2. CASE run.item = NoItem
      BY <2>1, <2>6, <2>c, <3>1, <3>2 DEF EmitFinalOutbound
    <3>3. CASE run.item # NoItem
      <4>1. [item |-> run.item, how |-> "inline_merged"] \in ShownRow /\ shown \in Seq(ShownRow) /\ RunOwes = 1
        BY <2>6, <3>3 DEF ShownRow, RunRow, RecommendationShape, EmitFinalOutbound, RunOwes
      <4>2. Len(shown') = Len(shown) + 1
        BY <2>6, <3>3, <4>1, RowIsAppended DEF EmitFinalOutbound, Show
      <4> QED
        BY <2>6, <2>c, <2>d, <2>u, <3>1, <4>1, <4>2 DEF EmitFinalOutbound, OwedIsPaidFor
    <3> QED
      BY <3>2, <3>3
  <2>7. CASE RunIsTakenUpAgain
    <3>1. trouble'.taken = trouble.taken + 1 /\ trouble'.lapses = trouble.lapses
      BY <2>7, TroubleGrows DEF RunIsTakenUpAgain, RecommendationShape
    <3>2. JobsOwe' = JobsOwe /\ WorkersOwe' = WorkersOwe /\ shown' = shown
      BY <2>7, <2>u DEF RunIsTakenUpAgain
    <3>3. RunOwes' = 1 /\ Len(shown') = Len(shown)
      BY <2>7, <3>2 DEF RunIsTakenUpAgain, FreshRun, RunOwes
    <3>4. CASE RunOwes = 1
      BY <2>c, <3>1, <3>2, <3>3, <3>4 DEF OwedIsPaidFor
    <3>5. CASE RunOwes = 0
      BY SMTT(60), <2>c, <3>1, <3>2, <3>3, <3>5 DEF OwedIsPaidFor
    <3> QED
      BY <2>c, <3>4, <3>5
  <2>8. ASSUME NEW j \in DOMAIN jobs, JobLeaseLapses(j)
        PROVE  OwedIsPaidFor'
    <3>1. trouble'.taken = trouble.taken /\ trouble'.lapses = trouble.lapses + 1
      BY <2>8, TroubleGrows DEF JobLeaseLapses, RecommendationShape
    <3>2. JobsOwe' \subseteq JobsOwe \cup {j}
      BY <2>8 DEF JobLeaseLapses, JobsOwe, Claimable, RecommendationShape
    <3>3. Cardinality(JobsOwe') <= Cardinality(JobsOwe) + 1
      BY <2>j, <3>2
    <3>4. RunOwes' = RunOwes /\ WorkersOwe' = WorkersOwe /\ shown' = shown
      BY <2>8, <2>u DEF JobLeaseLapses, RunOwes
    <3> QED
      BY SMTT(60), <2>c, <2>d, <3>1, <3>3, <3>4 DEF OwedIsPaidFor
  <2>9. ASSUME NEW w \in Workers, ClaimRecommendationJobs(w)
        PROVE  OwedIsPaidFor'
    <3>1. PICK j \in DOMAIN jobs :
            /\ Claimable(j)
            /\ jobs' = [jobs EXCEPT ![j] = [status |-> "leased", holder |-> w]]
            /\ worker' = [worker EXCEPT ![w] = [RestingWorker EXCEPT !.phase = "search", !.job = j]]
      BY <2>9 DEF ClaimRecommendationJobs
    <3>2. j \in JobsOwe /\ JobsOwe' \subseteq JobsOwe \ {j}
      BY <3>1 DEF JobsOwe, Claimable, RecommendationShape, RecommendationConfigured
    <3>3. WorkersOwe' \subseteq WorkersOwe \cup {w}
      BY <3>1 DEF WorkersOwe, RecommendationShape
    <3>4. RunOwes' = RunOwes /\ trouble' = trouble /\ shown' = shown
      BY <2>9 DEF ClaimRecommendationJobs, RunOwes
    <3>5. Cardinality(JobsOwe') <= Cardinality(JobsOwe) - 1
      BY <2>j, <3>2
    <3>6. Cardinality(WorkersOwe') <= Cardinality(WorkersOwe) + 1
      BY <2>w, <3>3
    <3> QED
      BY SMTT(60), <2>c, <2>d, <3>4, <3>5, <3>6 DEF OwedIsPaidFor
  <2>10. ASSUME NEW w \in Workers, NEW s \in JobStatuses \ {"queued", "leased"}, CompleteRecommendationJob(w, s),
                run' = run /\ trouble' = trouble /\ shown' = shown
         PROVE  OwedIsPaidFor'
    <3>1. JobsOwe' \subseteq JobsOwe /\ WorkersOwe' \subseteq WorkersOwe
      BY <2>10, CompletedOwesNothing
    <3>2. RunOwes' = RunOwes
      BY <2>10 DEF RunOwes
    <3> QED
      BY SMTT(60), <2>10, <2>c, <2>d, <2>j, <2>w, <3>1, <3>2 DEF OwedIsPaidFor
  <2>11. ASSUME NEW w \in Workers,
                WorkerDies(w) \/ ProcessSearches(w) \/ ProcessSelects(w) \/ UpdateRecommendationDecisionStatus(w)
         PROVE  OwedIsPaidFor'
    <3>1. WorkersOwe' \subseteq WorkersOwe
      <4>1. \A v \in Workers \ {w} : worker'[v] = worker[v]
        BY <2>11 DEF WorkerDies, ProcessSearches, ProcessSelects, UpdateRecommendationDecisionStatus,
           RecommendationShape
      <4>2. w \in WorkersOwe \/ worker'[w].phase \in {"rest", "complete"}
        <5>1. CASE WorkerDies(w)
          <6>1. worker'[w] = RestingWorker
            BY <5>1 DEF WorkerDies, RecommendationShape
          <6> QED
            BY <6>1 DEF RestingWorker
        <5>2. CASE ProcessSearches(w) \/ ProcessSelects(w)
          BY <5>2 DEF ProcessSearches, ProcessSelects, WorkersOwe
        <5>3. CASE UpdateRecommendationDecisionStatus(w)
          <6>1. worker' = [worker EXCEPT ![w] = [worker[w] EXCEPT !.phase = "complete"]] /\ worker[w] \in WorkerRow
            BY <5>3 DEF UpdateRecommendationDecisionStatus, RecommendationShape
          <6> QED
            BY <6>1 DEF RecommendationShape, WorkerRow
        <5> QED
          BY <2>11, <5>1, <5>2, <5>3
      <4> QED
        BY <4>1, <4>2 DEF WorkersOwe
    <3>2. RunOwes' = RunOwes /\ trouble' = trouble /\ shown' = shown /\ jobs' = jobs
      BY <2>11 DEF WorkerDies, ProcessSearches, ProcessSelects, UpdateRecommendationDecisionStatus, RunOwes
    <3> QED
      BY SMTT(60), <2>c, <2>d, <2>u, <2>w, <3>1, <3>2 DEF OwedIsPaidFor
  <2>12. ASSUME NEW w \in Workers, ProcessFindsNone(w) \/ ProcessFails(w) \/ ProcessCompletes(w)
         PROVE  OwedIsPaidFor'
    BY <2>10, <2>12 DEF ProcessFindsNone, ProcessFails, ProcessCompletes, JobStatuses
  <2>13. ASSUME NEW w \in Workers, ProcessDecides(w)
         PROVE  OwedIsPaidFor'
    <3>1. CASE blocked
      BY <2>10, <2>13, <3>1 DEF ProcessDecides, JobStatuses
    <3>2. CASE ~blocked
      <4>1. WorkersOwe' \subseteq WorkersOwe
        BY <2>13, <3>2 DEF ProcessDecides, WorkersOwe, RecommendationShape
      <4>2. RunOwes' = RunOwes /\ trouble' = trouble /\ shown' = shown /\ jobs' = jobs
        BY <2>13, <3>2 DEF ProcessDecides, RunOwes
      <4> QED
        BY SMTT(60), <2>c, <2>d, <2>u, <2>w, <4>1, <4>2 DEF OwedIsPaidFor
    <3> QED
      BY <3>1, <3>2
  <2>14. ASSUME NEW w \in Workers, ProcessEmits(w)
         PROVE  OwedIsPaidFor'
    <3>1. [item |-> worker[w].item, how |-> "outbound_queued"] \in ShownRow /\ shown \in Seq(ShownRow)
      BY <2>14 DEF ProcessEmits, ShownRow, WorkerRow, RecommendationShape
    <3>2. Len(shown') = Len(shown) + 1
      BY <2>14, <3>1, RowIsAppended DEF ProcessEmits, Show
    <3>3. w \in WorkersOwe /\ WorkersOwe' \subseteq WorkersOwe \ {w}
      BY <2>14 DEF ProcessEmits, WorkersOwe, RecommendationShape
    <3>4. RunOwes' = RunOwes /\ trouble' = trouble /\ jobs' = jobs
      BY <2>14 DEF ProcessEmits, RunOwes
    <3>5. Cardinality(WorkersOwe') <= Cardinality(WorkersOwe) - 1
      BY <2>w, <3>3
    <3> QED
      BY SMTT(60), <2>c, <2>d, <2>u, <3>2, <3>4, <3>5 DEF OwedIsPaidFor
  <2>15. CASE UNCHANGED recommendationVars
    BY <2>1, <2>15, <2>c DEF recommendationVars, RunOwes
  <2> QED
    BY <2>2, <2>3, <2>4, <2>5, <2>6, <2>7, <2>8, <2>9, <2>11, <2>12, <2>13, <2>14, <2>15 DEF RecommendationNext
<1>3. RecommendationShape /\ OwedIsPaidFor => OneRecommendation
  BY OwedIsCounted DEF OwedIsPaidFor, OneRecommendation
<1> QED
  BY <1>1, <1>2, <1>3, RecommendationKept, PTL DEF RecommendationSpec

\* What the rows of decisions say; a row about to be sent becomes one that was.
Says(i, how) ==
  \E d \in DOMAIN decisions :
    /\ decisions[d].item = i
    /\ decisions[d].status \in {how} \cup (IF how = "outbound_queued" THEN {"outbound_pending"} ELSE {})

WorkerSaid(w) ==
  /\ worker[w].decision \in DOMAIN decisions /\ decisions[worker[w].decision].item = worker[w].item
  /\ decisions[worker[w].decision].status \in {"outbound_pending", "outbound_queued"}

ShownFits ==
  trouble.deleted \/
    /\ \A i \in Items : catalog[i] # "deleted"
    /\ \A n \in DOMAIN shown : Says(shown[n].item, shown[n].how)
    /\ run.phase = "answer" /\ run.item # NoItem => Says(run.item, "inline_merged")
    /\ \A w \in Workers : worker[w].phase \in {"emit", "update"} => WorkerSaid(w)

\* Rows stay, as about to be sent or as sent if they were that.
DecisionsStay ==
  \A d \in DOMAIN decisions :
    /\ d \in DOMAIN decisions' /\ decisions'[d].item = decisions[d].item
    /\ \/ decisions'[d].status = decisions[d].status
       \/ {decisions[d].status, decisions'[d].status} \subseteq {"outbound_pending", "outbound_queued"}

\* While no row of a decision is lost, what was said of an item stays said.
LEMMA SaidStays ==
  ASSUME DecisionsStay
  PROVE  /\ \A i, how : Says(i, how) /\ how \in {"inline_merged", "outbound_queued"} => Says(i, how)'
         /\ \A w \in Workers : WorkerSaid(w) /\ worker'[w].item = worker[w].item
                                 /\ worker'[w].decision = worker[w].decision => WorkerSaid(w)'
<1>1. ASSUME NEW i, NEW how \in {"inline_merged", "outbound_queued"}, Says(i, how)
      PROVE  Says(i, how)'
  <2>1. PICK d \in DOMAIN decisions :
          /\ decisions[d].item = i
          /\ decisions[d].status \in {how} \cup (IF how = "outbound_queued" THEN {"outbound_pending"} ELSE {})
    BY <1>1 DEF Says
  <2>2. /\ d \in DOMAIN decisions' /\ decisions'[d].item = i
        /\ decisions'[d].status \in {how} \cup (IF how = "outbound_queued" THEN {"outbound_pending"} ELSE {})
    BY <2>1 DEF DecisionsStay
  <2> QED
    BY <2>2 DEF Says
<1>2. ASSUME NEW w \in Workers, WorkerSaid(w), worker'[w].item = worker[w].item, worker'[w].decision = worker[w].decision
      PROVE  WorkerSaid(w)'
  BY <1>2 DEF WorkerSaid, DecisionsStay
<1> QED
  BY <1>1, <1>2

\* A row that is recorded leaves the others, and says what it is to say.
LEMMA RecordedStays ==
  ASSUME RecommendationConfigured, RecommendationShape, NEW i \in Items \cup {NoItem}, NEW s \in Decisions,
         decisions' = Recorded(i, s)
  PROVE  /\ DecisionsStay
         /\ i \in Items /\ catalog[i] # "deleted" =>
              /\ Cardinality(DOMAIN decisions') \in DOMAIN decisions' /\ decisions' # decisions
              /\ decisions'[Cardinality(DOMAIN decisions')] = [item |-> i, status |-> s]
<1>1. PICK e \in DecisionRow : e = [item |-> i, status |-> s]
  BY DEF DecisionRow
<1>2. decisions \in Seq(DecisionRow)
  BY DEF RecommendationShape
<1>3. PICK after \in Seq(DecisionRow) : after = WithRow(decisions, e)
  BY <1>1, <1>2, RowIsAppended
<1>4. /\ \A d \in DOMAIN decisions : d \in DOMAIN after /\ after[d] = decisions[d]
      /\ Cardinality(DOMAIN after) \in DOMAIN after /\ after[Cardinality(DOMAIN after)] = e /\ after # decisions
  BY ONLY <1>1, <1>2, <1>3, TableGrows
<1>6. decisions' \in {decisions, after} /\ (i \in Items /\ catalog[i] # "deleted" => decisions' = after)
  BY <1>1, <1>3, RecordedIsRow DEF RecommendationConfigured
<1>8. DecisionsStay
  BY <1>4, <1>6 DEF DecisionsStay
<1> QED
  BY <1>1, <1>4, <1>6, <1>8

\* What was shown is on record with its item, as it was shown or about to be, unless
\* an item was deleted (recordRecommendationDecision, mergeRecommendation).
THEOREM ShownIsOnRecord ==
  ASSUME RecommendationConfigured
  PROVE  RecommendationSpec => []ShownIsRecorded
<1>1. RecommendationInit => ShownFits
  BY DEF RecommendationInit, ShownFits, FreshRun, RestingWorker
<1>2. RecommendationShape /\ RecommendationShape' /\ ShownFits /\ [RecommendationNext]_recommendationVars
        => ShownFits'
  <2> SUFFICES ASSUME RecommendationShape, RecommendationShape', ShownFits, [RecommendationNext]_recommendationVars,
                      ~trouble'.deleted
               PROVE  ShownFits'
    BY DEF ShownFits
  <2>d. \A t \in TroubleRow : [Changed(t) EXCEPT !.deleted = TRUE].deleted = TRUE
    <3>1. ASSUME NEW t \in TroubleRow
          PROVE  [Changed(t) EXCEPT !.deleted = TRUE].deleted = TRUE
      BY SMTT(60), <3>1 DEF Changed, TroubleRow
    <3> QED
      BY <3>1
  <2>t. trouble'.deleted = trouble.deleted
    <3>1. CASE trouble' = trouble
      BY <3>1
    <3>2. CASE trouble' \in {Changed(trouble), [trouble EXCEPT !.taken = @ + 1], [trouble EXCEPT !.lapses = @ + 1]}
      BY <3>2, TroubleGrows DEF RecommendationShape
    <3>3. CASE trouble' = [Changed(trouble) EXCEPT !.deleted = TRUE]
      BY <2>d, <3>3 DEF RecommendationShape
    <3> QED
      BY <3>1, <3>2, <3>3 DEF RecommendationNext, recommendationVars, UpdateRecommendationItem,
         DeleteRecommendationItem, MergeSessionMetadata, StartRecommendationSidecar, RunRecommendationSelection,
         ApplyRecommendationResult, RecommendationSuppressed, BeginMerge, MergeRecommendation, EmitFinalOutbound,
         RunIsTakenUpAgain, JobLeaseLapses, ClaimRecommendationJobs, WorkerDies, ProcessSearches, ProcessSelects,
         ProcessFindsNone, ProcessFails, ProcessDecides, ProcessEmits, UpdateRecommendationDecisionStatus,
         ProcessCompletes
  <2>f. /\ \A i \in Items : catalog[i] # "deleted"
        /\ \A n \in DOMAIN shown : Says(shown[n].item, shown[n].how)
        /\ run.phase = "answer" /\ run.item # NoItem => Says(run.item, "inline_merged")
        /\ \A w \in Workers : worker[w].phase \in {"emit", "update"} => WorkerSaid(w)
    BY <2>t DEF ShownFits
  <2>h. \A n \in DOMAIN shown : shown[n].how \in {"inline_merged", "outbound_queued"}
    <3>1. \A n \in DOMAIN shown : shown[n] \in ShownRow
      BY DEF RecommendationShape
    <3> QED
      BY <3>1 DEF ShownRow
  <2>g. DecisionsStay /\ shown' = shown => \A n \in DOMAIN shown' : Says(shown[n].item, shown[n].how)'
    <3> SUFFICES ASSUME DecisionsStay, shown' = shown, NEW n \in DOMAIN shown
                 PROVE  Says(shown[n].item, shown[n].how)'
      OBVIOUS
    <3>1. PICK i, how : i = shown[n].item /\ how = shown[n].how
      OBVIOUS
    <3>2. Says(i, how)'
      BY <2>f, <2>h, <3>1, SaidStays
    <3> QED
      BY <3>1, <3>2
  <2>1. CASE /\ DecisionsStay /\ shown' = shown
             /\ \A i \in Items : catalog'[i] # "deleted"
             /\ (run'.phase = "answer" /\ run'.item # NoItem => Says(run.item, "inline_merged")')
             /\ \A w \in Workers : worker'[w].phase \in {"emit", "update"} =>
                  worker[w].phase \in {"emit", "update"}
                  /\ worker'[w].item = worker[w].item /\ worker'[w].decision = worker[w].decision
    <3>1. \A w \in Workers : worker'[w].phase \in {"emit", "update"} => WorkerSaid(w)'
      BY <2>1, <2>f, SaidStays
    <3> QED
      BY <2>1, <2>g, <3>1 DEF ShownFits
  <2>s. decisions' = decisions => DecisionsStay
    BY DEF DecisionsStay
  <2>r. DecisionsStay /\ run' = run /\ run.phase = "answer" /\ run.item # NoItem => Says(run.item, "inline_merged")'
    <3> SUFFICES ASSUME DecisionsStay, run' = run, run.phase = "answer", run.item # NoItem
                 PROVE  Says(run.item, "inline_merged")'
      OBVIOUS
    <3>1. PICK i : i = run.item
      OBVIOUS
    <3>2. Says(i, "inline_merged")'
      BY <2>f, <3>1, SaidStays
    <3> QED
      BY <3>1, <3>2
  <2>2. ASSUME NEW i \in Items, NEW s \in {"active", "paused"}, UpdateRecommendationItem(i, s)
        PROVE  ShownFits'
    <3>1. /\ UNCHANGED <<run, decisions, worker, shown>> /\ \A k \in Items : catalog'[k] # "deleted"
      BY <2>2, <2>f DEF UpdateRecommendationItem, RecommendationShape
    <3> QED
      BY <2>1, <2>r, <2>s, <3>1
  <2>3. ASSUME NEW i \in Items, DeleteRecommendationItem(i)
        PROVE  ShownFits'
    BY <2>3, <2>d DEF DeleteRecommendationItem, RecommendationShape
  <2>4. CASE UNCHANGED <<catalog, decisions, worker, shown>> /\ (run' = run \/ run'.phase # "answer" \/ run'.item = NoItem)
    BY <2>1, <2>4, <2>f, <2>r, <2>s
  <2>5. CASE MergeSessionMetadata \/ StartRecommendationSidecar \/ RunRecommendationSelection \/ BeginMerge
             \/ RunIsTakenUpAgain \/ UNCHANGED recommendationVars
    <3>1. UNCHANGED <<catalog, decisions, worker, shown>>
      BY <2>5 DEF MergeSessionMetadata, StartRecommendationSidecar, RunRecommendationSelection, BeginMerge,
         RunIsTakenUpAgain, recommendationVars
    <3>2. run' = run \/ run'.phase \in {"none", "select", "chosen", "failed", "timeout", "merge", "search"}
      <4>1. CASE MergeSessionMetadata \/ UNCHANGED recommendationVars
        BY <4>1 DEF MergeSessionMetadata, recommendationVars
      <4>2. CASE StartRecommendationSidecar \/ RunRecommendationSelection \/ BeginMerge
        BY ZenonT(60), <4>2 DEF StartRecommendationSidecar, RunRecommendationSelection, BeginMerge, RecommendationShape, RunRow
      <4>3. CASE RunIsTakenUpAgain
        BY <4>3 DEF RunIsTakenUpAgain, FreshRun
      <4> QED
        BY <2>5, <4>1, <4>2, <4>3
    <3> QED
      BY <2>4, <3>1, <3>2
  <2>6. ASSUME UNCHANGED <<catalog, worker, shown>>,
               \E i \in Items \cup {NoItem}, s \in Decisions : decisions' = Recorded(i, s),
               run'.phase # "answer" \/ run'.item = NoItem \/ run' = run
        PROVE  ShownFits'
    <3>1. PICK i \in Items \cup {NoItem}, s \in Decisions : decisions' = Recorded(i, s)
      BY <2>6
    <3>2. DecisionsStay
      BY <3>1, RecordedStays
    <3> QED
      BY <2>1, <2>6, <2>f, <2>r, <3>2
  <2>7. CASE ApplyRecommendationResult
    <3>1. run' = [FreshRun EXCEPT !.phase = "answer"] /\ run'.item = NoItem
      BY <2>7 DEF ApplyRecommendationResult, FreshRun
    <3>2. \E s \in Decisions : decisions' = Recorded(NoItem, s)
      BY <2>7 DEF ApplyRecommendationResult, Decisions
    <3> QED
      BY <2>6, <2>7, <3>1, <3>2 DEF ApplyRecommendationResult
  <2>8. CASE RecommendationSuppressed
    <3>1. run'.item = NoItem
      BY <2>8 DEF RecommendationSuppressed, FreshRun
    <3>2. decisions' = Recorded(run.item, "channel_suppressed") /\ run.item \in Items
      BY <2>8 DEF RecommendationSuppressed, RecommendationShape
    <3> QED
      BY <2>6, <2>8, <3>1, <3>2 DEF RecommendationSuppressed, Decisions
  <2>9. CASE MergeRecommendation
    <3>1. run.item \in Items
      BY <2>9 DEF MergeRecommendation, RecommendationShape
    <3>2. CASE decisions' = Recorded(run.item, "failed") /\ run' = [FreshRun EXCEPT !.phase = "answer"]
      <4>1. run'.item = NoItem
        BY <3>2 DEF FreshRun
      <4> QED
        BY <2>6, <2>9, <3>1, <3>2, <4>1 DEF MergeRecommendation, Decisions
    <3>3. CASE decisions' = Recorded(run.item, "inline_merged") /\ run' = [run EXCEPT !.phase = "answer"]
      <4>1. DecisionsStay
        BY <3>1, <3>3, RecordedStays DEF Decisions
      <4>2. \E d \in DOMAIN decisions' : decisions'[d] = [item |-> run.item, status |-> "inline_merged"]
        BY <2>f, <3>1, <3>3, RecordedStays DEF Decisions
      <4>3. run'.item = run.item
        BY <3>3 DEF RecommendationShape, RunRow
      <4>4. Says(run.item, "inline_merged")'
        <5>1. PICK d \in DOMAIN decisions' : decisions'[d] = [item |-> run.item, status |-> "inline_merged"]
          BY <4>2
        <5>2. decisions'[d].item = run'.item /\ decisions'[d].status = "inline_merged"
          BY <4>3, <5>1
        <5> QED
          BY <5>2 DEF Says
      <4> QED
        BY <2>1, <2>9, <2>f, <4>1, <4>4 DEF MergeRecommendation
    <3> QED
      BY <2>9, <3>2, <3>3 DEF MergeRecommendation
  <2>10. CASE EmitFinalOutbound
    <3>1. run'.phase = "done"
      BY <2>10 DEF EmitFinalOutbound, FreshRun
    <3>2. CASE run.item = NoItem
      BY <2>4, <2>10, <3>1, <3>2 DEF EmitFinalOutbound
    <3>3. CASE run.item # NoItem
      <4>1. PICK e \in ShownRow : e = [item |-> run.item, how |-> "inline_merged"]
        BY <3>3 DEF ShownRow, RunRow, RecommendationShape
      <4>2. shown' = WithRow(shown, e) /\ shown \in Seq(ShownRow)
        BY <2>10, <3>3, <4>1 DEF EmitFinalOutbound, Show, RecommendationShape
      <4>3. \A n \in DOMAIN shown' : shown'[n] = e \/ (n \in DOMAIN shown /\ shown'[n] = shown[n])
        <5>1. PICK t : t = shown'
          OBVIOUS
        <5>2. \A n \in DOMAIN t : t[n] = e \/ (n \in DOMAIN shown /\ t[n] = shown[n])
          <6>1. shown \in Seq(ShownRow) /\ t \in Seq(ShownRow) /\ t = WithRow(shown, e)
            BY <4>2, <5>1 DEF RecommendationShape
          <6> QED
            BY ONLY <6>1, e \in ShownRow, TableGrows
        <5> QED
          BY <5>1, <5>2
      <4>4. Says(run.item, "inline_merged")
        BY <2>10, <2>f, <3>3 DEF EmitFinalOutbound
      <4>5. \A n \in DOMAIN shown' : Says(shown'[n].item, shown'[n].how)
        BY <2>f, <4>1, <4>3, <4>4
      <4>6. \A n \in DOMAIN shown' : shown'[n].how \in {"inline_merged", "outbound_queued"}
        BY <2>h, <4>1, <4>3
      <4>7. UNCHANGED <<catalog, decisions, worker>> /\ DecisionsStay
        BY <2>10, <2>s DEF EmitFinalOutbound
      <4> QED
        BY <2>f, <3>1, <4>5, <4>6, <4>7, SaidStays DEF ShownFits
    <3> QED
      BY <3>2, <3>3
  <2>11. ASSUME NEW j \in DOMAIN jobs, JobLeaseLapses(j)
         PROVE  ShownFits'
    BY <2>4, <2>11 DEF JobLeaseLapses
  <2>12. ASSUME NEW w \in Workers, UNCHANGED <<catalog, run, shown>>, DecisionsStay,
                \E v \in WorkerRow : worker' = [worker EXCEPT ![w] = v] /\ v.phase \notin {"emit", "update"}
         PROVE  ShownFits'
    <3>1. \A v \in Workers : worker'[v].phase \in {"emit", "update"} => worker'[v] = worker[v]
      BY <2>12 DEF RecommendationShape
    <3> QED
      BY <2>1, <2>12, <2>f, <2>r, <3>1
  <2>w. RestingWorker \in WorkerRow /\ RestingWorker.phase = "rest"
    BY DEF RestingWorker, WorkerRow
  <2>13. ASSUME NEW w \in Workers, ClaimRecommendationJobs(w)
         PROVE  ShownFits'
    <3>1. PICK j \in DOMAIN jobs : worker' = [worker EXCEPT ![w] = [RestingWorker EXCEPT !.phase = "search", !.job = j]]
      BY <2>13 DEF ClaimRecommendationJobs
    <3>2. worker'[w].phase = "search" /\ worker'[w] \in WorkerRow /\ worker' = [worker EXCEPT ![w] = worker'[w]]
      BY <3>1 DEF RecommendationShape, RestingWorker
    <3> QED
      BY <2>12, <2>13, <2>s, <3>2 DEF ClaimRecommendationJobs
  <2>14. ASSUME NEW w \in Workers, WorkerDies(w)
         PROVE  ShownFits'
    BY <2>12, <2>14, <2>s, <2>w DEF WorkerDies
  <2>15. ASSUME NEW w \in Workers, ProcessSearches(w) \/ ProcessSelects(w)
         PROVE  ShownFits'
    <3>1. \A v \in Workers \ {w} : worker'[v] = worker[v]
      BY <2>15 DEF ProcessSearches, ProcessSelects, RecommendationShape
    <3>2. worker'[w].phase \in {"select", "chosen"}
      BY <2>15 DEF ProcessSearches, ProcessSelects, RecommendationShape, WorkerRow
    <3>3. \A v \in Workers : worker'[v].phase \in {"emit", "update"} => worker'[v] = worker[v]
      BY <3>1, <3>2
    <3>4. UNCHANGED <<catalog, run, decisions, shown>>
      BY <2>15 DEF ProcessSearches, ProcessSelects
    <3> QED
      BY <2>1, <2>f, <2>r, <2>s, <3>3, <3>4
  <2>16. ASSUME NEW w \in Workers, ProcessFindsNone(w) \/ ProcessFails(w) \/ ProcessCompletes(w)
         PROVE  ShownFits'
    <3>1. DecisionsStay
      BY <2>16, <2>s, RecordedStays DEF ProcessFindsNone, ProcessFails, ProcessCompletes, Decisions
    <3> QED
      BY <2>12, <2>16, <2>w, <3>1 DEF ProcessFindsNone, ProcessFails, ProcessCompletes, CompleteRecommendationJob
  <2>17. ASSUME NEW w \in Workers, ProcessDecides(w)
         PROVE  ShownFits'
    <3>1. worker[w].item \in Items
      BY <2>17 DEF ProcessDecides, RecommendationShape
    <3>2. CASE blocked
      <4>1. DecisionsStay
        BY <2>17, <3>1, <3>2, RecordedStays DEF ProcessDecides, Decisions
      <4> QED
        BY <2>12, <2>17, <2>w, <3>2, <4>1 DEF ProcessDecides, CompleteRecommendationJob
    <3>3. CASE ~blocked
      <4>1. decisions' = Recorded(worker[w].item, "outbound_pending") /\ UNCHANGED <<catalog, run, shown>>
        BY <2>17, <3>3 DEF ProcessDecides
      <4>2. /\ DecisionsStay /\ Cardinality(DOMAIN decisions') \in DOMAIN decisions' /\ decisions' # decisions
            /\ decisions'[Cardinality(DOMAIN decisions')] = [item |-> worker[w].item, status |-> "outbound_pending"]
        BY <2>f, <3>1, <4>1, RecordedStays DEF Decisions
      <4>3. PICK n : n = Cardinality(DOMAIN decisions')
        OBVIOUS
      <4>4. worker' = [worker EXCEPT ![w].phase = "emit", ![w].decision = n]
        BY <2>17, <3>3, <4>2, <4>3 DEF ProcessDecides
      <4>5. /\ \A v \in Workers \ {w} : worker'[v] = worker[v]
            /\ worker'[w].item = worker[w].item /\ worker'[w].decision = n
        BY <4>4 DEF RecommendationShape, WorkerRow
      <4>6. WorkerSaid(w)'
        BY <4>2, <4>3, <4>5 DEF WorkerSaid
      <4>7. \A v \in Workers : worker'[v].phase \in {"emit", "update"} => WorkerSaid(v)'
        BY <2>f, <4>2, <4>5, <4>6, SaidStays
      <4>8. /\ \A k \in DOMAIN shown' : Says(shown[k].item, shown[k].how)'
            /\ run'.phase = "answer" /\ run'.item # NoItem => Says(run.item, "inline_merged")'
        BY <2>g, <2>r, <4>1, <4>2
      <4>9. \A k \in Items : catalog'[k] # "deleted"
        BY <2>f, <4>1
      <4> QED
        BY <4>7, <4>8, <4>9 DEF ShownFits
    <3> QED
      BY <3>2, <3>3
  <2>18. ASSUME NEW w \in Workers, ProcessEmits(w)
         PROVE  ShownFits'
    <3>1. PICK e \in ShownRow : e = [item |-> worker[w].item, how |-> "outbound_queued"]
      BY <2>18 DEF ProcessEmits, ShownRow, RecommendationShape
    <3>2. shown' = WithRow(shown, e) /\ shown \in Seq(ShownRow)
      BY <2>18, <3>1 DEF ProcessEmits, Show, RecommendationShape
    <3>3. \A n \in DOMAIN shown' : shown'[n] = e \/ (n \in DOMAIN shown /\ shown'[n] = shown[n])
      <4>1. PICK t : t = shown'
        OBVIOUS
      <4>2. \A n \in DOMAIN t : t[n] = e \/ (n \in DOMAIN shown /\ t[n] = shown[n])
        <5>1. shown \in Seq(ShownRow) /\ t \in Seq(ShownRow) /\ t = WithRow(shown, e)
          BY <3>2, <4>1 DEF RecommendationShape
        <5> QED
          BY ONLY <5>1, e \in ShownRow, TableGrows
      <4> QED
        BY <4>1, <4>2
    <3>4. WorkerSaid(w)
      BY <2>18, <2>f DEF ProcessEmits
    <3>5. Says(worker[w].item, "outbound_queued")
      BY <3>4 DEF WorkerSaid, Says
    <3>6. \A n \in DOMAIN shown' : Says(shown'[n].item, shown'[n].how)
      BY <2>f, <3>1, <3>3, <3>5
    <3>7. \A n \in DOMAIN shown' : shown'[n].how \in {"inline_merged", "outbound_queued"}
      BY <2>h, <3>1, <3>3
    <3>8. UNCHANGED <<catalog, decisions, run>> /\ DecisionsStay
      BY <2>18, <2>s DEF ProcessEmits
    <3>9. \A v \in Workers : worker'[v].item = worker[v].item /\ worker'[v].decision = worker[v].decision
                             /\ (v # w => worker'[v] = worker[v])
      BY <2>18 DEF ProcessEmits, RecommendationShape, WorkerRow
    <3>10. \A v \in Workers : worker'[v].phase \in {"emit", "update"} => WorkerSaid(v)'
      BY <2>f, <3>4, <3>8, <3>9, SaidStays
    <3> QED
      BY <2>f, <3>6, <3>7, <3>8, <3>10, SaidStays DEF ShownFits
  <2>19. ASSUME NEW w \in Workers, UpdateRecommendationDecisionStatus(w)
         PROVE  ShownFits'
    <3>1. WorkerSaid(w)
      BY <2>19, <2>f DEF UpdateRecommendationDecisionStatus
    <3>2. DecisionsStay
      <4>1. \A d \in DecisionRow : [d EXCEPT !.status = "outbound_queued"].item = d.item
                                   /\ [d EXCEPT !.status = "outbound_queued"].status = "outbound_queued"
        BY DEF DecisionRow
      <4> QED
        BY <2>19, <3>1, <4>1 DEF UpdateRecommendationDecisionStatus, DecisionsStay, WorkerSaid, RecommendationShape
    <3>3. worker' = [worker EXCEPT ![w] = worker'[w]] /\ worker'[w].phase = "complete" /\ worker'[w] \in WorkerRow
      BY <2>19 DEF UpdateRecommendationDecisionStatus, RecommendationShape, WorkerRow
    <3> QED
      BY <2>12, <2>19, <3>2, <3>3 DEF UpdateRecommendationDecisionStatus
  <2> QED
    BY <2>2, <2>3, <2>5, <2>7, <2>8, <2>9, <2>10, <2>11, <2>13, <2>14, <2>15, <2>16, <2>17, <2>18, <2>19
       DEF RecommendationNext
<1>3. ShownFits => ShownIsRecorded
  BY DEF ShownFits, ShownIsRecorded, Says
<1> QED
  BY <1>1, <1>2, <1>3, RecommendationKept, PTL DEF RecommendationSpec

-----------------------------------------------------------------------------
(* The tool evaluator *)

EvaluationSpec == EvaluationsInit /\ [][EvaluationsNext]_evaluationVars

Evaluators == Loops \cup Requests

SignalKinds == {"tool_event", "tool_failed", "selected_tool_missing", "manual"}
SignalSets == SUBSET SignalKinds
Batches == SUBSET EvaluatedRuns
Endings == {"completed", "failed"}
Outcomes == {"", "queued", "skipped", "failed"}
SaidCategories ==
  {v.category : v \in Verdicts}
  \cup {DeterministicVerdict(h, S).category : h \in Histories, S \in SUBSET SignalKinds}
Categories == {"", "skipped", "evaluation_failed"} \cup SaidCategories

EvaluationRow ==
  [status : {"none", "queued", "running", "completed", "failed"}, signals : SignalSets,
   lease : {"none", "live", "lapsed"}, category : Categories, repair : Outcomes]
EvaluatorRow ==
  [phase : {"rest", "next", "claim", "evaluate", "repair", "complete"}, items : SUBSET EvaluatedRuns,
   run : EvaluatedRuns \cup {"none"}, signals : SignalSets, category : Categories, confident : BOOLEAN,
   repair : Outcomes]
TroubleFits == [left : SUBSET EvaluatedRuns, faults : Nat]

\* A run is with who has it in a batch or works on it; it may still be corrected
\* where it is held, waits or has no row yet.
Holders(r) ==
  {e \in Evaluators : \/ r \in evaluator[e].items
                      \/ evaluator[e].run = r /\ evaluator[e].phase \in {"claim", "evaluate", "repair"}}
Waits(r) == IF evaluationRow[r].status \in {"queued", "none"} THEN 1 ELSE 0

\* Types; who rests has nothing, who works has one run, which is not also in its
\* batch, and a row that somebody has is one.
EvaluatorFits(e) ==
  LET ev == evaluator[e] IN
  /\ ev \in EvaluatorRow
  /\ ev.phase = "rest" => ev = RestingEvaluator
  /\ ev.phase = "next" <=> ev.phase # "rest" /\ ev.run = "none"
  /\ ev.run \notin ev.items
  /\ ev.phase = "claim" => ev.items = {} /\ asked[ev.run] > 0
  /\ \A r \in EvaluatedRuns : r \in ev.items \/ r = ev.run => evaluationRow[r].status # "none"
  /\ ev.repair = "queued" => repairs[ev.run] > 0 /\ ev.run \in EvaluatedRuns
  /\ \A r \in EvaluatedRuns : ev.run = r /\ asked[r] = 0 =>
       "manual" \notin ev.signals /\ (ev.phase = "repair" => ConfigForRun(r).enabled)

EvaluatedRowFits(r) ==
  /\ evaluationRow[r] \in EvaluationRow
  /\ evaluationRow[r].status = "none" => evaluationRow[r] = NoEvaluation
  /\ evaluationRow[r].repair = "queued" => repairs[r] > 0
  /\ asked[r] = 0 => "manual" \notin evaluationRow[r].signals
  /\ asked[r] = 0 /\ evaluationRow[r].status # "none" => Signals(runHistory[r]) # {} /\ QueueEnabled(r)
  /\ asked[r] = 0 /\ repairs[r] > 0 => ConfigForRun(r).enabled /\ ConfigForRun(r).safe

EvaluationFits ==
  /\ runHistory \in [EvaluatedRuns -> Histories]
  /\ evaluationRow \in [EvaluatedRuns -> EvaluationRow] /\ evaluator \in [Evaluators -> EvaluatorRow]
  /\ repairs \in [EvaluatedRuns -> Nat] /\ asked \in [EvaluatedRuns -> Nat]
  /\ evaluationTrouble \in TroubleFits
  /\ \A e \in Evaluators : EvaluatorFits(e)
  /\ \A r \in EvaluatedRuns : EvaluatedRowFits(r)

CorrectionsBounded ==
  \A r \in EvaluatedRuns : repairs[r] + Cardinality(Holders(r)) + Waits(r) <= 1 + 2 * asked[r]

\* Who has a row in hand has it in a batch, or on its way through an evaluation;
\* a row that runs is in somebody's hand, or was left behind.
Keeps(v, r) == r \in v.items \/ (v.run = r /\ v.phase \in {"evaluate", "repair", "complete"})

HeldWhileRunning ==
  \A r \in EvaluatedRuns : evaluationRow[r].status = "running" =>
    r \in evaluationTrouble.left \/ \E e \in Evaluators : Keeps(evaluator[e], r)

-----------------------------------------------------------------------------
\* What becomes of a row.
RowTaken(v) == [v EXCEPT !.status = "running", !.lease = "live"]
RowLapses(v) == [v EXCEPT !.lease = "lapsed"]
RowDone(v, st, c, how) == [v EXCEPT !.status = st, !.lease = "none", !.category = c, !.repair = how]
RowQueued(S) == [NoEvaluation EXCEPT !.status = "queued", !.signals = S]
RowRequested(v, S) == [v EXCEPT !.status = "queued", !.signals = S, !.lease = "none"]

\* A row that is claimed runs,
LEMMA RowTakenFits ==
  ASSUME NEW v \in EvaluationRow
  PROVE  /\ RowTaken(v) \in EvaluationRow /\ RowTaken(v).status = "running"
         /\ RowTaken(v).signals = v.signals /\ RowTaken(v).repair = v.repair
BY DEF EvaluationRow, SignalSets, Endings, Outcomes, RowTaken

\* one whose lease lapses goes on as it is,
LEMMA RowLapsesFits ==
  ASSUME NEW v \in EvaluationRow
  PROVE  /\ RowLapses(v) \in EvaluationRow /\ RowLapses(v).status = v.status
         /\ RowLapses(v).signals = v.signals /\ RowLapses(v).repair = v.repair
BY DEF EvaluationRow, SignalSets, Endings, Outcomes, RowLapses

\* one that is completed says how,
LEMMA RowDoneFits ==
  ASSUME NEW v \in EvaluationRow, NEW st \in Endings, NEW c \in Categories,
         NEW how \in Outcomes
  PROVE  /\ RowDone(v, st, c, how) \in EvaluationRow /\ RowDone(v, st, c, how).status = st
         /\ RowDone(v, st, c, how).signals = v.signals /\ RowDone(v, st, c, how).repair = how
BY DEF EvaluationRow, SignalSets, Endings, Outcomes, RowDone

\* one that is added waits for its first evaluator,
LEMMA RowQueuedFits ==
  ASSUME NEW S \in SignalSets
  PROVE  /\ RowQueued(S) \in EvaluationRow /\ RowQueued(S).status = "queued" /\ RowQueued(S).signals = S
         /\ RowQueued(S).lease = "none" /\ RowQueued(S).repair = ""
BY DEF EvaluationRow, SignalSets, Endings, Outcomes, NoEvaluation, Categories, RowQueued

\* and one that is asked for waits again.
LEMMA RowRequestedFits ==
  ASSUME NEW v \in EvaluationRow, NEW S \in SignalSets
  PROVE  /\ RowRequested(v, S) \in EvaluationRow /\ RowRequested(v, S).status = "queued"
         /\ RowRequested(v, S).signals = S /\ RowRequested(v, S).repair = v.repair
BY DEF EvaluationRow, SignalSets, Endings, Outcomes, RowRequested

\* What becomes of an evaluator.
EvaluatorBegins(p, C) == [RestingEvaluator EXCEPT !.phase = p, !.items = C]
EvaluatorTakes(C, r, S) == [RestingEvaluator EXCEPT !.phase = "evaluate", !.items = C, !.run = r, !.signals = S]
EvaluatorAsks(r) == [RestingEvaluator EXCEPT !.phase = "claim", !.run = r]
EvaluatorClaims(v, S) == [v EXCEPT !.phase = "evaluate", !.signals = S]
EvaluatorJudges(v, c, b) == [v EXCEPT !.phase = "repair", !.category = c, !.confident = b]
EvaluatorCorrects(v, how) == [v EXCEPT !.phase = "complete", !.repair = how]

\* No category is one that nobody named.
LEMMA NoCategory == {"", "skipped", "evaluation_failed"} \subseteq Categories
BY DEF Categories

\* Who begins with a batch has nothing else,
LEMMA EvaluatorBeginsFits ==
  ASSUME NEW C \in SUBSET EvaluatedRuns, NEW p \in {"rest", "next"}
  PROVE  LET x == EvaluatorBegins(p, C) IN
         x \in EvaluatorRow /\ x.phase = p /\ x.items = C /\ x.run = "none" /\ x.repair = ""
BY NoCategory DEF SignalSets, Outcomes, EvaluatorRow, RestingEvaluator, EvaluatorBegins

\* who takes a run of it has its signals.
Takes(x, C, r, S) ==
  x \in EvaluatorRow /\ x.phase = "evaluate" /\ x.items = C /\ x.run = r /\ x.signals = S /\ x.repair = ""
\* Taking a run is such a step.
LEMMA EvaluatorTakesFits ==
  ASSUME NEW C \in Batches, NEW r \in EvaluatedRuns, NEW S \in SignalSets
  PROVE  Takes(EvaluatorTakes(C, r, S), C, r, S)
<1>1. LET x == EvaluatorTakes(C, r, S) IN
      x \in EvaluatorRow /\ x.phase = "evaluate" /\ x.items = C /\ x.run = r /\ x.signals = S /\ x.repair = ""
  BY NoCategory DEF Batches, SignalSets, Outcomes, EvaluatorRow, RestingEvaluator, EvaluatorTakes
<1> QED
  BY <1>1 DEF Takes

\* who asks for a run has none of them yet,
LEMMA EvaluatorAsksFits ==
  ASSUME NEW r \in EvaluatedRuns
  PROVE  LET x == EvaluatorAsks(r) IN
         x \in EvaluatorRow /\ x.phase = "claim" /\ x.items = {} /\ x.run = r /\ x.signals = {} /\ x.repair = ""
BY NoCategory DEF SignalSets, Outcomes, EvaluatorRow, RestingEvaluator, EvaluatorAsks

\* until it claims the row;
LEMMA EvaluatorClaimsFits ==
  ASSUME NEW v \in EvaluatorRow, NEW S \in SignalSets
  PROVE  LET x == EvaluatorClaims(v, S) IN
         /\ x \in EvaluatorRow /\ x.phase = "evaluate" /\ x.items = v.items /\ x.run = v.run /\ x.signals = S
         /\ x.repair = v.repair
BY DEF SignalSets, Outcomes, EvaluatorRow, EvaluatorClaims

\* a verdict changes none of it,
LEMMA EvaluatorJudgesFits ==
  ASSUME NEW v \in EvaluatorRow, NEW c \in Categories, NEW b \in BOOLEAN
  PROVE  LET x == EvaluatorJudges(v, c, b) IN
         /\ x \in EvaluatorRow /\ x.phase = "repair" /\ x.items = v.items /\ x.run = v.run
         /\ x.signals = v.signals /\ x.repair = v.repair
BY DEF SignalSets, Outcomes, EvaluatorRow, EvaluatorJudges

\* and a correction only what is said of it.
LEMMA EvaluatorCorrectsFits ==
  ASSUME NEW v \in EvaluatorRow, NEW how \in Outcomes
  PROVE  LET x == EvaluatorCorrects(v, how) IN
         /\ x \in EvaluatorRow /\ x.phase = "complete" /\ x.items = v.items /\ x.run = v.run
         /\ x.signals = v.signals /\ x.repair = how
BY DEF SignalSets, Outcomes, EvaluatorRow, EvaluatorCorrects

\* What is known of a run is not forgotten, and others go on with what they have.
Onwards ==
  /\ runProfile' = runProfile /\ runHistory' = runHistory
  /\ \A r \in EvaluatedRuns : /\ asked'[r] = 0 => asked[r] = 0
                              /\ asked[r] > 0 => asked'[r] > 0
                              /\ repairs[r] > 0 => repairs'[r] > 0
                              /\ evaluationRow[r].status # "none" => evaluationRow'[r].status # "none"

\* An evaluator that a step leaves alone stays in order,
LEMMA OthersFit ==
  ASSUME EvaluationConfigured, EvaluationFits, Onwards, NEW e \in Evaluators, evaluator'[e] = evaluator[e]
  PROVE  EvaluatorFits(e)'
<1>1. EvaluatorFits(e) /\ evaluator[e] \in EvaluatorRow
  BY DEF EvaluationFits
<1>2. evaluator[e].items \subseteq EvaluatedRuns /\ evaluator[e].run \in EvaluatedRuns \cup {"none"}
  BY <1>1 DEF EvaluatorRow
<1>3. evaluator[e].phase = "claim" => evaluator[e].run \in EvaluatedRuns
  BY <1>1, <1>2 DEF EvaluatorFits
<1>4. \A r \in EvaluatedRuns : ConfigForRun(r)' = ConfigForRun(r)
  BY DEF Onwards, ConfigForRun
<1> QED
  BY <1>1, <1>2, <1>3, <1>4 DEF EvaluatorFits, Onwards

\* and so does a row that changes as rows do.
LEMMA RowsFit ==
  ASSUME EvaluationFits, Onwards, NEW r \in EvaluatedRuns, evaluationRow'[r] \in EvaluationRow,
         evaluationRow'[r].status = "none" => evaluationRow'[r] = evaluationRow[r],
         evaluationRow'[r].repair = "queued" => repairs'[r] > 0,
         asked'[r] = 0 =>
           /\ evaluationRow'[r].signals \subseteq evaluationRow[r].signals \cup Signals(runHistory[r])
           /\ evaluationRow[r].status # "none" \/ evaluationRow'[r].status = "none"
              \/ (Signals(runHistory[r]) # {} /\ QueueEnabled(r)),
         asked'[r] = 0 /\ repairs'[r] > 0 => repairs[r] > 0 \/ (ConfigForRun(r).enabled /\ ConfigForRun(r).safe)
  PROVE  EvaluatedRowFits(r)'
<1>1. EvaluatedRowFits(r)
  BY DEF EvaluationFits
<1>2. ConfigForRun(r)' = ConfigForRun(r) /\ QueueEnabled(r)' = QueueEnabled(r) /\ Signals(runHistory[r])' = Signals(runHistory[r])
  BY DEF Onwards, ConfigForRun, QueueEnabled
<1>3. "manual" \notin Signals(runHistory[r])
  BY DEF Signals
<1>4. asked'[r] = 0 => asked[r] = 0
  BY DEF Onwards
<1>5. evaluationRow'[r].status = "none" => evaluationRow'[r] = NoEvaluation
  BY SMTT(60), <1>1 DEF EvaluatedRowFits
<1> QED
  BY <1>1, <1>2, <1>3, <1>4, <1>5 DEF EvaluatedRowFits

\* Runs that are taken up are no longer left behind,
LEMMA TakenUp ==
  ASSUME EvaluationFits, NEW S, IsTakenUp(S)
  PROVE  evaluationTrouble' \in TroubleFits /\ evaluationTrouble'.left = evaluationTrouble.left \ S
<1>1. PICK t \in TroubleFits : t = evaluationTrouble
  BY DEF EvaluationFits
<1>2. evaluationTrouble' = [t EXCEPT !.left = t.left \ S]
  BY <1>1 DEF IsTakenUp
<1> QED
  BY <1>1, <1>2 DEF TroubleFits

\* what goes wrong is counted,
LEMMA TroubleCounts ==
  ASSUME NEW t \in TroubleFits, Trouble(t)
  PROVE  evaluationTrouble' \in TroubleFits /\ evaluationTrouble'.left = t.left
<1>1. PICK u : u = [t EXCEPT !.faults = @ + 1]
  OBVIOUS
<1>2. u \in TroubleFits /\ u.left = t.left
  BY <1>1 DEF TroubleFits
<1>3. evaluationTrouble' = u
  BY <1>1 DEF Trouble
<1> QED
  BY <1>2, <1>3

\* and what it leaves behind is known.
LEMMA LeftBehind ==
  ASSUME EvaluationFits, NEW S \in SUBSET EvaluatedRuns, LeavesBehind(S)
  PROVE  evaluationTrouble' \in TroubleFits /\ evaluationTrouble'.left = evaluationTrouble.left \cup S
<1>1. PICK t \in TroubleFits : t = evaluationTrouble
  BY DEF EvaluationFits
<1>2. PICK u : u = [t EXCEPT !.left = t.left \cup S]
  OBVIOUS
<1>3. u \in TroubleFits /\ u.left = t.left \cup S
  BY <1>2 DEF TroubleFits
<1>4. Trouble(u)
  BY <1>1, <1>2 DEF LeavesBehind
<1> QED
  BY <1>1, <1>3, <1>4, TroubleCounts

\* A round of a loop takes rows that wait, or that it adds for suspicion.
LEMMA RoundTakes ==
  ASSUME EvaluationConfigured, EvaluationFits, NEW e \in Evaluators, RunOnce(e)
  PROVE  \E C \in SUBSET EvaluatedRuns :
           /\ evaluator' = [evaluator EXCEPT ![e] = EvaluatorBegins("next", C)]
           /\ evaluationRow' \in [EvaluatedRuns -> EvaluationRow]
           /\ \A r \in EvaluatedRuns \ C : evaluationRow'[r] = evaluationRow[r]
           /\ \A r \in C :
                /\ evaluationRow[r].status \in {"none", "queued"}
                /\ evaluationRow'[r].status = "running" /\ evaluationRow'[r].repair = evaluationRow[r].repair
                /\ evaluationRow'[r].signals \subseteq evaluationRow[r].signals \cup Signals(runHistory[r])
                /\ evaluationRow[r].status = "none" => Signals(runHistory[r]) # {} /\ QueueEnabled(r)
           /\ IsTakenUp(C)
<1>1. PICK queue : queue = QueueSuspiciousToolEvaluations(evaluationRow)
  OBVIOUS
<1>2. \A r \in EvaluatedRuns :
        \/ queue[r] = evaluationRow[r]
        \/ /\ evaluationRow[r] = NoEvaluation /\ QueueEnabled(r) /\ Signals(runHistory[r]) # {}
           /\ queue[r] = [NoEvaluation EXCEPT !.status = "queued", !.signals = Signals(runHistory[r])]
  BY <1>1 DEF QueueSuspiciousToolEvaluations
<1>3. \A r \in EvaluatedRuns : Signals(runHistory[r]) \in SignalSets
  BY DEF Signals, SignalKinds, SignalSets
<1>4. \A r \in EvaluatedRuns : evaluationRow[r] \in EvaluationRow
  BY DEF EvaluationFits
<1>5. ASSUME NEW r \in EvaluatedRuns
      PROVE  /\ queue[r] \in EvaluationRow /\ queue[r].repair = evaluationRow[r].repair
             /\ queue[r] = evaluationRow[r]
                \/ (/\ evaluationRow[r].status = "none" /\ queue[r].status = "queued" /\ queue[r].lease = "none"
                    /\ queue[r].signals = Signals(runHistory[r])
                    /\ Signals(runHistory[r]) # {} /\ QueueEnabled(r))
  <2>1. CASE queue[r] = evaluationRow[r]
    BY <1>4, <2>1
  <2>2. CASE /\ evaluationRow[r] = NoEvaluation /\ QueueEnabled(r) /\ Signals(runHistory[r]) # {}
             /\ queue[r] = [NoEvaluation EXCEPT !.status = "queued", !.signals = Signals(runHistory[r])]
    <3>1. NoEvaluation.status = "none" /\ NoEvaluation.repair = ""
      BY DEF NoEvaluation
    <3>2. PICK S \in SignalSets : S = Signals(runHistory[r])
      BY <1>3
    <3>3. queue[r] = RowQueued(S)
      BY <2>2, <3>2 DEF RowQueued
    <3>4. /\ queue[r] \in EvaluationRow /\ queue[r].status = "queued" /\ queue[r].signals = S
          /\ queue[r].lease = "none" /\ queue[r].repair = ""
      <4>1. /\ RowQueued(S) \in EvaluationRow /\ RowQueued(S).status = "queued" /\ RowQueued(S).signals = S
            /\ RowQueued(S).lease = "none" /\ RowQueued(S).repair = ""
        BY RowQueuedFits
      <4> QED
        BY <3>3, <4>1
    <3>5. evaluationRow[r].status = "none" /\ evaluationRow[r].repair = ""
      BY <2>2, <3>1
    <3> QED
      BY <2>2, <3>2, <3>4, <3>5
  <2> QED
    BY <1>2, <2>1, <2>2
<1>6. PICK C : C = ClaimableEvaluations(queue)
  OBVIOUS
<1>7. C \in SUBSET EvaluatedRuns /\ \A r \in EvaluatedRuns : r \in C <=> queue[r].status = "queued" /\ queue[r].lease # "live"
  BY <1>6 DEF ClaimableEvaluations
<1>8. /\ evaluator' = [evaluator EXCEPT ![e] = EvaluatorBegins("next", C)]
      /\ evaluationRow' = [r \in EvaluatedRuns |->
           IF r \in C THEN [queue[r] EXCEPT !.status = "running", !.lease = "live"] ELSE queue[r]]
      /\ IsTakenUp(C)
  BY <1>1, <1>6 DEF RunOnce, Claimed, EvaluatorBegins
<1>9. \A r \in EvaluatedRuns \ C : evaluationRow'[r] = evaluationRow[r] /\ evaluationRow[r] \in EvaluationRow
  BY <1>4, <1>5, <1>7, <1>8
<1>10. ASSUME NEW r \in C
       PROVE  /\ evaluationRow'[r] \in EvaluationRow
              /\ evaluationRow[r].status \in {"none", "queued"}
              /\ evaluationRow'[r].status = "running" /\ evaluationRow'[r].repair = evaluationRow[r].repair
              /\ evaluationRow'[r].signals \subseteq evaluationRow[r].signals \cup Signals(runHistory[r])
              /\ evaluationRow[r].status = "none" => Signals(runHistory[r]) # {} /\ QueueEnabled(r)
  <2>1. PICK v \in EvaluationRow : v = queue[r]
    BY <1>5, <1>7
  <2>2. PICK x \in EvaluationRow : /\ x = RowTaken(v)
                                   /\ x.status = "running" /\ x.signals = v.signals /\ x.repair = v.repair
    BY RowTakenFits
  <2>3. evaluationRow'[r] = x
    BY <1>7, <1>8, <2>1, <2>2 DEF RowTaken
  <2>4. v.status = "queued" /\ v.repair = evaluationRow[r].repair
        /\ (v = evaluationRow[r] \/ (/\ evaluationRow[r].status = "none" /\ v.signals = Signals(runHistory[r])
                                     /\ Signals(runHistory[r]) # {} /\ QueueEnabled(r)))
    BY <1>5, <1>7, <2>1
  <2> QED
    BY <2>2, <2>3, <2>4
<1>11. evaluationRow' \in [EvaluatedRuns -> EvaluationRow]
  <2>1. \A r \in EvaluatedRuns : evaluationRow'[r] \in EvaluationRow
    BY <1>9, <1>10
  <2> QED
    BY <1>8, <2>1
<1> QED
  BY <1>7, <1>8, <1>9, <1>10, <1>11

\* One evaluator's step keeps all in order, if it keeps that one and the rows so.
LEMMA OneEvaluatorMoves ==
  ASSUME EvaluationConfigured, EvaluationFits, Onwards, NEW e \in Evaluators, NEW x \in EvaluatorRow,
         evaluator' = [evaluator EXCEPT ![e] = x], EvaluatorFits(e)',
         evaluationRow' \in [EvaluatedRuns -> EvaluationRow], \A r \in EvaluatedRuns : EvaluatedRowFits(r)',
         repairs' \in [EvaluatedRuns -> Nat], asked' \in [EvaluatedRuns -> Nat],
         evaluationTrouble' \in TroubleFits
  PROVE  EvaluationFits'
<1>1. evaluator \in [Evaluators -> EvaluatorRow] /\ runHistory \in [EvaluatedRuns -> Histories]
  BY DEF EvaluationFits
<1>2. evaluator' \in [Evaluators -> EvaluatorRow]
  BY <1>1
<1>3. ASSUME NEW o \in Evaluators
      PROVE  EvaluatorFits(o)'
  <2>1. CASE o = e
    BY <2>1
  <2>2. CASE o # e
    <3>1. evaluator'[o] = evaluator[o]
      BY <1>1, <2>2
    <3> QED
      BY <3>1, OthersFit
  <2> QED
    BY <2>1, <2>2
<1>4. runHistory' \in [EvaluatedRuns -> Histories]
  BY <1>1 DEF Onwards
<1> QED
  BY <1>2, <1>3, <1>4 DEF EvaluationFits

\* Where no row changes, none is spoilt.
LEMMA RowsStay ==
  ASSUME EvaluationFits, Onwards, evaluationRow' = evaluationRow,
         \A r \in EvaluatedRuns : asked'[r] = 0 /\ repairs'[r] > 0 =>
           repairs[r] > 0 \/ (ConfigForRun(r).enabled /\ ConfigForRun(r).safe)
  PROVE  evaluationRow' \in [EvaluatedRuns -> EvaluationRow] /\ \A r \in EvaluatedRuns : EvaluatedRowFits(r)'
<1>1. evaluationRow \in [EvaluatedRuns -> EvaluationRow]
  BY DEF EvaluationFits
<1>2. ASSUME NEW r \in EvaluatedRuns
      PROVE  EvaluatedRowFits(r)'
  <2>1. EvaluatedRowFits(r)
    BY DEF EvaluationFits
  <2>2. evaluationRow'[r].repair = "queued" => repairs'[r] > 0
    BY <2>1 DEF EvaluatedRowFits, Onwards
  <2>3. evaluationRow'[r] \in EvaluationRow /\ evaluationRow'[r] = evaluationRow[r]
    BY <1>1
  <2> QED
    BY <2>2, <2>3, RowsFit
<1> QED
  BY <1>1, <1>2

\* One row changes, and is a row all the same.
LEMMA OneRowMoves ==
  ASSUME EvaluationFits, Onwards, NEW q \in EvaluatedRuns, NEW x \in EvaluationRow,
         evaluationRow' = [evaluationRow EXCEPT ![q] = x], repairs' = repairs,
         x.status # "none", x.repair = "queued" => repairs[q] > 0,
         asked'[q] = 0 => x.signals \subseteq evaluationRow[q].signals /\ evaluationRow[q].status # "none"
  PROVE  evaluationRow' \in [EvaluatedRuns -> EvaluationRow] /\ \A r \in EvaluatedRuns : EvaluatedRowFits(r)'
<1>1. evaluationRow \in [EvaluatedRuns -> EvaluationRow]
  BY DEF EvaluationFits
<1>2. evaluationRow' \in [EvaluatedRuns -> EvaluationRow]
  BY <1>1
<1>3. ASSUME NEW r \in EvaluatedRuns
      PROVE  EvaluatedRowFits(r)'
  <2>1. EvaluatedRowFits(r)
    BY DEF EvaluationFits
  <2>2. evaluationRow'[r] \in EvaluationRow
    BY <1>2
  <2>3. CASE r = q
    <3>1. evaluationRow'[r] = x
      BY <1>1, <2>3
    <3> QED
      BY <2>2, <2>3, <3>1, RowsFit
  <2>4. CASE r # q
    <3>1. evaluationRow'[r] = evaluationRow[r]
      BY <1>1, <2>4
    <3>2. evaluationRow'[r].repair = "queued" => repairs'[r] > 0
      BY <2>1, <3>1 DEF EvaluatedRowFits
    <3> QED
      BY <2>2, <3>1, <3>2, RowsFit
  <2> QED
    BY <2>3, <2>4
<1> QED
  BY <1>2, <1>3

\* What completing a row, well or badly, leaves.
LEMMA RowIsCompleted ==
  ASSUME EvaluationFits, NEW q \in EvaluatedRuns, NEW st \in Endings, NEW c \in Categories,
         NEW how \in Outcomes, Completed(q, st, c, how)
  PROVE  \E x \in EvaluationRow :
           /\ evaluationRow' = [evaluationRow EXCEPT ![q] = x]
           /\ x.status = st /\ x.signals = evaluationRow[q].signals /\ x.repair = how
<1>1. PICK v \in EvaluationRow : v = evaluationRow[q]
  BY DEF EvaluationFits
<1>2. evaluationRow' = [evaluationRow EXCEPT ![q] = RowDone(v, st, c, how)]
  BY <1>1 DEF Completed, RowDone
<1>3. /\ RowDone(v, st, c, how) \in EvaluationRow /\ RowDone(v, st, c, how).status = st
      /\ RowDone(v, st, c, how).signals = v.signals /\ RowDone(v, st, c, how).repair = how
  BY RowDoneFits
<1> QED
  BY <1>1, <1>2, <1>3

\* Who is over with a run rests, or takes the next of its batch.
LEMMA OverFits ==
  ASSUME EvaluationConfigured, EvaluationFits, NEW e \in Evaluators, evaluator[e].phase # "rest",
         Onwards, evaluator' = [evaluator EXCEPT ![e] = Over(e)]
  PROVE  \E x \in EvaluatorRow :
           /\ evaluator' = [evaluator EXCEPT ![e] = x] /\ EvaluatorFits(e)'
           /\ x.items = evaluator[e].items /\ x.run = "none" /\ x.phase \in {"rest", "next"}
<1>1. evaluator[e] \in EvaluatorRow /\ EvaluatorFits(e) /\ evaluator \in [Evaluators -> EvaluatorRow]
  BY DEF EvaluationFits
<1>2. PICK C \in SUBSET EvaluatedRuns : C = evaluator[e].items
  BY <1>1 DEF EvaluatorRow
<1>3. PICK p \in {"rest", "next"} : p = After(e) /\ (p = "rest" => C = {})
  BY <1>2 DEF After
<1>4. PICK x \in EvaluatorRow :
        /\ x = EvaluatorBegins(p, C)
        /\ x.phase = p /\ x.items = C /\ x.run = "none" /\ x.repair = ""
  BY ZenonT(60), EvaluatorBeginsFits
<1>5. evaluator' = [evaluator EXCEPT ![e] = x] /\ evaluator'[e] = x
  BY <1>1, <1>2, <1>3, <1>4 DEF Over, EvaluatorBegins
<1>6. p = "rest" => x = RestingEvaluator
  <2> SUFFICES ASSUME p = "rest" PROVE x = RestingEvaluator
    OBVIOUS
  <2>1. C = {}
    BY <1>3
  <2> QED
    BY <1>4, <2>1 DEF RestingEvaluator, EvaluatorBegins
<1>7. "none" \notin EvaluatedRuns
  BY DEF EvaluationConfigured, Evaluators
<1>8. \A r \in C : evaluationRow'[r].status # "none"
  BY <1>1, <1>2 DEF EvaluatorFits, Onwards
<1>9. EvaluatorFits(e)'
  <2>1. x.phase = "next" <=> x.phase # "rest" /\ x.run = "none"
    BY <1>4
  <2>2. x.run \notin x.items /\ \A r \in EvaluatedRuns : x.run # r
    BY <1>4, <1>7
  <2>3. \A r \in EvaluatedRuns : r \in x.items => evaluationRow'[r].status # "none"
    BY <1>4, <1>8
  <2>4. x.phase = "rest" => x = RestingEvaluator
    BY <1>4, <1>6
  <2> QED
    BY ONLY <1>4, <1>5, <2>1, <2>2, <2>3, <2>4 DEF EvaluatorFits
<1> QED
  BY <1>2, <1>4, <1>5, <1>9


\* Who rests is in order.
LEMMA RestFits ==
  ASSUME EvaluationConfigured, NEW e \in Evaluators, evaluator \in [Evaluators -> EvaluatorRow],
         evaluator' = [evaluator EXCEPT ![e] = RestingEvaluator]
  PROVE  RestingEvaluator \in EvaluatorRow /\ EvaluatorFits(e)'
<1>1. RestingEvaluator \in EvaluatorRow
  BY NoCategory DEF RestingEvaluator, EvaluatorRow, SignalSets, Outcomes
<1>2. evaluator'[e] = RestingEvaluator
  OBVIOUS
<1>3. /\ RestingEvaluator.phase = "rest" /\ RestingEvaluator.items = {} /\ RestingEvaluator.run = "none"
      /\ RestingEvaluator.repair = ""
  BY DEF RestingEvaluator
<1>4. \A r \in EvaluatedRuns : r # "none"
  BY DEF EvaluationConfigured, Evaluators
<1>5. EvaluatorFits(e)'
  BY ONLY <1>1, <1>2, <1>3, <1>4 DEF EvaluatorFits
<1> QED
  BY <1>1, <1>5

\* What a step leaves alone is known as well as before.
LEMMA LeftAlone ==
  ASSUME EvaluationFits, UNCHANGED <<repairs, asked>>
  PROVE  repairs' \in [EvaluatedRuns -> Nat] /\ asked' \in [EvaluatedRuns -> Nat]
BY DEF EvaluationFits

\* A round keeps all in order,
LEMMA RoundKeeps ==
  ASSUME EvaluationConfigured, EvaluationFits, NEW e \in Evaluators, RunOnce(e)
  PROVE  EvaluationFits' /\ Onwards
<1>1. PICK C \in SUBSET EvaluatedRuns :
        /\ evaluator' = [evaluator EXCEPT ![e] = EvaluatorBegins("next", C)]
        /\ evaluationRow' \in [EvaluatedRuns -> EvaluationRow]
        /\ \A r \in EvaluatedRuns \ C : evaluationRow'[r] = evaluationRow[r]
        /\ \A r \in C :
             /\ evaluationRow[r].status \in {"none", "queued"}
             /\ evaluationRow'[r].status = "running" /\ evaluationRow'[r].repair = evaluationRow[r].repair
             /\ evaluationRow'[r].signals \subseteq evaluationRow[r].signals \cup Signals(runHistory[r])
             /\ evaluationRow[r].status = "none" => Signals(runHistory[r]) # {} /\ QueueEnabled(r)
        /\ IsTakenUp(C)
  BY RoundTakes
<1>2. UNCHANGED <<runHistory, runProfile, repairs, asked>>
  BY DEF RunOnce
<1>3. Onwards
  BY <1>1, <1>2 DEF Onwards
<1>4. PICK x \in EvaluatorRow :
        x = EvaluatorBegins("next", C) /\ x.phase = "next" /\ x.items = C /\ x.run = "none" /\ x.repair = ""
  BY EvaluatorBeginsFits
<1>5. evaluator' = [evaluator EXCEPT ![e] = x] /\ evaluator'[e] = x
  BY <1>1, <1>4 DEF EvaluationFits
<1>6. EvaluatorFits(e)'
  <2>1. "none" \notin EvaluatedRuns
    BY DEF EvaluationConfigured, Evaluators
  <2>2. x.run \notin x.items /\ \A r \in EvaluatedRuns : x.run # r
    BY <1>4, <2>1
  <2>3. \A r \in EvaluatedRuns : r \in x.items => evaluationRow'[r].status # "none"
    BY <1>1, <1>4
  <2> QED
    BY ONLY <1>4, <1>5, <2>1, <2>2, <2>3 DEF EvaluatorFits
<1>7. \A r \in EvaluatedRuns : EvaluatedRowFits(r)'
  <2> SUFFICES ASSUME NEW r \in EvaluatedRuns PROVE EvaluatedRowFits(r)'
    OBVIOUS
  <2>1. EvaluatedRowFits(r) /\ evaluationRow'[r] \in EvaluationRow
    BY <1>1 DEF EvaluationFits
  <2>2. evaluationRow'[r].repair = "queued" => repairs'[r] > 0
    BY <1>1, <1>2, <2>1 DEF EvaluatedRowFits
  <2>3. /\ evaluationRow'[r].signals \subseteq evaluationRow[r].signals \cup Signals(runHistory[r])
        /\ evaluationRow[r].status # "none" \/ evaluationRow'[r].status = "none"
           \/ (Signals(runHistory[r]) # {} /\ QueueEnabled(r))
        /\ evaluationRow'[r].status = "none" => evaluationRow'[r] = evaluationRow[r]
    BY <1>1
  <2> QED
    BY <1>2, <1>3, <2>1, <2>2, <2>3, RowsFit
<1>8. evaluationTrouble' \in TroubleFits
  BY <1>1, TakenUp
<1> QED
  BY <1>1, <1>2, <1>3, <1>5, <1>6, <1>7, <1>8, LeftAlone, OneEvaluatorMoves

\* taking the next run of the batch,
LEMMA NextItemKeeps ==
  ASSUME EvaluationConfigured, EvaluationFits, NEW e \in Evaluators, NextItem(e)
  PROVE  /\ EvaluationFits' /\ Onwards
         /\ \E r \in evaluator[e].items, x \in EvaluatorRow :
              /\ evaluator' = [evaluator EXCEPT ![e] = x]
              /\ x.phase = "evaluate" /\ x.items = evaluator[e].items \ {r} /\ x.run = r
<1>1. evaluator[e] \in EvaluatorRow /\ EvaluatorFits(e) /\ evaluator \in [Evaluators -> EvaluatorRow]
      /\ \A r \in EvaluatedRuns : EvaluatedRowFits(r)
  BY DEF EvaluationFits
<1>2. evaluator[e].items \subseteq EvaluatedRuns
  BY <1>1 DEF EvaluatorRow
<1>3. PICK r \in evaluator[e].items :
        evaluator' = [evaluator EXCEPT ![e] =
          EvaluatorTakes(evaluator[e].items \ {r}, r, evaluationRow[r].signals)]
  BY DEF NextItem, EvaluatorTakes
<1>4. r \in EvaluatedRuns
  BY <1>2
<1>5. evaluationRow[r].signals \in SignalSets
  <2>1. evaluationRow[r] \in EvaluationRow
    BY <1>1, <1>4 DEF EvaluatedRowFits
  <2> QED
    BY <2>1 DEF EvaluationRow
<1>6. PICK S \in SignalSets : S = evaluationRow[r].signals
  BY <1>5
<1>7. PICK C \in Batches : C = evaluator[e].items \ {r}
  BY <1>2 DEF Batches
<1>8. PICK x \in EvaluatorRow :
        /\ x = EvaluatorTakes(C, r, S)
        /\ x.phase = "evaluate" /\ x.items = C /\ x.run = r /\ x.signals = S /\ x.repair = ""
  <2>1. PICK x : x = EvaluatorTakes(C, r, S)
    OBVIOUS
  <2>2. Takes(x, C, r, S)
    BY <1>4, <2>1, EvaluatorTakesFits
  <2> QED
    BY <2>1, <2>2 DEF Takes
<1>9. evaluator' = [evaluator EXCEPT ![e] = x] /\ evaluator'[e] = x
  BY <1>1, <1>3, <1>6, <1>7, <1>8
<1>10. UNCHANGED <<runHistory, runProfile, evaluationRow, repairs, asked, evaluationTrouble>>
  BY DEF NextItem
<1>11. Onwards
  BY <1>10 DEF Onwards
<1>12. EvaluatorFits(e)'
  <2>1. x.run \notin x.items /\ x.run # "none"
    BY <1>4, <1>7, <1>8 DEF EvaluationConfigured, Evaluators
  <2>2. \A q \in EvaluatedRuns : q \in x.items \/ q = x.run => evaluationRow'[q].status # "none"
    BY <1>1, <1>7, <1>8, <1>10 DEF EvaluatorFits
  <2>3. \A q \in EvaluatedRuns : x.run = q /\ asked'[q] = 0 => "manual" \notin x.signals
    BY ZenonT(60), <1>1, <1>6, <1>8, <1>10 DEF EvaluatedRowFits
  <2> QED
    BY ONLY <1>8, <1>9, <2>1, <2>2, <2>3 DEF EvaluatorFits
<1>13. evaluationRow' \in [EvaluatedRuns -> EvaluationRow] /\ \A q \in EvaluatedRuns : EvaluatedRowFits(q)'
  BY <1>10, <1>11, RowsStay
<1>14. evaluationTrouble' \in TroubleFits
  BY <1>10 DEF EvaluationFits
<1>15. EvaluationFits'
  BY <1>9, <1>10, <1>11, <1>12, <1>13, <1>14, LeftAlone, OneEvaluatorMoves
<1> QED
  BY <1>7, <1>8, <1>9, <1>11, <1>15


\* asking for a run,
LEMMA EvaluateKeeps ==
  ASSUME EvaluationConfigured, EvaluationFits, NEW e \in Evaluators, NEW r \in EvaluatedRuns, EvaluateRunTools(e, r)
  PROVE  /\ EvaluationFits' /\ Onwards
         /\ \E x \in EvaluatorRow :
              evaluator' = [evaluator EXCEPT ![e] = x] /\ x.phase = "claim" /\ x.items = {} /\ x.run = r
         /\ \E y \in EvaluationRow : evaluationRow' = [evaluationRow EXCEPT ![r] = y] /\ y.status = "queued"
         /\ asked' = [asked EXCEPT ![r] = @ + 1] /\ repairs' = repairs
<1>1. evaluator[e] \in EvaluatorRow /\ EvaluatorFits(e) /\ evaluator \in [Evaluators -> EvaluatorRow]
      /\ evaluationRow \in [EvaluatedRuns -> EvaluationRow] /\ asked \in [EvaluatedRuns -> Nat]
      /\ EvaluatedRowFits(r)
  BY DEF EvaluationFits
<1>2. PICK v \in EvaluationRow : v = evaluationRow[r]
  BY <1>1
<1>3. PICK S \in SignalSets : S = {"manual"}
  BY DEF SignalSets, SignalKinds
<1>4. PICK y : y = RowRequested(v, S)
  OBVIOUS
<1>5. y \in EvaluationRow /\ y.status = "queued" /\ y.signals = S /\ y.repair = v.repair
  BY <1>4, RowRequestedFits
<1>6. evaluationRow' = [evaluationRow EXCEPT ![r] = y]
  <2>1. evaluationRow' = [[[evaluationRow EXCEPT ![r].status = "queued"] EXCEPT ![r].signals = S] EXCEPT ![r].lease = "none"]
    BY <1>3 DEF EvaluateRunTools, QueueToolEvaluation
  <2> QED
    BY <1>1, <1>2, <1>4, <2>1 DEF RowRequested
<1>7. PICK x : x = EvaluatorAsks(r)
  OBVIOUS
<1>8. x \in EvaluatorRow /\ x.phase = "claim" /\ x.items = {} /\ x.run = r /\ x.signals = {} /\ x.repair = ""
  BY <1>7, EvaluatorAsksFits
<1>9. evaluator' = [evaluator EXCEPT ![e] = x] /\ evaluator'[e] = x
  BY <1>1, <1>7 DEF EvaluateRunTools, EvaluatorAsks
<1>10. /\ UNCHANGED <<runHistory, runProfile, repairs, evaluationTrouble>>
       /\ asked' = [asked EXCEPT ![r] = @ + 1]
  BY DEF EvaluateRunTools
<1>11. asked' \in [EvaluatedRuns -> Nat] /\ asked'[r] > 0 /\ \A q \in EvaluatedRuns \ {r} : asked'[q] = asked[q]
  BY <1>1, <1>10
<1>12. evaluationRow'[r] = y /\ \A q \in EvaluatedRuns \ {r} : evaluationRow'[q] = evaluationRow[q]
  BY <1>1, <1>6
<1>13. Onwards
  BY <1>5, <1>10, <1>11, <1>12 DEF Onwards
<1>14. EvaluatorFits(e)'
  <2>1. x.run # "none" /\ x.phase # "rest" /\ x.phase # "next"
    BY <1>8 DEF EvaluationConfigured, Evaluators
  <2>2. \A q \in EvaluatedRuns : q \in x.items \/ q = x.run => evaluationRow'[q].status # "none"
    BY <1>5, <1>8, <1>12
  <2> QED
    BY ONLY <1>8, <1>9, <1>11, <2>1, <2>2 DEF EvaluatorFits
<1>15. evaluationRow' \in [EvaluatedRuns -> EvaluationRow] /\ \A q \in EvaluatedRuns : EvaluatedRowFits(q)'
  <2>1. y.repair = "queued" => repairs[r] > 0
    BY <1>1, <1>2, <1>5 DEF EvaluatedRowFits
  <2>2. repairs' = repairs /\ asked'[r] # 0 /\ y.status # "none"
    BY <1>5, <1>10, <1>11
  <2> QED
    BY <1>5, <1>6, <1>13, <2>1, <2>2, OneRowMoves
<1>16. evaluationTrouble' \in TroubleFits /\ repairs' \in [EvaluatedRuns -> Nat]
  BY <1>10 DEF EvaluationFits
<1>17. EvaluationFits'
  BY <1>8, <1>9, <1>11, <1>13, <1>14, <1>15, <1>16, OneEvaluatorMoves
<1> QED
  BY <1>5, <1>6, <1>8, <1>9, <1>10, <1>13, <1>17

\* claiming it, or not,
LEMMA ClaimKeeps ==
  ASSUME EvaluationConfigured, EvaluationFits, NEW e \in Evaluators, ClaimToolEvaluation(e)
  PROVE  /\ EvaluationFits' /\ Onwards /\ evaluator[e].run \in EvaluatedRuns
         /\ \/ /\ \E x \in EvaluatorRow :
                    /\ evaluator' = [evaluator EXCEPT ![e] = x]
                    /\ x.phase = "evaluate" /\ x.items = {} /\ x.run = evaluator[e].run
               /\ \E y \in EvaluationRow :
                    evaluationRow' = [evaluationRow EXCEPT ![evaluator[e].run] = y] /\ y.status = "running"
               /\ IsTakenUp({evaluator[e].run})
            \/ /\ evaluator' = [evaluator EXCEPT ![e] = RestingEvaluator]
               /\ UNCHANGED <<evaluationRow, evaluationTrouble>>
         /\ UNCHANGED <<repairs, asked>>
<1>1. /\ evaluator[e] \in EvaluatorRow /\ EvaluatorFits(e) /\ evaluator \in [Evaluators -> EvaluatorRow]
      /\ evaluationRow \in [EvaluatedRuns -> EvaluationRow] /\ asked \in [EvaluatedRuns -> Nat]
      /\ \A q \in EvaluatedRuns : EvaluatedRowFits(q)
  BY DEF EvaluationFits
<1>2. PICK r : r = evaluator[e].run
  OBVIOUS
<1>3. /\ evaluator[e].phase = "claim" /\ r \in EvaluatedRuns /\ r # "none"
      /\ evaluator[e].items = {} /\ asked[r] > 0 /\ evaluationRow[r].status # "none"
      /\ evaluator[e].repair = "queued" => repairs[r] > 0
  <2>1. evaluator[e].phase = "claim"
    BY DEF ClaimToolEvaluation
  <2>2. r \in EvaluatedRuns /\ r # "none"
    BY <1>1, <1>2, <2>1 DEF EvaluatorFits, EvaluatorRow
  <2> QED
    BY <1>1, <1>2, <2>1, <2>2 DEF EvaluatorFits
<1>4. UNCHANGED <<runHistory, runProfile, repairs, asked>>
  BY DEF ClaimToolEvaluation
<1>6. CASE evaluationRow[r].status = "queued" \/ evaluationRow[r].lease # "live"
  <2>1. PICK v \in EvaluationRow : v = evaluationRow[r]
    BY <1>1, <1>3
  <2>2. PICK y : y = RowTaken(v)
    OBVIOUS
  <2>3. y \in EvaluationRow /\ y.status = "running" /\ y.signals = v.signals /\ y.repair = v.repair
    BY <2>2, RowTakenFits
  <2>4. evaluationRow' = [evaluationRow EXCEPT ![r] = y]
    <3>1. evaluationRow' = Claimed(evaluationRow, {r})
      BY <1>2, <1>6 DEF ClaimToolEvaluation
    <3> QED
      BY <1>1, <1>3, <2>1, <2>2, <3>1 DEF Claimed, RowTaken
  <2>5. PICK S \in SignalSets : S = v.signals
    BY DEF EvaluationRow
  <2>6. PICK w \in EvaluatorRow : w = evaluator[e]
    BY <1>1
  <2>7. PICK x : x = EvaluatorClaims(w, S)
    OBVIOUS
  <2>8. /\ x \in EvaluatorRow /\ x.phase = "evaluate" /\ x.items = w.items /\ x.run = w.run /\ x.signals = S
        /\ x.repair = w.repair
    BY <2>7, EvaluatorClaimsFits
  <2>9. evaluator' = [evaluator EXCEPT ![e] = x] /\ evaluator'[e] = x
    BY <1>1, <1>2, <1>6, <2>1, <2>5, <2>6, <2>7 DEF ClaimToolEvaluation, EvaluatorClaims
  <2>10. evaluationRow'[r] = y /\ \A q \in EvaluatedRuns \ {r} : evaluationRow'[q] = evaluationRow[q]
    BY <1>1, <1>3, <2>4
  <2>11. Onwards
    BY <1>4, <2>3, <2>10 DEF Onwards
  <2>12. x.phase = "evaluate" /\ x.items = {} /\ x.run = r /\ (x.repair = "queued" => repairs'[r] > 0)
    BY <1>2, <1>3, <1>4, <2>6, <2>8
  <2>13. EvaluatorFits(e)'
    <3>1. \A q \in EvaluatedRuns : q \in x.items \/ q = x.run => evaluationRow'[q].status # "none"
      BY <2>3, <2>10, <2>12
    <3>2. \A q \in EvaluatedRuns : x.run = q => asked'[q] > 0
      BY <1>3, <1>4, <2>12
    <3>3. asked'[r] # 0
      BY <1>3, <1>4
    <3>4. x.run # "none" /\ x.run \in EvaluatedRuns
      BY <1>3, <2>12
    <3> QED
      BY ONLY <2>8, <2>9, <2>12, <3>1, <3>3, <3>4 DEF EvaluatorFits
  <2>14. evaluationRow' \in [EvaluatedRuns -> EvaluationRow] /\ \A q \in EvaluatedRuns : EvaluatedRowFits(q)'
    <3>1. y.repair = "queued" => repairs[r] > 0
      BY <1>1, <1>3, <2>1, <2>3 DEF EvaluatedRowFits
    <3>2. asked'[r] # 0
      BY <1>3, <1>4
    <3> QED
      BY <1>3, <1>4, <2>3, <2>4, <2>11, <3>1, <3>2, OneRowMoves
  <2>15. IsTakenUp({r})
    BY <1>2, <1>6 DEF ClaimToolEvaluation
  <2>16. EvaluationFits'
    BY <1>4, <2>8, <2>9, <2>11, <2>13, <2>14, <2>15, LeftAlone, TakenUp, OneEvaluatorMoves
  <2> QED
    BY <1>2, <1>3, <1>4, <2>3, <2>4, <2>8, <2>9, <2>11, <2>12, <2>15, <2>16
<1>7. CASE ~(evaluationRow[r].status = "queued" \/ evaluationRow[r].lease # "live")
  <2>1. /\ evaluator' = [evaluator EXCEPT ![e] = RestingEvaluator] /\ evaluationRow' = evaluationRow
        /\ evaluationTrouble' = evaluationTrouble /\ evaluationTrouble' \in TroubleFits
    BY <1>2, <1>7 DEF ClaimToolEvaluation, EvaluationFits
  <2>2. Onwards
    BY <1>4, <2>1 DEF Onwards
  <2>3. RestingEvaluator \in EvaluatorRow /\ EvaluatorFits(e)'
    BY <1>1, <2>1, RestFits
  <2>4. evaluationRow' \in [EvaluatedRuns -> EvaluationRow] /\ \A q \in EvaluatedRuns : EvaluatedRowFits(q)'
    BY <1>4, <2>1, <2>2, RowsStay
  <2>5. EvaluationFits'
    BY <1>4, <2>1, <2>2, <2>3, <2>4, LeftAlone, OneEvaluatorMoves
  <2> QED
    BY <1>2, <1>3, <1>4, <2>1, <2>2, <2>5
<1> QED
  BY <1>6, <1>7


\* letting a run go: skipped, judged or failed,
LEMMA OverKeeps ==
  ASSUME EvaluationConfigured, EvaluationFits, NEW e \in Evaluators, NEW st \in Endings, NEW c \in Categories,
         NEW how \in Outcomes, evaluator[e].phase \in {"evaluate", "complete"},
         Completed(evaluator[e].run, st, c, how), how = "queued" => repairs[evaluator[e].run] > 0,
         evaluator' = [evaluator EXCEPT ![e] = Over(e)],
         UNCHANGED <<runHistory, runProfile, repairs, asked>>, evaluationTrouble' \in TroubleFits
  PROVE  /\ EvaluationFits' /\ Onwards /\ evaluator[e].run \in EvaluatedRuns
         /\ \E x \in EvaluatorRow :
              /\ evaluator' = [evaluator EXCEPT ![e] = x]
              /\ x.items = evaluator[e].items /\ x.run = "none" /\ x.phase \in {"rest", "next"}
         /\ \E y \in EvaluationRow :
              evaluationRow' = [evaluationRow EXCEPT ![evaluator[e].run] = y] /\ y.status \in Endings
<1>1. /\ evaluator[e] \in EvaluatorRow /\ EvaluatorFits(e) /\ evaluator \in [Evaluators -> EvaluatorRow]
      /\ evaluationRow \in [EvaluatedRuns -> EvaluationRow]
      /\ \A q \in EvaluatedRuns : EvaluatedRowFits(q)
  BY DEF EvaluationFits
<1>2. PICK r : r = evaluator[e].run
  OBVIOUS
<1>3. r \in EvaluatedRuns /\ evaluationRow[r].status # "none"
  <2>1. r \in EvaluatedRuns
    BY <1>1, <1>2 DEF EvaluatorFits, EvaluatorRow
  <2> QED
    BY <1>1, <1>2, <2>1 DEF EvaluatorFits
<1>4. PICK y \in EvaluationRow :
        /\ evaluationRow' = [evaluationRow EXCEPT ![r] = y]
        /\ y.status = st /\ y.signals = evaluationRow[r].signals /\ y.repair = how
  BY <1>2, <1>3, RowIsCompleted
<1>5. y.status # "none" /\ y.status \in Endings
  BY <1>4 DEF Endings
<1>6. Onwards
  BY <1>1, <1>3, <1>4, <1>5 DEF Onwards
<1>7. PICK x \in EvaluatorRow :
        /\ evaluator' = [evaluator EXCEPT ![e] = x] /\ EvaluatorFits(e)'
        /\ x.items = evaluator[e].items /\ x.run = "none" /\ x.phase \in {"rest", "next"}
  <2>1. evaluator[e].phase # "rest"
    OBVIOUS
  <2> QED
    BY <1>6, <2>1, OverFits
<1>8. evaluationRow' \in [EvaluatedRuns -> EvaluationRow] /\ \A q \in EvaluatedRuns : EvaluatedRowFits(q)'
  <2>1. y.repair = "queued" => repairs[r] > 0
    BY <1>2, <1>4
  <2> QED
    BY <1>3, <1>4, <1>5, <1>6, <2>1, OneRowMoves
<1>9. EvaluationFits'
  BY <1>6, <1>7, <1>8, LeftAlone, OneEvaluatorMoves
<1> QED
  BY <1>2, <1>3, <1>4, <1>5, <1>6, <1>7, <1>9

\* judging it,
LEMMA JudgementKeeps ==
  ASSUME EvaluationConfigured, EvaluationFits, NEW e \in Evaluators, LLMVerdict(e)
  PROVE  /\ EvaluationFits' /\ Onwards /\ UNCHANGED <<evaluationRow, repairs, asked>>
         /\ \E x \in EvaluatorRow :
              /\ evaluator' = [evaluator EXCEPT ![e] = x]
              /\ x.phase = "repair" /\ x.items = evaluator[e].items /\ x.run = evaluator[e].run
<1>1. /\ evaluator[e] \in EvaluatorRow /\ EvaluatorFits(e) /\ evaluator \in [Evaluators -> EvaluatorRow]
      /\ \A q \in EvaluatedRuns : EvaluatedRowFits(q)
  BY DEF EvaluationFits
<1>2. PICK r : r = evaluator[e].run
  OBVIOUS
<1>3. evaluator[e].phase = "evaluate" /\ (ConfigForRun(r).enabled \/ "manual" \in evaluator[e].signals)
  BY <1>2 DEF LLMVerdict
<1>4. r \in EvaluatedRuns /\ r # "none"
  BY <1>1, <1>2, <1>3 DEF EvaluatorFits, EvaluatorRow
<1>5. PICK w \in EvaluatorRow : w = evaluator[e]
  BY <1>1
<1>6. \E c \in Categories, b \in BOOLEAN : evaluator' = [evaluator EXCEPT ![e] = EvaluatorJudges(w, c, b)]
  <2>1. PICK given : given = DeterministicVerdict(runHistory[r], evaluator[e].signals)
    BY SMTT(60)
  <2>2. PICK v \in Verdicts \cup {[category |-> given.category, confidence |-> given.confidence, safe |-> FALSE]} :
          LET confidence == IF v.confidence = 0 THEN given.confidence ELSE v.confidence IN
          evaluator' = [evaluator EXCEPT ![e] =
            [@ EXCEPT !.phase = "repair", !.category = v.category,
                      !.confident = v.safe /\ confidence >= ConfidenceThreshold]]
    BY <1>2, <2>1 DEF LLMVerdict
  <2>3. PICK confidence : confidence = (IF v.confidence = 0 THEN given.confidence ELSE v.confidence)
    OBVIOUS
  <2>4. PICK b \in BOOLEAN : b = (v.safe /\ confidence >= ConfidenceThreshold)
    OBVIOUS
  <2>5. v.category \in Categories
    <3>1. runHistory[r] \in Histories /\ evaluator[e].signals \in SUBSET SignalKinds
      BY <1>1, <1>4 DEF EvaluationFits, EvaluatorRow, SignalSets
    <3>2. given.category \in SaidCategories
      BY <2>1, <3>1 DEF SaidCategories
    <3>3. v.category \in SaidCategories
      BY <2>2, <3>2 DEF SaidCategories
    <3> QED
      BY <3>3 DEF Categories
  <2>6. evaluator' = [evaluator EXCEPT ![e] =
            [w EXCEPT !.phase = "repair", !.category = v.category, !.confident = b]]
    BY <1>1, <1>5, <2>2, <2>3, <2>4
  <2> QED
    BY <2>4, <2>5, <2>6 DEF EvaluatorJudges
<1>7. PICK c \in Categories, b \in BOOLEAN : evaluator' = [evaluator EXCEPT ![e] = EvaluatorJudges(w, c, b)]
  BY <1>6
<1>8. PICK x : x = EvaluatorJudges(w, c, b)
  OBVIOUS
<1>9. /\ x \in EvaluatorRow /\ x.phase = "repair" /\ x.items = w.items /\ x.run = w.run
      /\ x.signals = w.signals /\ x.repair = w.repair
  BY <1>8, EvaluatorJudgesFits
<1>10. evaluator' = [evaluator EXCEPT ![e] = x] /\ evaluator'[e] = x
  BY <1>1, <1>7, <1>8
<1>11. UNCHANGED <<runHistory, runProfile, evaluationRow, repairs, asked, evaluationTrouble>>
  BY DEF LLMVerdict
<1>12. Onwards
  BY <1>11 DEF Onwards
<1>13. EvaluatorFits(e)'
  <2>1. /\ x.run # "none" /\ x.run \notin x.items /\ (x.repair = "queued" => repairs'[x.run] > 0)
        /\ x.run \in EvaluatedRuns
    BY <1>1, <1>2, <1>4, <1>5, <1>9, <1>11 DEF EvaluatorFits
  <2>2. \A q \in EvaluatedRuns : q \in x.items \/ q = x.run => evaluationRow'[q].status # "none"
    BY <1>1, <1>5, <1>9, <1>11 DEF EvaluatorFits
  <2>3. \A q \in EvaluatedRuns : x.run = q /\ asked'[q] = 0 => "manual" \notin x.signals
    BY <1>1, <1>5, <1>9, <1>11 DEF EvaluatorFits
  <2>4. ConfigForRun(r)' = ConfigForRun(r)
    BY <1>11 DEF ConfigForRun
  <2>5. \A q \in EvaluatedRuns : x.run = q /\ asked'[q] = 0 => ConfigForRun(q)'.enabled
    BY <1>2, <1>3, <1>5, <1>9, <2>3, <2>4
  <2> QED
    BY ONLY <1>9, <1>10, <2>1, <2>2, <2>3, <2>5 DEF EvaluatorFits
<1>14. evaluationRow' \in [EvaluatedRuns -> EvaluationRow] /\ \A q \in EvaluatedRuns : EvaluatedRowFits(q)'
  BY <1>11, <1>12, RowsStay
<1>15. evaluationTrouble' \in TroubleFits
  BY <1>11 DEF EvaluationFits
<1>16. EvaluationFits'
  BY <1>9, <1>10, <1>11, <1>12, <1>13, <1>14, <1>15, LeftAlone, OneEvaluatorMoves
<1> QED
  BY <1>5, <1>9, <1>10, <1>11, <1>12, <1>16


\* correcting the user, or not,
LEMMA RepairKeeps ==
  ASSUME EvaluationConfigured, EvaluationFits, NEW e \in Evaluators, MaybeRepair(e)
  PROVE  /\ EvaluationFits' /\ Onwards /\ UNCHANGED <<evaluationRow, asked>>
         /\ evaluator[e].run \in EvaluatedRuns /\ evaluator[e].phase = "repair"
         /\ repairs' = repairs \/ repairs' = [repairs EXCEPT ![evaluator[e].run] = @ + 1]
         /\ \E x \in EvaluatorRow :
              /\ evaluator' = [evaluator EXCEPT ![e] = x]
              /\ x.phase = "complete" /\ x.items = evaluator[e].items /\ x.run = evaluator[e].run
<1>1. /\ evaluator[e] \in EvaluatorRow /\ EvaluatorFits(e) /\ evaluator \in [Evaluators -> EvaluatorRow]
      /\ repairs \in [EvaluatedRuns -> Nat]
      /\ \A q \in EvaluatedRuns : EvaluatedRowFits(q)
  BY DEF EvaluationFits
<1>2. PICK r : r = evaluator[e].run
  OBVIOUS
<1>3. evaluator[e].phase = "repair"
  BY DEF MaybeRepair
<1>4. r \in EvaluatedRuns /\ r # "none"
  BY <1>1, <1>2, <1>3 DEF EvaluatorFits, EvaluatorRow
<1>5. PICK w \in EvaluatorRow : w = evaluator[e]
  BY <1>1
<1>6. PICK how \in Outcomes :
        /\ evaluator' = [evaluator EXCEPT ![e].phase = "complete", ![e].repair = how]
        /\ \/ how = "queued" /\ repairs' = [repairs EXCEPT ![r] = @ + 1] /\ ConfigForRun(r).safe
           \/ how \in {"skipped", "failed"} /\ repairs' = repairs
  BY <1>2 DEF MaybeRepair, Outcomes
<1>7. PICK x : x = EvaluatorCorrects(w, how)
  OBVIOUS
<1>8. /\ x \in EvaluatorRow /\ x.phase = "complete" /\ x.items = w.items /\ x.run = w.run
      /\ x.signals = w.signals /\ x.repair = how
  BY <1>7, EvaluatorCorrectsFits
<1>9. evaluator' = [evaluator EXCEPT ![e] = x] /\ evaluator'[e] = x
  BY <1>1, <1>5, <1>6, <1>7 DEF EvaluatorCorrects
<1>10. UNCHANGED <<runHistory, runProfile, evaluationRow, asked, evaluationTrouble>>
  BY DEF MaybeRepair
<1>11. /\ repairs' \in [EvaluatedRuns -> Nat]
       /\ \A q \in EvaluatedRuns : repairs[q] > 0 => repairs'[q] > 0
       /\ \A q \in EvaluatedRuns \ {r} : repairs'[q] = repairs[q]
       /\ how = "queued" => repairs'[r] > 0 /\ ConfigForRun(r).safe
       /\ how # "queued" => repairs'[r] = repairs[r]
  BY <1>1, <1>4, <1>6
<1>12. Onwards
  BY <1>10, <1>11 DEF Onwards
<1>13. EvaluatorFits(e)'
  <2>1. /\ x.run # "none" /\ x.run \notin x.items /\ (x.repair = "queued" => repairs'[x.run] > 0)
        /\ x.run \in EvaluatedRuns
    BY <1>1, <1>2, <1>4, <1>5, <1>8, <1>11 DEF EvaluatorFits
  <2>2. \A q \in EvaluatedRuns : q \in x.items \/ q = x.run => evaluationRow'[q].status # "none"
    BY <1>1, <1>5, <1>8, <1>10 DEF EvaluatorFits
  <2>3. \A q \in EvaluatedRuns : x.run = q /\ asked'[q] = 0 => "manual" \notin x.signals
    BY <1>1, <1>5, <1>8, <1>10 DEF EvaluatorFits
  <2> QED
    BY ONLY <1>8, <1>9, <2>1, <2>2, <2>3 DEF EvaluatorFits
<1>14. evaluationRow' \in [EvaluatedRuns -> EvaluationRow] /\ \A q \in EvaluatedRuns : EvaluatedRowFits(q)'
  <2>1. asked[r] = 0 => ConfigForRun(r).enabled
    BY <1>1, <1>2, <1>3, <1>4 DEF EvaluatorFits
  <2>2. \A q \in EvaluatedRuns : asked'[q] = 0 /\ repairs'[q] > 0 =>
           repairs[q] > 0 \/ (ConfigForRun(q).enabled /\ ConfigForRun(q).safe)
    BY <1>10, <1>11, <2>1
  <2> QED
    BY <1>10, <1>12, <2>2, RowsStay
<1>15. evaluationTrouble' \in TroubleFits /\ asked' \in [EvaluatedRuns -> Nat]
  BY <1>10 DEF EvaluationFits
<1>16. EvaluationFits'
  BY <1>8, <1>9, <1>11, <1>12, <1>13, <1>14, <1>15, OneEvaluatorMoves
<1> QED
  BY <1>2, <1>3, <1>4, <1>5, <1>6, <1>8, <1>9, <1>10, <1>12, <1>16

\* What an evaluator has are runs.
LEMMA HasRuns ==
  ASSUME EvaluationFits, NEW e \in Evaluators
  PROVE  Has(e) \in SUBSET EvaluatedRuns
<1>1. evaluator[e].items \subseteq EvaluatedRuns
  BY DEF EvaluationFits, EvaluatorFits, EvaluatorRow
<1> QED
  BY <1>1 DEF Has

\* dying,
LEMMA CrashKeeps ==
  ASSUME EvaluationConfigured, EvaluationFits, NEW e \in Evaluators, Crash(e)
  PROVE  /\ EvaluationFits' /\ Onwards /\ UNCHANGED <<evaluationRow, asked, repairs>>
         /\ evaluator' = [evaluator EXCEPT ![e] = RestingEvaluator] 
         /\ evaluationTrouble'.left = evaluationTrouble.left \cup Has(e)
<1>1. evaluator \in [Evaluators -> EvaluatorRow]
  BY DEF EvaluationFits
<1>2. /\ UNCHANGED <<runHistory, runProfile, evaluationRow, repairs, asked>>
      /\ evaluator' = [evaluator EXCEPT ![e] = RestingEvaluator]
  BY DEF Crash
<1>3. evaluationTrouble' \in TroubleFits /\ evaluationTrouble'.left = evaluationTrouble.left \cup Has(e)
  BY <1>1, HasRuns, LeftBehind DEF Crash
<1>4. Onwards
  BY <1>2 DEF Onwards
<1>5. RestingEvaluator \in EvaluatorRow /\ EvaluatorFits(e)'
  BY <1>1, <1>2, RestFits
<1>6. evaluationRow' \in [EvaluatedRuns -> EvaluationRow] /\ \A q \in EvaluatedRuns : EvaluatedRowFits(q)'
  BY <1>2, <1>4, RowsStay
<1>7. EvaluationFits'
  BY <1>2, <1>3, <1>4, <1>5, <1>6, LeftAlone, OneEvaluatorMoves
<1> QED
  BY <1>2, <1>3, <1>4, <1>7

\* failing without a word,
LEMMA LossKeeps ==
  ASSUME EvaluationConfigured, EvaluationFits, NEW e \in Evaluators, FailureIsLost(e)
  PROVE  /\ EvaluationFits' /\ Onwards /\ UNCHANGED <<evaluationRow, asked, repairs>>
         /\ \E x \in EvaluatorRow :
              /\ evaluator' = [evaluator EXCEPT ![e] = x]
              /\ x.items = evaluator[e].items /\ x.run = "none" /\ x.phase \in {"rest", "next"}
         /\ evaluationTrouble'.left = evaluationTrouble.left \cup (Has(e) \ evaluator[e].items)
<1>1. /\ UNCHANGED <<runHistory, runProfile, evaluationRow, repairs, asked>> /\ evaluator[e].phase # "rest"
      /\ evaluator' = [evaluator EXCEPT ![e] = Over(e)] /\ LeavesBehind(Has(e) \ evaluator[e].items)
  BY DEF FailureIsLost
<1>2. Onwards
  BY <1>1 DEF Onwards
<1>3. PICK x \in EvaluatorRow :
        /\ evaluator' = [evaluator EXCEPT ![e] = x] /\ EvaluatorFits(e)'
        /\ x.items = evaluator[e].items /\ x.run = "none" /\ x.phase \in {"rest", "next"}
  BY <1>1, <1>2, OverFits
<1>4. PICK S \in SUBSET EvaluatedRuns : S = Has(e) \ evaluator[e].items
  BY HasRuns
<1>5. evaluationTrouble' \in TroubleFits /\ evaluationTrouble'.left = evaluationTrouble.left \cup S
  BY <1>1, <1>4, LeftBehind
<1>6. evaluationRow' \in [EvaluatedRuns -> EvaluationRow] /\ \A q \in EvaluatedRuns : EvaluatedRowFits(q)'
  BY <1>1, <1>2, RowsStay
<1>7. EvaluationFits'
  BY <1>1, <1>2, <1>3, <1>5, <1>6, LeftAlone, OneEvaluatorMoves
<1> QED
  BY <1>1, <1>2, <1>3, <1>4, <1>5, <1>7

\* and losing a lease.
LEMMA LapseKeeps ==
  ASSUME EvaluationConfigured, EvaluationFits, NEW r \in EvaluatedRuns, EvaluationLeaseLapses(r)
  PROVE  /\ EvaluationFits' /\ Onwards /\ UNCHANGED <<evaluator, asked, repairs>>
         /\ evaluationTrouble'.left = evaluationTrouble.left
         /\ \A q \in EvaluatedRuns : evaluationRow'[q].status = evaluationRow[q].status
<1>1. /\ evaluationTrouble \in TroubleFits /\ evaluationRow \in [EvaluatedRuns -> EvaluationRow]
      /\ EvaluatedRowFits(r)
  BY DEF EvaluationFits
<1>2. UNCHANGED <<runHistory, runProfile, evaluator, repairs, asked>>
  BY DEF EvaluationLeaseLapses
<1>3. /\ evaluationTrouble' \in TroubleFits
      /\ evaluationTrouble'.left = evaluationTrouble.left
  <2>1. PICK t \in TroubleFits : t = evaluationTrouble
    BY <1>1
  <2> QED
    BY <2>1, TroubleCounts DEF EvaluationLeaseLapses
<1>4. PICK v \in EvaluationRow : v = evaluationRow[r]
  BY <1>1
<1>5. PICK y : y = RowLapses(v)
  OBVIOUS
<1>6. y \in EvaluationRow /\ y.status = v.status /\ y.signals = v.signals /\ y.repair = v.repair
  BY <1>5, RowLapsesFits
<1>7. evaluationRow' = [evaluationRow EXCEPT ![r] = y] /\ v.lease = "live"
  BY <1>1, <1>4, <1>5 DEF EvaluationLeaseLapses, RowLapses
<1>8. v.status # "none"
  <2>1. NoEvaluation.lease = "none"
    BY DEF NoEvaluation
  <2> QED
    BY <1>1, <1>4, <1>7, <2>1 DEF EvaluatedRowFits
<1>9. \A q \in EvaluatedRuns : evaluationRow'[q].status = evaluationRow[q].status
  BY <1>1, <1>4, <1>6, <1>7
<1>10. Onwards
  BY <1>2, <1>9 DEF Onwards
<1>11. evaluationRow' \in [EvaluatedRuns -> EvaluationRow] /\ \A q \in EvaluatedRuns : EvaluatedRowFits(q)'
  <2>1. y.status # "none" /\ (y.repair = "queued" => repairs[r] > 0) /\ repairs' = repairs
    BY <1>1, <1>2, <1>4, <1>6, <1>8 DEF EvaluatedRowFits
  <2>2. asked'[r] = 0 => y.signals \subseteq evaluationRow[r].signals /\ evaluationRow[r].status # "none"
    BY <1>4, <1>6, <1>8
  <2> QED
    BY <1>6, <1>7, <1>10, <2>1, <2>2, OneRowMoves
<1>12. \A e \in Evaluators : EvaluatorFits(e)'
  <2> SUFFICES ASSUME NEW e \in Evaluators PROVE EvaluatorFits(e)'
    OBVIOUS
  <2>1. evaluator'[e] = evaluator[e]
    BY <1>2
  <2> QED
    BY <1>10, <2>1, OthersFit
<1>13. EvaluationFits'
  BY <1>2, <1>3, <1>11, <1>12 DEF EvaluationFits
<1> QED
  BY <1>2, <1>3, <1>9, <1>10, <1>13


\* What a step comes to: a run let go, and
GoneOn(e) ==
  /\ evaluator[e].run \in EvaluatedRuns /\ UNCHANGED <<repairs, asked>>
  /\ \E x \in EvaluatorRow :
       /\ evaluator' = [evaluator EXCEPT ![e] = x]
       /\ x.items = evaluator[e].items /\ x.run = "none" /\ x.phase \in {"rest", "next"}
  /\ \E y \in EvaluationRow :
       evaluationRow' = [evaluationRow EXCEPT ![evaluator[e].run] = y] /\ y.status \in Endings

\* Whichever way a run is let go, all stays in order.
LEMMA LettingGoKeeps ==
  ASSUME EvaluationConfigured, EvaluationFits, NEW e \in Evaluators,
         Skipped(e) \/ CompleteToolEvaluation(e) \/ EvaluationFails(e)
  PROVE  EvaluationFits' /\ Onwards /\ GoneOn(e) /\ evaluationTrouble'.left = evaluationTrouble.left
<1>1. evaluator[e] \in EvaluatorRow /\ EvaluatorFits(e) /\ evaluationTrouble \in TroubleFits
  BY DEF EvaluationFits
<1>2. "completed" \in Endings /\ "failed" \in Endings /\ "" \in Outcomes
  BY DEF Endings, Outcomes
<1>3. ASSUME Skipped(e)
      PROVE  EvaluationFits' /\ Onwards /\ GoneOn(e) /\ evaluationTrouble'.left = evaluationTrouble.left
  <2>1. /\ evaluator[e].phase \in {"evaluate", "complete"}
        /\ Completed(evaluator[e].run, "completed", "skipped", "")
        /\ evaluator' = [evaluator EXCEPT ![e] = Over(e)]
        /\ UNCHANGED <<runHistory, runProfile, repairs, asked>> /\ evaluationTrouble' = evaluationTrouble
    BY <1>3 DEF Skipped
  <2>2. PICK st \in Endings, c \in Categories, how \in Outcomes : st = "completed" /\ c = "skipped" /\ how = ""
    BY <1>2, NoCategory
  <2>3. Completed(evaluator[e].run, st, c, how) /\ how # "queued"
    BY <2>1, <2>2
  <2>4. evaluationTrouble' \in TroubleFits /\ evaluationTrouble'.left = evaluationTrouble.left
    BY <1>1, <2>1
  <2> QED
    BY <2>1, <2>3, <2>4, OverKeeps DEF GoneOn
<1>4. ASSUME CompleteToolEvaluation(e)
      PROVE  EvaluationFits' /\ Onwards /\ GoneOn(e) /\ evaluationTrouble'.left = evaluationTrouble.left
  <2>1. /\ evaluator[e].phase \in {"evaluate", "complete"}
        /\ Completed(evaluator[e].run, "completed", evaluator[e].category, evaluator[e].repair)
        /\ evaluator' = [evaluator EXCEPT ![e] = Over(e)]
        /\ UNCHANGED <<runHistory, runProfile, repairs, asked>> /\ evaluationTrouble' = evaluationTrouble
    BY <1>4 DEF CompleteToolEvaluation
  <2>2. evaluator[e].category \in Categories /\ evaluator[e].repair \in Outcomes
    BY <1>1 DEF EvaluatorRow
  <2>3. PICK st \in Endings, c \in Categories, how \in Outcomes :
          st = "completed" /\ c = evaluator[e].category /\ how = evaluator[e].repair
    BY <1>2, <2>2
  <2>4. Completed(evaluator[e].run, st, c, how)
    BY <2>1, <2>3
  <2>5. how = "queued" => repairs[evaluator[e].run] > 0
    BY <1>1, <2>3 DEF EvaluatorFits
  <2>6. evaluationTrouble' \in TroubleFits /\ evaluationTrouble'.left = evaluationTrouble.left
    BY <1>1, <2>1
  <2> QED
    BY <2>1, <2>4, <2>5, <2>6, OverKeeps DEF GoneOn
<1>5. ASSUME EvaluationFails(e)
      PROVE  EvaluationFits' /\ Onwards /\ GoneOn(e) /\ evaluationTrouble'.left = evaluationTrouble.left
  <2>1. /\ evaluator[e].phase \in {"evaluate", "complete"} /\ Trouble(evaluationTrouble)
        /\ Completed(evaluator[e].run, "failed", "evaluation_failed", "")
        /\ evaluator' = [evaluator EXCEPT ![e] = Over(e)]
        /\ UNCHANGED <<runHistory, runProfile, repairs, asked>>
    BY <1>5 DEF EvaluationFails
  <2>2. PICK st \in Endings, c \in Categories, how \in Outcomes : st = "failed" /\ c = "evaluation_failed" /\ how = ""
    BY <1>2, NoCategory
  <2>3. Completed(evaluator[e].run, st, c, how) /\ how # "queued"
    BY <2>1, <2>2
  <2>4. PICK t \in TroubleFits : t = evaluationTrouble
    BY <1>1
  <2>5. evaluationTrouble' \in TroubleFits /\ evaluationTrouble'.left = t.left
    BY <2>1, <2>4, TroubleCounts
  <2> QED
    BY <2>1, <2>3, <2>4, <2>5, OverKeeps DEF GoneOn
<1> QED
  BY <1>3, <1>4, <1>5

Holds(v, r) == r \in v.items \/ (v.run = r /\ v.phase \in {"claim", "evaluate", "repair"})

\* One evaluator's step changes a run's holders by that one at most.
LEMMA HoldersMove ==
  ASSUME EvaluationConfigured, NEW e \in Evaluators, NEW x, NEW r, DOMAIN evaluator = Evaluators,
         evaluator' = [evaluator EXCEPT ![e] = x]
  PROVE  /\ Cardinality(Holders(r)) \in Nat /\ Cardinality(Holders(r)') \in Nat
         /\ Cardinality(Holders(r)') <= Cardinality(Holders(r)) + 1
         /\ (Holds(x, r) => Holds(evaluator[e], r)) => Cardinality(Holders(r)') <= Cardinality(Holders(r))
         /\ Holds(evaluator[e], r) /\ ~Holds(x, r) => Cardinality(Holders(r)') + 1 = Cardinality(Holders(r))
<1>1. PICK A : A = Holders(r)
  OBVIOUS
<1>2. PICK B : B = Holders(r)'
  OBVIOUS
<1>3. A \subseteq Evaluators /\ B \subseteq Evaluators /\ IsFiniteSet(Evaluators)
  BY <1>1, <1>2 DEF Holders, Evaluators, EvaluationConfigured
<1>4. IsFiniteSet(A) /\ IsFiniteSet(B) /\ Cardinality(A) \in Nat /\ Cardinality(B) \in Nat
  BY <1>3, FS_Subset, FS_CardinalityType
<1>5. /\ e \in A <=> Holds(evaluator[e], r)
      /\ e \in B <=> Holds(x, r)
      /\ \A o \in Evaluators \ {e} : o \in A <=> o \in B
  BY <1>1, <1>2 DEF Holders, Holds
<1>6. B \subseteq A \cup {e} /\ (e \in B => e \in A) => B \subseteq A
  OBVIOUS
<1>7. B \subseteq A \cup {e}
  BY <1>3, <1>5
<1>8. Cardinality(B) <= Cardinality(A) + 1
  <2>1. CASE e \in A
    <3>1. B \subseteq A
      BY <1>7, <2>1
    <3>2. Cardinality(B) <= Cardinality(A)
      BY <1>4, <3>1, FS_Subset
    <3> QED
      BY ONLY <1>4, <3>2
  <2>2. CASE e \notin A
    <3>1. IsFiniteSet(A \cup {e}) /\ Cardinality(A \cup {e}) = Cardinality(A) + 1
      BY <1>4, <2>2, FS_AddElement
    <3>2. Cardinality(B) <= Cardinality(A \cup {e})
      BY <1>7, <3>1, FS_Subset
    <3> QED
      BY ONLY <3>1, <3>2
  <2> QED
    BY <2>1, <2>2
<1>9. ASSUME Holds(x, r) => Holds(evaluator[e], r)
      PROVE  Cardinality(B) <= Cardinality(A)
  <2>1. B \subseteq A
    BY <1>5, <1>7, <1>9
  <2> QED
    BY <1>4, <2>1, FS_Subset
<1>10. ASSUME Holds(evaluator[e], r), ~Holds(x, r)
       PROVE  Cardinality(B) + 1 = Cardinality(A)
  <2>1. e \in A /\ B = A \ {e}
    BY <1>3, <1>5, <1>10
  <2>2. Cardinality(B) = Cardinality(A) - 1
    BY <1>4, <2>1, FS_RemoveElement
  <2> QED
    BY ONLY <1>4, <2>2
<1> QED
  BY <1>1, <1>2, <1>4, <1>8, <1>9, <1>10


\* How a step disturbs the corrections that a run may still see: as many as
\* requests pay for.
LEMMA CorrectionsAddUp ==
  ASSUME NEW h \in Nat, NEW k \in Nat, NEW n \in Nat, NEW m \in Nat, NEW a \in Nat, NEW b \in Nat,
         NEW w \in {0, 1}, NEW u \in {0, 1}, n + h + w <= 1 + 2 * a,
         \/ k <= h /\ u <= w /\ m = n /\ b = a
         \/ k <= h + 1 /\ w = 1 /\ u = 0 /\ m = n /\ b = a
         \/ k <= h + 1 /\ m = n /\ b = a + 1
         \/ k + 1 = h /\ u = w /\ m <= n + 1 /\ b = a
  PROVE  m + k + u <= 1 + 2 * b
<1>1. CASE k <= h /\ u <= w /\ m = n /\ b = a
  BY <1>1
<1>2. CASE k <= h + 1 /\ w = 1 /\ u = 0 /\ m = n /\ b = a
  BY <1>2
<1>3. CASE k <= h + 1 /\ m = n /\ b = a + 1
  BY <1>3
<1>4. CASE k + 1 = h /\ u = w /\ m <= n + 1 /\ b = a
  BY <1>4
<1> QED
  BY <1>1, <1>2, <1>3, <1>4

\* What a step does to one run: nothing, take it from the queue, ask for it,
\* or correct its user.
RunMoves(r) ==
  \/ /\ Cardinality(Holders(r)') <= Cardinality(Holders(r)) /\ Waits(r)' <= Waits(r)
     /\ repairs'[r] = repairs[r] /\ asked'[r] = asked[r]
  \/ /\ Cardinality(Holders(r)') <= Cardinality(Holders(r)) + 1 /\ Waits(r) = 1 /\ Waits(r)' = 0
     /\ repairs'[r] = repairs[r] /\ asked'[r] = asked[r]
  \/ /\ Cardinality(Holders(r)') <= Cardinality(Holders(r)) + 1
     /\ repairs'[r] = repairs[r] /\ asked'[r] = asked[r] + 1
  \/ /\ Cardinality(Holders(r)') + 1 = Cardinality(Holders(r)) /\ Waits(r)' = Waits(r)
     /\ repairs'[r] <= repairs[r] + 1 /\ asked'[r] = asked[r]

\* A run that moves in one of these ways stays within its corrections.
LEMMA CorrectionsStay ==
  ASSUME EvaluationConfigured, EvaluationFits, EvaluationFits', CorrectionsBounded, \A r \in EvaluatedRuns : RunMoves(r)
  PROVE  CorrectionsBounded'
<1> SUFFICES ASSUME NEW r \in EvaluatedRuns
             PROVE  repairs'[r] + Cardinality(Holders(r)') + Waits(r)' <= 1 + 2 * asked'[r]
  BY DEF CorrectionsBounded
<1>1. Holders(r) \subseteq Evaluators /\ Holders(r)' \subseteq Evaluators /\ IsFiniteSet(Evaluators)
  BY DEF Holders, Evaluators, EvaluationConfigured
<1>2. PICK h \in Nat : h = Cardinality(Holders(r))
  BY <1>1, FS_Subset, FS_CardinalityType
<1>3. PICK k \in Nat : k = Cardinality(Holders(r)')
  BY <1>1, FS_Subset, FS_CardinalityType
<1>4. PICK n \in Nat : n = repairs[r]
  BY DEF EvaluationFits
<1>5. PICK m \in Nat : m = repairs'[r]
  BY DEF EvaluationFits
<1>6. PICK a \in Nat : a = asked[r]
  BY DEF EvaluationFits
<1>7. PICK b \in Nat : b = asked'[r]
  BY DEF EvaluationFits
<1>8. PICK w \in {0, 1} : w = Waits(r)
  BY DEF Waits
<1>9. PICK u \in {0, 1} : u = Waits(r)'
  BY DEF Waits
<1>10. n + h + w <= 1 + 2 * a
  BY <1>2, <1>4, <1>6, <1>8 DEF CorrectionsBounded
<1>11. \/ k <= h /\ u <= w /\ m = n /\ b = a
       \/ k <= h + 1 /\ w = 1 /\ u = 0 /\ m = n /\ b = a
       \/ k <= h + 1 /\ m = n /\ b = a + 1
       \/ k + 1 = h /\ u = w /\ m <= n + 1 /\ b = a
  BY <1>2, <1>3, <1>4, <1>5, <1>6, <1>7, <1>8, <1>9 DEF RunMoves
<1>12. m + k + u <= 1 + 2 * b
  BY <1>10, <1>11, CorrectionsAddUp
<1> QED
  BY <1>3, <1>5, <1>7, <1>9, <1>12

\* The step of a run's holders when one evaluator moves and neither the run's
\* row starts waiting nor anything is counted.
LEMMA NothingSpent ==
  ASSUME EvaluationConfigured, NEW e \in Evaluators, NEW x, NEW r, DOMAIN evaluator = Evaluators,
         evaluator' = [evaluator EXCEPT ![e] = x], Holds(x, r) => Holds(evaluator[e], r), UNCHANGED <<repairs, asked>>,
         Waits(r)' <= Waits(r)
  PROVE  RunMoves(r)
<1>1. Cardinality(Holders(r)') <= Cardinality(Holders(r))
  BY HoldersMove
<1> QED
  BY <1>1 DEF RunMoves


\* Who moves to x keeps its own or says so; what was left is left, or taken up.
LetsNothingSlip(e, x) ==
  \A r \in EvaluatedRuns : evaluationRow'[r].status = "running" =>
    \/ Keeps(x, r) \/ r \in evaluationTrouble'.left
    \/ evaluationRow[r].status = "running" /\ ~Keeps(evaluator[e], r) /\ r \notin evaluationTrouble.left

\* One evaluator's step leaves no row that runs with nobody, if that one lets nothing slip.
LEMMA HeldMoves ==
  ASSUME NEW e \in Evaluators, NEW x, DOMAIN evaluator = Evaluators, evaluator' = [evaluator EXCEPT ![e] = x],
         HeldWhileRunning, LetsNothingSlip(e, x)
  PROVE  HeldWhileRunning'
<1> SUFFICES ASSUME NEW r \in EvaluatedRuns, evaluationRow'[r].status = "running", r \notin evaluationTrouble'.left
             PROVE  \E o \in Evaluators : Keeps(evaluator'[o], r)
  BY DEF HeldWhileRunning, Keeps
<1>1. evaluator'[e] = x /\ \A o \in Evaluators \ {e} : evaluator'[o] = evaluator[o]
  OBVIOUS
<1>2. CASE Keeps(x, r)
  BY <1>1, <1>2
<1>3. CASE evaluationRow[r].status = "running" /\ ~Keeps(evaluator[e], r) /\ r \notin evaluationTrouble.left
  <2>1. PICK o \in Evaluators : Keeps(evaluator[o], r)
    BY <1>3 DEF HeldWhileRunning
  <2>2. o # e
    BY <1>3, <2>1
  <2> QED
    BY <1>1, <2>1, <2>2
<1> QED
  BY <1>2, <1>3 DEF LetsNothingSlip

\* What the evaluator promises, with what keeps it.
EvaluationKept == EvaluationFits /\ CorrectionsBounded /\ HeldWhileRunning

\* Each step keeps what is promised: a round takes rows from the queue,
LEMMA RoundKeepsAll ==
  ASSUME EvaluationConfigured, EvaluationKept, NEW e \in Evaluators, RunOnce(e)
  PROVE  EvaluationKept'
<1> USE DEF EvaluationKept
<1>1. EvaluationFits' /\ DOMAIN evaluator = Evaluators
  BY RoundKeeps DEF EvaluationFits
<1>2. PICK C \in SUBSET EvaluatedRuns :
        /\ evaluator' = [evaluator EXCEPT ![e] = EvaluatorBegins("next", C)]
        /\ evaluationRow' \in [EvaluatedRuns -> EvaluationRow]
        /\ \A r \in EvaluatedRuns \ C : evaluationRow'[r] = evaluationRow[r]
        /\ \A r \in C :
             /\ evaluationRow[r].status \in {"none", "queued"}
             /\ evaluationRow'[r].status = "running" /\ evaluationRow'[r].repair = evaluationRow[r].repair
             /\ evaluationRow'[r].signals \subseteq evaluationRow[r].signals \cup Signals(runHistory[r])
             /\ evaluationRow[r].status = "none" => Signals(runHistory[r]) # {} /\ QueueEnabled(r)
        /\ IsTakenUp(C)
  BY RoundTakes
<1>3. PICK x : x = EvaluatorBegins("next", C)
  OBVIOUS
<1>4. x.phase = "next" /\ x.items = C /\ x.run = "none"
  BY <1>3, EvaluatorBeginsFits
<1>5. evaluator' = [evaluator EXCEPT ![e] = x]
  BY <1>2, <1>3
<1>6. UNCHANGED <<repairs, asked>> /\ evaluationTrouble'.left = evaluationTrouble.left \ C
  BY <1>2, TakenUp DEF RunOnce
<1>7. evaluator[e] = RestingEvaluator
  BY DEF RunOnce, EvaluationFits, EvaluatorFits
<1>8. ASSUME NEW r \in EvaluatedRuns
      PROVE  RunMoves(r)
  <2>1. CASE r \in C
    <3>1. Waits(r) = 1 /\ Waits(r)' = 0
      BY <1>2, <2>1 DEF Waits
    <3>2. Cardinality(Holders(r)') <= Cardinality(Holders(r)) + 1
      BY <1>1, <1>5, HoldersMove
    <3> QED
      BY <1>6, <3>1, <3>2 DEF RunMoves
  <2>2. CASE r \notin C
    <3>1. ~Holds(x, r)
      BY <1>4, <2>2 DEF Holds
    <3>2. Waits(r)' <= Waits(r)
      BY <1>2, <2>2 DEF Waits
    <3> QED
      BY <1>1, <1>5, <1>6, <3>1, <3>2, NothingSpent
  <2> QED
    BY <2>1, <2>2
<1>9. CorrectionsBounded'
  BY <1>1, <1>8, CorrectionsStay
<1>10. HeldWhileRunning'
  <2>1. \A r \in EvaluatedRuns : ~Keeps(evaluator[e], r)
    <3>1. RestingEvaluator.items = {} /\ RestingEvaluator.phase = "rest"
      BY DEF RestingEvaluator
    <3> QED
      BY <1>7, <3>1 DEF Keeps
  <2>2. \A r \in C : Keeps(x, r)
    BY <1>4 DEF Keeps
  <2>3. LetsNothingSlip(e, x)
    BY <1>2, <1>6, <2>1, <2>2 DEF LetsNothingSlip
  <2> QED
    BY <1>1, <1>5, <2>3, HeldMoves
<1> QED
  BY <1>1, <1>9, <1>10

\* the next run of a batch stays held,
LEMMA NextItemKeepsAll ==
  ASSUME EvaluationConfigured, EvaluationKept, NEW e \in Evaluators, NextItem(e)
  PROVE  EvaluationKept'
<1> USE DEF EvaluationKept
<1>1. EvaluationFits' /\ DOMAIN evaluator = Evaluators
  BY NextItemKeeps DEF EvaluationFits
<1>2. PICK q \in evaluator[e].items, x \in EvaluatorRow :
        /\ evaluator' = [evaluator EXCEPT ![e] = x]
        /\ x.phase = "evaluate" /\ x.items = evaluator[e].items \ {q} /\ x.run = q
  BY NextItemKeeps
<1>3. UNCHANGED <<evaluationRow, repairs, asked, evaluationTrouble>> /\ evaluator[e].phase = "next"
  BY DEF NextItem
<1>4. ASSUME NEW r \in EvaluatedRuns
      PROVE  RunMoves(r)
  <2>1. Holds(x, r) => Holds(evaluator[e], r)
    BY <1>2 DEF Holds
  <2>2. Waits(r)' <= Waits(r)
    BY <1>3 DEF Waits
  <2> QED
    BY <1>1, <1>2, <1>3, <2>1, <2>2, NothingSpent
<1>5. CorrectionsBounded'
  BY <1>1, <1>4, CorrectionsStay
<1>6. \A r \in EvaluatedRuns : Keeps(evaluator[e], r) => Keeps(x, r)
  BY <1>2, <1>3 DEF Keeps
<1>7. HeldWhileRunning'
  <2>1. LetsNothingSlip(e, x)
    BY <1>3, <1>6 DEF LetsNothingSlip
  <2> QED
    BY <1>1, <1>2, <2>1, HeldMoves
<1> QED
  BY <1>1, <1>5, <1>7

\* a request pays for what it may bring,
LEMMA EvaluateKeepsAll ==
  ASSUME EvaluationConfigured, EvaluationKept, NEW e \in Evaluators, NEW q \in EvaluatedRuns, EvaluateRunTools(e, q)
  PROVE  EvaluationKept'
<1> USE DEF EvaluationKept
<1>1. EvaluationFits' /\ DOMAIN evaluator = Evaluators /\ asked \in [EvaluatedRuns -> Nat]
      /\ evaluationRow \in [EvaluatedRuns -> EvaluationRow]
  BY EvaluateKeeps DEF EvaluationFits
<1>2. PICK x \in EvaluatorRow :
        evaluator' = [evaluator EXCEPT ![e] = x] /\ x.phase = "claim" /\ x.items = {} /\ x.run = q
  BY EvaluateKeeps
<1>3. PICK y \in EvaluationRow : evaluationRow' = [evaluationRow EXCEPT ![q] = y] /\ y.status = "queued"
  BY EvaluateKeeps
<1>4. /\ asked' = [asked EXCEPT ![q] = @ + 1] /\ UNCHANGED <<repairs, evaluationTrouble>>
      /\ evaluator[e] = RestingEvaluator
  BY DEF EvaluateRunTools, EvaluationFits, EvaluatorFits
<1>5. evaluationRow'[q].status = "queued" /\ \A r \in EvaluatedRuns \ {q} : evaluationRow'[r] = evaluationRow[r]
  BY <1>1, <1>3
<1>6. ASSUME NEW r \in EvaluatedRuns
      PROVE  RunMoves(r)
  <2>1. CASE r = q
    <3>1. Cardinality(Holders(r)') <= Cardinality(Holders(r)) + 1
      BY <1>1, <1>2, HoldersMove
    <3>2. asked'[r] = asked[r] + 1 /\ repairs'[r] = repairs[r]
      BY <1>1, <1>4, <2>1
    <3> QED
      BY <3>1, <3>2 DEF RunMoves
  <2>2. CASE r # q
    <3>1. ~Holds(x, r)
      BY <1>2, <2>2 DEF Holds
    <3>2. Cardinality(Holders(r)') <= Cardinality(Holders(r))
      BY <1>1, <1>2, <3>1, HoldersMove
    <3>3. Waits(r)' <= Waits(r) /\ asked'[r] = asked[r] /\ repairs'[r] = repairs[r]
      BY <1>1, <1>4, <1>5, <2>2 DEF Waits
    <3> QED
      BY <3>2, <3>3 DEF RunMoves
  <2> QED
    BY <2>1, <2>2
<1>7. CorrectionsBounded'
  BY <1>1, <1>6, CorrectionsStay
<1>8. HeldWhileRunning'
  <2>1. \A r \in EvaluatedRuns : ~Keeps(evaluator[e], r)
    <3>1. RestingEvaluator.items = {} /\ RestingEvaluator.phase = "rest"
      BY DEF RestingEvaluator
    <3> QED
      BY <1>4, <3>1 DEF Keeps
  <2>2. LetsNothingSlip(e, x)
    BY <1>4, <1>5, <2>1 DEF LetsNothingSlip
  <2> QED
    BY <1>1, <1>2, <2>2, HeldMoves
<1> QED
  BY <1>1, <1>7, <1>8

\* a claim, or the lack of one, costs nothing,
LEMMA ClaimKeepsAll ==
  ASSUME EvaluationConfigured, EvaluationKept, NEW e \in Evaluators, ClaimToolEvaluation(e)
  PROVE  EvaluationKept'
<1> USE DEF EvaluationKept
<1>1. EvaluationFits' /\ DOMAIN evaluator = Evaluators /\ evaluator[e].run \in EvaluatedRuns
      /\ evaluationRow \in [EvaluatedRuns -> EvaluationRow]
  BY ClaimKeeps DEF EvaluationFits
<1>2. PICK q \in EvaluatedRuns : q = evaluator[e].run
  BY <1>1
<1>3. UNCHANGED <<repairs, asked>> /\ evaluator[e].phase = "claim" /\ evaluator[e].items = {}
  BY DEF ClaimToolEvaluation, EvaluationFits, EvaluatorFits
<1>4. PICK x : /\ evaluator' = [evaluator EXCEPT ![e] = x]
               /\ \/ /\ x.phase = "evaluate" /\ x.items = {} /\ x.run = q
                     /\ \E y \in EvaluationRow : evaluationRow' = [evaluationRow EXCEPT ![q] = y] /\ y.status = "running"
                     /\ IsTakenUp({q})
                  \/ x = RestingEvaluator /\ UNCHANGED <<evaluationRow, evaluationTrouble>>
  BY <1>2, ClaimKeeps
<1>5. RestingEvaluator.items = {} /\ RestingEvaluator.phase = "rest"
  BY DEF RestingEvaluator
<1>6. \/ /\ x.phase = "evaluate" /\ x.items = {} /\ x.run = q /\ evaluationRow'[q].status = "running"
         /\ \A r \in EvaluatedRuns \ {q} : evaluationRow'[r] = evaluationRow[r]
         /\ evaluationTrouble'.left = evaluationTrouble.left \ {q}
      \/ x.phase = "rest" /\ x.items = {} /\ UNCHANGED <<evaluationRow, evaluationTrouble>>
  BY <1>1, <1>4, <1>5, TakenUp
<1>7. ASSUME NEW r \in EvaluatedRuns
      PROVE  RunMoves(r)
  <2>1. Holds(x, r) => Holds(evaluator[e], r)
    BY <1>2, <1>3, <1>6 DEF Holds
  <2>2. Waits(r)' <= Waits(r)
    BY <1>6 DEF Waits
  <2> QED
    BY <1>1, <1>3, <1>4, <2>1, <2>2, NothingSpent
<1>8. CorrectionsBounded'
  BY <1>1, <1>7, CorrectionsStay
<1>9. LetsNothingSlip(e, x)
  <2>1. \A r \in EvaluatedRuns : ~Keeps(evaluator[e], r)
    BY <1>3 DEF Keeps
  <2>2. evaluationRow'[q].status = "running" => Keeps(x, q) \/ UNCHANGED <<evaluationRow, evaluationTrouble>>
    BY <1>6 DEF Keeps
  <2> QED
    BY <1>6, <2>1, <2>2 DEF LetsNothingSlip
<1>10. HeldWhileRunning'
  BY <1>1, <1>4, <1>9, HeldMoves
<1> QED
  BY <1>1, <1>8, <1>10


\* nor does letting go of a run,
LEMMA LettingGoKeepsAll ==
  ASSUME EvaluationConfigured, EvaluationKept, NEW e \in Evaluators,
         Skipped(e) \/ CompleteToolEvaluation(e) \/ EvaluationFails(e)
  PROVE  EvaluationKept'
<1> USE DEF EvaluationKept
<1>1. /\ EvaluationFits' /\ GoneOn(e) /\ evaluationTrouble'.left = evaluationTrouble.left
      /\ DOMAIN evaluator = Evaluators /\ evaluationRow \in [EvaluatedRuns -> EvaluationRow]
  BY LettingGoKeeps DEF EvaluationFits
<1>2. PICK q \in EvaluatedRuns : q = evaluator[e].run
  BY <1>1 DEF GoneOn
<1>3. PICK x \in EvaluatorRow :
        /\ evaluator' = [evaluator EXCEPT ![e] = x]
        /\ x.items = evaluator[e].items /\ x.run = "none" /\ x.phase \in {"rest", "next"}
  BY <1>1 DEF GoneOn
<1>4. PICK y \in EvaluationRow : evaluationRow' = [evaluationRow EXCEPT ![q] = y] /\ y.status \in Endings
  BY <1>1, <1>2 DEF GoneOn
<1>5. /\ evaluationRow'[q].status \notin {"none", "queued", "running"}
      /\ \A r \in EvaluatedRuns \ {q} : evaluationRow'[r] = evaluationRow[r]
  BY <1>1, <1>4 DEF Endings
<1>6. ASSUME NEW r \in EvaluatedRuns
      PROVE  RunMoves(r)
  <2>1. Holds(x, r) => Holds(evaluator[e], r)
    BY <1>3 DEF Holds
  <2>2. Waits(r)' <= Waits(r)
    BY <1>5 DEF Waits
  <2>3. UNCHANGED <<repairs, asked>>
    BY <1>1 DEF GoneOn
  <2> QED
    BY <1>1, <1>3, <2>1, <2>2, <2>3, NothingSpent
<1>7. CorrectionsBounded'
  BY <1>1, <1>6, CorrectionsStay
<1>8. \A r \in EvaluatedRuns \ {q} : Keeps(evaluator[e], r) => Keeps(x, r)
  BY <1>2, <1>3 DEF Keeps
<1>9. HeldWhileRunning'
  <2>1. LetsNothingSlip(e, x)
    BY <1>1, <1>5, <1>8 DEF LetsNothingSlip
  <2> QED
    BY <1>1, <1>3, <2>1, HeldMoves
<1> QED
  BY <1>1, <1>7, <1>9

\* or judging it;
LEMMA JudgementKeepsAll ==
  ASSUME EvaluationConfigured, EvaluationKept, NEW e \in Evaluators, LLMVerdict(e)
  PROVE  EvaluationKept'
<1> USE DEF EvaluationKept
<1>1. EvaluationFits' /\ DOMAIN evaluator = Evaluators
  BY JudgementKeeps DEF EvaluationFits
<1>2. PICK x \in EvaluatorRow :
        /\ evaluator' = [evaluator EXCEPT ![e] = x]
        /\ x.phase = "repair" /\ x.items = evaluator[e].items /\ x.run = evaluator[e].run
  BY JudgementKeeps
<1>3. UNCHANGED <<evaluationRow, repairs, asked, evaluationTrouble>> /\ evaluator[e].phase = "evaluate"
  BY DEF LLMVerdict
<1>4. ASSUME NEW r \in EvaluatedRuns
      PROVE  RunMoves(r)
  <2>1. Holds(x, r) => Holds(evaluator[e], r)
    BY <1>2, <1>3 DEF Holds
  <2>2. Waits(r)' <= Waits(r)
    BY <1>3 DEF Waits
  <2> QED
    BY <1>1, <1>2, <1>3, <2>1, <2>2, NothingSpent
<1>5. CorrectionsBounded'
  BY <1>1, <1>4, CorrectionsStay
<1>6. \A r \in EvaluatedRuns : Keeps(evaluator[e], r) => Keeps(x, r)
  BY <1>2, <1>3 DEF Keeps
<1>7. HeldWhileRunning'
  <2>1. LetsNothingSlip(e, x)
    BY <1>3, <1>6 DEF LetsNothingSlip
  <2> QED
    BY <1>1, <1>2, <2>1, HeldMoves
<1> QED
  BY <1>1, <1>5, <1>7

\* a correction is the last that its holder sends,
LEMMA RepairKeepsAll ==
  ASSUME EvaluationConfigured, EvaluationKept, NEW e \in Evaluators, MaybeRepair(e)
  PROVE  EvaluationKept'
<1> USE DEF EvaluationKept
<1>1. EvaluationFits' /\ DOMAIN evaluator = Evaluators /\ EvaluatorFits(e)
      /\ repairs \in [EvaluatedRuns -> Nat]
  BY RepairKeeps DEF EvaluationFits
<1>2. PICK q \in EvaluatedRuns : q = evaluator[e].run
  BY RepairKeeps
<1>3. PICK x \in EvaluatorRow :
        /\ evaluator' = [evaluator EXCEPT ![e] = x]
        /\ x.phase = "complete" /\ x.items = evaluator[e].items /\ x.run = evaluator[e].run
  BY RepairKeeps
<1>4. UNCHANGED <<evaluationRow, asked, evaluationTrouble>> /\ evaluator[e].phase = "repair"
  BY DEF MaybeRepair
<1>5. repairs' = repairs \/ repairs' = [repairs EXCEPT ![q] = @ + 1]
  BY <1>2, RepairKeeps
<1>6. q \notin evaluator[e].items
  BY <1>1, <1>2 DEF EvaluatorFits
<1>7. ASSUME NEW r \in EvaluatedRuns
      PROVE  RunMoves(r)
  <2>1. Waits(r)' = Waits(r)
    BY <1>4 DEF Waits
  <2>2. Waits(r) \in {0, 1}
    BY DEF Waits
  <2>3. CASE r = q
    <3>1. Holds(evaluator[e], r) /\ ~Holds(x, r)
      BY <1>2, <1>3, <1>4, <1>6, <2>3 DEF Holds
    <3>2. Cardinality(Holders(r)') + 1 = Cardinality(Holders(r))
      BY <1>1, <1>3, <3>1, HoldersMove
    <3>3. repairs'[r] <= repairs[r] + 1
      BY <1>1, <1>5, <2>3
    <3> QED
      BY <1>4, <2>1, <3>2, <3>3 DEF RunMoves
  <2>4. CASE r # q
    <3>1. Holds(x, r) => Holds(evaluator[e], r)
      BY <1>2, <1>3, <2>4 DEF Holds
    <3>2. Cardinality(Holders(r)') <= Cardinality(Holders(r))
      BY <1>1, <1>3, <3>1, HoldersMove
    <3>3. repairs'[r] = repairs[r]
      BY <1>1, <1>5, <2>4
    <3> QED
      BY <1>4, <2>1, <2>2, <3>2, <3>3 DEF RunMoves
  <2> QED
    BY <2>3, <2>4
<1>8. CorrectionsBounded'
  BY <1>1, <1>7, CorrectionsStay
<1>9. \A r \in EvaluatedRuns : Keeps(evaluator[e], r) => Keeps(x, r)
  BY <1>3, <1>4 DEF Keeps
<1>10. HeldWhileRunning'
  <2>1. LetsNothingSlip(e, x)
    BY <1>4, <1>9 DEF LetsNothingSlip
  <2> QED
    BY <1>1, <1>3, <2>1, HeldMoves
<1> QED
  BY <1>1, <1>8, <1>10

\* and crashes, failures without a word and lapsing leases add none.
LEMMA TroubleKeepsAll ==
  ASSUME EvaluationConfigured, EvaluationKept,
         (\E e \in Evaluators : Crash(e) \/ FailureIsLost(e)) \/ (\E r \in EvaluatedRuns : EvaluationLeaseLapses(r))
  PROVE  EvaluationKept'
<1> USE DEF EvaluationKept
<1>1. ASSUME NEW e \in Evaluators, Crash(e)
      PROVE  EvaluationKept'
  <2>1. /\ EvaluationFits' /\ DOMAIN evaluator = Evaluators /\ UNCHANGED <<evaluationRow, repairs, asked>>
        /\ evaluationTrouble'.left = evaluationTrouble.left \cup Has(e)
    BY <1>1, CrashKeeps DEF EvaluationFits
  <2>2. PICK x : x = RestingEvaluator /\ evaluator' = [evaluator EXCEPT ![e] = x]
    BY <1>1, CrashKeeps
  <2>3. ASSUME NEW r \in EvaluatedRuns
        PROVE  RunMoves(r)
    <3>1. ~Holds(x, r)
      BY <2>2 DEF Holds, RestingEvaluator
    <3>2. Waits(r)' <= Waits(r)
      BY <2>1 DEF Waits
    <3> QED
      BY <2>1, <2>2, <3>1, <3>2, NothingSpent
  <2>4. CorrectionsBounded'
    BY <2>1, <2>3, CorrectionsStay
  <2>5. \A r \in EvaluatedRuns : Keeps(evaluator[e], r) => r \in evaluationTrouble'.left
    BY <2>1 DEF Keeps, Has
  <2>6. LetsNothingSlip(e, x)
    BY <2>1, <2>5 DEF LetsNothingSlip
  <2>7. HeldWhileRunning'
    BY <2>1, <2>2, <2>6, HeldMoves
  <2> QED
    BY <2>1, <2>4, <2>7
<1>2. ASSUME NEW e \in Evaluators, FailureIsLost(e)
      PROVE  EvaluationKept'
  <2>1. /\ EvaluationFits' /\ DOMAIN evaluator = Evaluators /\ UNCHANGED <<evaluationRow, repairs, asked>>
        /\ evaluationTrouble'.left = evaluationTrouble.left \cup (Has(e) \ evaluator[e].items)
    BY <1>2, LossKeeps DEF EvaluationFits
  <2>2. PICK x \in EvaluatorRow :
          /\ evaluator' = [evaluator EXCEPT ![e] = x]
          /\ x.items = evaluator[e].items /\ x.run = "none" /\ x.phase \in {"rest", "next"}
    BY <1>2, LossKeeps
  <2>3. ASSUME NEW r \in EvaluatedRuns
        PROVE  RunMoves(r)
    <3>1. Holds(x, r) => Holds(evaluator[e], r)
      BY <2>2 DEF Holds
    <3>2. Waits(r)' <= Waits(r)
      BY <2>1 DEF Waits
    <3> QED
      BY <2>1, <2>2, <3>1, <3>2, NothingSpent
  <2>4. CorrectionsBounded'
    BY <2>1, <2>3, CorrectionsStay
  <2>5. \A r \in EvaluatedRuns : Keeps(evaluator[e], r) => Keeps(x, r) \/ r \in evaluationTrouble'.left
    BY <2>1, <2>2 DEF Keeps, Has
  <2>6. LetsNothingSlip(e, x)
    BY <2>1, <2>5 DEF LetsNothingSlip
  <2>7. HeldWhileRunning'
    BY <2>1, <2>2, <2>6, HeldMoves
  <2> QED
    BY <2>1, <2>4, <2>7
<1>3. ASSUME NEW q \in EvaluatedRuns, EvaluationLeaseLapses(q)
      PROVE  EvaluationKept'
  <2>1. /\ EvaluationFits' /\ UNCHANGED <<evaluator, repairs, asked>>
        /\ evaluationTrouble'.left = evaluationTrouble.left
        /\ \A r \in EvaluatedRuns : evaluationRow'[r].status = evaluationRow[r].status
    BY <1>3, LapseKeeps
  <2>2. ASSUME NEW r \in EvaluatedRuns
        PROVE  RunMoves(r)
    <3>1. Holders(r)' = Holders(r) /\ Waits(r)' = Waits(r) /\ Waits(r) \in {0, 1}
      BY <2>1 DEF Holders, Waits
    <3>2. Cardinality(Holders(r)) \in Nat
      <4>1. Holders(r) \subseteq Evaluators /\ IsFiniteSet(Evaluators)
        BY DEF Holders, Evaluators, EvaluationConfigured
      <4> QED
        BY <4>1, FS_Subset, FS_CardinalityType
    <3>3. Cardinality(Holders(r)') <= Cardinality(Holders(r)) /\ Waits(r)' <= Waits(r)
      BY <3>1, <3>2
    <3> QED
      BY <2>1, <3>3 DEF RunMoves
  <2>3. CorrectionsBounded'
    BY <2>1, <2>2, CorrectionsStay
  <2>4. HeldWhileRunning'
    BY <2>1 DEF HeldWhileRunning
  <2> QED
    BY <2>1, <2>3, <2>4
<1> QED
  BY <1>1, <1>2, <1>3

\* The evaluator keeps its promises at every step.
THEOREM EvaluationsAreKept ==
  ASSUME EvaluationConfigured
  PROVE  EvaluationSpec => []EvaluationKept
<1>1. EvaluationsInit => EvaluationKept
  <2> SUFFICES ASSUME EvaluationsInit PROVE EvaluationKept
    OBVIOUS
  <2>1. RestingEvaluator \in EvaluatorRow
    BY NoCategory DEF RestingEvaluator, EvaluatorRow, SignalSets, Outcomes
  <2>2. NoEvaluation \in EvaluationRow
    BY NoCategory DEF NoEvaluation, EvaluationRow, SignalSets, Outcomes
  <2>3. /\ runHistory \in [EvaluatedRuns -> Histories]
        /\ evaluationRow \in [EvaluatedRuns -> EvaluationRow] /\ evaluator \in [Evaluators -> EvaluatorRow]
        /\ repairs \in [EvaluatedRuns -> Nat] /\ asked \in [EvaluatedRuns -> Nat]
        /\ evaluationTrouble \in TroubleFits
    BY <2>1, <2>2 DEF EvaluationsInit, Evaluators, TroubleFits
  <2>4. /\ RestingEvaluator.phase = "rest" /\ RestingEvaluator.items = {} /\ RestingEvaluator.run = "none"
        /\ RestingEvaluator.repair = ""
    BY DEF RestingEvaluator
  <2>5. \A e \in Evaluators : evaluator[e] = RestingEvaluator
    BY DEF EvaluationsInit, Evaluators
  <2>6. NoEvaluation.status = "none" /\ NoEvaluation.repair = "" /\ NoEvaluation.signals = {}
    BY DEF NoEvaluation
  <2>7. \A r \in EvaluatedRuns : /\ evaluationRow[r] = NoEvaluation /\ repairs[r] = 0 /\ asked[r] = 0
                                 /\ r # "none"
    BY DEF EvaluationsInit, EvaluationConfigured
  <2>8. \A e \in Evaluators : EvaluatorFits(e)
    BY <2>1, <2>4, <2>5, <2>7 DEF EvaluatorFits
  <2>9. ASSUME NEW r \in EvaluatedRuns PROVE EvaluatedRowFits(r)
    <3>1. /\ evaluationRow[r] \in EvaluationRow /\ evaluationRow[r] = NoEvaluation
          /\ evaluationRow[r].status = "none" /\ evaluationRow[r].repair = ""
          /\ "manual" \notin evaluationRow[r].signals /\ ~(repairs[r] > 0)
      <4>1. evaluationRow[r] = NoEvaluation /\ repairs[r] = 0
        BY <2>7
      <4>2. ~(repairs[r] > 0)
        BY <4>1
      <4>3. "manual" \notin NoEvaluation.signals
        BY <2>6
      <4> QED
        BY <2>2, <2>6, <4>1, <4>2, <4>3
    <3> QED
      BY ONLY <3>1 DEF EvaluatedRowFits
  <2>10. CorrectionsBounded
    <3> SUFFICES ASSUME NEW r \in EvaluatedRuns
                 PROVE  repairs[r] + Cardinality(Holders(r)) + Waits(r) <= 1 + 2 * asked[r]
      BY DEF CorrectionsBounded
    <3>1. Holders(r) = {}
      BY <2>4, <2>5 DEF Holders
    <3>2. Waits(r) = 1
      BY <2>6, <2>7 DEF Waits
    <3> QED
      BY <2>7, <3>1, <3>2, FS_EmptySet
  <2>11. HeldWhileRunning
    BY <2>6, <2>7 DEF HeldWhileRunning
  <2> QED
    BY <2>3, <2>8, <2>9, <2>10, <2>11 DEF EvaluationKept, EvaluationFits
<1>2. EvaluationKept /\ [EvaluationsNext]_evaluationVars => EvaluationKept'
  <2> SUFFICES ASSUME EvaluationKept, [EvaluationsNext]_evaluationVars PROVE EvaluationKept'
    OBVIOUS
  <2>1. CASE UNCHANGED evaluationVars
    BY <2>1 DEF evaluationVars, EvaluationKept, EvaluationFits, EvaluatorFits, EvaluatedRowFits, CorrectionsBounded,
                HeldWhileRunning, Keeps, Holders, Waits, ConfigForRun, QueueEnabled
  <2>2. CASE EvaluationsNext
    BY <2>2, RoundKeepsAll, NextItemKeepsAll, EvaluateKeepsAll, ClaimKeepsAll, LettingGoKeepsAll, JudgementKeepsAll,
       RepairKeepsAll, TroubleKeepsAll DEF EvaluationsNext, Evaluators
  <2> QED
    BY <2>1, <2>2
<1> QED
  BY <1>1, <1>2, PTL DEF EvaluationSpec

\* A user is corrected once for what nobody asked about, and twice more for each
\* request, whatever lapses and dies.
THEOREM CorrectionsAreFew ==
  ASSUME EvaluationConfigured
  PROVE  EvaluationSpec => []RepairsBounded
<1>1. EvaluationKept => RepairsBounded
  <2> SUFFICES ASSUME EvaluationKept, NEW r \in EvaluatedRuns PROVE repairs[r] <= 1 + 2 * asked[r]
    BY DEF RepairsBounded
  <2>1. Holders(r) \subseteq Evaluators /\ IsFiniteSet(Evaluators)
    BY DEF Holders, Evaluators, EvaluationConfigured
  <2>2. Cardinality(Holders(r)) \in Nat
    BY <2>1, FS_Subset, FS_CardinalityType
  <2>3. Waits(r) \in {0, 1} /\ repairs[r] \in Nat /\ asked[r] \in Nat
    BY DEF Waits, EvaluationKept, EvaluationFits
  <2>4. repairs[r] + Cardinality(Holders(r)) + Waits(r) <= 1 + 2 * asked[r]
    BY DEF EvaluationKept, CorrectionsBounded
  <2> QED
    BY ONLY <2>2, <2>3, <2>4
<1> QED
  BY <1>1, EvaluationsAreKept, PTL

\* What nobody asked about is evaluated on suspicion only, where it is wanted.
THEOREM EvaluatedOnSuspicion ==
  ASSUME EvaluationConfigured
  PROVE  EvaluationSpec => []UnaskedIsSuspicious
<1>1. EvaluationKept => UnaskedIsSuspicious
  BY DEF EvaluationKept, EvaluationFits, EvaluatedRowFits, UnaskedIsSuspicious, NoEvaluation
<1> QED
  BY <1>1, EvaluationsAreKept, PTL

\* A row that is running is in somebody's hand, unless who claimed it last died or
\* failed without a word.
THEOREM RunningIsHeld ==
  ASSUME EvaluationConfigured
  PROVE  EvaluationSpec => []RunningIsInHand
<1>1. EvaluationKept => RunningIsInHand
  BY DEF EvaluationKept, HeldWhileRunning, Keeps, RunningIsInHand, Has, Evaluators
<1> QED
  BY <1>1, EvaluationsAreKept, PTL

\* A correction that is on record was sent.
THEOREM RecordedCorrectionsHappened ==
  ASSUME EvaluationConfigured
  PROVE  EvaluationSpec => []RecordedRepairHappened
<1>1. EvaluationKept => RecordedRepairHappened
  BY DEF EvaluationKept, EvaluationFits, EvaluatedRowFits, RecordedRepairHappened
<1> QED
  BY <1>1, EvaluationsAreKept, PTL

-----------------------------------------------------------------------------
(* The session monitor *)

MonitorSpec == MonitorInit /\ [][MonitorNext]_monitorVars

Patterns == UNION {[D -> Int] : D \in SUBSET Int}
Instants == SUBSET Int
Leases == Actors \cup {Nobody}
SessionRow == [last : Int, monitored : Int, pattern : Patterns, summary : Instants, lease : Leases]
Snapshots == [last : Int, monitored : Int, pattern : Patterns]

\* What a pattern counts it counts once, and nothing later than it was looked at.
PatternCounts(pattern, monitored) == \A i \in DOMAIN pattern : pattern[i] <= IF i <= monitored THEN 1 ELSE 0

Rows == [id : Nat, text : Texts]
Sets(S) == SUBSET S
Claims == {<<>>} \cup UNION {[Q -> Snapshots] : Q \in SUBSET UserSessions}
MonitoredAt == UserSessions \cup {Nobody}
MonitorPhases == {"idle", "next", "extract", "write", "consolidate", "complete"}
MonitorRow ==
  [phase : MonitorPhases, todo : Sets(UserSessions), claim : Claims, at : MonitoredAt, window : Instants, wanted : Sets(Texts),
   listed : Sets(Rows)]

\* Of a claim, what was read goes together, and the window is what it left.
ClaimFits(claim, s) ==
  /\ s \in DOMAIN claim /\ claim[s] \in Snapshots
  /\ PatternCounts(claim[s].pattern, claim[s].monitored) /\ claim[s].monitored <= claim[s].last
MonitorFits(m) ==
  LET v == monitor[m] IN
  /\ m # ByHand /\ v.phase # "idle" => \A s \in v.todo : ClaimFits(v.claim, s)
  /\ m # ByHand /\ v.phase \notin {"idle", "next"} =>
       /\ v.at \in UserSessions /\ ClaimFits(v.claim, v.at)
       /\ v.window \subseteq {i \in Int : v.claim[v.at].monitored < i /\ i <= v.claim[v.at].last}
SessionFits(s) == PatternCounts(session[s].pattern, session[s].monitored)

\* Unless they overlap, one consolidation at a time is under way, of rows that are there.
ConsolidationsFit ==
  overlapped \/
    /\ FactsKept
    /\ \A m \in Actors : monitor[m].phase = "consolidate" =>
         /\ monitor[m].listed \subseteq profile
         /\ \A n \in Actors \ {m} : monitor[n].phase # "consolidate"

MonitorKept ==
  /\ session \in [UserSessions -> SessionRow] /\ monitor \in [Actors -> MonitorRow] /\ overlapped \in BOOLEAN
  /\ profile \subseteq Rows /\ known \subseteq Rows /\ IsFiniteSet(known)
  /\ \A s \in UserSessions : SessionFits(s)
  /\ \A m \in Actors : MonitorFits(m)
  /\ ConsolidationsFit

-----------------------------------------------------------------------------
\* What becomes of a session,
SessionHears(v) == [v EXCEPT !.last = @ + 1]
SessionLeased(v, m) == [v EXCEPT !.lease = m]
SessionSummed(v, w) == [v EXCEPT !.summary = w]
SessionDone(v, n, m, p) == [v EXCEPT !.monitored = n, !.lease = m, !.pattern = p]

\* it hears more,
LEMMA SessionHearsFits ==
  ASSUME NEW v \in SessionRow
  PROVE  /\ SessionHears(v) \in SessionRow /\ SessionHears(v).pattern = v.pattern
         /\ SessionHears(v).monitored = v.monitored
BY DEF SessionRow, SessionHears

\* is leased or released,
LEMMA SessionLeasedFits ==
  ASSUME NEW v \in SessionRow, NEW m \in Leases
  PROVE  /\ SessionLeased(v, m) \in SessionRow /\ SessionLeased(v, m).pattern = v.pattern
         /\ SessionLeased(v, m).monitored = v.monitored
BY DEF SessionRow, SessionLeased

\* is summarized,
LEMMA SessionSummedFits ==
  ASSUME NEW v \in SessionRow, NEW w \in Instants
  PROVE  /\ SessionSummed(v, w) \in SessionRow /\ SessionSummed(v, w).pattern = v.pattern
         /\ SessionSummed(v, w).monitored = v.monitored
BY DEF SessionRow, SessionSummed

\* is completed.
LEMMA SessionDoneFits ==
  ASSUME NEW v \in SessionRow, NEW n \in Int, NEW m \in Leases, NEW p \in Patterns
  PROVE  /\ SessionDone(v, n, m, p) \in SessionRow /\ SessionDone(v, n, m, p).pattern = p
         /\ SessionDone(v, n, m, p).monitored = n
BY DEF SessionRow, SessionDone

\* What becomes of a monitor: it rests,
LEMMA RestingMonitor == IdleMonitor \in MonitorRow /\ IdleMonitor.phase = "idle"
BY DEF IdleMonitor, MonitorRow, MonitorPhases, Claims, MonitoredAt, Instants, Sets

MonitorClaims(q, c) == [IdleMonitor EXCEPT !.phase = "next", !.todo = q, !.claim = c]
MonitorReads(v, s, w, p) == [v EXCEPT !.at = s, !.todo = @ \ {s}, !.window = w, !.phase = p]
MonitorAsked(s, w) == [IdleMonitor EXCEPT !.phase = "extract", !.at = s, !.window = w]
MonitorGoes(v, p) == [v EXCEPT !.phase = p]
MonitorWants(v, p, A) == [v EXCEPT !.phase = p, !.wanted = A]
MonitorLists(v, A, L) == [v EXCEPT !.phase = "consolidate", !.wanted = A, !.listed = L]
MonitorForgets(v, L) == [v EXCEPT !.phase = "complete", !.listed = L]
MonitorEnds(v, s, w) == [v EXCEPT !.phase = "next", !.at = s, !.window = w]

\* claims,
LEMMA MonitorClaimsFits ==
  ASSUME NEW q \in Sets(UserSessions), NEW c \in Claims
  PROVE  LET x == MonitorClaims(q, c) IN x \in MonitorRow /\ x.phase = "next" /\ x.todo = q /\ x.claim = c
BY DEF IdleMonitor, MonitorRow, MonitorPhases, MonitoredAt, Instants, Sets, MonitorClaims

\* reads what was said,
LEMMA MonitorReadsFits ==
  ASSUME NEW v \in MonitorRow, NEW s \in MonitoredAt, NEW w \in Instants, NEW p \in MonitorPhases
  PROVE  LET x == MonitorReads(v, s, w, p) IN
         /\ x \in MonitorRow /\ x.phase = p /\ x.todo = v.todo \ {s} /\ x.claim = v.claim /\ x.at = s /\ x.window = w
BY DEF MonitorRow, MonitorReads, Sets

\* is asked to,
LEMMA MonitorAskedFits ==
  ASSUME NEW s \in MonitoredAt, NEW w \in Instants
  PROVE  LET x == MonitorAsked(s, w) IN x \in MonitorRow /\ x.phase = "extract"
BY DEF IdleMonitor, MonitorRow, MonitorPhases, Claims, Sets, MonitorAsked

\* goes on,
LEMMA MonitorGoesFits ==
  ASSUME NEW v \in MonitorRow, NEW p \in MonitorPhases
  PROVE  LET x == MonitorGoes(v, p) IN
         /\ x \in MonitorRow /\ x.phase = p /\ x.todo = v.todo /\ x.claim = v.claim /\ x.at = v.at
         /\ x.window = v.window
BY DEF MonitorRow, MonitorGoes

\* wants rows,
LEMMA MonitorWantsFits ==
  ASSUME NEW v \in MonitorRow, NEW p \in MonitorPhases, NEW A \in Sets(Texts)
  PROVE  LET x == MonitorWants(v, p, A) IN
         /\ x \in MonitorRow /\ x.phase = p /\ x.todo = v.todo /\ x.claim = v.claim /\ x.at = v.at
         /\ x.window = v.window
BY DEF MonitorRow, MonitorWants

\* lists them,
LEMMA MonitorListsFits ==
  ASSUME NEW v \in MonitorRow, NEW A \in Sets(Texts), NEW L \in Sets(Rows)
  PROVE  LET x == MonitorLists(v, A, L) IN
         /\ x \in MonitorRow /\ x.phase = "consolidate" /\ x.todo = v.todo /\ x.claim = v.claim /\ x.at = v.at
         /\ x.window = v.window /\ x.listed = L
BY DEF MonitorRow, MonitorLists, MonitorPhases

\* forgets them,
LEMMA MonitorForgetsFits ==
  ASSUME NEW v \in MonitorRow, NEW L \in Sets(Rows)
  PROVE  LET x == MonitorForgets(v, L) IN
         /\ x \in MonitorRow /\ x.phase = "complete" /\ x.todo = v.todo /\ x.claim = v.claim /\ x.at = v.at
         /\ x.window = v.window
BY DEF MonitorRow, MonitorForgets, MonitorPhases

\* and is done with a session.
LEMMA MonitorEndsFits ==
  ASSUME NEW v \in MonitorRow, NEW s \in MonitoredAt, NEW w \in Instants
  PROVE  LET x == MonitorEnds(v, s, w) IN x \in MonitorRow /\ x.phase = "next" /\ x.todo = v.todo /\ x.claim = v.claim
BY DEF MonitorRow, MonitorEnds, MonitorPhases


\* A step of one session keeps the sessions in order, if it keeps that one so,
LEMMA OneSessionMoves ==
  ASSUME MonitorKept, NEW s \in UserSessions, NEW x \in SessionRow, session' = [session EXCEPT ![s] = x],
         PatternCounts(x.pattern, x.monitored)
  PROVE  session' \in [UserSessions -> SessionRow] /\ \A t \in UserSessions : SessionFits(t)'
<1>1. session \in [UserSessions -> SessionRow] /\ \A t \in UserSessions : SessionFits(t)
  BY DEF MonitorKept
<1>2. session'[s] = x /\ \A t \in UserSessions \ {s} : session'[t] = session[t]
  BY <1>1
<1>3. session' \in [UserSessions -> SessionRow]
  BY <1>1
<1>4. ASSUME NEW t \in UserSessions PROVE SessionFits(t)'
  <2>1. CASE t = s
    BY <1>2, <2>1 DEF SessionFits
  <2>2. CASE t # s
    BY <1>1, <1>2, <2>2 DEF SessionFits
  <2> QED
    BY <2>1, <2>2
<1> QED
  BY <1>3, <1>4

\* as does one that only touches what it has no count of,
LEMMA SessionTouched ==
  ASSUME MonitorKept, NEW s \in UserSessions, NEW x \in SessionRow, session' = [session EXCEPT ![s] = x],
         x.pattern = session[s].pattern, x.monitored = session[s].monitored
  PROVE  session' \in [UserSessions -> SessionRow] /\ \A t \in UserSessions : SessionFits(t)'
<1>1. PatternCounts(x.pattern, x.monitored)
  BY DEF MonitorKept, SessionFits
<1> QED
  BY <1>1, OneSessionMoves

\* like a release.
LEMMA SessionReleased ==
  ASSUME MonitorKept, NEW s \in UserSessions, ReleaseSessionMonitor(s)
  PROVE  session' \in [UserSessions -> SessionRow] /\ \A t \in UserSessions : SessionFits(t)'
<1>1. session \in [UserSessions -> SessionRow]
  BY DEF MonitorKept
<1>2. PICK v \in SessionRow : v = session[s]
  BY <1>1
<1>3. PICK n \in Leases : n = Nobody
  BY DEF Leases
<1>4. PICK x : x = SessionLeased(v, n)
  OBVIOUS
<1>5. x \in SessionRow /\ x.pattern = v.pattern /\ x.monitored = v.monitored
  BY <1>4, SessionLeasedFits
<1>6. session' = [session EXCEPT ![s] = x]
  BY <1>1, <1>2, <1>3, <1>4 DEF ReleaseSessionMonitor, SessionLeased
<1> QED
  BY <1>2, <1>5, <1>6, SessionTouched

\* Where sessions are left alone, they stay in order.
LEMMA SessionsStay ==
  ASSUME MonitorKept, session' = session
  PROVE  session' \in [UserSessions -> SessionRow] /\ \A t \in UserSessions : SessionFits(t)'
BY DEF MonitorKept, SessionFits

\* A step of one monitor keeps the monitors in order, if it keeps that one so;
LEMMA OneMonitorMoves ==
  ASSUME MonitorKept, NEW m \in Actors, NEW x \in MonitorRow, monitor' = [monitor EXCEPT ![m] = x], MonitorFits(m)'
  PROVE  monitor' \in [Actors -> MonitorRow] /\ \A n \in Actors : MonitorFits(n)'
<1>1. monitor \in [Actors -> MonitorRow] /\ \A n \in Actors : MonitorFits(n)
  BY DEF MonitorKept
<1>2. monitor' \in [Actors -> MonitorRow]
  BY <1>1
<1>3. ASSUME NEW n \in Actors PROVE MonitorFits(n)'
  <2>1. CASE n = m
    BY <2>1
  <2>2. CASE n # m
    <3>1. monitor'[n] = monitor[n]
      BY <1>1, <2>2
    <3> QED
      BY <1>1, <3>1 DEF MonitorFits
  <2> QED
    BY <2>1, <2>2
<1> QED
  BY <1>2, <1>3

\* and it consolidates nothing, if the monitor is not at it and the profile only grows.
LEMMA NothingConsolidated ==
  ASSUME MonitorKept, NEW m \in Actors, NEW x, monitor' = [monitor EXCEPT ![m] = x], x.phase # "consolidate",
         profile \subseteq profile', known' \subseteq known \cup profile', overlapped' = overlapped
  PROVE  ConsolidationsFit'
<1>1. monitor \in [Actors -> MonitorRow] /\ ConsolidationsFit
  BY DEF MonitorKept
<1>2. monitor'[m] = x /\ \A n \in Actors \ {m} : monitor'[n] = monitor[n]
  BY <1>1
<1> SUFFICES ASSUME ~overlapped'
             PROVE  /\ FactsKept'
                    /\ \A n \in Actors : monitor'[n].phase = "consolidate" =>
                         /\ monitor'[n].listed \subseteq profile'
                         /\ \A o \in Actors \ {n} : monitor'[o].phase # "consolidate"
  BY DEF ConsolidationsFit
<1>3. ~overlapped
  OBVIOUS
<1>4. \A k \in known : \E r \in profile : r.text.fact = k.text.fact
  BY <1>1, <1>3 DEF ConsolidationsFit, FactsKept
<1>5. FactsKept'
  BY <1>4 DEF FactsKept
<1>6. ASSUME NEW n \in Actors, monitor'[n].phase = "consolidate"
      PROVE  /\ monitor'[n].listed \subseteq profile'
             /\ \A o \in Actors \ {n} : monitor'[o].phase # "consolidate"
  <2>1. n # m /\ monitor'[n] = monitor[n]
    BY <1>2, <1>6
  <2>2. monitor[n].listed \subseteq profile /\ \A o \in Actors \ {n} : monitor[o].phase # "consolidate"
    BY <1>1, <1>3, <1>6, <2>1 DEF ConsolidationsFit
  <2>3. \A o \in Actors \ {n} : monitor'[o].phase # "consolidate"
    BY <1>2, <2>2
  <2> QED
    BY <2>1, <2>2, <2>3
<1> QED
  BY <1>5, <1>6

\* Where nobody moves, nothing is consolidated either.
LEMMA NobodyMoves ==
  ASSUME MonitorKept, UNCHANGED <<monitor, profile, known, overlapped>>
  PROVE  /\ monitor' \in [Actors -> MonitorRow] /\ overlapped' \in BOOLEAN
         /\ profile' \subseteq Rows /\ known' \subseteq Rows /\ IsFiniteSet(known')
         /\ \A n \in Actors : MonitorFits(n)'
         /\ ConsolidationsFit'
BY DEF MonitorKept, MonitorFits, ConsolidationsFit, FactsKept

-----------------------------------------------------------------------------
\* A message, a lapse: a session changes, and what is counted of it does not,
LEMMA SessionsKeep ==
  ASSUME MonitorKept, NEW s \in UserSessions, MessageArrives(s) \/ SessionLeaseLapses(s)
  PROVE  MonitorKept'
<1>1. session \in [UserSessions -> SessionRow]
  BY DEF MonitorKept
<1>2. PICK v \in SessionRow : v = session[s]
  BY <1>1
<1>3. UNCHANGED <<monitor, profile, known, overlapped>>
  BY DEF MessageArrives, SessionLeaseLapses
<1>4. CASE MessageArrives(s)
  <2>1. PICK x : x = SessionHears(v)
    OBVIOUS
  <2>2. x \in SessionRow /\ x.pattern = v.pattern /\ x.monitored = v.monitored
    BY <2>1, SessionHearsFits
  <2>3. session' = [session EXCEPT ![s] = x]
    BY <1>1, <1>2, <1>4, <2>1 DEF MessageArrives, SessionHears
  <2>4. session' \in [UserSessions -> SessionRow] /\ \A t \in UserSessions : SessionFits(t)'
    BY <1>2, <2>2, <2>3, SessionTouched
  <2> QED
    BY <1>3, <2>4, NobodyMoves DEF MonitorKept
<1>5. CASE SessionLeaseLapses(s)
  <2>1. ReleaseSessionMonitor(s)
    BY <1>5 DEF SessionLeaseLapses, ReleaseSessionMonitor
  <2>2. session' \in [UserSessions -> SessionRow] /\ \A t \in UserSessions : SessionFits(t)'
    BY <2>1, SessionReleased
  <2> QED
    BY <1>3, <2>2, NobodyMoves DEF MonitorKept
<1> QED
  BY <1>4, <1>5


\* What nobody consolidates and nothing is added to stays as it is.
LEMMA ProfileStays ==
  ASSUME MonitorKept, UNCHANGED <<profile, known, overlapped>>
  PROVE  /\ profile' \subseteq Rows /\ known' \subseteq Rows /\ IsFiniteSet(known') /\ overlapped' \in BOOLEAN
         /\ profile \subseteq profile' /\ known' \subseteq known \cup profile' /\ overlapped' = overlapped
BY DEF MonitorKept

\* A claim takes what was read with it,
LEMMA MonitorClaimKeeps ==
  ASSUME MonitorKept, NEW m \in Monitors, ClaimIdleSessions(m)
  PROVE  MonitorKept'
<1>1. session \in [UserSessions -> SessionRow] /\ monitor \in [Actors -> MonitorRow] /\ m \in Actors
  BY SMTT(60) DEF MonitorKept, Actors
<1>2. PICK quiet \in SUBSET ClaimableSessions \ {{}} :
        /\ monitor' = [monitor EXCEPT ![m] =
             [IdleMonitor EXCEPT !.phase = "next", !.todo = quiet, !.claim = [s \in quiet |-> Snapshot(s)]]]
        /\ session' = [s \in UserSessions |-> IF s \in quiet THEN [session[s] EXCEPT !.lease = m] ELSE session[s]]
  BY DEF ClaimIdleSessions
<1>3. quiet \subseteq UserSessions /\ \A s \in quiet : session[s].monitored < session[s].last
  BY DEF ClaimableSessions
<1>4. ASSUME NEW s \in UserSessions
      PROVE  /\ session'[s] \in SessionRow /\ session'[s].pattern = session[s].pattern
             /\ session'[s].monitored = session[s].monitored
  <2>1. PICK v \in SessionRow : v = session[s]
    BY <1>1
  <2>2. CASE s \in quiet
    <3>1. PICK l \in Leases : l = m
      BY <1>1 DEF Leases
    <3>2. PICK x : x = SessionLeased(v, l)
      OBVIOUS
    <3>3. x \in SessionRow /\ x.pattern = v.pattern /\ x.monitored = v.monitored
      BY <3>2, SessionLeasedFits
    <3>4. session'[s] = x
      BY <1>2, <2>1, <2>2, <3>1, <3>2 DEF SessionLeased
    <3> QED
      BY <2>1, <3>3, <3>4
  <2>3. CASE s \notin quiet
    BY <1>2, <2>1, <2>3
  <2> QED
    BY <2>2, <2>3
<1>5. session' \in [UserSessions -> SessionRow]
  BY <1>2, <1>4
<1>6. \A s \in UserSessions : SessionFits(s)'
  BY <1>4 DEF MonitorKept, SessionFits
<1>7. PICK c : c = [s \in quiet |-> Snapshot(s)]
  OBVIOUS
<1>8. ASSUME NEW s \in quiet
      PROVE  /\ c[s] \in Snapshots /\ PatternCounts(c[s].pattern, c[s].monitored) /\ c[s].monitored <= c[s].last
  <2>1. PICK v \in SessionRow : v = session[s]
    BY <1>1, <1>3
  <2>2. v.last \in Int /\ v.monitored \in Int /\ v.pattern \in Patterns /\ v.monitored < v.last
    BY <1>3, <2>1 DEF SessionRow
  <2>3. c[s] = [last |-> v.last, monitored |-> v.monitored, pattern |-> v.pattern]
    BY <1>7, <2>1 DEF Snapshot
  <2>4. PatternCounts(v.pattern, v.monitored)
    BY <1>3, <2>1 DEF MonitorKept, SessionFits
  <2>5. c[s] \in Snapshots /\ c[s].pattern = v.pattern /\ c[s].monitored = v.monitored /\ c[s].last = v.last
    BY <2>2, <2>3 DEF Snapshots
  <2> QED
    BY <2>2, <2>4, <2>5
<1>9. c \in [quiet -> Snapshots]
  BY <1>7, <1>8
<1>10. PICK d \in Claims : d = c
  BY <1>3, <1>9 DEF Claims
<1>11. PICK q \in Sets(UserSessions) : q = quiet
  BY <1>3 DEF Sets
<1>12. PICK x : x = MonitorClaims(q, d)
  OBVIOUS
<1>13. x \in MonitorRow /\ x.phase = "next" /\ x.todo = q /\ x.claim = d
  BY <1>12, MonitorClaimsFits
<1>14. monitor' = [monitor EXCEPT ![m] = x] /\ monitor'[m] = x
  BY <1>1, <1>2, <1>7, <1>10, <1>11, <1>12 DEF MonitorClaims
<1>15. MonitorFits(m)'
  <2>1. \A s \in x.todo : ClaimFits(x.claim, s)
    BY <1>8, <1>9, <1>10, <1>11, <1>13 DEF ClaimFits
  <2> QED
    BY <1>13, <1>14, <2>1 DEF MonitorFits
<1>16. monitor' \in [Actors -> MonitorRow] /\ \A n \in Actors : MonitorFits(n)'
  BY <1>1, <1>13, <1>14, <1>15, OneMonitorMoves
<1>17. UNCHANGED <<profile, known, overlapped>>
  BY DEF ClaimIdleSessions
<1>18. ConsolidationsFit'
  BY <1>1, <1>13, <1>14, <1>17, ProfileStays, NothingConsolidated
<1> QED
  BY <1>5, <1>6, <1>16, <1>17, <1>18, ProfileStays DEF MonitorKept

\* A monitor that goes on with a session has its claim still.
LEMMA StaysOn ==
  ASSUME MonitorKept, NEW m \in Actors, NEW x \in MonitorRow, monitor' = [monitor EXCEPT ![m] = x],
         x.todo = monitor[m].todo, x.claim = monitor[m].claim, x.at = monitor[m].at, x.window = monitor[m].window,
         monitor[m].phase \notin {"idle", "next"}
  PROVE  monitor' \in [Actors -> MonitorRow] /\ \A n \in Actors : MonitorFits(n)'
<1>1. monitor \in [Actors -> MonitorRow] /\ MonitorFits(m)
  BY DEF MonitorKept
<1>2. monitor'[m] = x
  BY <1>1
<1>3. MonitorFits(m)'
  BY <1>1, <1>2 DEF MonitorFits
<1> QED
  BY <1>3, OneMonitorMoves

\* What rests has none.
LEMMA Rests ==
  ASSUME MonitorKept, NEW m \in Actors, monitor' = [monitor EXCEPT ![m] = IdleMonitor]
  PROVE  monitor' \in [Actors -> MonitorRow] /\ \A n \in Actors : MonitorFits(n)'
<1>1. monitor \in [Actors -> MonitorRow]
  BY DEF MonitorKept
<1>2. monitor'[m] = IdleMonitor
  BY <1>1
<1>3. MonitorFits(m)'
  BY <1>2, RestingMonitor DEF MonitorFits
<1> QED
  BY <1>3, RestingMonitor, OneMonitorMoves

\* the window it reads lies between its instants,
LEMMA ReadingKeeps ==
  ASSUME MonitorKept, NEW m \in Monitors, NEW s \in UserSessions, ProcessSession(m, s)
  PROVE  MonitorKept'
<1>1. /\ session \in [UserSessions -> SessionRow] /\ monitor \in [Actors -> MonitorRow] /\ m \in Actors
      /\ MonitorFits(m)
  BY DEF MonitorKept, Actors
<1>2. monitor[m].phase = "next" /\ s \in monitor[m].todo
  BY DEF ProcessSession
<1>3. PICK window : window = MonitoredWindow(RecentMessages(s), monitor[m].claim[s])
  OBVIOUS
<1>4. window \subseteq {i \in Int : monitor[m].claim[s].monitored < i /\ i <= monitor[m].claim[s].last}
  <2>1. \A i \in window : i \in 1..session[s].last /\ i > monitor[m].claim[s].monitored /\ i <= monitor[m].claim[s].last
    BY <1>3 DEF MonitoredWindow, RecentMessages
  <2>2. session[s].last \in Int
    BY <1>1 DEF SessionRow
  <2>3. ASSUME NEW i \in window
        PROVE  i \in Int /\ monitor[m].claim[s].monitored < i /\ i <= monitor[m].claim[s].last
    BY <2>1, <2>2
  <2> QED
    BY <2>3
<1>5. PICK w \in Instants : w = window
  BY <1>4 DEF Instants
<1>6. PICK p \in MonitorPhases : p = (IF window = {} THEN "complete" ELSE "extract")
  BY DEF MonitorPhases
<1>7. PICK v \in MonitorRow : v = monitor[m]
  BY <1>1
<1>8. PICK place \in MonitoredAt : place = s
  BY DEF MonitoredAt
<1>9. PICK x : x = MonitorReads(v, place, w, p)
  OBVIOUS
<1>10. /\ x \in MonitorRow /\ x.phase = p /\ x.todo = v.todo \ {place} /\ x.claim = v.claim /\ x.at = place
       /\ x.window = w
  BY <1>9, MonitorReadsFits
<1>11. monitor' = [monitor EXCEPT ![m] = x] /\ monitor'[m] = x
  <2>1. monitor' = [monitor EXCEPT ![m].at = s, ![m].todo = @ \ {s}, ![m].window = window,
                                      ![m].phase = IF window = {} THEN "complete" ELSE "extract"]
    BY <1>3 DEF ProcessSession
  <2> QED
    BY <1>1, <1>5, <1>6, <1>7, <1>8, <1>9, <2>1 DEF MonitorReads
<1>12. p # "consolidate"
  BY <1>6
<1>13. MonitorFits(m)'
  <2>1. m # ByHand => \A t \in v.todo : ClaimFits(v.claim, t)
    BY <1>1, <1>2, <1>7 DEF MonitorFits
  <2>2. m # ByHand => ClaimFits(x.claim, x.at) /\ (\A t \in x.todo : ClaimFits(x.claim, t)) /\ x.at \in UserSessions
    BY <1>2, <1>7, <1>8, <1>10, <2>1
  <2>3. x.window \subseteq {i \in Int : x.claim[x.at].monitored < i /\ i <= x.claim[x.at].last}
    BY <1>4, <1>5, <1>7, <1>8, <1>10
  <2> QED
    BY <1>11, <2>2, <2>3 DEF MonitorFits
<1>14. monitor' \in [Actors -> MonitorRow] /\ \A n \in Actors : MonitorFits(n)'
  BY <1>1, <1>10, <1>11, <1>13, OneMonitorMoves
<1>15. UNCHANGED <<profile, known, overlapped>>
  BY DEF ProcessSession
<1>16. ConsolidationsFit'
  BY <1>1, <1>10, <1>11, <1>12, <1>15, ProfileStays, NothingConsolidated
<1>17. session' \in [UserSessions -> SessionRow] /\ \A t \in UserSessions : SessionFits(t)'
  <2>1. CASE session' = session
    BY <2>1, SessionsStay
  <2>2. CASE session' = [session EXCEPT ![s].summary = window]
    <3>1. PICK u \in SessionRow : u = session[s]
      BY <1>1
    <3>2. PICK y : y = SessionSummed(u, w)
      OBVIOUS
    <3>3. y \in SessionRow /\ y.pattern = u.pattern /\ y.monitored = u.monitored
      BY <3>2, SessionSummedFits
    <3>4. session' = [session EXCEPT ![s] = y]
      BY <1>1, <1>5, <2>2, <3>1, <3>2 DEF SessionSummed
    <3> QED
      BY <3>1, <3>3, <3>4, SessionTouched
  <2> QED
    BY <1>3, <2>1, <2>2 DEF ProcessSession, UpsertSessionSummary
<1> QED
  BY <1>14, <1>15, <1>16, <1>17, ProfileStays DEF MonitorKept


\* who ends a batch or a compaction, or fails, rests,
LEMMA RestingKeeps ==
  ASSUME MonitorKept, NEW m \in Actors,
         \/ BatchEnds(m)
         \/ CompactionEnds /\ m = ByHand
         \/ ExtractionFails(m)
  PROVE  MonitorKept'
<1>1. monitor' = [monitor EXCEPT ![m] = IdleMonitor] /\ UNCHANGED <<profile, known, overlapped>>
  BY DEF BatchEnds, CompactionEnds, ExtractionFails
<1>2. monitor' \in [Actors -> MonitorRow] /\ \A n \in Actors : MonitorFits(n)'
  BY <1>1, Rests
<1>3. ConsolidationsFit'
  <2>1. IdleMonitor.phase # "consolidate"
    BY RestingMonitor
  <2> QED
    BY <1>1, <2>1, ProfileStays, NothingConsolidated
<1>4. session' \in [UserSessions -> SessionRow] /\ \A t \in UserSessions : SessionFits(t)'
  <2>1. CASE session' = session
    BY <2>1, SessionsStay
  <2>2. CASE session' # session
    <3>1. ExtractionFails(m) /\ m # ByHand /\ ReleaseSessionMonitor(monitor[m].at)
      BY <2>2 DEF BatchEnds, CompactionEnds, ExtractionFails
    <3>2. monitor[m].at \in UserSessions
      BY <3>1 DEF MonitorKept, MonitorFits, ExtractionFails
    <3> QED
      BY <3>1, <3>2, SessionReleased
  <2> QED
    BY <2>1, <2>2
<1> QED
  BY <1>1, <1>2, <1>3, <1>4, ProfileStays DEF MonitorKept

\* who is asked by hand has no claim,
LEMMA CompactionKeeps ==
  ASSUME MonitorKept, NEW s \in UserSessions, CompactSession(s)
  PROVE  MonitorKept'
<1>1. session \in [UserSessions -> SessionRow] /\ monitor \in [Actors -> MonitorRow] /\ ByHand \in Actors
  BY DEF MonitorKept, Actors
<1>2. PICK w \in Instants : w = RecentMessages(s)
  <2>1. session[s].last \in Int
    BY <1>1 DEF SessionRow
  <2>2. RecentMessages(s) \subseteq 1..session[s].last
    BY DEF RecentMessages
  <2>3. RecentMessages(s) \subseteq Int
    BY <2>1, <2>2
  <2> QED
    BY <2>3 DEF Instants
<1>3. UNCHANGED <<profile, known, overlapped>>
  BY DEF CompactSession
<1>4. session' \in [UserSessions -> SessionRow] /\ \A t \in UserSessions : SessionFits(t)'
  <2>1. PICK u \in SessionRow : u = session[s]
    BY <1>1
  <2>2. PICK y : y = SessionSummed(u, w)
    OBVIOUS
  <2>3. y \in SessionRow /\ y.pattern = u.pattern /\ y.monitored = u.monitored
    BY <2>2, SessionSummedFits
  <2>4. session' = [session EXCEPT ![s] = y]
    BY <1>1, <1>2, <2>1, <2>2 DEF CompactSession, SessionSummed
  <2> QED
    BY <2>1, <2>3, <2>4, SessionTouched
<1>5. CASE monitor' = monitor
  BY <1>3, <1>4, <1>5, NobodyMoves DEF MonitorKept
<1>6. CASE monitor' = [monitor EXCEPT ![ByHand] = [IdleMonitor EXCEPT !.phase = "extract", !.at = s, !.window = RecentMessages(s)]]
  <2>1. PICK place \in MonitoredAt : place = s
    BY DEF MonitoredAt
  <2>2. PICK x : x = MonitorAsked(place, w)
    OBVIOUS
  <2>3. x \in MonitorRow /\ x.phase = "extract"
    BY <2>2, MonitorAskedFits
  <2>4. monitor' = [monitor EXCEPT ![ByHand] = x]
    BY <1>2, <1>6, <2>1, <2>2 DEF MonitorAsked
  <2>5. MonitorFits(ByHand)'
    BY DEF MonitorFits
  <2>6. monitor' \in [Actors -> MonitorRow] /\ \A n \in Actors : MonitorFits(n)'
    BY <1>1, <2>3, <2>4, <2>5, OneMonitorMoves
  <2>7. ConsolidationsFit'
    BY <1>1, <1>3, <2>3, <2>4, ProfileStays, NothingConsolidated
  <2> QED
    BY <1>3, <1>4, <2>6, <2>7, ProfileStays DEF MonitorKept
<1> QED
  BY <1>5, <1>6 DEF CompactSession

\* what is extracted is written later,
LEMMA ExtractionKeeps ==
  ASSUME MonitorKept, NEW m \in Actors, ExtractMemoryAndPreferences(m)
  PROVE  MonitorKept'
<1>1. monitor \in [Actors -> MonitorRow] /\ monitor[m].phase = "extract"
  BY DEF MonitorKept, ExtractMemoryAndPreferences
<1>2. UNCHANGED <<session, profile, known, overlapped>>
  BY DEF ExtractMemoryAndPreferences
<1>3. PICK v \in MonitorRow : v = monitor[m]
  BY <1>1
<1>4. \E x \in MonitorRow :
        /\ monitor' = [monitor EXCEPT ![m] = x] /\ x.phase # "consolidate"
        /\ x.todo = v.todo /\ x.claim = v.claim /\ x.at = v.at /\ x.window = v.window
  <2>1. CASE Goes(m, "complete")
    <3>1. PICK p \in MonitorPhases : p = "complete"
      BY DEF MonitorPhases
    <3>2. PICK x : x = MonitorGoes(v, p)
      OBVIOUS
    <3>3. /\ x \in MonitorRow /\ x.phase = p /\ x.todo = v.todo /\ x.claim = v.claim /\ x.at = v.at
          /\ x.window = v.window
      BY <3>2, MonitorGoesFits
    <3>4. monitor' = [monitor EXCEPT ![m] = x]
      BY <1>1, <1>3, <2>1, <3>1, <3>2 DEF Goes, MonitorGoes
    <3> QED
      BY <3>1, <3>3, <3>4
  <2>2. CASE \E W \in Extractions({Said[monitor[m].at][i] : i \in monitor[m].window}) : \E A \in Accepted(W) :
               monitor' = [monitor EXCEPT ![m].phase = IF A = {} THEN "complete" ELSE "write", ![m].wanted = A]
    <3>0. PICK W \in Extractions({Said[monitor[m].at][i] : i \in monitor[m].window}) : \E A \in Accepted(W) :
            monitor' = [monitor EXCEPT ![m].phase = IF A = {} THEN "complete" ELSE "write", ![m].wanted = A]
      BY <2>2
    <3>1. PICK A \in Accepted(W) :
            monitor' = [monitor EXCEPT ![m].phase = IF A = {} THEN "complete" ELSE "write", ![m].wanted = A]
      BY <3>0
    <3>2. W \subseteq Texts
      BY DEF Extractions
    <3>3. A \subseteq W
      BY DEF Accepted
    <3>4. PICK B \in Sets(Texts) : B = A
      BY <3>2, <3>3 DEF Sets
    <3>5. PICK p \in MonitorPhases : p = (IF A = {} THEN "complete" ELSE "write")
      BY DEF MonitorPhases
    <3>6. PICK x : x = MonitorWants(v, p, B)
      OBVIOUS
    <3>7. /\ x \in MonitorRow /\ x.phase = p /\ x.todo = v.todo /\ x.claim = v.claim /\ x.at = v.at
          /\ x.window = v.window
      BY <3>6, MonitorWantsFits
    <3>8. monitor' = [monitor EXCEPT ![m] = x]
      BY <1>1, <1>3, <3>1, <3>4, <3>5, <3>6 DEF MonitorWants
    <3>9. p # "consolidate"
      BY <3>5
    <3> QED
      BY <3>7, <3>8, <3>9
  <2> QED
    BY <2>1, <2>2 DEF ExtractMemoryAndPreferences
<1>5. PICK x \in MonitorRow :
        /\ monitor' = [monitor EXCEPT ![m] = x] /\ x.phase # "consolidate"
        /\ x.todo = v.todo /\ x.claim = v.claim /\ x.at = v.at /\ x.window = v.window
  BY <1>4
<1>6. monitor' \in [Actors -> MonitorRow] /\ \A n \in Actors : MonitorFits(n)'
  BY <1>1, <1>3, <1>5, StaysOn
<1>7. ConsolidationsFit'
  BY <1>2, <1>5, ProfileStays, NothingConsolidated
<1>8. session' \in [UserSessions -> SessionRow] /\ \A t \in UserSessions : SessionFits(t)'
  BY <1>2, SessionsStay
<1> QED
  BY <1>2, <1>6, <1>7, <1>8, ProfileStays DEF MonitorKept

\* The rows of what is new, all with the next number.
NewRows(S) == {[id |-> Cardinality(known) + 1, text |-> t] : t \in S}

\* They are as many as their texts, and with them what is known stays finite.
LEMMA NewRowsAreFinite ==
  ASSUME MonitorConfigured, MonitorKept, NEW S \in SUBSET Texts
  PROVE  NewRows(S) \subseteq Rows /\ IsFiniteSet(known \cup NewRows(S))
<1>1. Cardinality(known) \in Nat
  BY FS_CardinalityType DEF MonitorKept
<1>2. PICK n \in Nat : n = Cardinality(known) + 1
  BY <1>1
<1>3. NewRows(S) = {[id |-> n, text |-> t] : t \in S}
  BY <1>2 DEF NewRows
<1>4. NewRows(S) \subseteq Rows
  BY <1>2, <1>3 DEF Rows
<1>5. PICK f : f = [t \in S |-> [id |-> n, text |-> t]]
  OBVIOUS
<1>6. PICK T : T = NewRows(S)
  OBVIOUS
<1>7. f \in [S -> T] /\ \A r \in T : \E t \in S : f[t] = r
  BY <1>3, <1>5, <1>6
<1>8. f \in Surjection(S, T)
  BY <1>7 DEF Surjection
<1>9. IsFiniteSet(S)
  BY FS_Subset DEF MonitorConfigured
<1>10. IsFiniteSet(T)
  BY <1>8, <1>9, FS_Surjection
<1>11. IsFiniteSet(known \cup T)
  BY <1>10, FS_Union DEF MonitorKept
<1> QED
  BY <1>4, <1>6, <1>11


\* written and listed together,
LEMMA WritingKeeps ==
  ASSUME MonitorConfigured, MonitorKept, NEW m \in Actors, WriteProfile(m)
  PROVE  MonitorKept'
<1>1. /\ monitor \in [Actors -> MonitorRow] /\ monitor[m].phase = "write" /\ session' = session
      /\ profile \subseteq Rows /\ overlapped \in BOOLEAN /\ ConsolidationsFit
  BY DEF MonitorKept, WriteProfile
<1>2. PICK v \in MonitorRow : v = monitor[m]
  BY <1>1
<1>3. PICK S \in SUBSET Texts : S = v.wanted
  BY DEF MonitorRow, Sets
<1>4. PICK R : R = NewRows(S)
  OBVIOUS
<1>5. R \subseteq Rows /\ IsFiniteSet(known \cup R)
  BY <1>4, NewRowsAreFinite
<1>6. PICK L \in Sets(Rows) : L = profile \cup R
  BY <1>1, <1>5 DEF Sets
<1>7. PICK none \in Sets(Texts) : none = {}
  BY DEF Sets
<1>8. /\ profile' = L /\ known' = known \cup R
      /\ \/ /\ monitor' = [monitor EXCEPT ![m].phase = "complete", ![m].wanted = none]
            /\ overlapped' = overlapped
         \/ /\ monitor' = [monitor EXCEPT ![m].phase = "consolidate", ![m].wanted = none, ![m].listed = L]
            /\ overlapped' = (overlapped \/ \E n \in Actors \ {m} : monitor[n].phase = "consolidate")
  BY <1>2, <1>3, <1>4, <1>6, <1>7 DEF WriteProfile, NewRows
<1>9. profile' \subseteq Rows /\ known' \subseteq Rows /\ IsFiniteSet(known') /\ overlapped' \in BOOLEAN
  <2>1. overlapped' \in BOOLEAN
    BY <1>1, <1>8
  <2>2. known \subseteq Rows
    BY DEF MonitorKept
  <2> QED
    BY <1>1, <1>5, <1>6, <1>8, <2>1, <2>2
<1>10. session' \in [UserSessions -> SessionRow] /\ \A t \in UserSessions : SessionFits(t)'
  BY <1>1, SessionsStay
<1>11. CASE /\ monitor' = [monitor EXCEPT ![m].phase = "complete", ![m].wanted = none]
            /\ overlapped' = overlapped
  <2>1. PICK p \in MonitorPhases : p = "complete"
    BY DEF MonitorPhases
  <2>2. PICK x : x = MonitorWants(v, p, none)
    OBVIOUS
  <2>3. /\ x \in MonitorRow /\ x.phase = p /\ x.todo = v.todo /\ x.claim = v.claim /\ x.at = v.at
        /\ x.window = v.window
    BY <2>2, MonitorWantsFits
  <2>4. monitor' = [monitor EXCEPT ![m] = x]
    BY <1>1, <1>2, <1>11, <2>1, <2>2 DEF MonitorWants
  <2>5. monitor' \in [Actors -> MonitorRow] /\ \A n \in Actors : MonitorFits(n)'
    BY <1>1, <1>2, <2>3, <2>4, StaysOn
  <2>6. ConsolidationsFit'
    <3>1. profile \subseteq profile' /\ known' \subseteq known \cup profile' /\ x.phase # "consolidate"
      BY <1>6, <1>8, <2>1, <2>3
    <3> QED
      BY <1>11, <2>4, <3>1, NothingConsolidated
  <2> QED
    BY <1>9, <1>10, <2>5, <2>6 DEF MonitorKept
<1>12. CASE /\ monitor' = [monitor EXCEPT ![m].phase = "consolidate", ![m].wanted = none, ![m].listed = L]
            /\ overlapped' = (overlapped \/ \E n \in Actors \ {m} : monitor[n].phase = "consolidate")
  <2>1. PICK x : x = MonitorLists(v, none, L)
    OBVIOUS
  <2>2. /\ x \in MonitorRow /\ x.phase = "consolidate" /\ x.todo = v.todo /\ x.claim = v.claim /\ x.at = v.at
        /\ x.window = v.window /\ x.listed = L
    BY <2>1, MonitorListsFits
  <2>3. monitor' = [monitor EXCEPT ![m] = x] /\ monitor'[m] = x /\ \A n \in Actors \ {m} : monitor'[n] = monitor[n]
    BY <1>1, <1>2, <1>12, <2>1 DEF MonitorLists
  <2>4. monitor' \in [Actors -> MonitorRow] /\ \A n \in Actors : MonitorFits(n)'
    BY <1>1, <1>2, <2>2, <2>3, StaysOn
  <2>5. ASSUME ~overlapped'
        PROVE  /\ FactsKept'
               /\ \A n \in Actors : monitor'[n].phase = "consolidate" =>
                    /\ monitor'[n].listed \subseteq profile'
                    /\ \A o \in Actors \ {n} : monitor'[o].phase # "consolidate"
    <3>1. ~overlapped /\ \A n \in Actors \ {m} : monitor[n].phase # "consolidate"
      BY <1>12, <2>5
    <3>2. \A n \in Actors \ {m} : monitor'[n].phase # "consolidate"
      BY <2>3, <3>1
    <3>3. monitor'[m].listed \subseteq profile'
      BY <1>8, <2>2, <2>3
    <3>4. \A k \in known : \E r \in profile : r.text.fact = k.text.fact
      BY <1>1, <3>1 DEF ConsolidationsFit, FactsKept
    <3>5. \A k \in known' : \E r \in profile' : r.text.fact = k.text.fact
      BY <1>6, <1>8, <3>4
    <3> QED
      BY <3>2, <3>3, <3>5 DEF FactsKept
  <2>6. ConsolidationsFit'
    BY <2>5 DEF ConsolidationsFit
  <2> QED
    BY <1>9, <1>10, <2>4, <2>6 DEF MonitorKept
<1> QED
  BY <1>8, <1>11, <1>12

\* or written in part,
LEMMA FailedWritingKeeps ==
  ASSUME MonitorConfigured, MonitorKept, NEW m \in Actors, WriteFails(m)
  PROVE  MonitorKept'
<1>1. /\ monitor \in [Actors -> MonitorRow] /\ profile \subseteq Rows /\ overlapped \in BOOLEAN
      /\ known \subseteq Rows
  BY DEF MonitorKept
<1>2. monitor' = [monitor EXCEPT ![m] = IdleMonitor] /\ overlapped' = overlapped /\ monitor[m].phase = "write"
  BY DEF WriteFails
<1>3. monitor[m].wanted \subseteq Texts
  BY <1>1 DEF MonitorRow, Sets
<1>4. PICK W \in SUBSET Texts : profile' = profile \cup NewRows(W) /\ known' = known \cup NewRows(W)
  BY <1>3 DEF WriteFails, NewRows
<1>5. NewRows(W) \subseteq Rows /\ IsFiniteSet(known \cup NewRows(W))
  BY NewRowsAreFinite
<1>6. profile' \subseteq Rows /\ known' \subseteq Rows /\ IsFiniteSet(known') /\ overlapped' \in BOOLEAN
  BY <1>1, <1>2, <1>4, <1>5
<1>7. monitor' \in [Actors -> MonitorRow] /\ \A n \in Actors : MonitorFits(n)'
  BY <1>2, Rests
<1>8. ConsolidationsFit'
  <2>1. IdleMonitor.phase # "consolidate"
    BY RestingMonitor
  <2>2. profile \subseteq profile' /\ known' \subseteq known \cup profile'
    BY <1>4
  <2> QED
    BY <1>2, <2>1, <2>2, NothingConsolidated
<1>9. session' \in [UserSessions -> SessionRow] /\ \A t \in UserSessions : SessionFits(t)'
  <2>1. CASE session' = session
    BY <2>1, SessionsStay
  <2>2. CASE session' # session
    <3>1. m # ByHand /\ ReleaseSessionMonitor(monitor[m].at)
      BY <2>2 DEF WriteFails
    <3>2. monitor[m].at \in UserSessions
      BY <1>2, <3>1 DEF MonitorKept, MonitorFits
    <3> QED
      BY <3>1, <3>2, SessionReleased
  <2> QED
    BY <2>1, <2>2
<1> QED
  BY <1>6, <1>7, <1>8, <1>9 DEF MonitorKept

\* a row that is deleted leaves one that says the same,
LEMMA ConsolidationKeeps ==
  ASSUME MonitorKept, NEW m \in Actors, ConsolidateProfile(m)
  PROVE  MonitorKept'
<1>1. /\ monitor \in [Actors -> MonitorRow] /\ monitor[m].phase = "consolidate" /\ profile \subseteq Rows
      /\ ConsolidationsFit /\ overlapped \in BOOLEAN /\ known \subseteq Rows /\ IsFiniteSet(known)
  BY DEF MonitorKept, ConsolidateProfile
<1>2. UNCHANGED <<session, known, overlapped>>
  BY DEF ConsolidateProfile
<1>3. PICK v \in MonitorRow : v = monitor[m]
  BY <1>1
<1>4. PICK none \in Sets(Rows) : none = {}
  BY DEF Sets
<1>5. PICK x : x = MonitorForgets(v, none)
  OBVIOUS
<1>6. /\ x \in MonitorRow /\ x.phase = "complete" /\ x.todo = v.todo /\ x.claim = v.claim /\ x.at = v.at
      /\ x.window = v.window
  BY <1>5, MonitorForgetsFits
<1>7. monitor' = [monitor EXCEPT ![m] = x] /\ monitor'[m] = x /\ \A n \in Actors \ {m} : monitor'[n] = monitor[n]
  BY <1>1, <1>3, <1>4, <1>5 DEF ConsolidateProfile, MonitorForgets
<1>8. monitor' \in [Actors -> MonitorRow] /\ \A n \in Actors : MonitorFits(n)'
  BY <1>1, <1>3, <1>6, <1>7, StaysOn
<1>9. session' \in [UserSessions -> SessionRow] /\ \A t \in UserSessions : SessionFits(t)'
  BY <1>2, SessionsStay
<1>10. profile' \subseteq Rows
  BY <1>1 DEF ConsolidateProfile
<1>11. ASSUME ~overlapped
       PROVE  /\ FactsKept'
              /\ \A n \in Actors : monitor'[n].phase = "consolidate" =>
                   /\ monitor'[n].listed \subseteq profile'
                   /\ \A o \in Actors \ {n} : monitor'[o].phase # "consolidate"
  <2>1. /\ \A k \in known : \E r \in profile : r.text.fact = k.text.fact
        /\ monitor[m].listed \subseteq profile
        /\ \A n \in Actors \ {m} : monitor[n].phase # "consolidate"
    BY <1>1, <1>11 DEF ConsolidationsFit, FactsKept
  <2>2. \A n \in Actors : monitor'[n].phase # "consolidate"
    BY <1>6, <1>7, <2>1
  <2>3. ASSUME NEW k \in known
        PROVE  \E r \in profile' : r.text.fact = k.text.fact
    <3>1. PICK r \in profile : r.text.fact = k.text.fact
      BY <2>1
    <3>2. CASE profile' = profile
      BY <3>1, <3>2
    <3>3. ASSUME NEW c \in Consolidations(monitor[m].listed), profile' = profile \ Deleted(c)
          PROVE  \E q \in profile' : q.text.fact = k.text.fact
      <4>1. CASE r \notin Deleted(c)
        BY <3>1, <3>3, <4>1
      <4>2. CASE r \in Deleted(c)
        <5>1. r \in c.duplicates
          BY <4>2 DEF Deleted
        <5>2. PICK u \in c.updates : r \in Same(monitor[m].listed, u)
          BY <5>1 DEF Consolidations
        <5>3. c.updates \subseteq monitor[m].listed
          BY DEF Consolidations
        <5>4. u \in profile /\ u \notin Deleted(c) /\ u.text.fact = r.text.fact
          BY <2>1, <5>2, <5>3 DEF Deleted, Same
        <5> QED
          BY <3>1, <3>3, <5>4
      <4> QED
        BY <4>1, <4>2
    <3> QED
      BY <3>2, <3>3 DEF ConsolidateProfile
  <2> QED
    BY <1>2, <2>2, <2>3 DEF FactsKept
<1>12. ConsolidationsFit'
  BY <1>2, <1>11 DEF ConsolidationsFit
<1> QED
  BY <1>1, <1>2, <1>8, <1>9, <1>10, <1>12 DEF MonitorKept

\* and a session is completed with what was claimed.
LEMMA CompletionKeeps ==
  ASSUME MonitorKept, NEW m \in Monitors, CompleteSessionMonitor(m)
  PROVE  MonitorKept'
<1>1. /\ session \in [UserSessions -> SessionRow] /\ monitor \in [Actors -> MonitorRow] /\ m \in Actors
      /\ monitor[m].phase = "complete" /\ m # ByHand /\ MonitorFits(m)
  BY DEF MonitorKept, CompleteSessionMonitor, Actors
<1>2. PICK v \in MonitorRow : v = monitor[m]
  BY <1>1
<1>3. PICK s : s = v.at
  OBVIOUS
<1>4. /\ s \in UserSessions /\ ClaimFits(v.claim, s) /\ \A t \in v.todo : ClaimFits(v.claim, t)
      /\ v.window \subseteq {i \in Int : v.claim[s].monitored < i /\ i <= v.claim[s].last}
  BY <1>1, <1>2, <1>3 DEF MonitorFits
<1>5. PICK claim \in Snapshots : claim = v.claim[s]
  BY <1>4 DEF ClaimFits
<1>6. /\ claim.last \in Int /\ claim.monitored \in Int /\ claim.pattern \in Patterns
      /\ PatternCounts(claim.pattern, claim.monitored) /\ claim.monitored <= claim.last
  BY <1>4, <1>5 DEF ClaimFits, Snapshots
<1>7. PICK p : p = ActivePattern(claim.pattern, v.window)
  OBVIOUS
<1>8. p \in Patterns /\ PatternCounts(p, claim.last)
  <2>1. PICK D \in SUBSET Int : claim.pattern \in [D -> Int]
    BY <1>6 DEF Patterns
  <2>2. p = [i \in D |-> IF i \in v.window THEN claim.pattern[i] + 1 ELSE claim.pattern[i]]
    BY <1>7, <2>1 DEF ActivePattern
  <2>3. ASSUME NEW i \in D
        PROVE  p[i] \in Int /\ p[i] <= IF i <= claim.last THEN 1 ELSE 0
    <3>1. claim.pattern[i] \in Int /\ i \in Int
      BY <2>1
    <3>2. claim.pattern[i] <= IF i <= claim.monitored THEN 1 ELSE 0
      BY <1>6, <2>1 DEF PatternCounts
    <3>3. i \in v.window => claim.monitored < i /\ i <= claim.last
      BY <1>4, <1>5
    <3>4. p[i] = IF i \in v.window THEN claim.pattern[i] + 1 ELSE claim.pattern[i]
      BY <2>2
    <3> QED
      BY <1>6, <3>1, <3>2, <3>3, <3>4
  <2>4. p \in [D -> Int]
    BY <2>2, <2>3
  <2>5. p \in Patterns
    BY <2>4 DEF Patterns
  <2>6. PatternCounts(p, claim.last)
    BY <2>3, <2>4 DEF PatternCounts
  <2> QED
    BY <2>5, <2>6
<1>9. PICK l \in Leases : l = Nobody
  BY DEF Leases
<1>10. PICK u \in SessionRow : u = session[s]
  BY <1>1, <1>4
<1>11. PICK y : y = SessionDone(u, claim.last, l, p)
  OBVIOUS
<1>12. y \in SessionRow /\ y.pattern = p /\ y.monitored = claim.last
  BY <1>6, <1>8, <1>11, SessionDoneFits
<1>13. session' = [session EXCEPT ![s] = y]
  <2>1. session' = [session EXCEPT ![s].monitored = claim.last, ![s].lease = l, ![s].pattern = p]
    BY <1>2, <1>3, <1>5, <1>7, <1>9 DEF CompleteSessionMonitor
  <2> QED
    BY <1>1, <1>4, <1>10, <1>11, <2>1 DEF SessionDone
<1>14. session' \in [UserSessions -> SessionRow] /\ \A t \in UserSessions : SessionFits(t)'
  BY <1>4, <1>8, <1>12, <1>13, OneSessionMoves
<1>15. PICK none \in Instants : none = {}
  BY DEF Instants
<1>16. PICK place \in MonitoredAt : place = Nobody
  BY DEF MonitoredAt
<1>17. PICK x : x = MonitorEnds(v, place, none)
  OBVIOUS
<1>18. x \in MonitorRow /\ x.phase = "next" /\ x.todo = v.todo /\ x.claim = v.claim
  BY <1>17, MonitorEndsFits
<1>19. monitor' = [monitor EXCEPT ![m] = x] /\ monitor'[m] = x
  BY <1>1, <1>2, <1>15, <1>16, <1>17 DEF CompleteSessionMonitor, MonitorEnds
<1>20. MonitorFits(m)'
  BY <1>4, <1>18, <1>19 DEF MonitorFits
<1>21. monitor' \in [Actors -> MonitorRow] /\ \A n \in Actors : MonitorFits(n)'
  BY <1>1, <1>18, <1>19, <1>20, OneMonitorMoves
<1>22. UNCHANGED <<profile, known, overlapped>>
  BY DEF CompleteSessionMonitor
<1>23. ConsolidationsFit'
  BY <1>1, <1>18, <1>19, <1>22, ProfileStays, NothingConsolidated
<1> QED
  BY <1>14, <1>21, <1>22, <1>23, ProfileStays DEF MonitorKept

\* The monitor keeps its promises at every step.
THEOREM MonitorsAreKept ==
  ASSUME MonitorConfigured
  PROVE  MonitorSpec => []MonitorKept
<1>1. MonitorInit => MonitorKept
  <2> SUFFICES ASSUME MonitorInit PROVE MonitorKept
    OBVIOUS
  <2>1. monitor \in [Actors -> MonitorRow] /\ \A m \in Actors : monitor[m].phase = "idle"
    BY RestingMonitor DEF MonitorInit
  <2>2. ASSUME NEW s \in UserSessions
        PROVE  session[s] \in SessionRow /\ SessionFits(s)
    <3>1. DOMAIN Said[s] \in SUBSET Int
      BY DEF MonitorConfigured
    <3>2. PICK D \in SUBSET Int : D = DOMAIN Said[s]
      BY <3>1
    <3>3. PICK p : p = [i \in D |-> 0]
      OBVIOUS
    <3>4. p \in Patterns
      <4>1. p \in [D -> Int]
        BY <3>3
      <4> QED
        BY <4>1 DEF Patterns
    <3>5. PatternCounts(p, -1)
      BY <3>3 DEF PatternCounts
    <3>6. session[s] = [last |-> 0, monitored |-> -1, pattern |-> p, summary |-> {}, lease |-> Nobody]
      BY <3>2, <3>3 DEF MonitorInit
    <3>7. session[s] \in SessionRow
      BY <3>4, <3>6 DEF SessionRow, Instants, Leases
    <3> QED
      BY <3>5, <3>6, <3>7 DEF SessionFits
  <2>3. session \in [UserSessions -> SessionRow]
    BY <2>2 DEF MonitorInit
  <2>4. \A m \in Actors : MonitorFits(m)
    BY <2>1 DEF MonitorFits
  <2>5. ConsolidationsFit
    BY <2>1 DEF ConsolidationsFit, FactsKept, MonitorInit
  <2>6. IsFiniteSet(known) /\ profile \subseteq Rows /\ known \subseteq Rows /\ overlapped \in BOOLEAN
    BY FS_EmptySet DEF MonitorInit
  <2> QED
    BY <2>1, <2>2, <2>3, <2>4, <2>5, <2>6 DEF MonitorKept
<1>2. MonitorKept /\ [MonitorNext]_monitorVars => MonitorKept'
  <2> SUFFICES ASSUME MonitorKept, [MonitorNext]_monitorVars PROVE MonitorKept'
    OBVIOUS
  <2>1. CASE UNCHANGED monitorVars
    BY <2>1 DEF monitorVars, MonitorKept, SessionFits, MonitorFits, ConsolidationsFit, FactsKept
  <2>2. CASE MonitorNext
    <3>1. Monitors \subseteq Actors /\ ByHand \in Actors
      BY DEF Actors
    <3> QED
      BY <2>2, <3>1, SessionsKeep, CompactionKeeps, MonitorClaimKeeps, ReadingKeeps, CompletionKeeps, RestingKeeps,
         ExtractionKeeps, WritingKeeps, FailedWritingKeeps, ConsolidationKeeps DEF MonitorNext
  <2> QED
    BY <2>1, <2>2
<1> QED
  BY <1>1, <1>2, PTL DEF MonitorSpec

\* The pattern counts each message once, and none that is still to be monitored.
THEOREM PatternsCountOnce ==
  ASSUME MonitorConfigured
  PROVE  MonitorSpec => []PatternCountsOnce
<1>1. MonitorKept => PatternCountsOnce
  BY DEF MonitorKept, SessionFits, PatternCounts, PatternCountsOnce
<1> QED
  BY <1>1, MonitorsAreKept, PTL

\* Consolidations that do not overlap lose no fact.
THEOREM FactsAreKept ==
  ASSUME MonitorConfigured
  PROVE  MonitorSpec => []FactsKept
<1>1. MonitorKept => FactsKept
  BY DEF MonitorKept, ConsolidationsFit, FactsKept
<1> QED
  BY <1>1, MonitorsAreKept, PTL

-----------------------------------------------------------------------------
(* Shared jobs *)

SharedSpec == SharedInit /\ [][SharedNext]_sharedVars

Dues == Nat \ {0}
SharedJobRow ==
  [exists : BOOLEAN, enabled : BOOLEAN, action : Actions, next : Dues, lease : {"none", "live", "lapsed"}]
SubscriptionRow == [exists : BOOLEAN, enabled : BOOLEAN, agent : Agents]
PassPhases == Agents \cup {"idle", "select", "create", "complete"}
PassFires == Nat
PassActions == Actions \cup {"none"}
UserSets == SUBSET Users
TodoSets == SUBSET (Users \cup Agents)
AgentMaps == {<<>>} \cup UNION {[U -> Agents] : U \in SUBSET Users}
PassRow ==
  [phase : PassPhases, fire : PassFires, action : PassActions, users : UserSets, todo : TodoSets, agentOf : AgentMaps]
RunStates == {"absent", "queued", "completed", "failed"}
DeliveryStates == {"none", "pending", "processing", "completed", "failed"}
DeliveryRow == [status : DeliveryStates, users : UserSets]
FireRow == [status : {"none", "succeeded", "failed"}, users : UserSets]
KeySets == SUBSET RunKeys
CourierKeys == RunKeys \cup {<<>>}
CourierRow == [rest : KeySets, key : CourierKeys, todo : UserSets]
IntentTable == [Fires -> [Users -> [Actions -> {0, 1}]]]

SharedTypes ==
  /\ job \in SharedJobRow /\ subs \in [Users -> SubscriptionRow] /\ pass \in [JobSchedulers -> PassRow]
  /\ runs \in [RunKeys -> RunStates] /\ deliveries \in [RunKeys -> DeliveryRow]
  /\ sharedIntents \in IntentTable /\ fires \in [Fires -> FireRow] /\ courier \in [JobSchedulers -> CourierRow]
  /\ sharedSpent \in [events : Nat, switched : BOOLEAN]

\* A user is under way where a delivery has them; or, once a fire may have been
\* repeated, where there is one.
UnderWay(f, a, u) ==
  deliveries[<<f, a>>] # NoDelivery /\ (sharedSpent.events > 0 \/ u \in deliveries[<<f, a>>].users)

\* With a job go its deliveries and fires.
GoneFits ==
  ~job.exists => /\ sharedSpent.events > 0 /\ \A k \in RunKeys : deliveries[k] = NoDelivery
                 /\ \A f \in Fires : fires[f].status # "succeeded"

\* While the action is what it was, all is of that action.
SwitchFits ==
  ~sharedSpent.switched =>
    /\ \A s \in JobSchedulers : pass[s].phase # "idle" => pass[s].action = job.action
    /\ \A k \in RunKeys : deliveries[k] # NoDelivery => job.action = "durable_run"
    /\ \A f \in Fires, u \in Users, a \in Actions : sharedIntents[f][u][a] = 1 => a = job.action

\* Whom a pass has dealt with has a message or is under way, while the job exists.
PassFits(s) ==
  LET p == pass[s] IN
  /\ p.phase # "idle" => p.fire \in Fires /\ p.action \in Actions
  /\ p.phase \in Agents => p.action = "durable_run" /\ p.phase \in p.todo
  /\ p.phase \in Agents \cup {"create"} /\ p.action = "outbound_intent" => p.todo \subseteq Users
  /\ p.phase \in Agents \cup {"create"} /\ p.action = "durable_run" => p.todo \subseteq Agents
  /\ job.exists /\ p.phase \in Agents \cup {"create"} =>
       \A u \in p.users :
         /\ p.action = "outbound_intent" => u \in p.todo \/ sharedIntents[p.fire][u]["outbound_intent"] = 1
         /\ p.action = "durable_run" =>
              p.agentOf[u] \in Agents /\ (p.agentOf[u] \in p.todo \/ UnderWay(p.fire, p.agentOf[u], u))

\* What a courier has is of completed runs, and there while the job is; whom it is
\* done with has a message.
CourierFits(s) ==
  LET c == courier[s] IN
  /\ c.key = <<>> => c.todo = {}
  /\ \A k \in RunKeys : k \in c.rest \/ k = c.key => runs[k] = "completed" /\ (job.exists => deliveries[k] # NoDelivery)
  /\ \A k \in RunKeys : k = c.key /\ deliveries[k] # NoDelivery =>
       \A u \in deliveries[k].users : u \in c.todo \/ sharedIntents[k[1]][u]["durable_run"] = 1

\* Where nothing happened but fires, there is one pass, and each delivery is of a
\* fire before its own, or it made it itself.
QuietFits ==
  sharedSpent.events = 0 =>
    /\ \A s \in JobSchedulers : pass[s].phase # "idle" =>
         /\ job.lease = "live" /\ pass[s].fire = job.next
         /\ \A o \in JobSchedulers \ {s} : pass[o].phase = "idle"
    /\ \A f \in Fires, a \in Agents : deliveries[<<f, a>>] # NoDelivery =>
         \/ f < job.next
         \/ f = job.next /\ \E s \in JobSchedulers : pass[s].phase \notin {"idle", "select"} /\ a \notin pass[s].todo

SharedKept ==
  /\ SharedTypes /\ GoneFits /\ SwitchFits /\ QuietFits
  /\ \A s \in JobSchedulers : PassFits(s) /\ CourierFits(s)
  /\ CompletedIsSent /\ SaidByARun /\ RecordedIsUnderWay

\* What a step never undoes.
SharedOnwards ==
  /\ job'.exists => job.exists
  /\ sharedSpent.events > 0 => sharedSpent'.events > 0
  /\ \A f \in Fires, u \in Users, a \in Actions : sharedIntents[f][u][a] = 1 => sharedIntents'[f][u][a] = 1
  /\ job'.exists => \A k \in RunKeys : deliveries[k] # NoDelivery =>
       deliveries'[k] # NoDelivery /\ deliveries'[k].users = deliveries[k].users
  /\ \A k \in RunKeys : runs[k] = "completed" => runs'[k] = "completed"

-----------------------------------------------------------------------------
\* A key of a run is a fire and an agent, and not nothing.
LEMMA RunKeyParts ==
  ASSUME NEW k \in RunKeys
  PROVE  k[1] \in Fires /\ k[2] \in Agents /\ k = <<k[1], k[2]>> /\ k # <<>>
<1>1. PICK f \in Fires, a \in Agents : k = <<f, a>>
  BY DEF RunKeys
<1>2. <<f, a>> # <<>>
  OBVIOUS
<1> QED
  BY <1>1, <1>2

\* Actions are two.
LEMMA TwoActions == "outbound_intent" \in Actions /\ "durable_run" \in Actions /\ "outbound_intent" # "durable_run"
BY DEF Actions

\* A pass that a step leaves alone stays in order,
LEMMA PassStays ==
  ASSUME SharedConfigured, SharedKept, SharedOnwards, NEW s \in JobSchedulers, pass'[s] = pass[s]
  PROVE  PassFits(s)'
<1>1. PassFits(s) /\ pass[s] \in PassRow
  BY DEF SharedKept, SharedTypes
<1>2. pass[s].users \subseteq Users
  BY <1>1 DEF PassRow, UserSets
<1>3. PICK p \in PassRow : p = pass[s]
  BY <1>1
<1>4. ASSUME job'.exists, p.phase \in Agents \cup {"create"}, NEW u \in p.users
      PROVE  /\ p.action = "outbound_intent" => u \in p.todo \/ sharedIntents'[p.fire][u]["outbound_intent"] = 1
             /\ p.action = "durable_run" =>
                  p.agentOf[u] \in Agents /\ (p.agentOf[u] \in p.todo \/ UnderWay(p.fire, p.agentOf[u], u)')
  <2>1. job.exists
    BY <1>4 DEF SharedOnwards
  <2>2. p.phase # "idle"
    BY <1>4 DEF SharedConfigured
  <2>3. u \in Users
    BY <1>2, <1>3
  <2>4. CASE p.action = "outbound_intent"
    <3>1. u \in p.todo \/ sharedIntents[p.fire][u]["outbound_intent"] = 1
      BY <1>1, <1>3, <1>4, <2>1, <2>4 DEF PassFits
    <3>2. p.fire \in Fires
      BY <1>1, <1>3, <1>4, <2>2, <2>4, TwoActions DEF PassFits
    <3>3. u \in p.todo \/ sharedIntents'[p.fire][u]["outbound_intent"] = 1
      BY <2>3, <3>1, <3>2, TwoActions DEF SharedOnwards
    <3> QED
      BY <2>4, <3>3, TwoActions
  <2>5. CASE p.action = "durable_run"
    <3>1. p.agentOf[u] \in Agents /\ (p.agentOf[u] \in p.todo \/ UnderWay(p.fire, p.agentOf[u], u))
      BY <1>1, <1>3, <1>4, <2>1, <2>5 DEF PassFits
    <3>2. p.fire \in Fires
      BY <1>1, <1>3, <1>4, <2>2, <2>5, TwoActions DEF PassFits
    <3>3. PICK k \in RunKeys : k = <<p.fire, p.agentOf[u]>>
      BY <3>1, <3>2 DEF RunKeys
    <3>4. UnderWay(p.fire, p.agentOf[u], u) => UnderWay(p.fire, p.agentOf[u], u)'
      BY <1>4, <3>3 DEF UnderWay, SharedOnwards
    <3> QED
      BY <2>5, <3>1, <3>4, TwoActions
  <2> QED
    BY <2>4, <2>5
<1> QED
  BY <1>1, <1>3, <1>4 DEF PassFits

\* and so do all but the one that moves.
LEMMA OnePassMoves ==
  ASSUME SharedConfigured, SharedKept, SharedOnwards, NEW s \in JobSchedulers, NEW x \in PassRow,
         pass' = [pass EXCEPT ![s] = x], PassFits(s)'
  PROVE  /\ pass' \in [JobSchedulers -> PassRow] /\ pass'[s] = x
         /\ \A o \in JobSchedulers \ {s} : pass'[o] = pass[o]
         /\ \A o \in JobSchedulers : PassFits(o)'
<1>1. pass \in [JobSchedulers -> PassRow]
  BY DEF SharedKept, SharedTypes
<1>2. pass' \in [JobSchedulers -> PassRow] /\ pass'[s] = x /\ \A o \in JobSchedulers \ {s} : pass'[o] = pass[o]
  BY <1>1
<1>3. ASSUME NEW o \in JobSchedulers PROVE PassFits(o)'
  BY <1>2, PassStays
<1> QED
  BY <1>2, <1>3

\* Where the passes are left alone, all stay in order.
LEMMA PassesStay ==
  ASSUME SharedConfigured, SharedKept, SharedOnwards, pass' = pass
  PROVE  \A s \in JobSchedulers : PassFits(s)'
BY PassStays

\* Without a job, nothing is added.
LEMMA GoneStays ==
  ASSUME SharedKept, SharedOnwards, job'.exists = job.exists,
         ~job.exists => deliveries' = deliveries /\ fires' = fires
  PROVE  GoneFits'
BY DEF SharedKept, GoneFits, SharedOnwards

\* What a courier holds was there when it took it.
LEMMA CourierStays ==
  ASSUME SharedKept, SharedOnwards, GoneFits', NEW s \in JobSchedulers, courier'[s] = courier[s]
  PROVE  CourierFits(s)'
<1>1. CourierFits(s) /\ courier[s] \in CourierRow
  BY DEF SharedKept, SharedTypes
<1>2. ASSUME NEW k \in RunKeys, k \in courier[s].rest \/ k = courier[s].key
      PROVE  runs'[k] = "completed" /\ (job'.exists => deliveries'[k] # NoDelivery)
  BY <1>1, <1>2 DEF CourierFits, SharedOnwards
<1>3. ASSUME NEW k \in RunKeys, k = courier[s].key, deliveries'[k] # NoDelivery, NEW u \in deliveries'[k].users
      PROVE  u \in courier[s].todo \/ sharedIntents'[k[1]][u]["durable_run"] = 1
  <2>1. job'.exists
    BY <1>3 DEF GoneFits
  <2>2. deliveries[k] # NoDelivery /\ deliveries'[k].users = deliveries[k].users
    BY <1>1, <1>3, <2>1 DEF CourierFits, SharedOnwards
  <2>3. u \in courier[s].todo \/ sharedIntents[k[1]][u]["durable_run"] = 1
    BY <1>1, <1>3, <2>2 DEF CourierFits
  <2>4. u \in Users
    BY <1>3, <2>2 DEF SharedKept, SharedTypes, DeliveryRow, UserSets
  <2> QED
    BY <2>3, <2>4, RunKeyParts, TwoActions DEF SharedOnwards
<1> QED
  BY <1>1, <1>2, <1>3 DEF CourierFits

\* Where couriers, deliveries and messages are left alone, they stay in order,
LEMMA TheRestStays ==
  ASSUME SharedKept, SharedOnwards, GoneFits', courier' = courier, deliveries' = deliveries,
         sharedIntents' = sharedIntents
  PROVE  /\ \A s \in JobSchedulers : CourierFits(s)'
         /\ CompletedIsSent' /\ SaidByARun'
<1>1. \A s \in JobSchedulers : CourierFits(s)'
  BY CourierStays
<1>2. CompletedIsSent'
  BY DEF SharedKept, CompletedIsSent
<1>3. SaidByARun'
  BY DEF SharedKept, SaidByARun, SharedOnwards, RunKeys
<1> QED
  BY <1>1, <1>2, <1>3

\* and so does what is recorded.
LEMMA RecordedFiresStay ==
  ASSUME SharedKept, SharedOnwards, GoneFits', fires' = fires
  PROVE  RecordedIsUnderWay'
<1> SUFFICES ASSUME NEW f \in Fires, fires[f].status = "succeeded", NEW u \in fires[f].users
             PROVE  \/ sharedIntents'[f][u]["outbound_intent"] = 1
                    \/ \E a \in Agents : UnderWay(f, a, u)'
  BY DEF RecordedIsUnderWay, UnderWay
<1>1. u \in Users
  BY DEF SharedKept, SharedTypes, FireRow, UserSets
<1>2. job'.exists
  BY DEF GoneFits
<1>3. \/ sharedIntents[f][u]["outbound_intent"] = 1
      \/ \E a \in Agents : UnderWay(f, a, u)
  BY DEF SharedKept, RecordedIsUnderWay, UnderWay
<1>4. ASSUME NEW a \in Agents, UnderWay(f, a, u) PROVE UnderWay(f, a, u)'
  <2>1. PICK k \in RunKeys : k = <<f, a>>
    BY DEF RunKeys
  <2> QED
    BY <1>2, <1>4, <2>1 DEF UnderWay, SharedOnwards
<1>5. sharedIntents[f][u]["outbound_intent"] = 1 => sharedIntents'[f][u]["outbound_intent"] = 1
  BY <1>1, TwoActions DEF SharedOnwards
<1> QED
  BY <1>3, <1>4, <1>5

\* A table that has changed: nothing happened quietly.
LEMMA TablesChange ==
  ASSUME SharedConfigured, SharedKept, NEW j \in SharedJobRow, job' = j, j.exists = job.exists,
         sharedSpent' \in [events : Nat, switched : BOOLEAN], sharedSpent'.events > 0,
         sharedSpent'.switched \/ (~sharedSpent.switched /\ j.action = job.action),
         subs' \in [Users -> SubscriptionRow],
         UNCHANGED <<pass, runs, deliveries, sharedIntents, fires, courier>>
  PROVE  SharedKept'
<1>1. SharedOnwards
  BY DEF SharedOnwards
<1>2. GoneFits'
  BY <1>1, GoneStays
<1>3. SharedTypes'
  BY DEF SharedKept, SharedTypes
<1>4. SwitchFits'
  BY DEF SharedKept, SwitchFits
<1>5. QuietFits'
  BY DEF QuietFits
<1> QED
  BY <1>1, <1>2, <1>3, <1>4, <1>5, PassesStay, TheRestStays, RecordedFiresStay DEF SharedKept

\* What has happened is counted.
LEMMA EventIsSpent ==
  ASSUME SharedKept, NEW b \in BOOLEAN, sharedSpent' = [sharedSpent EXCEPT !.events = @ + 1, !.switched = b]
  PROVE  /\ sharedSpent' \in [events : Nat, switched : BOOLEAN] /\ sharedSpent'.events > 0
         /\ sharedSpent'.switched = b
<1>1. PICK v \in [events : Nat, switched : BOOLEAN] : v = sharedSpent
  BY DEF SharedKept, SharedTypes
<1>2. PICK n \in Nat, c \in BOOLEAN : v = [events |-> n, switched |-> c]
  BY <1>1
<1>3. PICK m \in Nat : m = n + 1
  OBVIOUS
<1>4. sharedSpent' = [sharedSpent EXCEPT !.events = m, !.switched = b]
  BY <1>1, <1>2, <1>3
<1>5. sharedSpent' = [events |-> m, switched |-> b]
  BY <1>1, <1>2, <1>4
<1>6. m > 0
  BY <1>3
<1>7. PICK x \in [events : Nat, switched : BOOLEAN] : x = [events |-> m, switched |-> b]
  OBVIOUS
<1>8. sharedSpent' = x /\ x.events = m /\ x.switched = b
  BY <1>5, <1>7
<1> QED
  BY <1>6, <1>8

\* The count of events alone leaves the switch as it was.
LEMMA OneIsSpent ==
  ASSUME SharedKept, SpendOne
  PROVE  /\ sharedSpent' \in [events : Nat, switched : BOOLEAN] /\ sharedSpent'.events > 0
         /\ sharedSpent'.switched = sharedSpent.switched
<1>1. PICK v \in [events : Nat, switched : BOOLEAN] : v = sharedSpent
  BY DEF SharedKept, SharedTypes
<1>2. PICK n \in Nat, c \in BOOLEAN : v = [events |-> n, switched |-> c]
  BY <1>1
<1>3. sharedSpent' = [events |-> n + 1, switched |-> c]
  BY <1>1, <1>2 DEF SpendOne
<1> QED
  BY <1>1, <1>2, <1>3

\* The row of the job, as it is written to.
JobLeases == {"none", "live", "lapsed"}
JobLeased(j, lease) == [j EXCEPT !.lease = lease]
JobEdited(j, enabled, action) == [j EXCEPT !.lease = "none", !.enabled = enabled, !.action = action]
JobAdvanced(j, n) == [j EXCEPT !.next = n, !.lease = "none"]
JobDeleted(j) == [j EXCEPT !.exists = FALSE]

\* Each writes its fields, and leaves the others.
LEMMA JobIsEdited ==
  ASSUME NEW j \in SharedJobRow, NEW enabled \in BOOLEAN, NEW action \in Actions
  PROVE  /\ JobEdited(j, enabled, action) \in SharedJobRow /\ JobEdited(j, enabled, action).exists = j.exists
         /\ JobEdited(j, enabled, action).action = action
BY DEF SharedJobRow, JobEdited

\* The lease is taken, or lapses.
LEMMA JobIsLeased ==
  ASSUME NEW j \in SharedJobRow, NEW lease \in JobLeases
  PROVE  /\ JobLeased(j, lease) \in SharedJobRow /\ JobLeased(j, lease).lease = lease
         /\ JobLeased(j, lease).exists = j.exists /\ JobLeased(j, lease).action = j.action /\ JobLeased(j, lease).next = j.next
BY DEF SharedJobRow, JobLeased, JobLeases

\* The row goes.
LEMMA JobIsDeleted ==
  ASSUME NEW j \in SharedJobRow
  PROVE  JobDeleted(j) \in SharedJobRow /\ ~JobDeleted(j).exists /\ JobDeleted(j).action = j.action
BY DEF SharedJobRow, JobDeleted

\* The next time is set, and the lease given back.
LEMMA JobIsAdvanced ==
  ASSUME NEW j \in SharedJobRow, NEW n \in Dues
  PROVE  /\ JobAdvanced(j, n) \in SharedJobRow /\ JobAdvanced(j, n).exists = j.exists
         /\ JobAdvanced(j, n).action = j.action /\ JobAdvanced(j, n).next = n
BY DEF SharedJobRow, JobAdvanced

\* An edit of the job keeps all in order.
LEMMA UpdateKeeps ==
  ASSUME SharedConfigured, SharedKept, UpdateSharedSchedulerJob
  PROVE  SharedKept'
<1>1. PICK j \in SharedJobRow : j = job
  BY DEF SharedKept, SharedTypes
<1>2. j.enabled \in BOOLEAN /\ j.action \in Actions
  BY DEF SharedJobRow, Dues
<1>3. PICK enabled \in BOOLEAN, action \in Actions : job' = JobEdited(j, enabled, action)
  <2>1. CASE job' = [j EXCEPT !.lease = "none", !.enabled = ~@]
    <3>1. [j EXCEPT !.lease = "none", !.enabled = ~@] = JobEdited(j, ~j.enabled, j.action)
      BY DEF SharedJobRow, JobEdited
    <3>2. PICK e \in BOOLEAN : e = ~j.enabled
      OBVIOUS
    <3> QED
      BY <1>2, <2>1, <3>1, <3>2
  <2>2. ASSUME NEW a \in Actions, job' = [j EXCEPT !.lease = "none", !.action = a]
        PROVE  job' = JobEdited(j, j.enabled, a)
    BY <2>2 DEF SharedJobRow, JobEdited
  <2> QED
    BY <1>1, <1>2, <2>1, <2>2 DEF UpdateSharedSchedulerJob, Edits
<1>4. PICK x : x = JobEdited(j, enabled, action)
  OBVIOUS
<1>5. x \in SharedJobRow /\ x.exists = j.exists /\ x.action = action
  BY <1>4, JobIsEdited
<1>6. PICK b \in BOOLEAN : b = (sharedSpent.switched \/ action # job.action)
  OBVIOUS
<1>7. job' = x /\ job'.action = action
  BY <1>3, <1>4, <1>5
<1>8. sharedSpent' = [sharedSpent EXCEPT !.events = @ + 1, !.switched = b]
  BY <1>6, <1>7 DEF UpdateSharedSchedulerJob
<1>9. /\ sharedSpent' \in [events : Nat, switched : BOOLEAN] /\ sharedSpent'.events > 0
      /\ sharedSpent'.switched = b
  BY <1>8, EventIsSpent
<1>10. sharedSpent'.switched \/ (~sharedSpent.switched /\ x.action = job.action)
  BY <1>5, <1>6, <1>9
<1>11. subs' \in [Users -> SubscriptionRow] /\ UNCHANGED <<pass, runs, deliveries, sharedIntents, fires, courier>>
  BY DEF UpdateSharedSchedulerJob, SharedKept, SharedTypes
<1> QED
  BY <1>1, <1>5, <1>7, <1>9, <1>10, <1>11, TablesChange

\* The rows of subscriptions, as they are written to.
LEMMA SubscriptionRowsFit ==
  ASSUME NEW v \in SubscriptionRow, NEW b \in BOOLEAN, NEW a \in Agents
  PROVE  /\ [v EXCEPT !.exists = b] \in SubscriptionRow /\ [v EXCEPT !.enabled = b] \in SubscriptionRow
         /\ Subscribed(a) \in SubscriptionRow
BY DEF SubscriptionRow, Subscribed

\* Subscriptions come, change and go.
LEMMA SubscriptionsKeep ==
  ASSUME SharedConfigured, SharedKept, NEW u \in Users,
         \/ CreateSharedSchedulerSubscription(u) \/ UpdateSharedSchedulerSubscription(u)
         \/ DeleteSharedSchedulerSubscription(u)
  PROVE  SharedKept'
<1>1. subs \in [Users -> SubscriptionRow] /\ job \in SharedJobRow
  BY DEF SharedKept, SharedTypes
<1>2. PICK v \in SubscriptionRow : v = subs[u]
  BY <1>1
<1>3. subs' \in [Users -> SubscriptionRow]
  <2>1. CASE CreateSharedSchedulerSubscription(u)
    BY <1>1, <1>2, <2>1, SubscriptionRowsFit DEF CreateSharedSchedulerSubscription
  <2>2. CASE UpdateSharedSchedulerSubscription(u)
    <3>1. PICK b \in BOOLEAN : b = ~v.enabled
      OBVIOUS
    <3>2. v.agent \in Agents
      BY DEF SubscriptionRow
    <3>3. PICK x \in SubscriptionRow : x = [v EXCEPT !.enabled = b]
      BY <3>2, SubscriptionRowsFit
    <3>4. subs' = [subs EXCEPT ![u] = x]
      BY <1>2, <2>2, <3>1, <3>3 DEF UpdateSharedSchedulerSubscription
    <3> QED
      BY <1>1, <3>4
  <2>3. CASE DeleteSharedSchedulerSubscription(u)
    <3>1. PICK b \in BOOLEAN : b = FALSE
      OBVIOUS
    <3>2. v.agent \in Agents
      BY DEF SubscriptionRow
    <3>3. PICK x \in SubscriptionRow : x = [v EXCEPT !.exists = b]
      BY <3>2, SubscriptionRowsFit
    <3>4. subs' = [subs EXCEPT ![u] = x]
      BY <1>2, <2>3, <3>1, <3>3 DEF DeleteSharedSchedulerSubscription
    <3> QED
      BY <1>1, <3>4
  <2> QED
    BY <2>1, <2>2, <2>3
<1>4. SpendOne /\ job' = job /\ UNCHANGED <<pass, runs, deliveries, sharedIntents, fires, courier>>
  BY DEF CreateSharedSchedulerSubscription, UpdateSharedSchedulerSubscription, DeleteSharedSchedulerSubscription
<1>5. PICK j \in SharedJobRow : j = job
  BY <1>1
<1>6. /\ sharedSpent' \in [events : Nat, switched : BOOLEAN] /\ sharedSpent'.events > 0
      /\ sharedSpent'.switched = sharedSpent.switched
  BY <1>4, OneIsSpent
<1> QED
  BY <1>3, <1>4, <1>5, <1>6, TablesChange

\* The lease of a fire lapses.
LEMMA FiringLapseKeeps ==
  ASSUME SharedConfigured, SharedKept, FiringLeaseLapses
  PROVE  SharedKept'
<1>1. PICK j \in SharedJobRow : j = job
  BY DEF SharedKept, SharedTypes
<1>2. PICK lease \in JobLeases : lease = "lapsed"
  BY DEF JobLeases
<1>3. PICK x : x = JobLeased(j, lease)
  OBVIOUS
<1>4. x \in SharedJobRow /\ x.exists = j.exists /\ x.action = j.action
  BY <1>3, JobIsLeased
<1>5. job' = x
  BY <1>1, <1>2, <1>3 DEF FiringLeaseLapses, JobLeased
<1>6. /\ sharedSpent' \in [events : Nat, switched : BOOLEAN] /\ sharedSpent'.events > 0
      /\ sharedSpent'.switched = sharedSpent.switched
  BY OneIsSpent DEF FiringLeaseLapses
<1>7. subs' \in [Users -> SubscriptionRow] /\ UNCHANGED <<pass, runs, deliveries, sharedIntents, fires, courier>>
  BY DEF FiringLeaseLapses, SharedKept, SharedTypes
<1> QED
  BY <1>1, <1>4, <1>5, <1>6, <1>7, TablesChange

\* The job is deleted, and its rows with it.
LEMMA DeleteKeeps ==
  ASSUME SharedConfigured, SharedKept, DeleteSharedSchedulerJob
  PROVE  SharedKept'
<1>1. PICK j \in SharedJobRow : j = job
  BY DEF SharedKept, SharedTypes
<1>2. PICK x : x = JobDeleted(j)
  OBVIOUS
<1>3. x \in SharedJobRow /\ ~x.exists /\ x.action = j.action
  BY <1>2, JobIsDeleted
<1>4. job' = x
  BY <1>1, <1>2 DEF DeleteSharedSchedulerJob, JobDeleted
<1>5. /\ sharedSpent' \in [events : Nat, switched : BOOLEAN] /\ sharedSpent'.events > 0
      /\ sharedSpent'.switched = sharedSpent.switched
  BY OneIsSpent DEF DeleteSharedSchedulerJob
<1>6. subs' \in [Users -> SubscriptionRow]
  <2>1. subs \in [Users -> SubscriptionRow]
    BY DEF SharedKept, SharedTypes
  <2>2. ASSUME NEW u \in Users PROVE [subs[u] EXCEPT !.exists = FALSE] \in SubscriptionRow
    BY <2>1 DEF SubscriptionRow
  <2> QED
    BY <2>2 DEF DeleteSharedSchedulerJob
<1>7. /\ \A k \in RunKeys : deliveries'[k] = NoDelivery
      /\ \A f \in Fires : fires'[f].status = "none"
      /\ deliveries' \in [RunKeys -> DeliveryRow] /\ fires' \in [Fires -> FireRow]
  BY DEF DeleteSharedSchedulerJob, DeliveryRow, FireRow, DeliveryStates, UserSets, NoDelivery
<1>8. UNCHANGED <<pass, runs, sharedIntents, courier>>
  BY DEF DeleteSharedSchedulerJob
<1>9. SharedOnwards /\ GoneFits'
  BY <1>3, <1>4, <1>5, <1>7, <1>8 DEF SharedOnwards, GoneFits
<1>10. SharedTypes'
  BY <1>3, <1>4, <1>5, <1>6, <1>7, <1>8 DEF SharedKept, SharedTypes
<1>11. SwitchFits' /\ QuietFits'
  BY <1>1, <1>3, <1>4, <1>5, <1>7, <1>8 DEF SharedKept, SwitchFits, QuietFits
<1>12. CompletedIsSent' /\ RecordedIsUnderWay' /\ SaidByARun'
  BY <1>7, <1>8 DEF SharedKept, CompletedIsSent, RecordedIsUnderWay, SaidByARun, NoDelivery
<1> QED
  BY <1>8, <1>9, <1>10, <1>11, <1>12, PassesStay, CourierStays DEF SharedKept

\* The row of a pass, as it moves.
PassBegins(f, a) == [NoPass EXCEPT !.phase = "select", !.fire = f, !.action = a]
PassSelects(p, U, T, g) == [p EXCEPT !.phase = "create", !.users = U, !.todo = T, !.agentOf = g]
PassGoes(p, phase) == [p EXCEPT !.phase = phase]
PassDeals(p, T, phase) == [p EXCEPT !.todo = T, !.phase = phase]

\* A pass begins with the fire and the action of the job.
LEMMA PassBeginsFits ==
  ASSUME NEW f \in PassFires, NEW a \in PassActions
  PROVE  LET x == PassBegins(f, a) IN
         /\ x \in PassRow /\ x.phase = "select" /\ x.fire = f /\ x.action = a /\ x.users = {} /\ x.todo = {}
BY DEF PassBegins, NoPass, PassRow, PassPhases, UserSets, TodoSets, AgentMaps

\* It has selected whom it writes to,
LEMMA PassSelectsFits ==
  ASSUME NEW p \in PassRow, NEW U \in UserSets, NEW T \in TodoSets, NEW g \in AgentMaps
  PROVE  LET x == PassSelects(p, U, T, g) IN
         /\ x \in PassRow /\ x.phase = "create" /\ x.fire = p.fire /\ x.action = p.action
         /\ x.users = U /\ x.todo = T /\ x.agentOf = g
BY DEF PassSelects, PassRow, PassPhases

\* goes on to its next phase,
LEMMA PassGoesFits ==
  ASSUME NEW p \in PassRow, NEW phase \in PassPhases
  PROVE  LET x == PassGoes(p, phase) IN
         /\ x \in PassRow /\ x.phase = phase /\ x.fire = p.fire /\ x.action = p.action
         /\ x.users = p.users /\ x.todo = p.todo /\ x.agentOf = p.agentOf
BY DEF PassGoes, PassRow

\* deals with one of those to be dealt with,
LEMMA PassDealsFits ==
  ASSUME NEW p \in PassRow, NEW T \in TodoSets, NEW phase \in PassPhases
  PROVE  LET x == PassDeals(p, T, phase) IN
         /\ x \in PassRow /\ x.phase = phase /\ x.fire = p.fire /\ x.action = p.action
         /\ x.users = p.users /\ x.todo = T /\ x.agentOf = p.agentOf
BY DEF PassDeals, PassRow

\* or rests.
LEMMA NoPassFits == NoPass \in PassRow /\ NoPass.phase = "idle"
BY DEF NoPass, PassRow, PassPhases, PassFires, PassActions, UserSets, TodoSets, AgentMaps

\* A pass moves by itself: the rest stays in order.
LEMMA PassAloneKeeps ==
  ASSUME SharedConfigured, SharedKept, NEW s \in JobSchedulers, NEW x \in PassRow, pass' = [pass EXCEPT ![s] = x],
         UNCHANGED <<job, subs, deliveries, sharedIntents, courier>>,
         runs' \in [RunKeys -> RunStates], \A k \in RunKeys : runs[k] = "completed" => runs'[k] = "completed",
         fires' \in [Fires -> FireRow], ~job.exists => fires' = fires, RecordedIsUnderWay',
         sharedSpent' \in [events : Nat, switched : BOOLEAN], sharedSpent.events > 0 => sharedSpent'.events > 0,
         sharedSpent'.switched = sharedSpent.switched,
         x.phase # "idle" => pass[s].phase # "idle" /\ x.fire = pass[s].fire /\ x.action = pass[s].action,
         sharedSpent'.events = 0 /\ pass[s].phase \notin {"idle", "select"} =>
           x.phase \notin {"idle", "select"} /\ x.todo \subseteq pass[s].todo,
         SharedOnwards => PassFits(s)'
  PROVE  SharedKept'
<1>1. SharedOnwards
  BY DEF SharedOnwards
<1>2. GoneFits'
  BY <1>1, GoneStays
<1>3. /\ pass' \in [JobSchedulers -> PassRow] /\ pass'[s] = x
      /\ \A o \in JobSchedulers \ {s} : pass'[o] = pass[o]
      /\ \A o \in JobSchedulers : PassFits(o)'
  BY <1>1, OnePassMoves
<1>4. SharedTypes'
  BY <1>3 DEF SharedKept, SharedTypes
<1>5. SwitchFits'
  BY <1>3 DEF SharedKept, SwitchFits
<1>6. QuietFits'
  <2> SUFFICES ASSUME sharedSpent'.events = 0 PROVE QuietFits'
    BY DEF QuietFits
  <2>1. sharedSpent.events = 0 /\ QuietFits
    BY DEF SharedKept, SharedTypes
  <2>2. \A o \in JobSchedulers : pass'[o].phase # "idle" =>
          pass[o].phase # "idle" /\ pass'[o].fire = pass[o].fire
    BY <1>3
  <2>3. ASSUME NEW o \in JobSchedulers, pass'[o].phase # "idle"
        PROVE  /\ job'.lease = "live" /\ pass'[o].fire = job'.next
               /\ \A i \in JobSchedulers \ {o} : pass'[i].phase = "idle"
    BY <2>1, <2>2, <2>3 DEF QuietFits
  <2>4. ASSUME NEW a \in Agents, NEW o \in JobSchedulers, pass[o].phase \notin {"idle", "select"}, a \notin pass[o].todo
        PROVE  pass'[o].phase \notin {"idle", "select"} /\ a \notin pass'[o].todo
    BY <1>3, <2>4
  <2>5. ASSUME NEW f \in Fires, NEW a \in Agents, deliveries'[<<f, a>>] # NoDelivery
        PROVE  \/ f < job'.next
               \/ f = job'.next /\ \E o \in JobSchedulers : pass'[o].phase \notin {"idle", "select"} /\ a \notin pass'[o].todo
    BY <2>1, <2>4, <2>5 DEF QuietFits
  <2> QED
    BY <2>3, <2>5 DEF QuietFits
<1> QED
  BY <1>1, <1>2, <1>3, <1>4, <1>5, <1>6, TheRestStays DEF SharedKept

\* A pass selects subscribers and their agents.
LEMMA SelectKeeps ==
  ASSUME SharedConfigured, SharedKept, NEW s \in JobSchedulers, RunSharedSchedulerJob(s)
  PROVE  SharedKept'
<1>1. PICK p \in PassRow : p = pass[s]
  BY DEF SharedKept, SharedTypes
<1>2. subs \in [Users -> SubscriptionRow]
  BY SMTT(60) DEF SharedKept, SharedTypes
<1>3. PICK U \in SelectSharedSubscribers :
        pass' = [pass EXCEPT ![s] = [@ EXCEPT
          !.phase = "create", !.users = U,
          !.todo = IF pass[s].action = "durable_run" THEN {subs[u].agent : u \in U} ELSE U,
          !.agentOf = [u \in U |-> subs[u].agent]]]
  BY DEF RunSharedSchedulerJob
<1>4. U \in UserSets /\ U \subseteq Users
  BY <1>3 DEF SelectSharedSubscribers, MapSharedTargets, ActiveSharedSubscriptions, ListSharedSchedulerSubscriptions, UserSets
<1>5. \A u \in U : subs[u].agent \in Agents
  BY <1>2, <1>4 DEF SubscriptionRow
<1>6. PICK T : T = IF p.action = "durable_run" THEN {subs[u].agent : u \in U} ELSE U
  OBVIOUS
<1>7. T \in TodoSets
  BY <1>4, <1>5, <1>6 DEF TodoSets
<1>8. PICK g : g = [u \in U |-> subs[u].agent]
  OBVIOUS
<1>9. g \in AgentMaps
  BY <1>4, <1>5, <1>8 DEF AgentMaps
<1>10. PICK x : x = PassSelects(p, U, T, g)
  OBVIOUS
<1>11. /\ x \in PassRow /\ x.phase = "create" /\ x.fire = p.fire /\ x.action = p.action
       /\ x.users = U /\ x.todo = T /\ x.agentOf = g
  BY <1>4, <1>7, <1>9, <1>10, PassSelectsFits
<1>12. pass' = [pass EXCEPT ![s] = x]
  BY <1>1, <1>3, <1>6, <1>8, <1>10 DEF PassSelects
<1>13. p.phase = "select" /\ p.fire \in Fires /\ p.action \in Actions
  BY <1>1 DEF RunSharedSchedulerJob, SharedKept, PassFits
<1>14. UNCHANGED <<job, subs, runs, deliveries, sharedIntents, fires, courier, sharedSpent>>
  BY DEF RunSharedSchedulerJob
<1>15. pass'[s] = x
  BY <1>12 DEF SharedKept, SharedTypes
<1>16. x.phase \notin Agents /\ x.phase # "idle"
  BY <1>11 DEF SharedConfigured
<1>17. x.action = "outbound_intent" => x.todo = U
  BY <1>6, <1>11, TwoActions
<1>18. x.action = "durable_run" => /\ x.todo \subseteq Agents
                                   /\ \A u \in U : x.agentOf[u] \in Agents /\ x.agentOf[u] \in x.todo
  BY <1>5, <1>6, <1>8, <1>11
<1>19. PassFits(s)'
  BY <1>4, <1>11, <1>13, <1>15, <1>16, <1>17, <1>18 DEF PassFits
<1>20. RecordedIsUnderWay'
  BY <1>14 DEF SharedKept, RecordedIsUnderWay
<1>21. /\ runs \in [RunKeys -> RunStates] /\ fires \in [Fires -> FireRow]
       /\ sharedSpent \in [events : Nat, switched : BOOLEAN]
  BY DEF SharedKept, SharedTypes
<1> QED
  BY <1>1, <1>11, <1>12, <1>13, <1>14, <1>19, <1>20, <1>21, PassAloneKeeps

\* A step to a phase in which nobody is dealt with is in order.
LEMMA PassGoesOn ==
  ASSUME SharedConfigured, SharedKept, NEW s \in JobSchedulers, pass[s].phase # "idle",
         NEW x, x.phase \in {"idle", "complete"}, x.fire = pass[s].fire, x.action = pass[s].action, pass'[s] = x
  PROVE  PassFits(s)'
<1>1. pass[s].fire \in Fires /\ pass[s].action \in Actions
  BY DEF SharedKept, PassFits
<1>2. x.phase \notin Agents \cup {"create"}
  BY DEF SharedConfigured
<1> QED
  BY <1>1, <1>2 DEF PassFits

\* The service that selects has failed.
LEMMA ConditionKeeps ==
  ASSUME SharedConfigured, SharedKept, NEW s \in JobSchedulers, ConditionFails(s)
  PROVE  SharedKept'
<1>1. PICK p \in PassRow : p = pass[s]
  BY DEF SharedKept, SharedTypes
<1>2. PICK phase \in PassPhases : phase = "complete"
  BY DEF PassPhases
<1>3. PICK x : x = PassGoes(p, phase)
  OBVIOUS
<1>4. /\ x \in PassRow /\ x.phase = phase /\ x.fire = p.fire /\ x.action = p.action
  BY <1>3, PassGoesFits
<1>5. pass' = [pass EXCEPT ![s] = x] /\ pass'[s] = x
  BY <1>1, <1>2, <1>3 DEF ConditionFails, PassGoes, SharedKept, SharedTypes
<1>6. p.phase = "select" /\ p.fire \in Fires
  BY <1>1 DEF ConditionFails, SharedKept, PassFits
<1>7. PassFits(s)'
  BY <1>1, <1>2, <1>4, <1>5, <1>6, PassGoesOn
<1>8. /\ sharedSpent' \in [events : Nat, switched : BOOLEAN] /\ sharedSpent'.events > 0
      /\ sharedSpent'.switched = sharedSpent.switched
  BY OneIsSpent DEF ConditionFails
<1>9. UNCHANGED <<job, subs, runs, deliveries, sharedIntents, courier>>
  BY DEF ConditionFails
<1>10. runs \in [RunKeys -> RunStates] /\ fires \in [Fires -> FireRow]
  BY DEF SharedKept, SharedTypes
<1>11. [status |-> "failed", users |-> {}] \in FireRow
  BY DEF FireRow, UserSets
<1>12. /\ fires' \in [Fires -> FireRow]
       /\ ~job.exists => fires' = fires
       /\ \A f \in Fires : fires'[f].status = "succeeded" => fires'[f] = fires[f]
  BY <1>1, <1>6, <1>10, <1>11 DEF ConditionFails
<1>13. RecordedIsUnderWay'
  BY <1>8, <1>9, <1>12 DEF SharedKept, RecordedIsUnderWay
<1>14. x.phase # "idle" => pass[s].phase # "idle" /\ x.fire = pass[s].fire /\ x.action = pass[s].action
  BY <1>1, <1>4, <1>6
<1>15. sharedSpent'.events # 0
  BY <1>8
<1> QED
  BY <1>4, <1>5, <1>7, <1>8, <1>9, <1>10, <1>12, <1>13, <1>14, <1>15, PassAloneKeeps

\* A run is created for one of the agents, or found.
LEMMA CreateRunKeeps ==
  ASSUME SharedConfigured, SharedKept, NEW s \in JobSchedulers, CreateRun(s)
  PROVE  SharedKept'
<1>1. PICK p \in PassRow : p = pass[s]
  BY DEF SharedKept, SharedTypes
<1>2. /\ p.phase = "create" /\ p.action = "durable_run" /\ p.fire \in Fires /\ p.todo \subseteq Agents
      /\ PassFits(s)
  BY <1>1 DEF CreateRun, SharedKept, PassFits
<1>3. PICK a \in p.todo : /\ runs' = [runs EXCEPT ![<<p.fire, a>>] = IF @ = "absent" THEN "queued" ELSE @]
                          /\ pass' = [pass EXCEPT ![s].phase = a]
  BY <1>1 DEF CreateRun
<1>4. a \in Agents /\ a \in PassPhases /\ a # "idle" /\ a # "select"
  BY <1>2, <1>3 DEF PassPhases, SharedConfigured
<1>5. PICK x : x = PassGoes(p, a)
  OBVIOUS
<1>6. /\ x \in PassRow /\ x.phase = a /\ x.fire = p.fire /\ x.action = p.action
      /\ x.users = p.users /\ x.todo = p.todo /\ x.agentOf = p.agentOf
  BY <1>4, <1>5, PassGoesFits
<1>7. pass' = [pass EXCEPT ![s] = x] /\ pass'[s] = x
  BY <1>1, <1>3, <1>5 DEF PassGoes, SharedKept, SharedTypes
<1>8. UNCHANGED <<job, subs, deliveries, sharedIntents, fires, courier, sharedSpent>>
  BY DEF CreateRun
<1>9. PICK k \in RunKeys : k = <<p.fire, a>>
  BY <1>2, <1>4 DEF RunKeys
<1>10. runs \in [RunKeys -> RunStates]
  BY DEF SharedKept, SharedTypes
<1>11. runs' \in [RunKeys -> RunStates] /\ \A i \in RunKeys : runs[i] = "completed" => runs'[i] = "completed"
  BY <1>3, <1>9, <1>10 DEF RunStates
<1>12. PassFits(s)'
  <2>1. /\ x.todo \subseteq Agents /\ x.phase \in x.todo /\ x.fire \in Fires /\ x.action = "durable_run"
    BY <1>2, <1>3, <1>6
  <2>2. job.exists => \A u \in x.users : x.agentOf[u] \in Agents /\ (x.agentOf[u] \in x.todo \/ UnderWay(x.fire, x.agentOf[u], u))
    BY <1>1, <1>2, <1>6 DEF PassFits
  <2>3. \A f, b, u : UnderWay(f, b, u)' <=> UnderWay(f, b, u)
    BY <1>8 DEF UnderWay
  <2> QED
    BY <1>7, <1>8, <2>1, <2>2, <2>3, TwoActions DEF PassFits
<1>13. RecordedIsUnderWay'
  BY <1>8 DEF SharedKept, RecordedIsUnderWay
<1>14. fires \in [Fires -> FireRow] /\ sharedSpent \in [events : Nat, switched : BOOLEAN]
  BY DEF SharedKept, SharedTypes
<1> QED
  BY <1>1, <1>2, <1>4, <1>6, <1>7, <1>8, <1>11, <1>12, <1>13, <1>14, PassAloneKeeps

\* A fire is recorded once all it selected have been dealt with.
LEMMA RecordKeeps ==
  ASSUME SharedConfigured, SharedKept, NEW s \in JobSchedulers, RecordSharedSchedulerFire(s)
  PROVE  SharedKept'
<1>1. PICK p \in PassRow : p = pass[s]
  BY DEF SharedKept, SharedTypes
<1>2. PICK phase \in PassPhases : phase = "complete"
  BY DEF PassPhases
<1>3. PICK x : x = PassGoes(p, phase)
  OBVIOUS
<1>4. /\ x \in PassRow /\ x.phase = phase /\ x.fire = p.fire /\ x.action = p.action /\ x.todo = p.todo
  BY <1>3, PassGoesFits
<1>5. pass' = [pass EXCEPT ![s] = x] /\ pass'[s] = x
  BY <1>1, <1>2, <1>3 DEF RecordSharedSchedulerFire, PassGoes, SharedKept, SharedTypes
<1>6. /\ p.phase = "create" /\ p.todo = {} /\ job.exists /\ p.fire \in Fires /\ p.action \in Actions
      /\ PassFits(s)
  BY <1>1 DEF RecordSharedSchedulerFire, SharedKept, PassFits
<1>7. PassFits(s)'
  BY <1>1, <1>2, <1>4, <1>5, <1>6, PassGoesOn
<1>8. UNCHANGED <<job, subs, runs, deliveries, sharedIntents, courier, sharedSpent>>
  BY DEF RecordSharedSchedulerFire
<1>9. /\ runs \in [RunKeys -> RunStates] /\ fires \in [Fires -> FireRow]
      /\ sharedSpent \in [events : Nat, switched : BOOLEAN]
  BY DEF SharedKept, SharedTypes
<1>10. PICK row \in FireRow : row = [status |-> "succeeded", users |-> p.users]
  BY DEF PassRow, FireRow
<1>11. fires' = [fires EXCEPT ![p.fire] = row]
  BY <1>1, <1>10 DEF RecordSharedSchedulerFire
<1>12. /\ fires' \in [Fires -> FireRow] /\ \A f \in Fires : f # p.fire => fires'[f] = fires[f]
       /\ fires'[p.fire].users = p.users
  BY <1>6, <1>9, <1>10, <1>11
<1>13. ASSUME NEW u \in p.users
       PROVE  \/ sharedIntents[p.fire][u]["outbound_intent"] = 1
              \/ \E a \in Agents : UnderWay(p.fire, a, u)
  BY <1>1, <1>6 DEF PassFits, Actions
<1>14. RecordedIsUnderWay'
  BY SMTT(60), <1>8, <1>12, <1>13 DEF SharedKept, RecordedIsUnderWay, UnderWay
<1> QED
  BY <1>1, <1>2, <1>4, <1>5, <1>6, <1>7, <1>8, <1>9, <1>12, <1>14, PassAloneKeeps

\* A pass is given up.
LEMMA AbortKeeps ==
  ASSUME SharedConfigured, SharedKept, NEW s \in JobSchedulers, PassAborts(s)
  PROVE  SharedKept'
<1>1. PICK x \in PassRow : x = NoPass
  BY NoPassFits
<1>2. pass' = [pass EXCEPT ![s] = x] /\ pass'[s] = x /\ x.phase = "idle"
  BY <1>1, NoPassFits DEF PassAborts, SharedKept, SharedTypes
<1>3. /\ sharedSpent' \in [events : Nat, switched : BOOLEAN] /\ sharedSpent'.events > 0
      /\ sharedSpent'.switched = sharedSpent.switched
  <2>1. CASE job.exists
    BY <2>1, OneIsSpent DEF PassAborts
  <2>2. CASE ~job.exists
    BY <2>2 DEF PassAborts, SharedKept, SharedTypes, GoneFits
  <2> QED
    BY <2>1, <2>2
<1>4. UNCHANGED <<job, subs, runs, deliveries, sharedIntents, fires, courier>>
  BY DEF PassAborts
<1>5. PassFits(s)'
  BY <1>2 DEF PassFits, SharedConfigured
<1>6. RecordedIsUnderWay'
  BY <1>3, <1>4 DEF SharedKept, RecordedIsUnderWay
<1>7. runs \in [RunKeys -> RunStates] /\ fires \in [Fires -> FireRow]
  BY DEF SharedKept, SharedTypes
<1>8. sharedSpent'.events # 0
  BY <1>3
<1> QED
  BY <1>2, <1>3, <1>4, <1>5, <1>6, <1>7, <1>8, PassAloneKeeps

\* A scheduler claims a fire that is due.
LEMMA DueKeeps ==
  ASSUME SharedConfigured, SharedKept, NEW s \in JobSchedulers, ClaimDueSharedSchedulerJobs(s)
  PROVE  SharedKept'
<1>1. PICK j \in SharedJobRow : j = job
  BY DEF SharedKept, SharedTypes
<1>2. PICK lease \in JobLeases : lease = "live"
  BY DEF JobLeases
<1>3. PICK y : y = JobLeased(j, lease)
  OBVIOUS
<1>4. y \in SharedJobRow /\ y.lease = "live" /\ y.exists = j.exists /\ y.action = j.action /\ y.next = j.next
  BY <1>2, <1>3, JobIsLeased
<1>5. job' = y
  BY <1>1, <1>2, <1>3 DEF ClaimDueSharedSchedulerJobs, JobLeased
<1>6. j.next \in Dues /\ j.next \in Nat /\ j.action \in Actions
  BY DEF SharedJobRow, Dues
<1>7. PICK f \in PassFires : f = j.next
  BY <1>6 DEF PassFires
<1>8. PICK a \in PassActions : a = j.action
  BY <1>6 DEF PassActions
<1>9. PICK x : x = PassBegins(f, a)
  OBVIOUS
<1>10. x \in PassRow /\ x.phase = "select" /\ x.fire = f /\ x.action = a /\ x.users = {} /\ x.todo = {}
  BY <1>9, PassBeginsFits
<1>11. pass' = [pass EXCEPT ![s] = x]
  BY <1>1, <1>7, <1>8, <1>9 DEF ClaimDueSharedSchedulerJobs, PassBegins
<1>12. /\ job.exists /\ job.lease # "live" /\ job.next <= MaxFires /\ pass[s].phase = "idle"
       /\ UNCHANGED <<subs, runs, deliveries, sharedIntents, fires, courier, sharedSpent>>
  BY DEF ClaimDueSharedSchedulerJobs
<1>13. SharedOnwards
  BY <1>1, <1>4, <1>5, <1>12 DEF SharedOnwards
<1>14. GoneFits'
  BY <1>1, <1>4, <1>5, <1>12, <1>13, GoneStays
<1>15. pass'[s] = x
  BY <1>11 DEF SharedKept, SharedTypes
<1>16. PassFits(s)'
  <2>1. x.phase \notin Agents /\ x.phase # "create"
    BY <1>10 DEF SharedConfigured
  <2>2. x.action \in Actions
    BY <1>6, <1>8, <1>10
  <2>3. x.fire \in Fires
    BY <1>1, <1>6, <1>7, <1>10, <1>12 DEF Dues, Fires, SharedConfigured
  <2> QED
    BY <1>10, <1>15, <2>1, <2>2, <2>3, TwoActions DEF PassFits
<1>17. /\ pass' \in [JobSchedulers -> PassRow]
       /\ \A o \in JobSchedulers \ {s} : pass'[o] = pass[o]
       /\ \A o \in JobSchedulers : PassFits(o)'
  BY <1>10, <1>11, <1>13, <1>16, OnePassMoves
<1>18. SharedTypes'
  BY <1>4, <1>5, <1>12, <1>17 DEF SharedKept, SharedTypes
<1>19. SwitchFits'
  BY <1>1, <1>4, <1>5, <1>8, <1>10, <1>12, <1>15, <1>17 DEF SharedKept, SwitchFits
<1>20. QuietFits'
  <2> SUFFICES ASSUME sharedSpent.events = 0 PROVE QuietFits'
    BY <1>12 DEF QuietFits
  <2>1. \A o \in JobSchedulers : pass[o].phase = "idle"
    BY <1>12 DEF SharedKept, QuietFits
  <2>2. \A o \in JobSchedulers : pass'[o].phase # "idle" => o = s
    BY <1>17, <2>1
  <2>3. job'.lease = "live" /\ x.fire = job'.next
    BY <1>4, <1>5, <1>7, <1>10
  <2>4. \A f1 \in Fires, b \in Agents : deliveries'[<<f1, b>>] # NoDelivery => f1 < job'.next
    BY <1>1, <1>4, <1>5, <1>12, <2>1 DEF SharedKept, QuietFits
  <2> QED
    BY <1>15, <2>2, <2>3, <2>4 DEF QuietFits
<1> QED
  BY <1>12, <1>13, <1>14, <1>17, <1>18, <1>19, <1>20, TheRestStays, RecordedFiresStay DEF SharedKept

\* A scheduler sets the next time of the job.
LEMMA CompleteJobKeeps ==
  ASSUME SharedConfigured, SharedKept, NEW s \in JobSchedulers, CompleteSharedSchedulerJob(s)
  PROVE  SharedKept'
<1>1. PICK j \in SharedJobRow : j = job
  BY DEF SharedKept, SharedTypes
<1>2. /\ pass[s].phase = "complete" /\ pass[s].fire \in Fires
      /\ UNCHANGED <<subs, runs, deliveries, sharedIntents, fires, courier, sharedSpent>>
  BY DEF CompleteSharedSchedulerJob, SharedKept, PassFits
<1>3. PICK n \in Dues : n = pass[s].fire + 1
  BY <1>2 DEF Fires, Dues
<1>4. PICK y : y = JobAdvanced(j, n)
  OBVIOUS
<1>5. y \in SharedJobRow /\ y.exists = j.exists /\ y.action = j.action /\ y.next = n
  BY <1>4, JobIsAdvanced
<1>6. job' = y
  BY <1>1, <1>3, <1>4 DEF CompleteSharedSchedulerJob, JobAdvanced
<1>7. PICK x \in PassRow : x = NoPass
  BY NoPassFits
<1>8. pass' = [pass EXCEPT ![s] = x] /\ pass'[s] = x /\ x.phase = "idle"
  BY <1>7, NoPassFits DEF CompleteSharedSchedulerJob, SharedKept, SharedTypes
<1>9. SharedOnwards
  BY <1>1, <1>2, <1>5, <1>6 DEF SharedOnwards
<1>10. GoneFits'
  BY <1>1, <1>2, <1>5, <1>6, <1>9, GoneStays
<1>11. PassFits(s)'
  BY <1>8 DEF PassFits, SharedConfigured
<1>12. /\ pass' \in [JobSchedulers -> PassRow]
       /\ \A o \in JobSchedulers \ {s} : pass'[o] = pass[o]
       /\ \A o \in JobSchedulers : PassFits(o)'
  BY <1>8, <1>9, <1>11, OnePassMoves
<1>13. SharedTypes'
  BY <1>2, <1>5, <1>6, <1>12 DEF SharedKept, SharedTypes
<1>14. SwitchFits'
  BY <1>1, <1>2, <1>5, <1>6, <1>8, <1>12 DEF SharedKept, SwitchFits
<1>15. QuietFits'
  <2> SUFFICES ASSUME sharedSpent.events = 0 PROVE QuietFits'
    BY <1>2 DEF QuietFits
  <2>1. pass[s].fire = job.next /\ \A o \in JobSchedulers \ {s} : pass[o].phase = "idle"
    BY <1>2 DEF SharedKept, QuietFits
  <2>2. \A o \in JobSchedulers : pass'[o].phase = "idle"
    BY <1>8, <1>12, <2>1
  <2>3. PICK m \in Nat : m = job.next
    BY <1>2, <2>1 DEF Fires
  <2>4. job'.next = m + 1
    BY <1>3, <1>5, <1>6, <2>1, <2>3
  <2>5. ASSUME NEW f \in Fires, NEW b \in Agents, deliveries'[<<f, b>>] # NoDelivery PROVE f < job'.next
    <3>1. f < m \/ f = m
      BY <1>2, <2>3, <2>5 DEF SharedKept, QuietFits
    <3>2. f \in Nat
      BY DEF Fires
    <3> QED
      BY <2>3, <2>4, <3>1, <3>2
  <2> QED
    BY <2>2, <2>5 DEF QuietFits
<1> QED
  BY <1>2, <1>9, <1>10, <1>12, <1>13, <1>14, <1>15, TheRestStays, RecordedFiresStay DEF SharedKept

\* A message is created where there is none.
WithMessage(t, f, u, a) == [t EXCEPT ![f][u][a] = IF @ = 0 THEN 1 ELSE @]

\* It is there, and the others are as they were.
LEMMA IntentsGrow ==
  ASSUME NEW t \in IntentTable, NEW f \in Fires, NEW u \in Users, NEW a \in Actions,
         NEW x, x = WithMessage(t, f, u, a)
  PROVE  /\ x \in IntentTable /\ x[f][u][a] = 1
         /\ \A g \in Fires, v \in Users, b \in Actions : g # f \/ v # u \/ b # a => x[g][v][b] = t[g][v][b]
<1> DEFINE row == t[f]
           cell == row[u]
           newCell == [cell EXCEPT ![a] = IF @ = 0 THEN 1 ELSE @]
           newRow == [row EXCEPT ![u] = newCell]
<1>1. row \in [Users -> [Actions -> {0, 1}]] /\ cell \in [Actions -> {0, 1}]
  BY DEF IntentTable
<1>2. newCell \in [Actions -> {0, 1}] /\ newCell[a] = 1 /\ \A b \in Actions : b # a => newCell[b] = cell[b]
  BY <1>1
<1>3. newRow \in [Users -> [Actions -> {0, 1}]] /\ newRow[u] = newCell /\ \A v \in Users : v # u => newRow[v] = row[v]
  BY <1>1, <1>2
<1>4. x = [t EXCEPT ![f] = newRow]
  BY DEF WithMessage
<1>5. PICK z : z = newRow
  OBVIOUS
<1>6. [t EXCEPT ![f] = z] \in IntentTable /\ [t EXCEPT ![f] = z][f] = z
      /\ \A g \in Fires : g # f => [t EXCEPT ![f] = z][g] = t[g]
  BY <1>3, <1>5 DEF IntentTable
<1> QED
  BY <1>2, <1>3, <1>4, <1>5, <1>6

\* A pass writes to one of its subscribers.
LEMMA OutboundKeeps ==
  ASSUME SharedConfigured, SharedKept, NEW s \in JobSchedulers, CreateSharedSchedulerOutbound(s)
  PROVE  SharedKept'
<1>1. PICK p \in PassRow : p = pass[s]
  BY DEF SharedKept, SharedTypes
<1>2. /\ p.phase = "create" /\ p.action = "outbound_intent" /\ job.exists /\ p.fire \in Fires
      /\ p.todo \subseteq Users /\ PassFits(s)
  BY <1>1 DEF CreateSharedSchedulerOutbound, SharedKept, PassFits
<1>3. PICK u \in p.todo :
        /\ sharedIntents' = [sharedIntents EXCEPT ![p.fire][u]["outbound_intent"] = Outbound(@)]
        /\ pass' = [pass EXCEPT ![s].todo = @ \ {u}]
  BY <1>1 DEF CreateSharedSchedulerOutbound
<1>4. u \in Users
  BY <1>2, <1>3
<1>5. PICK f \in Fires : f = p.fire
  BY <1>2
<1>6. PICK a \in Actions : a = "outbound_intent"
  BY TwoActions
<1>7. PICK t \in IntentTable : t = sharedIntents
  BY DEF SharedKept, SharedTypes
<1>8. sharedIntents' = WithMessage(t, f, u, a)
  BY <1>3, <1>5, <1>6, <1>7 DEF Outbound, WithMessage
<1>9. /\ sharedIntents' \in IntentTable /\ sharedIntents'[f][u][a] = 1
      /\ \A g \in Fires, v \in Users, b \in Actions : g # f \/ v # u \/ b # a => sharedIntents'[g][v][b] = sharedIntents[g][v][b]
  <2>1. PICK y : y = WithMessage(t, f, u, a)
    OBVIOUS
  <2>2. /\ y \in IntentTable /\ y[f][u][a] = 1
        /\ \A g \in Fires, v \in Users, b \in Actions : g # f \/ v # u \/ b # a => y[g][v][b] = t[g][v][b]
    BY SMTT(60), <1>4, <2>1, IntentsGrow
  <2> QED
    BY <1>7, <1>8, <2>1, <2>2
<1>10. PICK T \in TodoSets : T = p.todo \ {u}
  BY DEF PassRow, TodoSets
<1>11. PICK phase \in PassPhases : phase = p.phase
  BY DEF PassRow
<1>12. PICK x : x = PassDeals(p, T, phase)
  OBVIOUS
<1>13. /\ x \in PassRow /\ x.phase = phase /\ x.fire = p.fire /\ x.action = p.action
       /\ x.users = p.users /\ x.todo = T /\ x.agentOf = p.agentOf
  BY <1>12, PassDealsFits
<1>14. x = [p EXCEPT !.todo = @ \ {u}]
  BY <1>10, <1>11, <1>12 DEF PassDeals, PassRow
<1>15. pass' = [pass EXCEPT ![s] = x] /\ pass'[s] = x
  BY <1>1, <1>3, <1>14 DEF SharedKept, SharedTypes
<1>16. UNCHANGED <<job, subs, runs, deliveries, fires, courier, sharedSpent>>
  BY DEF CreateSharedSchedulerOutbound
<1>17. \A g \in Fires, v \in Users, b \in Actions : sharedIntents[g][v][b] = 1 => sharedIntents'[g][v][b] = 1
  BY <1>9
<1>18. SharedOnwards
  BY <1>16, <1>17 DEF SharedOnwards
<1>19. GoneFits'
  BY <1>16, <1>18, GoneStays
<1>20. PassFits(s)'
  <2>1. /\ x.todo \subseteq Users /\ x.fire \in Fires /\ x.action = "outbound_intent" /\ x.action \in Actions
        /\ x.phase = "create" /\ x.phase \notin Agents
    BY <1>2, <1>10, <1>11, <1>13, TwoActions DEF SharedConfigured
  <2>2. ASSUME NEW v \in x.users PROVE v \in x.todo \/ sharedIntents'[x.fire][v]["outbound_intent"] = 1
    <3>1. v \in p.todo \/ sharedIntents[p.fire][v]["outbound_intent"] = 1
      BY <1>1, <1>2, <1>13, <2>2 DEF PassFits
    <3>2. v \in Users
      BY <1>13, <2>2 DEF PassRow, UserSets
    <3> QED
      BY <1>2, <1>5, <1>6, <1>9, <1>10, <1>13, <1>17, <3>1, <3>2
  <2> QED
    BY <1>15, <2>1, <2>2, TwoActions DEF PassFits
<1>21. /\ pass' \in [JobSchedulers -> PassRow]
       /\ \A o \in JobSchedulers \ {s} : pass'[o] = pass[o]
       /\ \A o \in JobSchedulers : PassFits(o)'
  BY <1>13, <1>15, <1>18, <1>20, OnePassMoves
<1>22. SharedTypes'
  BY <1>9, <1>16, <1>21 DEF SharedKept, SharedTypes
<1>23. SwitchFits'
  <2> SUFFICES ASSUME ~sharedSpent.switched PROVE SwitchFits'
    BY <1>16 DEF SwitchFits
  <2>1. p.action = job.action
    BY <1>1, <1>2 DEF SharedKept, SwitchFits
  <2>2. ASSUME NEW g \in Fires, NEW v \in Users, NEW b \in Actions, sharedIntents'[g][v][b] = 1 PROVE b = job.action
    BY <1>2, <1>6, <1>9, <2>1, <2>2 DEF SharedKept, SwitchFits
  <2>3. \A o \in JobSchedulers : pass'[o].phase # "idle" => pass'[o].action = job.action
    BY <1>13, <1>15, <1>21, <2>1 DEF SharedKept, SwitchFits
  <2> QED
    BY <1>16, <2>2, <2>3 DEF SharedKept, SwitchFits
<1>24. QuietFits'
  <2>1. \A o \in JobSchedulers : /\ pass'[o].phase = pass[o].phase /\ pass'[o].fire = pass[o].fire
                                 /\ pass'[o].todo \subseteq pass[o].todo
    BY <1>1, <1>10, <1>11, <1>13, <1>15, <1>21
  <2> QED
    BY <1>16, <2>1 DEF SharedKept, QuietFits
<1>25. CompletedIsSent' /\ SaidByARun'
  <2>1. CompletedIsSent'
    <3> SUFFICES ASSUME NEW k \in RunKeys, deliveries[k].status = "completed", NEW v \in deliveries[k].users
                 PROVE  sharedIntents'[k[1]][v]["durable_run"] = 1
      BY <1>16 DEF CompletedIsSent
    <3>1. v \in Users
      BY DEF SharedKept, SharedTypes, DeliveryRow, UserSets
    <3> QED
      BY <1>17, <3>1, RunKeyParts, TwoActions DEF SharedKept, CompletedIsSent
  <2>2. SaidByARun'
    BY <1>6, <1>9, <1>16, TwoActions DEF SharedKept, SaidByARun
  <2> QED
    BY <2>1, <2>2
<1> QED
  BY <1>16, <1>18, <1>19, <1>21, <1>22, <1>23, <1>24, <1>25, CourierStays, RecordedFiresStay DEF SharedKept

\* A delivery is created for the run of an agent, unless there is one.
LEMMA RunDeliveryKeeps ==
  ASSUME SharedConfigured, SharedKept, NEW s \in JobSchedulers, CreateSharedSchedulerRunDelivery(s)
  PROVE  SharedKept'
<1>1. PICK p \in PassRow : p = pass[s]
  BY DEF SharedKept, SharedTypes
<1>2. p.phase \in Agents /\ job.exists
  BY <1>1 DEF CreateSharedSchedulerRunDelivery
<1>3. PICK a \in Agents : a = p.phase
  BY <1>2
<1>4. a # "idle" /\ a # "select" /\ a # "create"
  BY DEF SharedConfigured
<1>5. /\ p.action = "durable_run" /\ p.fire \in Fires /\ a \in p.todo /\ p.todo \subseteq Agents /\ PassFits(s)
  BY <1>1, <1>2, <1>3, <1>4 DEF SharedKept, PassFits
<1>6. PICK k \in RunKeys : k = <<p.fire, a>>
  BY <1>5 DEF RunKeys
<1>7. PICK row \in DeliveryRow : row = [status |-> "pending", users |-> {u \in p.users : p.agentOf[u] = a}]
  BY DEF DeliveryRow, PassRow, UserSets, DeliveryStates
<1>8. deliveries' = [deliveries EXCEPT ![k] = IF @ = NoDelivery THEN row ELSE @]
  BY <1>1, <1>3, <1>6, <1>7 DEF CreateSharedSchedulerRunDelivery
<1>9. deliveries \in [RunKeys -> DeliveryRow]
  BY DEF SharedKept, SharedTypes
<1>10. /\ deliveries' \in [RunKeys -> DeliveryRow] /\ \A i \in RunKeys : i # k => deliveries'[i] = deliveries[i]
       /\ deliveries[k] = NoDelivery => deliveries'[k] = row
       /\ deliveries[k] # NoDelivery => deliveries'[k] = deliveries[k]
  BY <1>8, <1>9
<1>11. row # NoDelivery /\ row.status = "pending"
  BY <1>7 DEF NoDelivery
<1>12. PICK T \in TodoSets : T = p.todo \ {a}
  BY DEF PassRow, TodoSets
<1>13. PICK phase \in PassPhases : phase = "create"
  BY DEF PassPhases
<1>14. PICK x : x = PassDeals(p, T, phase)
  OBVIOUS
<1>15. /\ x \in PassRow /\ x.phase = phase /\ x.fire = p.fire /\ x.action = p.action
       /\ x.users = p.users /\ x.todo = T /\ x.agentOf = p.agentOf
  BY <1>14, PassDealsFits
<1>16. pass' = [pass EXCEPT ![s] = x] /\ pass'[s] = x
  <2>1. pass' = [pass EXCEPT ![s].todo = @ \ {p.phase}, ![s].phase = "create"]
    BY <1>1 DEF CreateSharedSchedulerRunDelivery
  <2> QED
    BY <1>1, <1>3, <1>12, <1>13, <1>14, <2>1 DEF PassDeals, SharedKept, SharedTypes
<1>17. UNCHANGED <<job, subs, runs, sharedIntents, fires, courier, sharedSpent>>
  BY DEF CreateSharedSchedulerRunDelivery
<1>18. SharedOnwards
  BY <1>10, <1>17 DEF SharedOnwards
<1>19. GoneFits'
  BY <1>2, <1>17 DEF GoneFits
<1>20. sharedSpent.events = 0 => deliveries[k] = NoDelivery
  <2> SUFFICES ASSUME sharedSpent.events = 0, deliveries[k] # NoDelivery PROVE FALSE
    OBVIOUS
  <2>1. p.fire = job.next /\ \A o \in JobSchedulers \ {s} : pass[o].phase = "idle"
    BY <1>1, <1>3, <1>4 DEF SharedKept, QuietFits
  <2>2. \/ p.fire < job.next
        \/ \E o \in JobSchedulers : pass[o].phase \notin {"idle", "select"} /\ a \notin pass[o].todo
    BY <1>5, <1>6 DEF SharedKept, QuietFits
  <2>3. p.fire \in Nat
    BY <1>5 DEF Fires
  <2> QED
    BY <1>1, <1>5, <2>1, <2>2, <2>3
<1>21. PassFits(s)'
  <2>1. /\ x.todo \subseteq Agents /\ x.fire \in Fires /\ x.action = "durable_run" /\ x.action \in Actions
        /\ x.phase = "create" /\ x.phase \notin Agents
    BY <1>5, <1>12, <1>13, <1>15, TwoActions DEF SharedConfigured
  <2>2. ASSUME NEW v \in x.users
        PROVE  x.agentOf[v] \in Agents /\ (x.agentOf[v] \in x.todo \/ UnderWay(x.fire, x.agentOf[v], v)')
    <3>1. p.agentOf[v] \in Agents /\ (p.agentOf[v] \in p.todo \/ UnderWay(p.fire, p.agentOf[v], v))
      BY <1>1, <1>2, <1>5, <1>15, <2>2 DEF PassFits
    <3>2. CASE p.agentOf[v] = a
      <4>1. deliveries'[k] # NoDelivery
        BY <1>10, <1>11
      <4>2. sharedSpent.events = 0 => v \in deliveries'[k].users
        BY <1>7, <1>10, <1>15, <1>20, <2>2, <3>2
      <4>3. sharedSpent'.events > 0 \/ sharedSpent'.events = 0
        BY <1>17 DEF SharedKept, SharedTypes
      <4> QED
        BY <1>6, <1>15, <1>17, <3>1, <3>2, <4>1, <4>2, <4>3 DEF UnderWay
    <3>3. CASE p.agentOf[v] # a /\ p.agentOf[v] \in p.todo
      BY <1>12, <1>15, <3>1, <3>3
    <3>4. CASE UnderWay(p.fire, p.agentOf[v], v)
      <4>1. PICK i \in RunKeys : i = <<p.fire, p.agentOf[v]>>
        BY <1>5, <3>1 DEF RunKeys
      <4>2. deliveries'[i] # NoDelivery /\ deliveries'[i].users = deliveries[i].users
        BY <1>10, <3>4, <4>1 DEF UnderWay
      <4> QED
        BY <1>15, <1>17, <3>1, <3>4, <4>1, <4>2 DEF UnderWay
    <3> QED
      BY <3>1, <3>2, <3>3, <3>4
  <2> QED
    BY <1>16, <2>1, <2>2, TwoActions DEF PassFits
<1>22. /\ pass' \in [JobSchedulers -> PassRow]
       /\ \A o \in JobSchedulers \ {s} : pass'[o] = pass[o]
       /\ \A o \in JobSchedulers : PassFits(o)'
  BY <1>15, <1>16, <1>18, <1>21, OnePassMoves
<1>23. SharedTypes'
  BY <1>10, <1>17, <1>22 DEF SharedKept, SharedTypes
<1>24. SwitchFits'
  <2> SUFFICES ASSUME ~sharedSpent.switched PROVE SwitchFits'
    BY <1>17 DEF SwitchFits
  <2>1. p.action = job.action
    BY <1>1, <1>3, <1>4 DEF SharedKept, SwitchFits
  <2>2. ASSUME NEW i \in RunKeys, deliveries'[i] # NoDelivery PROVE job.action = "durable_run"
    BY <1>5, <1>10, <2>1, <2>2 DEF SharedKept, SwitchFits
  <2>3. \A o \in JobSchedulers : pass'[o].phase # "idle" => pass'[o].action = job.action
    BY <1>15, <1>16, <1>22, <2>1 DEF SharedKept, SwitchFits
  <2> QED
    BY <1>17, <2>2, <2>3 DEF SharedKept, SwitchFits
<1>25. QuietFits'
  <2> SUFFICES ASSUME sharedSpent.events = 0 PROVE QuietFits'
    BY <1>17 DEF QuietFits
  <2>1. \A o \in JobSchedulers : /\ pass'[o].phase # "idle" => pass[o].phase # "idle"
                                 /\ pass'[o].fire = pass[o].fire /\ pass'[o].todo \subseteq pass[o].todo
                                 /\ pass[o].phase \notin {"idle", "select"} => pass'[o].phase \notin {"idle", "select"}
    BY <1>1, <1>3, <1>4, <1>12, <1>13, <1>15, <1>16, <1>22
  <2>2. p.fire = job.next /\ a \notin x.todo /\ x.phase \notin {"idle", "select"}
    BY <1>1, <1>3, <1>4, <1>12, <1>13, <1>15 DEF SharedKept, QuietFits
  <2>3. ASSUME NEW f \in Fires, NEW b \in Agents, deliveries'[<<f, b>>] # NoDelivery
        PROVE  \/ f < job.next
               \/ f = job.next /\ \E o \in JobSchedulers : pass'[o].phase \notin {"idle", "select"} /\ b \notin pass'[o].todo
    <3>1. PICK i \in RunKeys : i = <<f, b>>
      BY DEF RunKeys
    <3>2. CASE i = k
      BY <1>6, <1>16, <2>2, <3>1, <3>2
    <3>3. CASE i # k
      BY <1>10, <2>1, <2>3, <3>1, <3>3 DEF SharedKept, QuietFits
    <3> QED
      BY <3>2, <3>3
  <2>4. ASSUME NEW o \in JobSchedulers, pass'[o].phase # "idle"
        PROVE  /\ job.lease = "live" /\ pass'[o].fire = job.next
               /\ \A i \in JobSchedulers \ {o} : pass'[i].phase = "idle"
    BY <2>1, <2>4 DEF SharedKept, QuietFits
  <2> QED
    BY <1>17, <2>3, <2>4 DEF QuietFits
<1>26. CompletedIsSent' /\ SaidByARun'
  BY <1>10, <1>11, <1>17 DEF SharedKept, CompletedIsSent, SaidByARun
<1> QED
  BY <1>17, <1>18, <1>19, <1>22, <1>23, <1>24, <1>25, <1>26, CourierStays, RecordedFiresStay DEF SharedKept

\* A run ends.
LEMMA RunEndKeeps ==
  ASSUME SharedConfigured, SharedKept, SharedRunEnds
  PROVE  SharedKept'
<1>1. UNCHANGED <<job, subs, pass, deliveries, sharedIntents, fires, courier, sharedSpent>>
  BY DEF SharedRunEnds
<1>2. PICK k \in RunKeys, end \in RunStates : runs[k] = "queued" /\ runs' = [runs EXCEPT ![k] = end]
  BY DEF SharedRunEnds, RunStates
<1>3. runs' \in [RunKeys -> RunStates] /\ \A i \in RunKeys : runs[i] = "completed" => runs'[i] = "completed"
  BY <1>2 DEF SharedKept, SharedTypes
<1>4. SharedOnwards
  BY <1>1, <1>3 DEF SharedOnwards
<1>5. GoneFits'
  BY <1>1, <1>4, GoneStays
<1>6. SharedTypes' /\ SwitchFits' /\ QuietFits'
  BY <1>1, <1>3 DEF SharedKept, SharedTypes, SwitchFits, QuietFits
<1> QED
  BY <1>1, <1>4, <1>5, <1>6, PassesStay, TheRestStays, RecordedFiresStay DEF SharedKept

-----------------------------------------------------------------------------
(* Deliveries, as couriers carry them out *)

\* The row of a courier, as it moves.
CourierTakes(c, C) == [c EXCEPT !.rest = C]
CourierBegins(C, k, U) == [rest |-> C, key |-> k, todo |-> U]
CourierDeals(c, U) == [c EXCEPT !.todo = U]

\* Each move is to a row of a courier.
LEMMA CourierMovesFit ==
  ASSUME NEW c \in CourierRow, NEW C \in KeySets, NEW k \in CourierKeys, NEW U \in UserSets
  PROVE  /\ CourierTakes(c, C) \in CourierRow /\ CourierTakes(c, C).rest = C
         /\ CourierTakes(c, C).key = c.key /\ CourierTakes(c, C).todo = c.todo
         /\ CourierBegins(C, k, U) \in CourierRow /\ CourierBegins(C, k, U).rest = C
         /\ CourierBegins(C, k, U).key = k /\ CourierBegins(C, k, U).todo = U
         /\ CourierDeals(c, U) \in CourierRow /\ CourierDeals(c, U).rest = c.rest
         /\ CourierDeals(c, U).key = c.key /\ CourierDeals(c, U).todo = U
BY DEF CourierRow, CourierTakes, CourierBegins, CourierDeals

\* A courier at rest holds nothing.
LEMMA NoCourierFits == NoCourier \in CourierRow /\ NoCourier.rest = {} /\ NoCourier.key = <<>> /\ NoCourier.todo = {}
BY DEF NoCourier, CourierRow, KeySets, CourierKeys, UserSets

\* A message of a delivery that is there is of a completed run.
Delivers(f, a) == \E b \in Agents : a = "durable_run" /\ deliveries[<<f, b>>] # NoDelivery /\ runs[<<f, b>>] = "completed"

\* A step of a courier keeps all in order if it keeps its own and completes what was
\* sent.
LEMMA CourierStepKeeps ==
  ASSUME SharedConfigured, SharedKept, NEW s \in JobSchedulers, NEW x \in CourierRow, courier' = [courier EXCEPT ![s] = x],
         UNCHANGED <<job, subs, pass, runs, fires>>,
         sharedIntents' \in IntentTable,
         \A f \in Fires, u \in Users, a \in Actions : sharedIntents[f][u][a] = 1 => sharedIntents'[f][u][a] = 1,
         \A f \in Fires, u \in Users, a \in Actions : sharedIntents'[f][u][a] = 1 => sharedIntents[f][u][a] = 1 \/ Delivers(f, a),
         deliveries' \in [RunKeys -> DeliveryRow],
         \A k \in RunKeys : /\ deliveries'[k] = NoDelivery <=> deliveries[k] = NoDelivery
                            /\ deliveries'[k].users = deliveries[k].users,
         sharedSpent' \in [events : Nat, switched : BOOLEAN], sharedSpent'.events > 0 \/ sharedSpent'.events = sharedSpent.events,
         sharedSpent'.switched = sharedSpent.switched,
         CompletedIsSent', SharedOnwards /\ GoneFits' => CourierFits(s)'
  PROVE  SharedKept'
<1>1. SharedOnwards
  BY DEF SharedOnwards
<1>2. GoneFits'
  BY <1>1 DEF SharedKept, GoneFits, SharedOnwards
<1>3. /\ courier' \in [JobSchedulers -> CourierRow]
      /\ \A o \in JobSchedulers \ {s} : courier'[o] = courier[o]
  BY DEF SharedKept, SharedTypes
<1>4. ASSUME NEW o \in JobSchedulers PROVE CourierFits(o)'
  BY <1>1, <1>2, <1>3, CourierStays
<1>5. SharedTypes'
  BY <1>3 DEF SharedKept, SharedTypes
<1>6. SwitchFits'
  <2> SUFFICES ASSUME ~sharedSpent.switched PROVE SwitchFits'
    BY DEF SwitchFits
  <2>1. \A k \in RunKeys : deliveries'[k] # NoDelivery => job.action = "durable_run"
    BY DEF SharedKept, SwitchFits
  <2>2. ASSUME NEW f \in Fires, NEW a \in Actions, Delivers(f, a) PROVE a = job.action
    BY <2>2 DEF Delivers, SharedKept, SwitchFits, RunKeys
  <2> QED
    BY <2>1, <2>2 DEF SharedKept, SwitchFits
<1>7. QuietFits'
  <2> SUFFICES ASSUME sharedSpent.events = 0, sharedSpent'.events = 0 PROVE QuietFits'
    BY DEF QuietFits
  <2>1. \A f \in Fires, a \in Agents : deliveries'[<<f, a>>] # NoDelivery => deliveries[<<f, a>>] # NoDelivery
    BY DEF RunKeys
  <2> QED
    BY <2>1 DEF SharedKept, QuietFits
<1>8. SaidByARun'
  BY TwoActions DEF SharedKept, SaidByARun, Delivers
<1> QED
  BY <1>1, <1>2, <1>4, <1>5, <1>6, <1>7, <1>8, PassesStay, RecordedFiresStay DEF SharedKept

\* A status is written to the row of a delivery, if it is there.
LEMMA StatusIsWritten ==
  ASSUME SharedKept, NEW k \in RunKeys, NEW becomes \in DeliveryStates, becomes # "none", RunBecomes(k, becomes)
  PROVE  /\ deliveries' \in [RunKeys -> DeliveryRow]
         /\ \A g \in RunKeys : deliveries'[g] = NoDelivery <=> deliveries[g] = NoDelivery
         /\ \A g \in RunKeys : deliveries'[g].users = deliveries[g].users
         /\ \A g \in RunKeys : g # k => deliveries'[g] = deliveries[g]
         /\ deliveries'[k].status \in {deliveries[k].status, becomes}
<1>1. deliveries \in [RunKeys -> DeliveryRow]
  BY DEF SharedKept, SharedTypes
<1>2. PICK v \in DeliveryRow : v = deliveries[k]
  BY <1>1
<1>3. PICK w : w = [v EXCEPT !.status = becomes]
  OBVIOUS
<1>4. w \in DeliveryRow /\ w.status = becomes /\ w.users = v.users
  BY <1>3 DEF DeliveryRow
<1>5. w # NoDelivery
  BY <1>4 DEF NoDelivery
<1>6. deliveries' = IF v = NoDelivery THEN deliveries ELSE [deliveries EXCEPT ![k] = w]
  BY <1>2, <1>3 DEF RunBecomes
<1>7. CASE v = NoDelivery
  BY <1>1, <1>6, <1>7
<1>8. CASE v # NoDelivery
  <2>1. deliveries' = [deliveries EXCEPT ![k] = w]
    BY <1>6, <1>8
  <2>2. /\ deliveries' \in [RunKeys -> DeliveryRow] /\ deliveries'[k] = w
        /\ \A i \in RunKeys : i # k => deliveries'[i] = deliveries[i]
    BY <1>1, <1>4, <2>1
  <2> QED
    BY <1>2, <1>4, <1>5, <1>8, <2>2
<1> QED
  BY <1>7, <1>8

\* A courier claims the deliveries of completed runs.
LEMMA ClaimCompletedKeeps ==
  ASSUME SharedConfigured, SharedKept, NEW s \in JobSchedulers, ClaimCompletedSharedSchedulerRunDeliveries(s)
  PROVE  SharedKept'
<1>1. PICK c \in CourierRow : c = courier[s]
  BY DEF SharedKept, SharedTypes
<1>2. c.key = <<>> /\ c.todo = {}
  BY <1>1, NoCourierFits DEF ClaimCompletedSharedSchedulerRunDeliveries
<1>3. PICK C \in {{k \in RunKeys : DeliveryPends(k)}, {k \in RunKeys : DeliveryPends(k) \/ Stale(k)}} :
        /\ IF \E k \in C : Stale(k) THEN SpendOne ELSE UNCHANGED sharedSpent
        /\ deliveries' = [k \in RunKeys |-> IF k \in C THEN [deliveries[k] EXCEPT !.status = "processing"]
                                         ELSE deliveries[k]]
        /\ courier' = [courier EXCEPT ![s].rest = C]
  BY DEF ClaimCompletedSharedSchedulerRunDeliveries
<1>4. C \in KeySets /\ \A k \in C : k \in RunKeys /\ runs[k] = "completed" /\ deliveries[k].status \in {"pending", "processing"}
  BY <1>3 DEF KeySets, DeliveryPends, Stale
<1>5. PICK x : x = CourierTakes(c, C)
  OBVIOUS
<1>6. x \in CourierRow /\ x.rest = C /\ x.key = c.key /\ x.todo = c.todo
  <2>1. PICK k \in CourierKeys, U \in UserSets : k = <<>> /\ U = {}
    BY DEF CourierKeys, UserSets
  <2> QED
    BY <1>4, <1>5, <2>1, CourierMovesFit
<1>7. courier' = [courier EXCEPT ![s] = x] /\ courier'[s] = x
  BY <1>1, <1>3, <1>5 DEF CourierTakes, SharedKept, SharedTypes
<1>8. UNCHANGED <<job, subs, pass, runs, sharedIntents, fires>>
  BY DEF ClaimCompletedSharedSchedulerRunDeliveries
<1>9. /\ sharedSpent' \in [events : Nat, switched : BOOLEAN]
      /\ sharedSpent'.events > 0 \/ sharedSpent'.events = sharedSpent.events
      /\ sharedSpent'.switched = sharedSpent.switched
  BY <1>3, OneIsSpent DEF SharedKept, SharedTypes
<1>10. ASSUME NEW k \in RunKeys
       PROVE  /\ deliveries'[k] \in DeliveryRow
              /\ deliveries'[k] = NoDelivery <=> deliveries[k] = NoDelivery
              /\ deliveries'[k].users = deliveries[k].users
              /\ k \in C => deliveries'[k].status = "processing" /\ deliveries'[k] # NoDelivery
              /\ k \notin C => deliveries'[k] = deliveries[k]
  <2>1. PICK v \in DeliveryRow : v = deliveries[k]
    BY DEF SharedKept, SharedTypes
  <2>2. PICK w : w = [v EXCEPT !.status = "processing"]
    OBVIOUS
  <2>3. w \in DeliveryRow /\ w.status = "processing" /\ w.users = v.users /\ w # NoDelivery
    BY <2>2 DEF DeliveryRow, DeliveryStates, NoDelivery
  <2>4. k \in C => v # NoDelivery
    BY <1>4, <2>1 DEF NoDelivery
  <2>5. deliveries'[k] = IF k \in C THEN w ELSE v
    BY <1>3, <2>1, <2>2
  <2> QED
    BY <2>1, <2>3, <2>4, <2>5
<1>11. deliveries' \in [RunKeys -> DeliveryRow]
  BY <1>3, <1>10
<1>12. CompletedIsSent'
  BY <1>8, <1>10 DEF SharedKept, CompletedIsSent
<1>13. CourierFits(s)'
  <2>1. \A k \in RunKeys : k # x.key
    BY <1>2, <1>6, RunKeyParts
  <2> QED
    BY <1>2, <1>4, <1>6, <1>7, <1>8, <1>10, <2>1 DEF CourierFits
<1>14. /\ sharedIntents' \in IntentTable
       /\ \A f \in Fires, u \in Users, a \in Actions : sharedIntents'[f][u][a] = sharedIntents[f][u][a]
  BY <1>8 DEF SharedKept, SharedTypes
<1> QED
  BY <1>6, <1>7, <1>8, <1>9, <1>10, <1>11, <1>12, <1>13, <1>14, CourierStepKeeps

\* A courier that leaves the tables alone keeps what it has.
LEMMA CourierAloneKeeps ==
  ASSUME SharedConfigured, SharedKept, NEW s \in JobSchedulers, NEW x \in CourierRow, courier' = [courier EXCEPT ![s] = x],
         UNCHANGED <<job, subs, pass, runs, deliveries, sharedIntents, fires>>,
         sharedSpent' \in [events : Nat, switched : BOOLEAN], sharedSpent'.events > 0 \/ sharedSpent'.events = sharedSpent.events,
         sharedSpent'.switched = sharedSpent.switched,
         CourierFits(s)'
  PROVE  SharedKept'
<1>1. CompletedIsSent'
  BY DEF SharedKept, CompletedIsSent
<1>2. /\ sharedIntents' \in IntentTable /\ deliveries' \in [RunKeys -> DeliveryRow]
      /\ \A f \in Fires, u \in Users, a \in Actions : sharedIntents'[f][u][a] = sharedIntents[f][u][a]
      /\ \A k \in RunKeys : deliveries'[k] = deliveries[k]
  BY DEF SharedKept, SharedTypes
<1> QED
  BY <1>1, <1>2, CourierStepKeeps

\* A courier takes up one of its deliveries.
LEMMA TakeUpKeeps ==
  ASSUME SharedConfigured, SharedKept, NEW s \in JobSchedulers, TakeUp(s)
  PROVE  SharedKept'
<1>1. PICK c \in CourierRow : c = courier[s]
  BY DEF SharedKept, SharedTypes
<1>2. CourierFits(s) /\ deliveries \in [RunKeys -> DeliveryRow]
  BY DEF SharedKept, SharedTypes
<1>3. PICK k \in c.rest :
        courier' = [courier EXCEPT ![s] = [rest |-> @.rest \ {k}, key |-> k, todo |-> deliveries[k].users]]
  BY <1>1 DEF TakeUp
<1>4. k \in RunKeys /\ c.rest \subseteq RunKeys
  BY <1>3 DEF CourierRow, KeySets
<1>5. PICK C \in KeySets : C = c.rest \ {k}
  BY <1>4 DEF KeySets
<1>6. PICK U \in UserSets : U = deliveries[k].users
  BY <1>2, <1>4 DEF DeliveryRow
<1>7. PICK x : x = CourierBegins(C, k, U)
  OBVIOUS
<1>8. x \in CourierRow /\ x.rest = C /\ x.key = k /\ x.todo = U
  BY <1>1, <1>4, <1>7, CourierMovesFit DEF CourierKeys
<1>9. courier' = [courier EXCEPT ![s] = x] /\ courier'[s] = x
  BY <1>1, <1>3, <1>5, <1>6, <1>7 DEF CourierBegins, SharedKept, SharedTypes
<1>10. UNCHANGED <<job, subs, pass, runs, deliveries, sharedIntents, fires, sharedSpent>>
  BY DEF TakeUp
<1>11. CourierFits(s)'
  <2>1. k # <<>>
    BY <1>4, RunKeyParts
  <2>2. \A i \in RunKeys : i \in x.rest \/ i = x.key => i \in c.rest
    BY <1>3, <1>5, <1>8
  <2> QED
    BY <1>1, <1>2, <1>6, <1>8, <1>9, <1>10, <2>1, <2>2 DEF CourierFits
<1>12. sharedSpent \in [events : Nat, switched : BOOLEAN]
  BY DEF SharedKept, SharedTypes
<1> QED
  BY <1>8, <1>9, <1>10, <1>11, <1>12, CourierAloneKeeps

\* A courier that holds nothing is in order.
LEMMA RestingCourierFits ==
  ASSUME SharedKept, NEW s \in JobSchedulers, courier'[s] = NoCourier
  PROVE  CourierFits(s)'
<1>1. \A k \in RunKeys : k # <<>>
  BY RunKeyParts
<1> QED
  BY <1>1, NoCourierFits DEF CourierFits

\* A courier dies.
LEMMA CourierDiesKeeps ==
  ASSUME SharedConfigured, SharedKept, NEW s \in JobSchedulers, CourierDies(s)
  PROVE  SharedKept'
<1>1. PICK x \in CourierRow : x = NoCourier
  BY NoCourierFits
<1>2. courier' = [courier EXCEPT ![s] = x] /\ courier'[s] = NoCourier
  BY <1>1 DEF CourierDies, SharedKept, SharedTypes
<1>3. CourierFits(s)'
  BY <1>2, RestingCourierFits
<1>4. /\ sharedSpent' \in [events : Nat, switched : BOOLEAN] /\ sharedSpent'.events > 0
      /\ sharedSpent'.switched = sharedSpent.switched
  BY OneIsSpent DEF CourierDies
<1>5. UNCHANGED <<job, subs, pass, runs, deliveries, sharedIntents, fires>>
  BY DEF CourierDies
<1> QED
  BY <1>2, <1>3, <1>4, <1>5, CourierAloneKeeps

\* A courier has written to one of the subscribers of its delivery.
LEMMA DeliveryOutboundKeeps ==
  ASSUME SharedConfigured, SharedKept, NEW s \in JobSchedulers, CreateSharedSchedulerDeliveryOutbound(s)
  PROVE  SharedKept'
<1>1. PICK c \in CourierRow : c = courier[s]
  BY DEF SharedKept, SharedTypes
<1>2. CourierFits(s)
  BY SMTT(60) DEF SharedKept
<1>3. PICK u \in c.todo :
        /\ sharedIntents' = IF deliveries[c.key] = NoDelivery THEN sharedIntents
                            ELSE [sharedIntents EXCEPT ![c.key[1]][u]["durable_run"] = DeliveryOutbound(@)]
        /\ courier' = [courier EXCEPT ![s].todo = @ \ {u}]
  BY <1>1 DEF CreateSharedSchedulerDeliveryOutbound
<1>4. u \in Users
  BY <1>3 DEF CourierRow, UserSets
<1>5. c.key # <<>> /\ c.key \in RunKeys
  BY <1>1, <1>2, <1>3 DEF CourierFits, CourierRow, CourierKeys
<1>6. PICK k \in RunKeys : k = c.key
  BY <1>5
<1>7. PICK f \in Fires : f = k[1]
  BY RunKeyParts
<1>8. PICK a \in Actions : a = "durable_run"
  BY TwoActions
<1>9. PICK t \in IntentTable : t = sharedIntents
  BY DEF SharedKept, SharedTypes
<1>10. PICK y : y = WithMessage(t, f, u, a)
  OBVIOUS
<1>11. /\ y \in IntentTable /\ y[f][u][a] = 1
       /\ \A g \in Fires, v \in Users, b \in Actions : g # f \/ v # u \/ b # a => y[g][v][b] = t[g][v][b]
  BY SMTT(60), <1>4, <1>10, IntentsGrow
<1>12. sharedIntents' = IF deliveries[k] = NoDelivery THEN t ELSE y
  BY <1>3, <1>6, <1>7, <1>8, <1>9, <1>10 DEF DeliveryOutbound, WithMessage
<1>13. PICK U \in UserSets : U = c.todo \ {u}
  BY DEF CourierRow, UserSets
<1>14. PICK x : x = CourierDeals(c, U)
  OBVIOUS
<1>15. x \in CourierRow /\ x.rest = c.rest /\ x.key = c.key /\ x.todo = U
  <2>1. PICK C \in KeySets, i \in CourierKeys : C = {} /\ i = <<>>
    BY DEF CourierKeys, KeySets
  <2> QED
    BY <1>14, <2>1, CourierMovesFit
<1>16. courier' = [courier EXCEPT ![s] = x] /\ courier'[s] = x
  BY <1>1, <1>3, <1>13, <1>14 DEF CourierDeals, SharedKept, SharedTypes
<1>17. UNCHANGED <<job, subs, pass, runs, deliveries, fires, sharedSpent>>
  BY DEF CreateSharedSchedulerDeliveryOutbound
<1>18. sharedIntents' \in IntentTable
  BY <1>9, <1>11, <1>12
<1>19. \A g \in Fires, v \in Users, b \in Actions : sharedIntents[g][v][b] = 1 => sharedIntents'[g][v][b] = 1
  BY <1>9, <1>11, <1>12
<1>20. ASSUME NEW g \in Fires, NEW v \in Users, NEW b \in Actions, sharedIntents'[g][v][b] = 1
       PROVE  sharedIntents[g][v][b] = 1 \/ Delivers(g, b)
  <2>1. CASE g = f /\ v = u /\ b = a /\ deliveries[k] # NoDelivery
    <3>1. runs[k] = "completed"
      BY <1>1, <1>2, <1>6 DEF CourierFits
    <3>2. k[2] \in Agents /\ k = <<f, k[2]>>
      BY <1>7, RunKeyParts
    <3> QED
      BY <1>8, <2>1, <3>1, <3>2 DEF Delivers
  <2>2. CASE ~(g = f /\ v = u /\ b = a /\ deliveries[k] # NoDelivery)
    BY <1>9, <1>11, <1>12, <1>20, <2>2
  <2> QED
    BY <2>1, <2>2
<1>21. CompletedIsSent'
  <2> SUFFICES ASSUME NEW i \in RunKeys, deliveries[i].status = "completed", NEW v \in deliveries[i].users
               PROVE  sharedIntents'[i[1]][v]["durable_run"] = 1
    BY <1>17 DEF CompletedIsSent
  <2>1. v \in Users
    BY DEF SharedKept, SharedTypes, DeliveryRow, UserSets
  <2> QED
    BY <1>19, <2>1, RunKeyParts, TwoActions DEF SharedKept, CompletedIsSent
<1>22. CourierFits(s)'
  <2>1. \A i \in RunKeys : i # <<>>
    BY RunKeyParts
  <2>2. ASSUME NEW i \in RunKeys, i = x.key, deliveries[i] # NoDelivery, NEW v \in deliveries[i].users
        PROVE  v \in x.todo \/ sharedIntents'[i[1]][v]["durable_run"] = 1
    <3>1. v \in Users /\ i = k
      BY <1>6, <1>15, <2>2 DEF SharedKept, SharedTypes, DeliveryRow, UserSets
    <3>2. v \in c.todo \/ sharedIntents[i[1]][v]["durable_run"] = 1
      BY <1>1, <1>2, <1>15, <2>2 DEF CourierFits
    <3>3. v = u => sharedIntents'[i[1]][v]["durable_run"] = 1
      BY <1>7, <1>8, <1>11, <1>12, <2>2, <3>1
    <3>4. v \in c.todo /\ v # u => v \in x.todo
      BY <1>13, <1>15
    <3>5. sharedIntents[i[1]][v]["durable_run"] = 1 => sharedIntents'[i[1]][v]["durable_run"] = 1
      BY <1>7, <1>19, <3>1, TwoActions
    <3> QED
      BY <3>2, <3>3, <3>4, <3>5
  <2> QED
    BY <1>1, <1>2, <1>5, <1>15, <1>16, <1>17, <2>1, <2>2 DEF CourierFits
<1>23. /\ deliveries \in [RunKeys -> DeliveryRow] /\ sharedSpent \in [events : Nat, switched : BOOLEAN]
  BY DEF SharedKept, SharedTypes
<1> QED
  BY <1>15, <1>16, <1>17, <1>18, <1>19, <1>20, <1>21, <1>22, <1>23, CourierStepKeeps

\* A delivery is completed once all its subscribers were written to.
LEMMA CompleteDeliveryKeeps ==
  ASSUME SharedConfigured, SharedKept, NEW s \in JobSchedulers, CompleteSharedSchedulerRunDelivery(s)
  PROVE  SharedKept'
<1>1. PICK c \in CourierRow : c = courier[s]
  BY DEF SharedKept, SharedTypes
<1>2. c.key \in RunKeys /\ c.todo = {} /\ CourierFits(s)
  BY <1>1 DEF CompleteSharedSchedulerRunDelivery, SharedKept, CourierRow, CourierKeys
<1>3. PICK k \in RunKeys : k = c.key
  BY <1>2
<1>4. PICK becomes \in DeliveryStates : becomes = "completed"
  BY DEF DeliveryStates
<1>5. RunBecomes(k, becomes) /\ UNCHANGED <<job, subs, pass, runs, sharedIntents, fires, sharedSpent>>
  BY <1>1, <1>3, <1>4 DEF CompleteSharedSchedulerRunDelivery
<1>6. /\ deliveries' \in [RunKeys -> DeliveryRow]
      /\ \A g \in RunKeys : deliveries'[g] = NoDelivery <=> deliveries[g] = NoDelivery
      /\ \A g \in RunKeys : deliveries'[g].users = deliveries[g].users
      /\ \A g \in RunKeys : g # k => deliveries'[g] = deliveries[g]
  BY <1>4, <1>5, StatusIsWritten
<1>7. PICK C \in KeySets, i \in CourierKeys, U \in UserSets : C = c.rest /\ i = <<>> /\ U = {}
  BY DEF CourierRow, CourierKeys, UserSets
<1>8. PICK x : x = CourierBegins(C, i, U)
  OBVIOUS
<1>9. x \in CourierRow /\ x.rest = C /\ x.key = i /\ x.todo = U
  BY <1>1, <1>8, CourierMovesFit
<1>10. x = [NoCourier EXCEPT !.rest = c.rest]
  <2>1. NoCourier = [rest |-> U, key |-> i, todo |-> U] /\ C = c.rest
    BY <1>7 DEF NoCourier
  <2>2. [[rest |-> U, key |-> i, todo |-> U] EXCEPT !.rest = C] = [rest |-> C, key |-> i, todo |-> U]
    OBVIOUS
  <2> QED
    BY <1>8, <2>1, <2>2 DEF CourierBegins
<1>11. courier' = [courier EXCEPT ![s] = x] /\ courier'[s] = x
  BY <1>1, <1>10 DEF CompleteSharedSchedulerRunDelivery, SharedKept, SharedTypes
<1>12. CompletedIsSent'
  <2> SUFFICES ASSUME NEW g \in RunKeys, deliveries'[g].status = "completed", NEW v \in deliveries'[g].users
               PROVE  sharedIntents[g[1]][v]["durable_run"] = 1
    BY <1>5 DEF CompletedIsSent
  <2>1. CASE g # k
    BY <1>6, <2>1 DEF SharedKept, CompletedIsSent
  <2>2. CASE g = k
    <3>1. deliveries'[k] # NoDelivery
      BY <2>2 DEF NoDelivery
    <3> QED
      BY <1>1, <1>2, <1>3, <1>6, <2>2, <3>1 DEF CourierFits
  <2> QED
    BY <2>1, <2>2
<1>13. ASSUME SharedOnwards, GoneFits' PROVE CourierFits(s)'
  <2>1. \A g \in RunKeys : g # <<>>
    BY RunKeyParts
  <2>2. \A g \in RunKeys : g \in x.rest => runs'[g] = "completed" /\ (job'.exists => deliveries'[g] # NoDelivery)
    BY <1>1, <1>2, <1>5, <1>6, <1>7, <1>9 DEF CourierFits
  <2> QED
    BY <1>7, <1>9, <1>11, <2>1, <2>2 DEF CourierFits
<1>14. /\ sharedIntents \in IntentTable /\ sharedSpent \in [events : Nat, switched : BOOLEAN]
       /\ \A f \in Fires, u \in Users, a \in Actions : sharedIntents'[f][u][a] = sharedIntents[f][u][a]
  BY <1>5 DEF SharedKept, SharedTypes
<1> QED
  BY <1>5, <1>6, <1>9, <1>11, <1>12, <1>13, <1>14, CourierStepKeeps

\* A courier gives up after an error.
LEMMA DeliveryFailsKeeps ==
  ASSUME SharedConfigured, SharedKept, NEW s \in JobSchedulers, DeliveryFails(s)
  PROVE  SharedKept'
<1>1. PICK c \in CourierRow : c = courier[s]
  BY DEF SharedKept, SharedTypes
<1>2. c.key \in RunKeys
  BY <1>1 DEF DeliveryFails, SharedKept, CourierFits, CourierRow, CourierKeys
<1>3. PICK k \in RunKeys : k = c.key
  BY <1>2
<1>4. PICK becomes \in DeliveryStates : becomes = "failed"
  BY DEF DeliveryStates
<1>5. RunBecomes(k, becomes) /\ UNCHANGED <<job, subs, pass, runs, sharedIntents, fires>>
  BY <1>1, <1>3, <1>4 DEF DeliveryFails
<1>6. /\ deliveries' \in [RunKeys -> DeliveryRow]
      /\ \A g \in RunKeys : deliveries'[g] = NoDelivery <=> deliveries[g] = NoDelivery
      /\ \A g \in RunKeys : deliveries'[g].users = deliveries[g].users
      /\ \A g \in RunKeys : g # k => deliveries'[g] = deliveries[g]
      /\ deliveries'[k].status \in {deliveries[k].status, becomes}
  BY <1>4, <1>5, StatusIsWritten
<1>7. PICK x \in CourierRow : x = NoCourier
  BY NoCourierFits
<1>8. courier' = [courier EXCEPT ![s] = x] /\ courier'[s] = NoCourier
  BY <1>7 DEF DeliveryFails, SharedKept, SharedTypes
<1>9. CourierFits(s)'
  BY <1>8, RestingCourierFits
<1>10. CompletedIsSent'
  BY <1>4, <1>5, <1>6 DEF SharedKept, CompletedIsSent
<1>11. /\ sharedSpent' \in [events : Nat, switched : BOOLEAN] /\ sharedSpent'.events > 0
       /\ sharedSpent'.switched = sharedSpent.switched
  BY OneIsSpent DEF DeliveryFails
<1>12. /\ sharedIntents' \in IntentTable
       /\ \A f \in Fires, u \in Users, a \in Actions : sharedIntents'[f][u][a] = sharedIntents[f][u][a]
  BY <1>5 DEF SharedKept, SharedTypes
<1> QED
  BY <1>5, <1>6, <1>8, <1>9, <1>10, <1>11, <1>12, CourierStepKeeps

-----------------------------------------------------------------------------
\* Nothing is under way at first.
LEMMA SharedIsKeptAtFirst == SharedConfigured /\ SharedInit => SharedKept
<1> SUFFICES ASSUME SharedConfigured, SharedInit PROVE SharedKept
  OBVIOUS
<1>1. PICK action \in Actions : job = CreateSharedSchedulerJob(action)
  BY DEF SharedInit
<1>2. job \in SharedJobRow /\ job.exists /\ job.next = 1
  BY <1>1 DEF CreateSharedSchedulerJob, SharedJobRow, Dues
<1>3. subs \in [Users -> SubscriptionRow]
  BY DEF SharedInit, SharedConfigured, Subscribed, SubscriptionRow
<1>4. /\ pass \in [JobSchedulers -> PassRow] /\ \A s \in JobSchedulers : pass[s] = NoPass
  BY NoPassFits DEF SharedInit
<1>5. /\ courier \in [JobSchedulers -> CourierRow] /\ \A s \in JobSchedulers : courier[s] = NoCourier
  BY NoCourierFits DEF SharedInit
<1>6. /\ runs \in [RunKeys -> RunStates] /\ deliveries \in [RunKeys -> DeliveryRow]
      /\ \A k \in RunKeys : deliveries[k] = NoDelivery
  BY DEF SharedInit, RunStates, DeliveryRow, DeliveryStates, UserSets, NoDelivery
<1>7. /\ sharedIntents \in IntentTable /\ \A f \in Fires, u \in Users, a \in Actions : sharedIntents[f][u][a] = 0
  BY DEF SharedInit, IntentTable
<1>8. /\ fires \in [Fires -> FireRow] /\ \A f \in Fires : fires[f].status = "none"
      /\ sharedSpent \in [events : Nat, switched : BOOLEAN]
  BY DEF SharedInit, FireRow, UserSets
<1>9. SharedTypes /\ GoneFits
  BY <1>2, <1>3, <1>4, <1>5, <1>6, <1>7, <1>8 DEF SharedTypes, GoneFits
<1>10. \A k \in RunKeys : k # <<>>
  BY RunKeyParts
<1>11. \A s \in JobSchedulers : PassFits(s) /\ CourierFits(s)
  BY <1>4, <1>5, <1>10, NoPassFits, NoCourierFits DEF PassFits, CourierFits, SharedConfigured
<1>12. SwitchFits /\ QuietFits
  BY <1>4, <1>6, <1>7, NoPassFits DEF SwitchFits, QuietFits, RunKeys
<1>13. CompletedIsSent /\ SaidByARun /\ RecordedIsUnderWay
  <2>1. NoDelivery.status = "none"
    BY DEF NoDelivery
  <2> QED
    BY <1>6, <1>7, <1>8, <2>1, TwoActions DEF CompletedIsSent, SaidByARun, RecordedIsUnderWay
<1> QED
  BY <1>9, <1>11, <1>12, <1>13 DEF SharedKept

\* Shared jobs stay in order.
THEOREM SharedJobsAreKept == ASSUME SharedConfigured PROVE SharedSpec => []SharedKept
<1>1. SharedInit => SharedKept
  BY SharedIsKeptAtFirst
<1>2. SharedKept /\ [SharedNext]_sharedVars => SharedKept'
  <2> SUFFICES ASSUME SharedKept, [SharedNext]_sharedVars PROVE SharedKept'
    OBVIOUS
  <2>1. CASE UpdateSharedSchedulerJob
    BY <2>1, UpdateKeeps
  <2>2. CASE DeleteSharedSchedulerJob
    BY <2>2, DeleteKeeps
  <2>3. ASSUME NEW u \in Users, \/ CreateSharedSchedulerSubscription(u) \/ UpdateSharedSchedulerSubscription(u)
                               \/ DeleteSharedSchedulerSubscription(u)
        PROVE  SharedKept'
    BY <2>3, SubscriptionsKeep
  <2>4. CASE FiringLeaseLapses
    BY <2>4, FiringLapseKeeps
  <2>5. CASE SharedRunEnds
    BY <2>5, RunEndKeeps
  <2>6. ASSUME NEW s \in JobSchedulers, ClaimDueSharedSchedulerJobs(s) PROVE SharedKept'
    BY <2>6, DueKeeps
  <2>7. ASSUME NEW s \in JobSchedulers, RunSharedSchedulerJob(s) PROVE SharedKept'
    BY <2>7, SelectKeeps
  <2>8. ASSUME NEW s \in JobSchedulers, ConditionFails(s) PROVE SharedKept'
    BY <2>8, ConditionKeeps
  <2>9. ASSUME NEW s \in JobSchedulers, CreateSharedSchedulerOutbound(s) PROVE SharedKept'
    BY <2>9, OutboundKeeps
  <2>10. ASSUME NEW s \in JobSchedulers, CreateRun(s) PROVE SharedKept'
    BY <2>10, CreateRunKeeps
  <2>11. ASSUME NEW s \in JobSchedulers, CreateSharedSchedulerRunDelivery(s) PROVE SharedKept'
    BY <2>11, RunDeliveryKeeps
  <2>12. ASSUME NEW s \in JobSchedulers, RecordSharedSchedulerFire(s) PROVE SharedKept'
    BY <2>12, RecordKeeps
  <2>13. ASSUME NEW s \in JobSchedulers, CompleteSharedSchedulerJob(s) PROVE SharedKept'
    BY <2>13, CompleteJobKeeps
  <2>14. ASSUME NEW s \in JobSchedulers, PassAborts(s) PROVE SharedKept'
    BY <2>14, AbortKeeps
  <2>15. ASSUME NEW s \in JobSchedulers, ClaimCompletedSharedSchedulerRunDeliveries(s) PROVE SharedKept'
    BY <2>15, ClaimCompletedKeeps
  <2>16. ASSUME NEW s \in JobSchedulers, TakeUp(s) PROVE SharedKept'
    BY <2>16, TakeUpKeeps
  <2>17. ASSUME NEW s \in JobSchedulers, CreateSharedSchedulerDeliveryOutbound(s) PROVE SharedKept'
    BY <2>17, DeliveryOutboundKeeps
  <2>18. ASSUME NEW s \in JobSchedulers, CompleteSharedSchedulerRunDelivery(s) PROVE SharedKept'
    BY <2>18, CompleteDeliveryKeeps
  <2>19. ASSUME NEW s \in JobSchedulers, DeliveryFails(s) PROVE SharedKept'
    BY <2>19, DeliveryFailsKeeps
  <2>20. ASSUME NEW s \in JobSchedulers, CourierDies(s) PROVE SharedKept'
    BY <2>20, CourierDiesKeeps
  <2>21. CASE UNCHANGED sharedVars
    <3>1. UNCHANGED <<job, subs, pass, runs, deliveries, sharedIntents, fires, courier, sharedSpent>>
      BY <2>21 DEF sharedVars
    <3>2. SharedOnwards /\ GoneFits'
      BY <3>1 DEF SharedOnwards, SharedKept, GoneFits
    <3>3. SharedTypes' /\ SwitchFits' /\ QuietFits'
      BY <3>1 DEF SharedKept, SharedTypes, SwitchFits, QuietFits
    <3> QED
      BY <3>1, <3>2, <3>3, PassesStay, TheRestStays, RecordedFiresStay DEF SharedKept
  <2> QED
    BY <2>1, <2>2, <2>3, <2>4, <2>5, <2>6, <2>7, <2>8, <2>9, <2>10, <2>11, <2>12, <2>13, <2>14, <2>15, <2>16, <2>17,
       <2>18, <2>19, <2>20, <2>21 DEF SharedNext
<1> QED
  BY <1>1, <1>2, PTL DEF SharedSpec

\* A user gets one message of a fire.
THEOREM FiresWriteOnce == ASSUME SharedConfigured PROVE SharedSpec => []OncePerFire
<1>1. SharedKept => OncePerFire
  <2> SUFFICES ASSUME SharedKept, NEW f \in Fires, NEW u \in Users
               PROVE  /\ \A a \in Actions : sharedIntents[f][u][a] <= 1
                      /\ ~sharedSpent.switched => \E a \in Actions : sharedIntents[f][u][a] = 0
    BY DEF OncePerFire
  <2>1. \A a \in Actions : sharedIntents[f][u][a] \in {0, 1}
    BY DEF SharedKept, SharedTypes, IntentTable
  <2>2. ASSUME ~sharedSpent.switched PROVE \E a \in Actions : sharedIntents[f][u][a] = 0
    <3>1. \A a \in Actions : a # job.action => sharedIntents[f][u][a] # 1
      BY <2>2 DEF SharedKept, SwitchFits
    <3>2. \E a \in Actions : a # job.action
      BY TwoActions
    <3> QED
      BY <2>1, <3>1, <3>2
  <2> QED
    BY <2>1, <2>2
<1> QED
  BY <1>1, SharedJobsAreKept, PTL

\* A completed delivery was carried out, a recorded fire is under way, and a message
\* of a delivery is of a completed run.
THEOREM FiresAreCarriedOut ==
  ASSUME SharedConfigured
  PROVE  SharedSpec => []CompletedIsSent /\ []RecordedIsUnderWay /\ []SaidByARun
<1>1. SharedKept => CompletedIsSent /\ RecordedIsUnderWay /\ SaidByARun
  BY DEF SharedKept
<1> QED
  BY <1>1, SharedJobsAreKept, PTL

-----------------------------------------------------------------------------
(* What is remembered of users *)

UserContextSpec == UserContextInit /\ [][UserContextNext]_userVars

\* What comes before others in an order of S, and the first of them.
Ahead(S, R, i) == {j \in S \ {i} : <<j, i>> \in R}
BestOf(S, n, R) == {i \in S : Cardinality(Ahead(S, R, i)) < n}
Ranks(R, S) ==
  /\ \A i, j, k \in S : <<i, j>> \in R /\ <<j, k>> \in R => <<i, k>> \in R
  /\ \A i \in S : <<i, i>> \notin R
  /\ \A i, j \in S : i = j \/ <<i, j>> \in R \/ <<j, i>> \in R

\* Who is later has more ahead.
LEMMA AheadGrows ==
  ASSUME NEW S, IsFiniteSet(S), NEW R, Ranks(R, S)
  PROVE  /\ \A i \in S : Cardinality(Ahead(S, R, i)) \in Nat /\ Cardinality(Ahead(S, R, i)) < Cardinality(S)
         /\ \A i, j \in S : <<i, j>> \in R => Cardinality(Ahead(S, R, i)) < Cardinality(Ahead(S, R, j))
         /\ Cardinality(S) \in Nat
<1>1. ASSUME NEW i \in S
      PROVE  /\ IsFiniteSet(Ahead(S, R, i)) /\ Cardinality(Ahead(S, R, i)) \in Nat
             /\ Cardinality(Ahead(S, R, i)) < Cardinality(S) /\ Cardinality(S) \in Nat
  <2>1. IsFiniteSet(S \ {i}) /\ Cardinality(S \ {i}) = Cardinality(S) - 1 /\ Cardinality(S) \in Nat
    BY FS_RemoveElement, FS_CardinalityType
  <2>2. Ahead(S, R, i) \subseteq S \ {i}
    BY DEF Ahead
  <2> QED
    BY <2>1, <2>2, FS_Subset, FS_CardinalityType
<1>2. ASSUME NEW i \in S, NEW j \in S, <<i, j>> \in R
      PROVE  Cardinality(Ahead(S, R, i)) < Cardinality(Ahead(S, R, j))
  <2>1. i \in Ahead(S, R, j) /\ i \notin Ahead(S, R, i)
    BY <1>2 DEF Ahead, Ranks
  <2>2. Ahead(S, R, i) \subseteq Ahead(S, R, j)
    BY <1>2 DEF Ahead, Ranks
  <2> DEFINE a == Ahead(S, R, i)
  <2> DEFINE b == Ahead(S, R, j)
  <2>3. IsFiniteSet(a) /\ IsFiniteSet(b) /\ Cardinality(a) \in Nat /\ Cardinality(b) \in Nat
    BY <1>1
  <2>4. Cardinality(a) <= Cardinality(b) /\ Cardinality(a) # Cardinality(b)
    BY <2>1, <2>2, <2>3, FS_Subset
  <2> QED
    BY <2>3, <2>4
<1>3. Cardinality(S) \in Nat
  BY FS_CardinalityType
<1> QED
  BY <1>1, <1>2, <1>3

\* The first n are n, if there are as many, and none is left out that comes before one of them.
LEMMA BestAreFirst ==
  ASSUME NEW S, IsFiniteSet(S), NEW R, Ranks(R, S), NEW n \in Nat
  PROVE  /\ BestOf(S, n, R) \subseteq S
         /\ Cardinality(BestOf(S, n, R)) = IF Cardinality(S) < n THEN Cardinality(S) ELSE n
         /\ \A i \in S \ BestOf(S, n, R), j \in BestOf(S, n, R) : <<j, i>> \in R
<1> DEFINE rank == [i \in S |-> Cardinality(Ahead(S, R, i))]
<1> DEFINE c == Cardinality(S)
<1> DEFINE best == BestOf(S, n, R)
<1>1. /\ \A i \in S : rank[i] \in Nat /\ rank[i] < c
      /\ \A i, j \in S : <<i, j>> \in R => rank[i] < rank[j]
      /\ c \in Nat
  BY AheadGrows
<1>2. best = {i \in S : rank[i] < n}
  BY DEF BestOf
<1> HIDE DEF rank
<1>3. \A i \in S \ best, j \in best : <<j, i>> \in R
  <2>1. ASSUME NEW i \in S \ best, NEW j \in best PROVE <<j, i>> \in R
    <3>1. i \in S /\ j \in S /\ rank[j] < n /\ ~(rank[i] < n) /\ rank[i] \in Nat /\ rank[j] \in Nat
      BY <1>1, <1>2
    <3>2. ~(rank[i] < rank[j]) /\ i # j
      BY <3>1
    <3> QED
      BY <1>1, <3>1, <3>2 DEF Ranks
  <2> QED
    BY <2>1
<1>4. rank \in [S -> 0..(c - 1)]
  <2>1. rank = [i \in S |-> rank[i]]
    BY DEF rank
  <2> QED
    BY <1>1, <2>1
<1>5. \A i, j \in S : rank[i] = rank[j] => i = j
  <2>1. ASSUME NEW i \in S, NEW j \in S, rank[i] = rank[j], i # j PROVE FALSE
    <3>1. <<i, j>> \in R \/ <<j, i>> \in R
      BY <2>1 DEF Ranks
    <3>2. rank[i] < rank[j] \/ rank[j] < rank[i]
      BY <1>1, <3>1
    <3>3. rank[i] \in Nat /\ rank[j] \in Nat
      BY <1>1
    <3> QED
      BY ONLY <3>2, <3>3, <2>1
  <2> QED
    BY <2>1
<1>6. rank \in Injection(S, 0..(c - 1))
  BY <1>4, <1>5 DEF Injection, IsInjective
<1>7. IsFiniteSet(0..(c - 1)) /\ Cardinality(0..(c - 1)) = c
  BY SMTT(60), <1>1, FS_Interval
<1>8. rank \in Surjection(S, 0..(c - 1))
  BY <1>6, <1>7, FS_Injection
<1> DEFINE k == IF c < n THEN c ELSE n
<1> DEFINE few == [i \in best |-> rank[i]]
<1>9. k \in Nat /\ IsFiniteSet(0..(k - 1)) /\ Cardinality(0..(k - 1)) = k
  <2>1. k \in Nat
    BY <1>1
  <2> HIDE DEF k
  <2>2. 0 \in Int /\ k - 1 \in Int
    BY <2>1
  <2>3. /\ IsFiniteSet(0..(k - 1))
        /\ Cardinality(0..(k - 1)) = IF 0 > k - 1 THEN 0 ELSE (k - 1) - 0 + 1
    BY <2>2, FS_Interval
  <2> QED
    BY <2>1, <2>3
<1>10. few \in Injection(best, 0..(k - 1))
  <2>1. \A i \in best : rank[i] \in 0..(k - 1)
    BY <1>1, <1>2
  <2>2. \A i, j \in best : rank[i] = rank[j] => i = j
    BY <1>2, <1>5
  <2> QED
    BY <2>1, <2>2 DEF Injection, IsInjective
<1>11. few \in Surjection(best, 0..(k - 1))
  <2>1. \A m \in 0..(k - 1) : \E i \in best : rank[i] = m
    <3>1. ASSUME NEW m \in 0..(k - 1) PROVE \E i \in best : rank[i] = m
      <4>1. m \in 0..(c - 1) /\ m < n
        BY <1>1
      <4>2. PICK i \in S : rank[i] = m
        BY <1>8, <4>1 DEF Surjection
      <4> QED
        BY <1>2, <4>1, <4>2
    <3> QED
      BY <3>1
  <2>2. few \in [best -> 0..(k - 1)]
    BY <1>10 DEF Injection
  <2> QED
    BY <2>1, <2>2 DEF Surjection
<1>12. Cardinality(best) = k
  <2>1. IsFiniteSet(0..(k - 1))
    BY <1>9
  <2> QED
    BY <1>9, <1>10, <1>11, FS_Injection
<1>13. best \subseteq S
  BY <1>2
<1> QED
  BY <1>3, <1>12, <1>13

\* Rows, and what is asked of them together.
ProfileRow ==
  [content : Contents \cup {NoContent}, embedding : Contents \cup {NoContent},
   used : Nat, condition : Conditions \cup {"any"}]
ProfileRecord == [edited : SUBSET Ids, offered : [Ids -> Nat], lost : Nat]

\* A use that is being recorded.
Marked(i) == IF i \in marks THEN 1 ELSE 0

\* Rows that are stored have contents and a place in the order.
RowsAreStored ==
  /\ profileRows \in [Ids -> ProfileRow]
  /\ embedder \in [Ids -> Contents \cup {NoContent}]
  /\ profileHistory \in ProfileRecord /\ marks \subseteq Ids
  /\ \A i \in Ids : profileRows[i] = Absent \/ profileRows[i].content \in Contents
OrderIsKept ==
  /\ order \in Seq(Ids)
  /\ \A i \in Stored : \E k \in DOMAIN order : order[k] = i

\* What is about to be embedded, and what is, is what an unedited row says.
EmbeddingsFit ==
  \A i \in Ids \ profileHistory.edited :
    /\ embedder[i] # NoContent => profileRows[i].content = embedder[i]
    /\ profileRows[i].embedding \in {NoContent, profileRows[i].content}

\* Uses and offers agree but for the marks under way and those that failed.
UsesFit ==
  /\ \A i \in marks : profileHistory.offered[i] > 0
  /\ \A i \in Stored :
       /\ profileRows[i].used + Marked(i) <= profileHistory.offered[i]
       /\ profileHistory.lost < MaxUses =>
            profileHistory.offered[i] <= profileRows[i].used + profileHistory.lost + Marked(i)

ProfilesFit == RowsAreStored /\ OrderIsKept /\ EmbeddingsFit /\ UsesFit

\* What comes first of a set is of it.
LEMMA CandidatesAreStored ==
  ASSUME NEW q, NEW h
  PROVE  /\ RankRows(q, h) \subseteq Stored
         /\ \A n : RankMemories(q, h, n) \subseteq Stored
<1>1. RankRows(q, h) \subseteq Stored
  BY DEF RankRows, VectorCandidates, TextCandidates, UsageCandidates, FirstOf, Embedded
<1>2. ASSUME NEW n PROVE RankMemories(q, h, n) \subseteq Stored
  BY <1>1 DEF RankMemories, RankedRows, FirstOf
<1> QED
  BY <1>1, <1>2

\* What stands for none is no row's content, and a stored row is one with a content.
LEMMA StoredHaveContents ==
  ASSUME ProfilesConfigured, RowsAreStored
  PROVE  /\ \A c \in Contents : c # NoContent
         /\ \A i \in Ids : i \in Stored <=> profileRows[i].content \in Contents
         /\ \A i \in Ids : i \notin Stored => profileRows[i] = Absent /\ profileRows[i].content = NoContent
<1>1. \A c \in Contents : c # NoContent
  BY DEF ProfilesConfigured
<1>2. Absent.content = NoContent
  BY DEF Absent
<1> QED
  BY <1>1, <1>2 DEF RowsAreStored, Stored

\* An insert keeps it, by the tools and by the admin API.
LEMMA AddsKeep ==
  ASSUME ProfilesConfigured, ProfilesFit, NEW i \in Ids, NEW c \in Contents,
         NEW d \in Conditions \cup {"any"}, AddContent(i, c, d),
         \/ embedder' = [embedder EXCEPT ![i] = c]
         \/ embedder' = embedder
  PROVE  ProfilesFit'
<1>1. /\ RowsAreStored /\ OrderIsKept /\ EmbeddingsFit /\ UsesFit
      /\ \A k \in Contents : k # NoContent
      /\ \A k \in Ids : k \in Stored <=> profileRows[k].content \in Contents
      /\ \A k \in Ids : k \notin Stored => profileRows[k] = Absent /\ profileRows[k].content = NoContent
  BY StoredHaveContents DEF ProfilesFit
<1> DEFINE new == NewRow(c, d)
<1>2. /\ new \in ProfileRow /\ new.content = c /\ new.embedding = NoContent /\ new.used = 0
      /\ new # Absent
  BY <1>1 DEF NewRow, ProfileRow, Absent
<1> HIDE DEF new
<1>3. /\ profileRows[i] = Absent /\ profileHistory.offered[i] = 0 /\ i \notin profileHistory.edited
      /\ profileRows' = [profileRows EXCEPT ![i] = new]
      /\ order' = Append(order, i) /\ marks' = marks /\ profileHistory' = profileHistory
  BY DEF AddContent, new
<1>4. /\ profileRows'[i] = new
      /\ \A k \in Ids : k # i => profileRows'[k] = profileRows[k]
      /\ i \notin Stored
  BY <1>1, <1>3 DEF RowsAreStored, Stored
<1>5. /\ embedder' \in [Ids -> Contents \cup {NoContent}]
      /\ embedder'[i] \in {c, NoContent}
      /\ \A k \in Ids : k # i => embedder'[k] = embedder[k]
  BY <1>1, <1>3, <1>4 DEF RowsAreStored, EmbeddingsFit
<1>6. RowsAreStored'
  BY <1>1, <1>2, <1>3, <1>4, <1>5 DEF RowsAreStored
<1>7. OrderIsKept'
  <2>1. order' \in Seq(Ids) /\ Len(order') = Len(order) + 1 /\ order'[Len(order) + 1] = i
        /\ \A k \in DOMAIN order : k \in DOMAIN order' /\ order'[k] = order[k]
        /\ Len(order) + 1 \in DOMAIN order'
    BY <1>1, <1>3 DEF OrderIsKept
  <2>2. \A k \in Stored' : k = i \/ k \in Stored
    BY <1>3, <1>4 DEF Stored
  <2> QED
    BY <1>1, <2>1, <2>2 DEF OrderIsKept
<1>8. EmbeddingsFit'
  BY <1>1, <1>2, <1>3, <1>4, <1>5 DEF EmbeddingsFit
<1>9. UsesFit'
  <2>1. i \notin marks /\ 0 \in Nat
    BY <1>1, <1>3 DEF UsesFit
  <2>2. \A k \in Ids : Marked(k)' = Marked(k)
    BY <1>3 DEF Marked
  <2>3. \A k \in Stored' : k = i \/ k \in Stored
    BY <1>3, <1>4 DEF Stored
  <2>4. Marked(i) = 0
    BY <2>1 DEF Marked
  <2>5. ASSUME NEW k \in Stored'
        PROVE  /\ profileRows'[k].used + Marked(k)' <= profileHistory'.offered[k]
               /\ profileHistory'.lost < MaxUses =>
                    profileHistory'.offered[k] <= profileRows'[k].used + profileHistory'.lost + Marked(k)'
    <3>1. k \in Ids
      BY DEF Stored
    <3>2. CASE k = i
      <4>1. profileRows'[k].used = 0 /\ Marked(k)' = 0 /\ profileHistory'.offered[k] = 0 /\ profileHistory'.lost \in Nat
        BY <1>1, <1>2, <1>3, <1>4, <2>2, <2>4, <3>2 DEF RowsAreStored, ProfileRecord
      <4> QED
        BY ONLY <4>1
    <3>3. CASE k # i
      BY <1>1, <1>3, <1>4, <2>2, <2>3, <3>1, <3>3 DEF UsesFit
    <3> QED
      BY <3>2, <3>3
  <2> QED
    BY <1>1, <1>3, <2>5 DEF UsesFit
<1> QED
  BY <1>6, <1>7, <1>8, <1>9 DEF ProfilesFit

\* Embedding keeps it: the row that is embedded says what the tool remembered.
LEMMA EmbedsKeep ==
  ASSUME ProfilesConfigured, ProfilesFit, NEW i \in Ids, EmbedProfileToolArtifacts(i)
  PROVE  ProfilesFit'
<1>1. /\ RowsAreStored /\ OrderIsKept /\ EmbeddingsFit /\ UsesFit
      /\ \A k \in Contents : k # NoContent
      /\ \A k \in Ids : k \in Stored <=> profileRows[k].content \in Contents
      /\ \A k \in Ids : k \notin Stored => profileRows[k] = Absent /\ profileRows[k].content = NoContent
  BY StoredHaveContents DEF ProfilesFit
<1>2. /\ embedder[i] # NoContent /\ embedder' = [embedder EXCEPT ![i] = NoContent]
      /\ order' = order /\ marks' = marks /\ profileHistory' = profileHistory
      /\ embedder[i] \in Contents
  BY <1>1 DEF EmbedProfileToolArtifacts, RowsAreStored
<1>3. \/ i \in Stored /\ profileRows' = [profileRows EXCEPT ![i].embedding = embedder[i]]
      \/ profileRows' = profileRows
  BY DEF EmbedProfileToolArtifacts
<1> DEFINE new == [profileRows[i] EXCEPT !.embedding = embedder[i]]
<1>4. /\ new \in ProfileRow /\ new.content = profileRows[i].content /\ new.embedding = embedder[i]
      /\ new.used = profileRows[i].used
  BY <1>1, <1>2 DEF RowsAreStored, ProfileRow
<1>5. /\ DOMAIN profileRows = Ids
      /\ \/ i \in Stored /\ profileRows' = [profileRows EXCEPT ![i] = new]
         \/ profileRows' = profileRows
  BY <1>1, <1>3 DEF RowsAreStored
<1> HIDE DEF new
<1>6. /\ profileRows' \in [Ids -> ProfileRow]
      /\ \A k \in Ids : /\ profileRows'[k].content = profileRows[k].content
                        /\ profileRows'[k].used = profileRows[k].used
                        /\ \/ profileRows'[k] = profileRows[k]
                           \/ k = i /\ i \in Stored /\ profileRows'[k].embedding = embedder[i]
  BY <1>1, <1>4, <1>5 DEF RowsAreStored
<1>7. RowsAreStored'
  <2>1. embedder' \in [Ids -> Contents \cup {NoContent}]
    BY <1>1, <1>2 DEF RowsAreStored
  <2>2. \A k \in Ids : profileRows'[k] = Absent \/ profileRows'[k].content \in Contents
    BY <1>1, <1>6
  <2> QED
    BY <1>1, <1>2, <1>6, <2>1, <2>2 DEF RowsAreStored
<1>8. Stored' = Stored
  <2>1. \A k \in Ids : profileRows'[k] # Absent <=> profileRows'[k].content \in Contents
    BY <1>1, <1>7 DEF RowsAreStored, Absent
  <2>2. \A k \in Ids : profileRows[k] # Absent <=> profileRows[k].content \in Contents
    BY <1>1 DEF RowsAreStored, Absent
  <2> QED
    BY <1>6, <2>1, <2>2 DEF Stored
<1>9. OrderIsKept'
  BY <1>1, <1>2, <1>8 DEF OrderIsKept
<1>10. EmbeddingsFit'
  <2>1. \A k \in Ids : embedder'[k] # NoContent => embedder'[k] = embedder[k]
    BY <1>1, <1>2 DEF RowsAreStored
  <2> QED
    BY <1>1, <1>2, <1>6, <2>1 DEF EmbeddingsFit
<1>11. UsesFit'
  <2>1. \A k : Marked(k)' = Marked(k)
    BY <1>2 DEF Marked
  <2>2. Stored \subseteq Ids
    BY DEF Stored
  <2> QED
    BY <1>1, <1>2, <1>6, <1>8, <2>1, <2>2 DEF UsesFit
<1> QED
  BY <1>7, <1>9, <1>10, <1>11 DEF ProfilesFit

\* What is not taken out of a sequence stays in it.
LEMMA OthersStay ==
  ASSUME NEW S, NEW s \in Seq(S), NEW p \in DOMAIN s
  PROVE  /\ RemoveAt(s, p) \in Seq(S)
         /\ \A k \in DOMAIN s : k # p => \E j \in DOMAIN RemoveAt(s, p) : RemoveAt(s, p)[j] = s[k]
<1> DEFINE head == SubSeq(s, 1, p - 1)
<1> DEFINE tail == SubSeq(s, p + 1, Len(s))
<1>1. p \in 1..Len(s) /\ Len(s) \in Nat /\ DOMAIN s = 1..Len(s)
  OBVIOUS
<1>2. /\ head \in Seq(S) /\ Len(head) = p - 1
      /\ \A k \in 1..(p - 1) : head[k] = s[k]
  BY <1>1
<1>3. /\ tail \in Seq(S) /\ Len(tail) = Len(s) - p
      /\ \A k \in 1..(Len(s) - p) : tail[k] = s[p + k]
  <2>1. /\ \A k \in (p + 1)..Len(s) : s[k] \in S
        /\ p + 1 \in Int
    BY <1>1
  <2> QED
    BY <1>1, <2>1
<1>4. RemoveAt(s, p) = head \o tail
  BY DEF RemoveAt
<1> HIDE DEF head, tail
<1>5. /\ head \o tail \in Seq(S) /\ Len(head \o tail) = Len(head) + Len(tail)
      /\ \A k \in 1..Len(head) : (head \o tail)[k] = head[k]
      /\ \A k \in 1..Len(tail) : (head \o tail)[Len(head) + k] = tail[k]
  <2>1. \A a, b \in Seq(S) :
          /\ a \o b \in Seq(S) /\ Len(a \o b) = Len(a) + Len(b)
          /\ \A k \in 1..Len(a) : (a \o b)[k] = a[k]
          /\ \A k \in 1..Len(b) : (a \o b)[Len(a) + k] = b[k]
    OBVIOUS
  <2>2. head \in Seq(S) /\ tail \in Seq(S)
    BY <1>2, <1>3
  <2> QED
    BY ONLY <2>1, <2>2
<1>6. ASSUME NEW k \in DOMAIN s, k # p
      PROVE  \E j \in DOMAIN (head \o tail) : (head \o tail)[j] = s[k]
  <2>1. DOMAIN (head \o tail) = 1..(Len(s) - 1)
    <3>1. DOMAIN (head \o tail) = 1..Len(head \o tail)
      BY <1>5
    <3>2. \A l, m \in Nat : (m - 1) + (l - m) = l - 1
      OBVIOUS
    <3>3. Len(head \o tail) = Len(s) - 1
      BY ONLY <1>1, <1>2, <1>3, <1>5, <3>2, SMT
    <3> QED
      BY <3>1, <3>3
  <2>2. CASE k < p
    <3>1. k \in 1..Len(head) /\ k \in 1..(p - 1) /\ k \in 1..(Len(s) - 1)
      BY <1>1, <1>2, <2>2
    <3> QED
      BY <1>2, <1>5, <2>1, <3>1
  <2>3. CASE k > p
    <3>1. /\ k - p \in 1..Len(tail) /\ k - p \in 1..(Len(s) - p) /\ k - 1 \in 1..(Len(s) - 1)
          /\ Len(head) + (k - p) = k - 1 /\ p + (k - p) = k
      <4>1. \A l, m, n \in Int :
              m \in 1..l /\ n \in 1..l /\ n > m =>
                /\ n - m \in 1..(l - m) /\ n - 1 \in 1..(l - 1)
                /\ (m - 1) + (n - m) = n - 1 /\ m + (n - m) = n
        OBVIOUS
      <4>2. k \in 1..Len(s) /\ k \in Int /\ p \in Int /\ Len(s) \in Int
        BY <1>1
      <4>3. /\ k - p \in 1..(Len(s) - p) /\ k - 1 \in 1..(Len(s) - 1)
            /\ (p - 1) + (k - p) = k - 1 /\ p + (k - p) = k
        BY ONLY <1>1, <2>3, <4>1, <4>2
      <4>4. Len(head) = p - 1 /\ Len(tail) = Len(s) - p
        BY ONLY <1>2, <1>3
      <4> QED
        BY ONLY <4>3, <4>4
    <3>2. (head \o tail)[k - 1] = s[k]
      BY <1>3, <1>5, <3>1
    <3> QED
      BY <2>1, <3>1, <3>2
  <2> QED
    BY <1>1, <1>6, <2>2, <2>3
<1> QED
  BY <1>4, <1>5, <1>6

\* An edit keeps it: the embedding is of a row that counts as edited from then on.
LEMMA EditsKeep ==
  ASSUME ProfilesConfigured, ProfilesFit, NEW i \in Ids, NEW c \in Contents,
         NEW d \in Conditions \cup {"any"}, EditContent(i, c, d)
  PROVE  ProfilesFit'
<1>1. /\ RowsAreStored /\ OrderIsKept /\ EmbeddingsFit /\ UsesFit
      /\ \A k \in Contents : k # NoContent
      /\ \A k \in Ids : k \in Stored <=> profileRows[k].content \in Contents
      /\ \A k \in Ids : k \notin Stored => profileRows[k] = Absent /\ profileRows[k].content = NoContent
  BY StoredHaveContents DEF ProfilesFit
<1>2. /\ i \in Stored
      /\ profileRows' = [profileRows EXCEPT ![i].content = c, ![i].condition = d]
      /\ order' = Append(RemoveAt(order, Place(i)), i)
      /\ profileHistory' = [profileHistory EXCEPT !.edited = @ \cup {i}]
      /\ embedder' = embedder /\ marks' = marks
  BY DEF EditContent
<1> DEFINE new == [profileRows[i] EXCEPT !.content = c, !.condition = d]
<1>3. /\ new \in ProfileRow /\ new.content = c /\ new.used = profileRows[i].used
  <2>1. profileRows[i] \in ProfileRow
    BY <1>1 DEF RowsAreStored
  <2>2. \A r \in ProfileRow :
          LET n == [r EXCEPT !.content = c, !.condition = d]
          IN  n \in ProfileRow /\ n.content = c /\ n.used = r.used
    BY DEF ProfileRow
  <2> QED
    BY <2>1, <2>2
<1>4. profileRows' = [profileRows EXCEPT ![i] = new]
  BY <1>1, <1>2 DEF RowsAreStored
<1> HIDE DEF new
<1>5. /\ profileRows' \in [Ids -> ProfileRow]
      /\ profileRows'[i] = new
      /\ \A k \in Ids : k # i => profileRows'[k] = profileRows[k]
  BY <1>1, <1>3, <1>4 DEF RowsAreStored
<1>6. /\ profileHistory' \in ProfileRecord
      /\ profileHistory'.edited = profileHistory.edited \cup {i}
      /\ profileHistory'.offered = profileHistory.offered /\ profileHistory'.lost = profileHistory.lost
  BY <1>1, <1>2 DEF RowsAreStored, ProfileRecord
<1>7. RowsAreStored'
  BY <1>1, <1>2, <1>3, <1>5, <1>6 DEF RowsAreStored
<1>8. Stored' = Stored
  <2>1. new # Absent
    BY <1>1, <1>3 DEF Absent
  <2> QED
    BY <1>2, <1>5, <2>1 DEF Stored
<1>9. OrderIsKept'
  <2>1. Place(i) \in DOMAIN order /\ order[Place(i)] = i
    BY <1>1, <1>2 DEF OrderIsKept, Place
  <2> DEFINE rest == RemoveAt(order, Place(i))
  <2>2. /\ rest \in Seq(Ids)
        /\ \A k \in DOMAIN order : k # Place(i) => \E j \in DOMAIN rest : rest[j] = order[k]
    BY <1>1, <2>1, OthersStay DEF OrderIsKept
  <2> HIDE DEF rest
  <2>3. order' = Append(rest, i)
    BY <1>2 DEF rest
  <2>4. /\ order' \in Seq(Ids)
        /\ \A j \in DOMAIN rest : j \in DOMAIN order' /\ order'[j] = rest[j]
        /\ Len(rest) + 1 \in DOMAIN order' /\ order'[Len(rest) + 1] = i
    BY <2>2, <2>3
  <2>5. ASSUME NEW k \in Stored PROVE \E j \in DOMAIN order' : order'[j] = k
    <3>1. PICK m \in DOMAIN order : order[m] = k
      BY <1>1 DEF OrderIsKept
    <3>2. CASE k = i
      BY <2>4, <3>2
    <3>3. CASE k # i
      <4>1. m # Place(i)
        BY <2>1, <3>1, <3>3
      <4> QED
        BY <2>2, <2>4, <3>1, <4>1
    <3> QED
      BY <3>2, <3>3
  <2> QED
    BY <1>8, <2>4, <2>5 DEF OrderIsKept
<1>10. EmbeddingsFit'
  <2>1. \A k \in Ids \ profileHistory'.edited : k # i /\ k \notin profileHistory.edited
    BY <1>6
  <2> QED
    BY <1>1, <1>2, <1>5, <2>1 DEF EmbeddingsFit
<1>11. UsesFit'
  <2>1. \A k : Marked(k)' = Marked(k)
    BY <1>2 DEF Marked
  <2>2. Stored \subseteq Ids /\ \A k \in Ids : profileRows'[k].used = profileRows[k].used
    BY <1>3, <1>5 DEF Stored
  <2> QED
    BY <1>1, <1>2, <1>6, <1>8, <2>1, <2>2 DEF UsesFit
<1> QED
  BY <1>7, <1>9, <1>10, <1>11 DEF ProfilesFit

\* A delete keeps it; the id counts as edited and is not used again.
LEMMA DeletesKeep ==
  ASSUME ProfilesConfigured, ProfilesFit, NEW i \in Ids, DeleteMemory(i)
  PROVE  ProfilesFit'
<1>1. /\ RowsAreStored /\ OrderIsKept /\ EmbeddingsFit /\ UsesFit
  BY DEF ProfilesFit
<1>2. /\ i \in Stored
      /\ profileRows' = [profileRows EXCEPT ![i] = Absent]
      /\ order' = RemoveAt(order, Place(i))
      /\ profileHistory' = [profileHistory EXCEPT !.edited = @ \cup {i}]
      /\ embedder' = embedder /\ marks' = marks
  BY DEF DeleteMemory
<1>3. Absent \in ProfileRow
  BY DEF Absent, ProfileRow
<1>4. /\ profileRows' \in [Ids -> ProfileRow]
      /\ profileRows'[i] = Absent
      /\ \A k \in Ids : k # i => profileRows'[k] = profileRows[k]
  BY <1>1, <1>2, <1>3 DEF RowsAreStored
<1>5. /\ profileHistory' \in ProfileRecord
      /\ profileHistory'.edited = profileHistory.edited \cup {i}
      /\ profileHistory'.offered = profileHistory.offered /\ profileHistory'.lost = profileHistory.lost
  BY <1>1, <1>2 DEF RowsAreStored, ProfileRecord
<1>6. RowsAreStored'
  BY <1>1, <1>2, <1>4, <1>5 DEF RowsAreStored
<1>7. \A k \in Stored' : k \in Stored /\ k # i /\ k \in Ids
  BY <1>4 DEF Stored
<1>8. OrderIsKept'
  <2>1. Place(i) \in DOMAIN order /\ order[Place(i)] = i
    BY <1>1, <1>2 DEF OrderIsKept, Place
  <2>2. /\ order' \in Seq(Ids)
        /\ \A k \in DOMAIN order : k # Place(i) => \E j \in DOMAIN order' : order'[j] = order[k]
    BY <1>1, <1>2, <2>1, OthersStay DEF OrderIsKept
  <2>3. ASSUME NEW k \in Stored' PROVE \E j \in DOMAIN order' : order'[j] = k
    <3>1. PICK m \in DOMAIN order : order[m] = k
      BY <1>1, <1>7 DEF OrderIsKept
    <3>2. m # Place(i)
      BY <1>7, <2>1, <3>1
    <3> QED
      BY <2>2, <3>1, <3>2
  <2> QED
    BY <2>2, <2>3 DEF OrderIsKept
<1>9. EmbeddingsFit'
  <2>1. \A k \in Ids \ profileHistory'.edited : k # i /\ k \notin profileHistory.edited
    BY <1>5
  <2> QED
    BY <1>1, <1>2, <1>4, <2>1 DEF EmbeddingsFit
<1>10. UsesFit'
  <2>1. \A k : Marked(k)' = Marked(k)
    BY <1>2 DEF Marked
  <2> QED
    BY <1>1, <1>2, <1>4, <1>5, <1>7, <2>1 DEF UsesFit
<1> QED
  BY <1>6, <1>8, <1>9, <1>10 DEF ProfilesFit

\* Showing rows keeps it: what is shown is stored, and no marks are under way.
LEMMA ShownKeep ==
  ASSUME ProfilesConfigured, ProfilesFit, UserProfileContext
  PROVE  ProfilesFit'
<1>1. /\ RowsAreStored /\ OrderIsKept /\ EmbeddingsFit /\ UsesFit
  BY DEF ProfilesFit
<1>2. PICK q \in Contents, h \in BOOLEAN, season \in Conditions \ {"any"} :
        LET picks == {i \in RankMemories(q, h, OfferedMemories) : ConditionMatches(i, season)} IN
        /\ marks = {} /\ marks' = picks
        /\ profileHistory' = [profileHistory EXCEPT !.offered =
             [i \in Ids |-> IF i \in picks THEN @[i] + 1 ELSE @[i]]]
        /\ profileRows' = profileRows /\ order' = order /\ embedder' = embedder
  BY DEF UserProfileContext
<1> DEFINE picks == {i \in RankMemories(q, h, OfferedMemories) : ConditionMatches(i, season)}
<1>3. picks \subseteq Stored /\ Stored \subseteq Ids
  BY CandidatesAreStored DEF Stored
<1>4. /\ marks = {} /\ marks' = picks
      /\ profileHistory' = [profileHistory EXCEPT !.offered =
             [i \in Ids |-> IF i \in picks THEN profileHistory.offered[i] + 1 ELSE profileHistory.offered[i]]]
      /\ profileRows' = profileRows /\ order' = order /\ embedder' = embedder
  BY <1>1, <1>2 DEF RowsAreStored, ProfileRecord
<1> HIDE DEF picks
<1>5. /\ profileHistory.offered \in [Ids -> Nat] /\ profileHistory.lost \in Nat
      /\ profileRows \in [Ids -> ProfileRow] /\ \A r \in ProfileRow : r.used \in Nat
  BY <1>1 DEF RowsAreStored, ProfileRecord, ProfileRow
<1> DEFINE more == [i \in Ids |-> IF i \in picks THEN profileHistory.offered[i] + 1 ELSE profileHistory.offered[i]]
<1>6. /\ more \in [Ids -> Nat]
      /\ \A i \in picks : more[i] = profileHistory.offered[i] + 1
      /\ \A i \in Ids \ picks : more[i] = profileHistory.offered[i]
  BY <1>3, <1>5
<1> HIDE DEF more
<1>7. /\ profileHistory' \in ProfileRecord /\ profileHistory'.offered = more
      /\ profileHistory'.lost = profileHistory.lost /\ profileHistory'.edited = profileHistory.edited
  BY <1>1, <1>4, <1>6 DEF RowsAreStored, ProfileRecord, more
<1>8. Stored' = Stored
  BY <1>4 DEF Stored
<1>9. RowsAreStored' /\ OrderIsKept' /\ EmbeddingsFit'
  BY <1>1, <1>3, <1>4, <1>7, <1>8 DEF RowsAreStored, OrderIsKept, EmbeddingsFit
<1>10. UsesFit'
  <2>1. ASSUME NEW i \in Stored
        PROVE  /\ profileRows[i].used + Marked(i)' <= more[i]
               /\ profileHistory.lost < MaxUses =>
                    more[i] <= profileRows[i].used + profileHistory.lost + Marked(i)'
    <3>1. /\ profileRows[i].used \in Nat /\ profileHistory.offered[i] \in Nat /\ profileHistory.lost \in Nat
          /\ Marked(i) = 0
          /\ profileRows[i].used + Marked(i) <= profileHistory.offered[i]
          /\ profileHistory.lost < MaxUses =>
               profileHistory.offered[i] <= profileRows[i].used + profileHistory.lost + Marked(i)
      BY <1>1, <1>3, <1>4, <1>5 DEF UsesFit, Marked
    <3>2. /\ Marked(i)' \in {0, 1}
          /\ more[i] = profileHistory.offered[i] + Marked(i)'
      BY <1>3, <1>4, <1>6, <3>1 DEF Marked
    <3> QED
      BY ONLY <3>1, <3>2
  <2>2. \A i \in marks' : more[i] > 0
    BY <1>3, <1>4, <1>5, <1>6
  <2> QED
    BY <1>4, <1>7, <1>8, <2>1, <2>2 DEF UsesFit
<1> QED
  BY <1>9, <1>10 DEF ProfilesFit

\* Recording the uses keeps it, done or failed.
LEMMA MarksKeep ==
  ASSUME ProfilesConfigured, ProfilesFit, MarkMemoriesUsed
  PROVE  ProfilesFit'
<1>1. /\ RowsAreStored /\ OrderIsKept /\ EmbeddingsFit /\ UsesFit
      /\ \A k \in Contents : k # NoContent
      /\ \A k \in Ids : k \in Stored <=> profileRows[k].content \in Contents
      /\ \A k \in Ids : k \notin Stored => profileRows[k] = Absent /\ profileRows[k].content = NoContent
  BY StoredHaveContents DEF ProfilesFit
<1>2. /\ marks' = {} /\ order' = order /\ embedder' = embedder
      /\ \/ /\ profileRows' = [i \in Ids |-> IF i \in marks \cap Stored
                                          THEN [profileRows[i] EXCEPT !.used = profileRows[i].used + 1]
                                          ELSE profileRows[i]]
            /\ profileHistory' = profileHistory
         \/ /\ profileHistory' = [profileHistory EXCEPT !.lost =
                  IF profileHistory.lost < MaxUses THEN profileHistory.lost + 1 ELSE profileHistory.lost]
            /\ profileRows' = profileRows
  BY DEF MarkMemoriesUsed
<1>3. /\ profileHistory.offered \in [Ids -> Nat] /\ profileHistory.lost \in Nat
      /\ profileRows \in [Ids -> ProfileRow] /\ \A r \in ProfileRow : r.used \in Nat
      /\ MaxUses \in Nat /\ Stored \subseteq Ids
  BY <1>1 DEF RowsAreStored, ProfileRecord, ProfileRow, ProfilesConfigured, Stored
<1>4. \A i : Marked(i)' = 0
  BY <1>2 DEF Marked
<1>5. CASE /\ profileRows' = [i \in Ids |-> IF i \in marks \cap Stored
                                          THEN [profileRows[i] EXCEPT !.used = profileRows[i].used + 1]
                                          ELSE profileRows[i]]
           /\ profileHistory' = profileHistory
  <2>1. \A r \in ProfileRow :
          LET n == [r EXCEPT !.used = r.used + 1]
          IN  n \in ProfileRow /\ n.content = r.content /\ n.embedding = r.embedding /\ n.used = r.used + 1
    BY DEF ProfileRow
  <2>2. \A i \in Ids : profileRows'[i] = IF i \in marks \cap Stored
                                          THEN [profileRows[i] EXCEPT !.used = profileRows[i].used + 1]
                                          ELSE profileRows[i]
    BY <1>5
  <2>3. ASSUME NEW i \in Ids
        PROVE  /\ profileRows'[i] \in ProfileRow /\ profileRows'[i].content = profileRows[i].content
               /\ profileRows'[i].embedding = profileRows[i].embedding
               /\ i \in Stored => profileRows'[i].used = profileRows[i].used + Marked(i)
               /\ i \notin Stored => profileRows'[i] = profileRows[i]
    <3>1. profileRows[i] \in ProfileRow /\ profileRows[i].used \in Nat
      BY <1>3
    <3>2. CASE i \in marks \cap Stored
      BY <2>1, <2>2, <3>1, <3>2 DEF Marked
    <3>3. CASE i \notin marks \cap Stored
      <4>1. profileRows'[i] = profileRows[i] /\ (i \in Stored => Marked(i) = 0)
        BY <2>2, <3>3 DEF Marked
      <4> QED
        BY <3>1, <4>1
    <3> QED
      BY <3>2, <3>3
  <2>4. profileRows' \in [Ids -> ProfileRow]
    BY <1>5, <2>3
  <2>5. RowsAreStored'
    BY <1>1, <1>2, <1>5, <2>3, <2>4 DEF RowsAreStored
  <2>6. Stored' = Stored
    <3>1. \A k \in Stored : profileRows'[k].content \in Contents
      BY <1>1, <1>3, <2>3
    <3>2. Absent.content \notin Contents
      BY <1>1 DEF Absent
    <3>3. \A k \in Ids \ Stored : profileRows'[k] = Absent
      BY <1>1, <2>3
    <3> QED
      BY <1>3, <3>1, <3>2, <3>3 DEF Stored
  <2>7. OrderIsKept' /\ EmbeddingsFit'
    BY <1>1, <1>2, <1>5, <2>3, <2>6 DEF OrderIsKept, EmbeddingsFit
  <2>8. UsesFit'
    <3>1. ASSUME NEW i \in Stored
          PROVE  /\ profileRows'[i].used + 0 <= profileHistory.offered[i]
                 /\ profileHistory.lost < MaxUses =>
                      profileHistory.offered[i] <= profileRows'[i].used + profileHistory.lost + 0
      <4>1. /\ profileRows[i].used \in Nat /\ profileHistory.offered[i] \in Nat /\ profileHistory.lost \in Nat
            /\ Marked(i) \in {0, 1}
            /\ profileRows[i].used + Marked(i) <= profileHistory.offered[i]
            /\ profileHistory.lost < MaxUses =>
                 profileHistory.offered[i] <= profileRows[i].used + profileHistory.lost + Marked(i)
        BY <1>1, <1>3 DEF UsesFit, Marked
      <4>2. profileRows'[i].used = profileRows[i].used + Marked(i)
        BY <1>3, <2>3
      <4> QED
        BY ONLY <4>1, <4>2
    <3> QED
      BY <1>2, <1>4, <1>5, <2>6, <3>1 DEF UsesFit
  <2> QED
    BY <2>5, <2>7, <2>8 DEF ProfilesFit
<1>6. CASE /\ profileHistory' = [profileHistory EXCEPT !.lost =
                  IF profileHistory.lost < MaxUses THEN profileHistory.lost + 1 ELSE profileHistory.lost]
           /\ profileRows' = profileRows
  <2>1. /\ profileHistory' \in ProfileRecord /\ profileHistory'.edited = profileHistory.edited
        /\ profileHistory'.offered = profileHistory.offered /\ profileHistory'.lost \in Nat
        /\ profileHistory'.lost < MaxUses =>
             profileHistory.lost < MaxUses /\ profileHistory'.lost = profileHistory.lost + 1
    BY <1>1, <1>3, <1>6 DEF RowsAreStored, ProfileRecord
  <2>2. Stored' = Stored
    BY <1>6 DEF Stored
  <2>3. RowsAreStored' /\ OrderIsKept' /\ EmbeddingsFit'
    BY <1>1, <1>2, <1>6, <2>1, <2>2 DEF RowsAreStored, OrderIsKept, EmbeddingsFit
  <2>4. ASSUME NEW i \in Stored
        PROVE  /\ profileRows[i].used + 0 <= profileHistory.offered[i]
               /\ profileHistory'.lost < MaxUses =>
                    profileHistory.offered[i] <= profileRows[i].used + profileHistory'.lost + 0
    <3>1. /\ profileRows[i].used \in Nat /\ profileHistory.offered[i] \in Nat /\ profileHistory.lost \in Nat
          /\ Marked(i) \in {0, 1}
          /\ profileRows[i].used + Marked(i) <= profileHistory.offered[i]
          /\ profileHistory.lost < MaxUses =>
               profileHistory.offered[i] <= profileRows[i].used + profileHistory.lost + Marked(i)
      BY <1>1, <1>3 DEF UsesFit, Marked
    <3> QED
      BY ONLY <2>1, <3>1
  <2>5. UsesFit'
    BY <1>2, <1>4, <1>6, <2>1, <2>2, <2>4 DEF UsesFit
  <2> QED
    BY <2>3, <2>5 DEF ProfilesFit
<1> QED
  BY <1>2, <1>5, <1>6

\* Nothing happens, and it stays.
LEMMA IdleKeeps ==
  ASSUME ProfilesFit, UNCHANGED userVars
  PROVE  ProfilesFit'
<1>1. /\ profileRows' = profileRows /\ order' = order /\ embedder' = embedder
      /\ marks' = marks /\ profileHistory' = profileHistory
  BY DEF userVars
<1>2. Stored' = Stored /\ \A i : Marked(i)' = Marked(i)
  BY <1>1 DEF Stored, Marked
<1>3. RowsAreStored' /\ OrderIsKept' /\ EmbeddingsFit'
  BY <1>1, <1>2 DEF ProfilesFit, RowsAreStored, OrderIsKept, EmbeddingsFit
<1>4. UsesFit'
  BY <1>1, <1>2 DEF ProfilesFit, UsesFit
<1> QED
  BY <1>3, <1>4 DEF ProfilesFit

\* Rows and what is kept of them fit at every moment, whatever is remembered,
\* edited, deleted, shown and recorded, in any order.
THEOREM ProfilesAreKept ==
  ASSUME ProfilesConfigured
  PROVE  UserContextSpec => []ProfilesFit
<1>1. UserContextInit => ProfilesFit
  <2>1. ASSUME UserContextInit PROVE ProfilesFit
    <3>1. Absent \in ProfileRow /\ Absent.embedding = NoContent
      BY DEF Absent, ProfileRow
    <3>2. /\ profileRows = [i \in Ids |-> Absent] /\ order = <<>>
          /\ embedder = [i \in Ids |-> NoContent] /\ marks = {}
          /\ profileHistory = [edited |-> {}, offered |-> [i \in Ids |-> 0], lost |-> 0]
      BY <2>1 DEF UserContextInit
    <3>3. Stored = {}
      BY <3>2 DEF Stored
    <3>4. RowsAreStored
      BY <3>1, <3>2 DEF RowsAreStored, ProfileRecord
    <3>5. OrderIsKept /\ EmbeddingsFit /\ UsesFit
      BY <3>1, <3>2, <3>3 DEF OrderIsKept, EmbeddingsFit, UsesFit
    <3> QED
      BY <3>4, <3>5 DEF ProfilesFit
  <2> QED
    BY <2>1
<1>2. ProfilesFit /\ [UserContextNext]_userVars => ProfilesFit'
  <2> SUFFICES ASSUME ProfilesFit, [UserContextNext]_userVars PROVE ProfilesFit'
    OBVIOUS
  <2>1. ASSUME NEW i \in Ids, RememberTool(i) \/ CreateMemory(i) PROVE ProfilesFit'
    <3>1. PICK c \in Contents : /\ AddContent(i, c, "any")
                                /\ (embedder' = [embedder EXCEPT ![i] = c] \/ embedder' = embedder)
      BY <2>1 DEF RememberTool, CreateMemory
    <3>2. "any" \in Conditions \cup {"any"}
      OBVIOUS
    <3> QED
      BY <3>1, <3>2, AddsKeep
  <2>2. ASSUME NEW i \in Ids, SavePreferenceTool(i) \/ CreatePreference(i) PROVE ProfilesFit'
    <3>1. PICK c \in Contents, d \in Conditions :
                /\ AddContent(i, c, d)
                /\ (embedder' = [embedder EXCEPT ![i] = c] \/ embedder' = embedder)
      BY <2>2 DEF SavePreferenceTool, CreatePreference
    <3> QED
      BY <3>1, AddsKeep
  <2>3. ASSUME NEW i \in Ids, UpdateMemory(i) PROVE ProfilesFit'
    <3>1. PICK c \in Contents : EditContent(i, c, profileRows[i].condition)
      BY <2>3 DEF UpdateMemory
    <3>2. profileRows[i].condition \in Conditions \cup {"any"}
      BY DEF ProfilesFit, RowsAreStored, ProfileRow
    <3> QED
      BY <3>1, <3>2, EditsKeep
  <2>4. ASSUME NEW i \in Ids, UpdatePreference(i) PROVE ProfilesFit'
    BY <2>4, EditsKeep DEF UpdatePreference
  <2>5. ASSUME NEW i \in Ids, EmbedProfileToolArtifacts(i) PROVE ProfilesFit'
    BY <2>5, EmbedsKeep
  <2>6. ASSUME NEW i \in Ids, DeleteMemory(i) PROVE ProfilesFit'
    BY <2>6, DeletesKeep
  <2>7. CASE UserProfileContext
    BY <2>7, ShownKeep
  <2>8. CASE MarkMemoriesUsed
    BY <2>8, MarksKeep
  <2>9. CASE UNCHANGED userVars
    BY <2>9, IdleKeeps
  <2> QED
    BY <2>1, <2>2, <2>3, <2>4, <2>5, <2>6, <2>7, <2>8, <2>9 DEF UserContextNext
<1> QED
  BY <1>1, <1>2, PTL DEF UserContextSpec

\* One row before another: the score first, uses and recency after it.
ByScore(q, h) ==
  {p \in Ids \X Ids :
     \/ RelevanceScore(p[1], q, h) > RelevanceScore(p[2], q, h)
     \/ /\ RelevanceScore(p[1], q, h) = RelevanceScore(p[2], q, h)
        /\ UsedMore(p[1], p[2])}
ByUse == {p \in Ids \X Ids : UsedMore(p[1], p[2])}

\* Both put the rows that are stored into an order.
LEMMA RowsAreRanked ==
  ASSUME ProfilesFit, NEW q, NEW h \in BOOLEAN
  PROVE  Ranks(ByUse, Stored) /\ Ranks(ByScore(q, h), Stored)
<1> DEFINE score == [i \in Ids |-> RelevanceScore(i, q, h)]
<1> DEFINE use == [i \in Ids |-> profileRows[i].used]
<1> DEFINE at == [i \in Ids |-> Place(i)]
<1>1. Stored \subseteq Ids /\ \A i \in Stored : at[i] \in Nat /\ order[at[i]] = i
  <2>1. ASSUME NEW i \in Stored PROVE Place(i) \in Nat /\ order[Place(i)] = i
    <3>1. order \in Seq(Ids) /\ \E k \in DOMAIN order : order[k] = i
      BY DEF ProfilesFit, OrderIsKept
    <3>2. Place(i) \in DOMAIN order /\ order[Place(i)] = i
      BY <3>1 DEF Place
    <3> QED
      BY <3>1, <3>2
  <2>2. Stored \subseteq Ids
    BY DEF Stored
  <2> QED
    BY <2>1, <2>2
<1>2. \A i \in Stored : use[i] \in Nat
  BY <1>1 DEF ProfilesFit, RowsAreStored, ProfileRow
<1>3. \A i \in Stored : score[i] \in Nat
  <2>1. ASSUME NEW i \in Stored PROVE RelevanceScore(i, q, h) \in Nat
    <3>1. /\ VectorScore(i, q) \in Nat /\ TokenOverlapScore(i, q) \in Nat
          /\ Frequency(i) \in Nat
      BY <1>1, <1>2 DEF VectorScore, TokenOverlapScore, Frequency
    <3> QED
      BY <3>1 DEF RelevanceScore
  <2> QED
    BY <1>1, <2>1
<1>4. \A i, j \in Stored : <<i, j>> \in ByUse <=>
        use[i] > use[j] \/ (use[i] = use[j] /\ at[i] > at[j])
  BY <1>1 DEF ByUse, UsedMore
<1>5. \A i, j \in Stored : <<i, j>> \in ByScore(q, h) <=>
        score[i] > score[j] \/ (score[i] = score[j] /\ <<i, j>> \in ByUse)
  BY <1>1 DEF ByScore, ByUse
<1> HIDE DEF score, use, at
<1>6. Ranks(ByUse, Stored)
  <2>1. \A i, j \in Stored : at[i] = at[j] => i = j
    BY <1>1
  <2> QED
    BY ONLY <1>1, <1>2, <1>4, <2>1 DEF Ranks
<1>7. Ranks(ByScore(q, h), Stored)
  BY ONLY <1>3, <1>5, <1>6 DEF Ranks
<1> QED
  BY <1>6, <1>7

\* What is used most and what ranks best are the first of their orders.
LEMMA RankedAreBest ==
  ASSUME NEW q, NEW h, NEW n, NEW C \in SUBSET Stored
  PROVE  /\ RankedRows(q, h, C, n) = BestOf(C, n, ByScore(q, h))
         /\ UsageCandidates = BestOf(Stored, CandidateLimit, ByUse)
<1>1. Stored \subseteq Ids
  BY DEF Stored
<1>2. ASSUME NEW i \in C
      PROVE  {j \in C \ {i} :
                LET a == RelevanceScore(j, q, h)
                    b == RelevanceScore(i, q, h)
                IN  a > b \/ (a = b /\ UsedMore(j, i))} = Ahead(C, ByScore(q, h), i)
  BY <1>1 DEF Ahead, ByScore
<1>3. RankedRows(q, h, C, n) = BestOf(C, n, ByScore(q, h))
  BY <1>2 DEF RankedRows, FirstOf, BestOf
<1>4. ASSUME NEW i \in Stored
      PROVE  {j \in Stored \ {i} : UsedMore(j, i)} = Ahead(Stored, ByUse, i)
  BY <1>1 DEF Ahead, ByUse
<1>5. UsageCandidates = BestOf(Stored, CandidateLimit, ByUse)
  BY <1>4 DEF UsageCandidates, FirstOf, BestOf
<1> QED
  BY <1>3, <1>5

\* As long as all rows are candidates, the best are shown.
LEMMA BestAreFirstShown ==
  ASSUME ProfilesConfigured, ProfilesFit
  PROVE  BestAreShown
<1>1. SUFFICES ASSUME Cardinality(Stored) <= CandidateLimit,
                      NEW q \in Contents, NEW h \in BOOLEAN
      PROVE  LET picks == RankMemories(q, h, OfferedMemories) IN
             /\ Cardinality(picks) = IF Cardinality(Stored) < OfferedMemories
                                     THEN Cardinality(Stored) ELSE OfferedMemories
             /\ \A i \in Stored \ picks, j \in picks :
                  RelevanceScore(i, q, h) <= RelevanceScore(j, q, h)
  BY DEF BestAreShown
<1>2. IsFiniteSet(Stored) /\ Cardinality(Stored) \in Nat /\ OfferedMemories \in Nat /\ CandidateLimit \in Nat
  BY FS_Subset, FS_CardinalityType DEF Stored, ProfilesConfigured
<1>3. Ranks(ByUse, Stored) /\ Ranks(ByScore(q, h), Stored)
  BY RowsAreRanked
<1>4. UsageCandidates = Stored
  <2>1. \A i \in Stored : /\ Cardinality(Ahead(Stored, ByUse, i)) \in Nat
                          /\ Cardinality(Ahead(Stored, ByUse, i)) < Cardinality(Stored)
    BY <1>2, <1>3, AheadGrows
  <2>2. BestOf(Stored, CandidateLimit, ByUse) = Stored
    BY <1>1, <1>2, <2>1 DEF BestOf
  <2> QED
    BY <2>2, RankedAreBest
<1>5. RankRows(q, h) = Stored
  BY <1>4, CandidatesAreStored DEF RankRows
<1>6. RankMemories(q, h, OfferedMemories) = BestOf(Stored, OfferedMemories, ByScore(q, h))
  BY <1>5, RankedAreBest DEF RankMemories
<1> DEFINE picks == BestOf(Stored, OfferedMemories, ByScore(q, h))
<1>7. /\ Cardinality(picks) = IF Cardinality(Stored) < OfferedMemories
                              THEN Cardinality(Stored) ELSE OfferedMemories
      /\ \A i \in Stored \ picks, j \in picks : <<j, i>> \in ByScore(q, h)
  BY <1>2, <1>3, BestAreFirst
<1>8. \A i, j \in Ids : <<j, i>> \in ByScore(q, h) /\ profileRows[i].used \in Nat /\ profileRows[j].used \in Nat
        => RelevanceScore(i, q, h) <= RelevanceScore(j, q, h)
  <2>1. ASSUME NEW i \in Ids, profileRows[i].used \in Nat PROVE RelevanceScore(i, q, h) \in Nat
    <3>1. /\ VectorScore(i, q) \in Nat /\ TokenOverlapScore(i, q) \in Nat
          /\ Frequency(i) \in Nat
      BY <2>1 DEF VectorScore, TokenOverlapScore, Frequency
    <3> QED
      BY <3>1 DEF RelevanceScore
  <2>2. \A i, j \in Ids : <<j, i>> \in ByScore(q, h) =>
          RelevanceScore(j, q, h) > RelevanceScore(i, q, h) \/ RelevanceScore(j, q, h) = RelevanceScore(i, q, h)
    BY DEF ByScore
  <2> QED
    BY <2>1, <2>2
<1>9. \A i \in Stored : i \in Ids /\ profileRows[i].used \in Nat
  BY DEF Stored, ProfilesFit, RowsAreStored, ProfileRow
<1>10. picks \subseteq Stored
  BY DEF BestOf
<1> HIDE DEF picks
<1> QED
  BY <1>6, <1>7, <1>8, <1>9, <1>10 DEF picks

\* An unedited row's embedding is of what it says, and rows count as used as often as
\* they were shown but for the marks that are under way or failed.
THEOREM ProfilesAreTrue ==
  ASSUME ProfilesConfigured
  PROVE  UserContextSpec => []EmbeddingIsOfContent /\ []UsageIsTrue
<1>1. ProfilesFit => EmbeddingIsOfContent
  BY DEF ProfilesFit, EmbeddingsFit, EmbeddingIsOfContent, Stored
<1>2. ProfilesFit => UsageIsTrue
  <2> SUFFICES ASSUME ProfilesFit, NEW i \in Stored
               PROVE  /\ profileRows[i].used <= profileHistory.offered[i]
                      /\ profileHistory.lost < MaxUses =>
                           profileHistory.offered[i]
                             <= profileRows[i].used + profileHistory.lost + (IF i \in marks THEN 1 ELSE 0)
    BY DEF UsageIsTrue
  <2>1. /\ profileRows[i].used \in Nat /\ profileHistory.offered[i] \in Nat
        /\ Marked(i) \in {0, 1} /\ Marked(i) = IF i \in marks THEN 1 ELSE 0
    BY DEF ProfilesFit, RowsAreStored, ProfileRow, ProfileRecord, Stored, Marked
  <2>2. /\ profileRows[i].used + Marked(i) <= profileHistory.offered[i]
        /\ profileHistory.lost < MaxUses =>
             profileHistory.offered[i] <= profileRows[i].used + profileHistory.lost + Marked(i)
    BY DEF ProfilesFit, UsesFit
  <2> QED
    BY ONLY <2>1, <2>2
<1> QED
  BY <1>1, <1>2, ProfilesAreKept, PTL

\* As long as the rows are few enough to be candidates all, what a prompt leaves out is
\* not more relevant than what it holds, for any scores, uses and edits.
THEOREM BestRowsAreShown ==
  ASSUME ProfilesConfigured
  PROVE  UserContextSpec => []BestAreShown
<1>1. ProfilesFit => BestAreShown
  BY BestAreFirstShown
<1> QED
  BY <1>1, ProfilesAreKept, PTL

-----------------------------------------------------------------------------
(* Broadcasts *)

BroadcastSpec == BroadcastsInit /\ [][BroadcastsNext]_broadcastVars

Places == {"begin", "targets", "runs", "done"} \cup GenerationRuns
TargetStates ==
  {None, "generating", "processing", "channel_suppressed", "queued", "generation_failed",
   "sent_to_nexus", "delivered", "failed", "cancelled"}

\* Rows and actors; a target without a text has no intent, one that is being
\* reported has one.
TargetsFit ==
  /\ targets \subseteq Sessions /\ creator \in Places
  /\ target \in [Sessions -> TargetStates] /\ generationRun \in [Sessions -> GenerationRuns \cup {None}]
  /\ intents \in [Sessions -> Nat] /\ DOMAIN intent = Sessions
  /\ open \in [Sessions -> Reports \cup {None}]
  /\ claimed \in [Schedulers -> SUBSET Sessions]
  /\ canceller \in {"idle", "targets", "intents", "done"}
  /\ spent \in [Faults \cup {"overlap", "regress", "creating"} -> Nat]
  /\ \A s \in Sessions :
       /\ s \notin targets \/ creator = "begin" => target[s] = None
       /\ creator = "begin" => generationRun[s] = None
       /\ target[s] \in {"generating", "processing"} => s \notin Blocked
       /\ target[s] \in {None, "generating", "processing", "channel_suppressed"} => intents[s] = 0
       /\ intents[s] <= 1
       /\ intents[s] = 1 => s \in targets \ Blocked
       /\ open[s] # None => intents[s] = 1
       /\ \A w \in Schedulers : s \in claimed[w] => s \in targets /\ creator # "begin"

\* Targets fit in every state.
LEMMA TargetsKept ==
  ASSUME BroadcastConfigured
  PROVE  BroadcastSpec => []TargetsFit
<1> USE DEF BroadcastConfigured, TargetStates, Places, None
<1>1. BroadcastsInit => TargetsFit
  <2> SUFFICES ASSUME BroadcastsInit PROVE TargetsFit
    OBVIOUS
  <2>1. targets \subseteq Sessions
    BY DEF BroadcastsInit, ResolveBroadcastTargets, Latest
  <2>2. target \in [Sessions -> TargetStates] /\ generationRun \in [Sessions -> GenerationRuns \cup {None}]
    BY DEF BroadcastsInit
  <2>3. open \in [Sessions -> Reports \cup {None}] /\ claimed \in [Schedulers -> SUBSET Sessions]
    BY SMTT(60) DEF BroadcastsInit
  <2> QED
    BY <2>1, <2>2, <2>3 DEF BroadcastsInit, TargetsFit
<1>2. TargetsFit /\ [BroadcastsNext]_broadcastVars => TargetsFit'
  <2> SUFFICES ASSUME TargetsFit, [BroadcastsNext]_broadcastVars PROVE TargetsFit'
    OBVIOUS
  <2> USE DEF TargetsFit, rowVars
  <2>1. CASE CreateDirectBroadcast
    BY <2>1 DEF CreateDirectBroadcast
  <2>2. CASE InsertBroadcast
    BY <2>2 DEF InsertBroadcast
  <2>3. CASE InsertTarget
    BY <2>3 DEF InsertTarget
  <2>4. CASE TargetsInserted
    BY <2>4 DEF TargetsInserted, Allowed, Places
  <2>5. CASE CreateSystemRun
    <3>1. PICK s \in Allowed : creator' = RunOf(s)
      BY <2>5 DEF CreateSystemRun
    <3>2. creator' \in GenerationRuns
      BY <3>1 DEF RunOf, GenerationRuns, Allowed
    <3> QED
      BY <2>5, <3>2 DEF CreateSystemRun
  <2>6. CASE LinkRun
    BY <2>6 DEF LinkRun, Allowed, Places
  <2>7. CASE FailBroadcastGeneration
    BY <2>7 DEF FailBroadcastGeneration, Spend
  <2>8. CASE CreatorDies
    BY <2>8 DEF CreatorDies, Spend, Places
  <2>9. CASE RunEnds
    BY <2>9 DEF RunEnds
  <2>10. ASSUME NEW w \in Schedulers, ClaimCompletedGenerations(w) PROVE TargetsFit'
    BY <2>10 DEF ClaimCompletedGenerations, ClaimableTargets, Ended
  <2>11. ASSUME NEW w \in Schedulers, SchedulerDies(w) PROVE TargetsFit'
    BY <2>11 DEF SchedulerDies, Spend
  <2>12. ASSUME NEW w \in Schedulers, NEW s \in Sessions, CreateGenerationOutbound(w, s) PROVE TargetsFit'
    BY <2>12 DEF CreateGenerationOutbound, Drop
  <2>13. ASSUME NEW w \in Schedulers, NEW s \in Sessions, CompleteGenerationDelivery(w, s) PROVE TargetsFit'
    <3>1. s \in claimed[w] /\ target' = [target EXCEPT ![s] = "generation_failed"]
      BY <2>13 DEF CompleteGenerationDelivery
    <3>2. claimed' \in [Schedulers -> SUBSET Sessions] /\ \A v \in Schedulers : claimed'[v] \subseteq claimed[v]
      BY <2>13 DEF CompleteGenerationDelivery, Drop
    <3>3. spent' \in [Faults \cup {"overlap", "regress", "creating"} -> Nat]
      BY <2>13 DEF CompleteGenerationDelivery, Overwriting
    <3>4. UNCHANGED <<targets, creator, generationRun, intents, intent, open, canceller>>
      BY <2>13 DEF CompleteGenerationDelivery
    <3> QED
      BY <3>1, <3>2, <3>3, <3>4
  <2>14. ASSUME NEW s \in Sessions, Ages(s) PROVE TargetsFit'
    BY <2>14 DEF Ages, Spend
  <2>15. ASSUME NEW s \in Sessions, CommitStatus(s) PROVE TargetsFit'
    <3>1. open[s] # None /\ target' = [target EXCEPT ![s] = open[s]] /\ open' = [open EXCEPT ![s] = None]
      BY <2>15 DEF CommitStatus, Seen
    <3>2. DOMAIN intent' = Sessions
      BY <2>15 DEF CommitStatus
    <3>3. UNCHANGED <<targets, creator, generationRun, intents, claimed, canceller, spent>>
      BY <2>15 DEF CommitStatus
    <3>4. open[s] \in {"sent_to_nexus", "delivered", "failed", "cancelled"} /\ open[s] \in TargetStates
      BY <3>1
    <3>5. target' \in [Sessions -> TargetStates]
      BY <3>1, <3>4
    <3> QED
      BY <3>1, <3>2, <3>3, <3>4, <3>5
  <2>16. ASSUME NEW s \in Sessions, NEW report \in Reports, SetOutboundIntentStatus(s, report) PROVE TargetsFit'
    BY <2>16 DEF SetOutboundIntentStatus
  <2>17. CASE CancelBroadcast
    BY <2>17 DEF CancelBroadcast
  <2>18. CASE CancelTargets
    BY <2>18 DEF CancelTargets
  <2>19. CASE CancelIntents
    BY <2>19 DEF CancelIntents
  <2>20. CASE UNCHANGED broadcastVars
    BY <2>20 DEF broadcastVars
  <2> QED
    BY <2>1, <2>2, <2>3, <2>4, <2>5, <2>6, <2>7, <2>8, <2>9, <2>10, <2>11, <2>12, <2>13,
       <2>14, <2>15, <2>16, <2>17, <2>18, <2>19, <2>20
       DEF BroadcastsNext
<1> QED
  BY <1>1, <1>2, PTL DEF BroadcastSpec

\* Claims lapse and are taken over, but a target is sent to once.
THEOREM SentOnce ==
  ASSUME BroadcastConfigured
  PROVE  BroadcastSpec => []OneIntentPerTarget
<1>1. TargetsFit => OneIntentPerTarget
  BY DEF TargetsFit, OneIntentPerTarget
<1> QED
  BY <1>1, TargetsKept, PTL

\* What generates has a run that will end it, unless its creator died.
THEOREM WhatGeneratesEnds ==
  ASSUME BroadcastConfigured
  PROVE  BroadcastSpec => []GenerationEnds
<1> USE DEF BroadcastConfigured, TargetStates, Places, None
<1>1. BroadcastsInit => GenerationEnds
  BY DEF BroadcastsInit, GenerationEnds
<1>2. TargetsFit /\ GenerationEnds /\ [BroadcastsNext]_broadcastVars => GenerationEnds'
  <2> SUFFICES ASSUME TargetsFit, GenerationEnds, [BroadcastsNext]_broadcastVars PROVE GenerationEnds'
    OBVIOUS
  <2> USE DEF TargetsFit, GenerationEnds, rowVars
  <2>1. CASE CreateDirectBroadcast
    BY <2>1 DEF CreateDirectBroadcast
  <2>2. CASE InsertBroadcast
    BY <2>2 DEF InsertBroadcast
  <2>3. CASE InsertTarget
    BY <2>3 DEF InsertTarget
  <2>4. CASE TargetsInserted
    BY <2>4 DEF TargetsInserted, Allowed, Places
  <2>5. CASE CreateSystemRun
    <3>1. PICK s \in Allowed : creator' = RunOf(s) /\ generationRun' = generationRun
      BY <2>5 DEF CreateSystemRun
    <3>2. creator' \in GenerationRuns
      BY <3>1 DEF RunOf, GenerationRuns, Allowed
    <3> QED
      BY <2>5, <3>2 DEF CreateSystemRun
  <2>6. CASE LinkRun
    BY <2>6 DEF LinkRun, Allowed, Places
  <2>7. CASE FailBroadcastGeneration
    BY <2>7 DEF FailBroadcastGeneration, Spend
  <2>8. CASE CreatorDies
    BY <2>8 DEF CreatorDies, Spend, Places
  <2>9. CASE RunEnds
    BY <2>9 DEF RunEnds
  <2>10. ASSUME NEW w \in Schedulers, ClaimCompletedGenerations(w) PROVE GenerationEnds'
    BY <2>10 DEF ClaimCompletedGenerations, ClaimableTargets, Ended
  <2>11. ASSUME NEW w \in Schedulers, SchedulerDies(w) PROVE GenerationEnds'
    BY <2>11 DEF SchedulerDies, Spend
  <2>12. ASSUME NEW w \in Schedulers, NEW s \in Sessions, CreateGenerationOutbound(w, s) PROVE GenerationEnds'
    BY <2>12 DEF CreateGenerationOutbound, Drop
  <2>13. ASSUME NEW w \in Schedulers, NEW s \in Sessions, CompleteGenerationDelivery(w, s) PROVE GenerationEnds'
    BY <2>13 DEF CompleteGenerationDelivery, Drop, Overwriting
  <2>14. ASSUME NEW s \in Sessions, Ages(s) PROVE GenerationEnds'
    BY <2>14 DEF Ages, Spend
  <2>15. ASSUME NEW s \in Sessions, CommitStatus(s) PROVE GenerationEnds'
    BY <2>15 DEF CommitStatus, Seen, BroadcastBecomes, AllIn
  <2>16. ASSUME NEW s \in Sessions, NEW report \in Reports, SetOutboundIntentStatus(s, report) PROVE GenerationEnds'
    BY <2>16 DEF SetOutboundIntentStatus
  <2>17. CASE CancelBroadcast
    BY <2>17 DEF CancelBroadcast
  <2>18. CASE CancelTargets
    BY <2>18 DEF CancelTargets
  <2>19. CASE CancelIntents
    BY <2>19 DEF CancelIntents
  <2>20. CASE UNCHANGED broadcastVars
    BY <2>20 DEF broadcastVars
  <2> QED
    BY <2>1, <2>2, <2>3, <2>4, <2>5, <2>6, <2>7, <2>8, <2>9, <2>10, <2>11, <2>12, <2>13,
       <2>14, <2>15, <2>16, <2>17, <2>18, <2>19, <2>20
       DEF BroadcastsNext
<1> QED
  BY <1>1, <1>2, TargetsKept, PTL DEF BroadcastSpec

\* A cancellation of a broadcast that was created finds it all, and leaves nothing
\* from which an intent could be queued.
Cancelled ==
  spent["creating"] = 0 =>
    /\ canceller # "idle" => creator = "done"
    /\ canceller \in {"intents", "done"} =>
         \A s \in Sessions : target[s] \notin {"generating", "processing", "queued"}
    /\ CancelledStays

\* Nothing is left to be sent, and nothing becomes so, after a cancellation of a
\* broadcast that was created.
THEOREM CancellationHolds ==
  ASSUME BroadcastConfigured
  PROVE  BroadcastSpec => []CancelledStays
<1> USE DEF BroadcastConfigured, TargetStates, Places, None
<1>1. BroadcastsInit => Cancelled
  BY DEF BroadcastsInit, Cancelled, CancelledStays
<1>2. TargetsFit /\ Cancelled /\ [BroadcastsNext]_broadcastVars => Cancelled'
  <2> SUFFICES ASSUME TargetsFit, Cancelled, [BroadcastsNext]_broadcastVars PROVE Cancelled'
    OBVIOUS
  <2> USE DEF TargetsFit, Cancelled, CancelledStays, rowVars
  <2>1. CASE CreateDirectBroadcast
    BY <2>1 DEF CreateDirectBroadcast
  <2>2. CASE InsertBroadcast
    BY <2>2 DEF InsertBroadcast
  <2>3. CASE InsertTarget
    BY <2>3 DEF InsertTarget
  <2>4. CASE TargetsInserted
    BY <2>4 DEF TargetsInserted, Allowed, Places
  <2>5. CASE CreateSystemRun
    BY <2>5 DEF CreateSystemRun
  <2>6. CASE LinkRun
    BY <2>6 DEF LinkRun, Allowed, Places
  <2>7. CASE FailBroadcastGeneration
    BY <2>7 DEF FailBroadcastGeneration, Spend
  <2>8. CASE CreatorDies
    BY <2>8 DEF CreatorDies, Spend, Places
  <2>9. CASE RunEnds
    BY <2>9 DEF RunEnds
  <2>10. ASSUME NEW w \in Schedulers, ClaimCompletedGenerations(w) PROVE Cancelled'
    BY <2>10 DEF ClaimCompletedGenerations, ClaimableTargets, Ended
  <2>11. ASSUME NEW w \in Schedulers, SchedulerDies(w) PROVE Cancelled'
    BY <2>11 DEF SchedulerDies, Spend
  <2>12. ASSUME NEW w \in Schedulers, NEW s \in Sessions, CreateGenerationOutbound(w, s) PROVE Cancelled'
    BY <2>12 DEF CreateGenerationOutbound, Drop
  <2>13. ASSUME NEW w \in Schedulers, NEW s \in Sessions, CompleteGenerationDelivery(w, s) PROVE Cancelled'
    BY <2>13 DEF CompleteGenerationDelivery, Drop, Overwriting
  <2>14. ASSUME NEW s \in Sessions, Ages(s) PROVE Cancelled'
    BY <2>14 DEF Ages, Spend
  <2>15. ASSUME NEW s \in Sessions, CommitStatus(s) PROVE Cancelled'
    BY <2>15 DEF CommitStatus, Seen, BroadcastBecomes, AllIn
  <2>16. ASSUME NEW s \in Sessions, NEW report \in Reports, SetOutboundIntentStatus(s, report) PROVE Cancelled'
    BY <2>16 DEF SetOutboundIntentStatus
  <2>17. CASE CancelBroadcast
    BY <2>17 DEF CancelBroadcast
  <2>18. CASE CancelTargets
    BY <2>18 DEF CancelTargets
  <2>19. CASE CancelIntents
    BY <2>19 DEF CancelIntents
  <2>20. CASE UNCHANGED broadcastVars
    BY <2>20 DEF broadcastVars
  <2> QED
    BY <2>1, <2>2, <2>3, <2>4, <2>5, <2>6, <2>7, <2>8, <2>9, <2>10, <2>11, <2>12, <2>13,
       <2>14, <2>15, <2>16, <2>17, <2>18, <2>19, <2>20
       DEF BroadcastsNext
<1>3. TargetsFit /\ Cancelled => CancelledStays
  BY DEF TargetsFit, Cancelled, CancelledStays
<1> QED
  BY <1>1, <1>2, <1>3, TargetsKept, PTL DEF BroadcastSpec

\* How far the creation is and what follows from it: nothing is sent before every
\* target has its row, and what has no run yet generates.
CreationGoes ==
  /\ creator \in {"begin", "targets"} =>
       \A s \in Sessions : intents[s] = 0 /\ generationRun[s] = None
  /\ (\E s \in targets : target[s] = None) =>
       \A s \in Sessions : intents[s] = 0 /\ generationRun[s] = None
  /\ creator \in {"runs"} \cup GenerationRuns =>
       /\ \A s \in targets : target[s] # None
       /\ \E s \in Allowed : generationRun[s] = None
  /\ creator # "done" => \A s \in Sessions : intents[s] = 1 => generationRun[s] # None
  /\ \A w \in Schedulers : \A s \in claimed[w] : generationRun[s] # None
  /\ \A s \in Sessions : target[s] = "channel_suppressed" => s \in Blocked
  /\ canceller = "idle" =>
       /\ creator \in {"begin", "targets"} =>
            \A s \in targets : target[s] \in {None, "generating", "channel_suppressed"}
       /\ creator \in {"runs"} \cup GenerationRuns =>
            \A s \in Allowed : generationRun[s] = None => target[s] = "generating"

\* Reports are written one at a time, each over what came before it, and the
\* broadcast says what its targets do.
ReportsFit ==
  canceller = "idle" /\ spent["overlap"] = 0 /\ spent["regress"] = 0 =>
    /\ \A s \in Sessions : open[s] # None =>
         target[s] \notin {"delivered", "cancelled"} /\ \A t \in Sessions \ {s} : open[t] = None
    /\ status = "delivered" =>
         \A s \in targets :
           target[s] \in {"delivered", "cancelled", "channel_suppressed"}
    /\ (\A s \in targets : target[s] \in {"delivered", "channel_suppressed"}) =>
         status = "delivered" \/ \A s \in targets : target[s] = "channel_suppressed"

\* The creation goes so in every state.
LEMMA CreationKept ==
  ASSUME BroadcastConfigured
  PROVE  BroadcastSpec => []CreationGoes
<1> USE DEF BroadcastConfigured, TargetStates, Places, None
<1>1. BroadcastsInit => CreationGoes
  <2>1. BroadcastsInit => targets \subseteq Sessions
    BY SMTT(60) DEF BroadcastsInit, ResolveBroadcastTargets, Latest
  <2> QED
    BY <2>1 DEF BroadcastsInit, CreationGoes, Allowed
<1>2. TargetsFit /\ CreationGoes /\ [BroadcastsNext]_broadcastVars => CreationGoes'
  <2> SUFFICES ASSUME TargetsFit, CreationGoes, [BroadcastsNext]_broadcastVars PROVE CreationGoes'
    OBVIOUS
  <2> USE DEF TargetsFit, CreationGoes, Allowed, rowVars
  <2>1. CASE CreateDirectBroadcast
    BY <2>1 DEF CreateDirectBroadcast
  <2>2. CASE InsertBroadcast
    BY <2>2 DEF InsertBroadcast
  <2>3. CASE InsertTarget
    BY <2>3 DEF InsertTarget
  <2>4. CASE TargetsInserted
    BY <2>4 DEF TargetsInserted, Allowed, Places
  <2>5. CASE CreateSystemRun
    <3>1. PICK s \in Allowed : creator' = RunOf(s) /\ generationRun' = generationRun
      BY <2>5 DEF CreateSystemRun
    <3>2. creator' \in GenerationRuns
      BY <3>1 DEF RunOf, GenerationRuns, Allowed
    <3> QED
      BY <2>5, <3>2 DEF CreateSystemRun
  <2>6. CASE LinkRun
    BY <2>6 DEF LinkRun, Allowed, Places
  <2>7. CASE FailBroadcastGeneration
    BY <2>7 DEF FailBroadcastGeneration, Spend
  <2>8. CASE CreatorDies
    BY <2>8 DEF CreatorDies, Spend, Places
  <2>9. CASE RunEnds
    BY <2>9 DEF RunEnds
  <2>10. ASSUME NEW w \in Schedulers, ClaimCompletedGenerations(w) PROVE CreationGoes'
    BY <2>10 DEF ClaimCompletedGenerations, ClaimableTargets, Ended
  <2>11. ASSUME NEW w \in Schedulers, SchedulerDies(w) PROVE CreationGoes'
    BY <2>11 DEF SchedulerDies, Spend
  <2>12. ASSUME NEW w \in Schedulers, NEW s \in Sessions, CreateGenerationOutbound(w, s) PROVE CreationGoes'
    BY <2>12 DEF CreateGenerationOutbound, Drop
  <2>13. ASSUME NEW w \in Schedulers, NEW s \in Sessions, CompleteGenerationDelivery(w, s) PROVE CreationGoes'
    BY <2>13 DEF CompleteGenerationDelivery, Drop, Overwriting
  <2>14. ASSUME NEW s \in Sessions, Ages(s) PROVE CreationGoes'
    BY <2>14 DEF Ages, Spend
  <2>15. ASSUME NEW s \in Sessions, CommitStatus(s) PROVE CreationGoes'
    BY <2>15 DEF CommitStatus, Seen, BroadcastBecomes, AllIn
  <2>16. ASSUME NEW s \in Sessions, NEW report \in Reports, SetOutboundIntentStatus(s, report) PROVE CreationGoes'
    BY <2>16 DEF SetOutboundIntentStatus
  <2>17. CASE CancelBroadcast
    BY <2>17 DEF CancelBroadcast
  <2>18. CASE CancelTargets
    BY <2>18 DEF CancelTargets
  <2>19. CASE CancelIntents
    BY <2>19 DEF CancelIntents
  <2>20. CASE UNCHANGED broadcastVars
    BY <2>20 DEF broadcastVars
  <2> QED
    BY <2>1, <2>2, <2>3, <2>4, <2>5, <2>6, <2>7, <2>8, <2>9, <2>10, <2>11, <2>12, <2>13,
       <2>14, <2>15, <2>16, <2>17, <2>18, <2>19, <2>20
       DEF BroadcastsNext
<1> QED
  BY <1>1, <1>2, TargetsKept, PTL DEF BroadcastSpec

\* A broadcast is delivered if and only if its targets are, up to what the property
\* names.
THEOREM DeliveredIsDelivered ==
  ASSUME BroadcastConfigured
  PROVE  BroadcastSpec => []DeliveredMeansAll
<1> USE DEF BroadcastConfigured, TargetStates, Places, None
<1>1. BroadcastsInit => ReportsFit
  <2>1. BroadcastsInit => targets \subseteq Sessions
    BY SMTT(60) DEF BroadcastsInit, ResolveBroadcastTargets, Latest
  <2> QED
    BY SMTT(60), <2>1 DEF BroadcastsInit, ReportsFit, Allowed
<1>2. TargetsFit /\ CreationGoes /\ ReportsFit /\ [BroadcastsNext]_broadcastVars => ReportsFit'
  <2> SUFFICES ASSUME TargetsFit, CreationGoes, ReportsFit, [BroadcastsNext]_broadcastVars PROVE ReportsFit'
    OBVIOUS
  <2> USE DEF TargetsFit, CreationGoes, ReportsFit, Allowed, rowVars
  <2>1. CASE CreateDirectBroadcast
    BY SMTT(60), <2>1 DEF CreateDirectBroadcast
  <2>2. CASE InsertBroadcast
    BY <2>2 DEF InsertBroadcast
  <2>3. CASE InsertTarget
    BY <2>3 DEF InsertTarget
  <2>4. CASE TargetsInserted
    BY <2>4 DEF TargetsInserted, Allowed, Places
  <2>5. CASE CreateSystemRun
    BY <2>5 DEF CreateSystemRun, Allowed, RunOf, GenerationRuns, Places
  <2>6. CASE LinkRun
    BY <2>6 DEF LinkRun, Allowed, Places
  <2>7. CASE FailBroadcastGeneration
    BY SMTT(60), <2>7 DEF FailBroadcastGeneration, Spend
  <2>8. CASE CreatorDies
    BY <2>8 DEF CreatorDies, Spend, Places
  <2>9. CASE RunEnds
    BY <2>9 DEF RunEnds
  <2>10. ASSUME NEW w \in Schedulers, ClaimCompletedGenerations(w) PROVE ReportsFit'
    BY <2>10 DEF ClaimCompletedGenerations, ClaimableTargets, Ended
  <2>11. ASSUME NEW w \in Schedulers, SchedulerDies(w) PROVE ReportsFit'
    BY <2>11 DEF SchedulerDies, Spend
  <2>12. ASSUME NEW w \in Schedulers, NEW s \in Sessions, CreateGenerationOutbound(w, s) PROVE ReportsFit'
    BY <2>12 DEF CreateGenerationOutbound, Drop
  <2>13. ASSUME NEW w \in Schedulers, NEW s \in Sessions, CompleteGenerationDelivery(w, s) PROVE ReportsFit'
    BY <2>13 DEF CompleteGenerationDelivery, Drop, Overwriting
  <2>14. ASSUME NEW s \in Sessions, Ages(s) PROVE ReportsFit'
    BY <2>14 DEF Ages, Spend
  <2>15. ASSUME NEW s \in Sessions, CommitStatus(s) PROVE ReportsFit'
    BY <2>15 DEF CommitStatus, Seen, BroadcastBecomes, AllIn
  <2>16. ASSUME NEW s \in Sessions, NEW report \in Reports, SetOutboundIntentStatus(s, report) PROVE ReportsFit'
    BY <2>16 DEF SetOutboundIntentStatus
  <2>17. CASE CancelBroadcast
    BY <2>17 DEF CancelBroadcast
  <2>18. CASE CancelTargets
    BY <2>18 DEF CancelTargets
  <2>19. CASE CancelIntents
    BY <2>19 DEF CancelIntents
  <2>20. CASE UNCHANGED broadcastVars
    BY <2>20 DEF broadcastVars
  <2> QED
    BY <2>1, <2>2, <2>3, <2>4, <2>5, <2>6, <2>7, <2>8, <2>9, <2>10, <2>11, <2>12, <2>13,
       <2>14, <2>15, <2>16, <2>17, <2>18, <2>19, <2>20
       DEF BroadcastsNext
<1>3. ReportsFit => DeliveredMeansAll
  BY DEF ReportsFit, DeliveredMeansAll
<1> QED
  BY <1>1, <1>2, <1>3, TargetsKept, CreationKept, PTL DEF BroadcastSpec

-----------------------------------------------------------------------------
(* The services together *)

\* DelegationsHonoured holds: the parent is told of every child once and truly, and
\* each mention is delegated once for each of its executions.
THEOREM DelegationsAreHonoured == Spec => []DelegationsHonoured
<1>1. Init /\ Plays("delegations") => DelegationInit
  BY SMTT(60) DEF Init, DelegationsBegins, Plays
<1>2. Plays("delegations") /\ [Next]_allVars => [DelegationNext]_delegationVars
  BY DEF Next, Of, allVars, Plays
<1>3. DelegationSpec => []ParentIsTold /\ []DelegatedOnce
  BY ParentHears, DelegatesOnce, ServicesAssumption
<1>4. /\ ~Plays("delegations") => DelegationsHonoured
      /\ ParentIsTold /\ DelegatedOnce => DelegationsHonoured
  BY DEF DelegationsHonoured, Plays
<1>5. [Next]_allVars => (Plays("delegations") <=> Plays("delegations")')
  BY PartStays DEF Parts
<1> QED
  BY <1>1, <1>2, <1>3, <1>4, <1>5, PTL DEF Spec, DelegationSpec

\* RecommendationsSound holds: a message has one recommendation up to what the
\* property names, and what is shown is on record.
THEOREM RecommendationsAreSound == Spec => []RecommendationsSound
<1>1. Init /\ Plays("recommend") => RecommendationInit
  BY SMTT(60) DEF Init, RecommendBegins, Plays
<1>2. Plays("recommend") /\ [Next]_allVars => [RecommendationNext]_recommendationVars
  BY DEF Next, Of, allVars, Plays
<1>3. RecommendationSpec => []OneRecommendation /\ []ShownIsRecorded
  BY RecommendedOnce, ShownIsOnRecord, ServicesAssumption
<1>4. /\ ~Plays("recommend") => RecommendationsSound
      /\ OneRecommendation /\ ShownIsRecorded => RecommendationsSound
  BY DEF RecommendationsSound, Plays
<1>5. [Next]_allVars => (Plays("recommend") <=> Plays("recommend")')
  BY PartStays DEF Parts
<1> QED
  BY <1>1, <1>2, <1>3, <1>4, <1>5, PTL DEF Spec, RecommendationSpec

\* BackgroundSound holds: the monitor counts once and keeps what it knew, and the
\* evaluator corrects what was asked, looks into what is suspicious, and its rows
\* tell what was sent and who works, but for rows that a death or a lost write left.
THEOREM BackgroundIsSound == Spec => []BackgroundSound
<1>1. /\ Init /\ Plays("monitor") => MonitorInit
      /\ Init /\ Plays("evaluate") => EvaluationsInit
  BY DEF Init, MonitorBegins, EvaluateBegins, Plays
<1>2. /\ Plays("monitor") /\ [Next]_allVars => [MonitorNext]_monitorVars
      /\ Plays("evaluate") /\ [Next]_allVars => [EvaluationsNext]_evaluationVars
  BY DEF Next, Of, allVars, Plays
<1>3. MonitorSpec => []PatternCountsOnce /\ []FactsKept
  BY PatternsCountOnce, FactsAreKept, ServicesAssumption
<1>4. EvaluationSpec => []RepairsBounded /\ []UnaskedIsSuspicious /\ []RunningIsInHand /\ []RecordedRepairHappened
  BY CorrectionsAreFew, EvaluatedOnSuspicion, RunningIsHeld, RecordedCorrectionsHappened, ServicesAssumption
<1>5. /\ ~Plays("monitor") /\ ~Plays("evaluate") => BackgroundSound
      /\ Plays("monitor") /\ PatternCountsOnce /\ FactsKept => BackgroundSound
      /\ Plays("evaluate") /\ RepairsBounded /\ UnaskedIsSuspicious /\ RunningIsInHand /\ RecordedRepairHappened =>
           BackgroundSound
  BY DEF BackgroundSound, Plays
<1>6. [Next]_allVars => /\ Plays("monitor") <=> Plays("monitor")'
                        /\ Plays("evaluate") <=> Plays("evaluate")'
  BY PartStays DEF Parts
<1> QED
  BY <1>1, <1>2, <1>3, <1>4, <1>5, <1>6, PTL DEF Spec, MonitorSpec, EvaluationSpec

\* DispatchSound holds: a broadcast sends to a target once and is delivered when its
\* targets are, and a fire of a shared job writes to a user once and is recorded as it
\* went.
THEOREM DispatchIsSound == Spec => []DispatchSound
<1>1. /\ Init /\ Plays("broadcast") => BroadcastsInit
      /\ Init /\ Plays("shared") => SharedInit
  BY DEF Init, BroadcastBegins, SharedBegins, Plays
<1>2. /\ Plays("broadcast") /\ [Next]_allVars => [BroadcastsNext]_broadcastVars
      /\ Plays("shared") /\ [Next]_allVars => [SharedNext]_sharedVars
  BY DEF Next, Of, allVars, Plays
<1>3. BroadcastSpec => []OneIntentPerTarget /\ []DeliveredMeansAll /\ []GenerationEnds /\ []CancelledStays
  BY SentOnce, DeliveredIsDelivered, WhatGeneratesEnds, CancellationHolds, ServicesAssumption
<1>4. SharedSpec => []OncePerFire /\ []CompletedIsSent /\ []RecordedIsUnderWay /\ []SaidByARun
  BY FiresWriteOnce, FiresAreCarriedOut, ServicesAssumption
<1>5. /\ ~Plays("broadcast") /\ ~Plays("shared") => DispatchSound
      /\ Plays("broadcast") /\ OneIntentPerTarget /\ DeliveredMeansAll /\ GenerationEnds /\ CancelledStays => DispatchSound
      /\ Plays("shared") /\ OncePerFire /\ CompletedIsSent /\ RecordedIsUnderWay /\ SaidByARun => DispatchSound
  BY DEF DispatchSound, Plays
<1>6. [Next]_allVars => /\ Plays("broadcast") <=> Plays("broadcast")'
                        /\ Plays("shared") <=> Plays("shared")'
  BY PartStays DEF Parts
<1> QED
  BY <1>1, <1>2, <1>3, <1>4, <1>5, <1>6, PTL DEF Spec, BroadcastSpec, SharedSpec

\* ProfileSound holds: embeddings, uses and the choice of what a prompt holds are those
\* of the rows that are stored.
THEOREM ProfileIsSound == Spec => []ProfileSound
<1>1. Init /\ Plays("user") => UserContextInit
  BY SMTT(60) DEF Init, UserBegins, Plays
<1>2. Plays("user") /\ [Next]_allVars => [UserContextNext]_userVars
  BY DEF Next, Of, allVars, Plays
<1>3. UserContextSpec => []EmbeddingIsOfContent /\ []UsageIsTrue /\ []BestAreShown
  BY ProfilesAreTrue, BestRowsAreShown, ServicesAssumption
<1>4. /\ ~Plays("user") => ProfileSound
      /\ Plays("user") /\ EmbeddingIsOfContent /\ UsageIsTrue /\ BestAreShown => ProfileSound
  BY DEF ProfileSound, Plays
<1>5. [Next]_allVars => (Plays("user") <=> Plays("user")')
  BY PartStays DEF Parts
<1> QED
  BY <1>1, <1>2, <1>3, <1>4, <1>5, PTL DEF Spec, UserContextSpec

=============================================================================
