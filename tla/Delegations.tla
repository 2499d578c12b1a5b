---------------------------- MODULE Delegations ----------------------------
(***************************************************************************)
(* A message that mentions other agents: for each of them the parent run   *)
(* creates a session with a background run, and answers that it did.  When *)
(* a child run ends, its worker writes the delegation's status and tells   *)
(* the parent's session, in statements of their own.                       *)
(***************************************************************************)
EXTENDS Naturals, Sequences, FiniteSets

CONSTANTS
  Mentions,    \* the handles of the message, in order and without repetitions
  MaxMentions, \* the profile's max_mentions_per_message
  Delegable,   \* the handles that are registered, enabled, allowed, of another agent
  Children,    \* bound: identities of child runs
  FaultLimits       \* how often each fault may happen

VARIABLES
  parent,      \* where the parent run's worker is, and how often it died
  childState,  \* runs.state of a child
  delegation,  \* agent_delegations: its handle and status
  hand,        \* where the worker of a child is
  told,        \* what the parent's session was told of a child
  disturbed,   \* children that a named fault has struck (history)
  faults       \* faults that are left

delegationVars == <<parent, childState, delegation, hand, told, disturbed, faults>>

Handles == {Mentions[i] : i \in DOMAIN Mentions}
ChildEnded == {"completed", "failed", "cancelled"}

DelegationInit ==
  /\ parent = [phase |-> "running", next |-> 1, created |-> 0, deaths |-> 0]
  /\ childState = [c \in Children |-> "absent"]
  /\ delegation = [c \in Children |-> [handle |-> "none", status |-> "absent"]]
  /\ hand = [c \in Children |-> "none"]
  /\ told = [c \in Children |-> <<>>]
  /\ disturbed = {}
  /\ faults = FaultLimits

Strike(kind) == faults[kind] > 0 /\ faults' = [faults EXCEPT ![kind] = @ - 1]

-----------------------------------------------------------------------------
(* The parent *)

\* The mentions that are looked at: the first few.
MentionedAgentHandles ==
  {i \in DOMAIN Mentions : i <= (IF MaxMentions > 0 THEN MaxMentions ELSE 3)}

Scanning == parent.phase = "running" /\ parent.next \in MentionedAgentHandles

\* One transaction: the session, the queued run and the delegation.  The session
\* is a new one, and so the key that would make it idempotent.
CreateAgentDelegationRun ==
  /\ Scanning /\ Mentions[parent.next] \in Delegable
  /\ \E c \in Children :
       /\ childState[c] = "absent"
       /\ childState' = [childState EXCEPT ![c] = "queued"]
       /\ delegation' = [delegation EXCEPT ![c] = [handle |-> Mentions[parent.next], status |-> "queued"]]
  /\ parent' = [parent EXCEPT !.next = @ + 1, !.created = @ + 1]
  /\ UNCHANGED <<hand, told, disturbed, faults>>

\* Not registered, switched off, of the agent itself, or denied.
SkipMention ==
  /\ Scanning /\ Mentions[parent.next] \notin Delegable
  /\ parent' = [parent EXCEPT !.next = @ + 1]
  /\ UNCHANGED <<childState, delegation, hand, told, disturbed, faults>>

\* The background quota, or the database, refuses one: the parent fails, and
\* what it created before stays.
CreationRefused ==
  /\ Scanning /\ Mentions[parent.next] \in Delegable /\ Strike("refusal")
  /\ parent' = [parent EXCEPT !.phase = "failed"]
  /\ UNCHANGED <<childState, delegation, hand, told, disturbed>>

\* All mentions are through: the acknowledgement, or the rest of the pipeline.
ParentAnswers ==
  /\ parent.phase = "running" /\ parent.next \notin MentionedAgentHandles
  /\ parent' = [parent EXCEPT !.phase = IF parent.created > 0 THEN "acknowledged" ELSE "pipeline"]
  /\ UNCHANGED <<childState, delegation, hand, told, disturbed, faults>>

\* The parent's worker dies, and another begins again at the first mention.
ParentDies ==
  /\ parent.phase = "running" /\ Strike("crash")
  /\ parent' = [phase |-> "running", next |-> 1, created |-> 0, deaths |-> parent.deaths + 1]
  /\ UNCHANGED <<childState, delegation, hand, told, disturbed>>

-----------------------------------------------------------------------------
(* A child *)

KeepParent == UNCHANGED parent
Run(c, state) == childState' = [childState EXCEPT ![c] = state]
Hand(c, phase) == hand' = [hand EXCEPT ![c] = phase]
Status(c, s) == delegation' = [delegation EXCEPT ![c].status = s]

ClaimChild(c) ==
  /\ childState[c] = "queued" /\ hand[c] = "none"
  /\ Run(c, "leased") /\ Hand(c, "leased")
  /\ KeepParent /\ UNCHANGED <<delegation, told, disturbed, faults>>

\* The start quota fails the run without a word.
StartRefused(c) ==
  /\ hand[c] = "leased" /\ Strike("refusal")
  /\ Run(c, "failed") /\ Hand(c, "none")
  /\ disturbed' = disturbed \cup {c}
  /\ KeepParent /\ UNCHANGED <<delegation, told>>

BeginChild(c) ==
  /\ hand[c] = "leased"
  /\ Run(c, "running") /\ Hand(c, "working")
  /\ KeepParent /\ UNCHANGED <<delegation, told, disturbed, faults>>

\* The answer and the completion of the run (a refusal out of scope or by
\* moderation too).
CompleteChild(c) ==
  /\ hand[c] = "working"
  /\ Run(c, "completed") /\ Hand(c, "completed")
  /\ KeepParent /\ UNCHANGED <<delegation, told, disturbed, faults>>

\* A follow-up to the child's session makes its answer a draft: the refinement
\* run is not a child run, and nobody speaks for the delegation again.
RefineChild(c) ==
  /\ hand[c] = "working" /\ Strike("followup")
  /\ Run(c, "completed") /\ Hand(c, "none")
  /\ disturbed' = disturbed \cup {c}
  /\ KeepParent /\ UNCHANGED <<delegation, told>>

CompleteAgentDelegation(c) ==
  /\ hand[c] = "completed"
  /\ Status(c, "completed") /\ Hand(c, "completed told")
  /\ KeepParent /\ UNCHANGED <<childState, told, disturbed, faults>>

FailChild(c) ==
  /\ hand[c] = "working" /\ Strike("error")
  /\ Run(c, "failed") /\ Hand(c, "failed")
  /\ KeepParent /\ UNCHANGED <<delegation, told, disturbed>>

FailAgentDelegation(c) ==
  /\ hand[c] = "failed"
  /\ Status(c, "failed") /\ Hand(c, "failed told")
  /\ KeepParent /\ UNCHANGED <<childState, told, disturbed, faults>>

\* ensureRunnable finds the run cancelled.
StopChild(c) ==
  /\ hand[c] = "working" /\ childState[c] = "cancelled"
  /\ Hand(c, "cancelled")
  /\ KeepParent /\ UNCHANGED <<childState, delegation, told, disturbed, faults>>

CancelAgentDelegation(c) ==
  /\ hand[c] = "cancelled"
  /\ Status(c, "cancelled") /\ Hand(c, "cancelled told")
  /\ KeepParent /\ UNCHANGED <<childState, told, disturbed, faults>>

\* Variant: an end other than a completion is not reported.
TellOfResults(c) ==
  /\ hand[c] \in {"completed told", "failed told", "cancelled told"}
  /\ told' = [told EXCEPT ![c] = IF hand[c] = "completed told" THEN Append(@, "completed") ELSE @]
  /\ Hand(c, "none")
  /\ KeepParent /\ UNCHANGED <<childState, delegation, disturbed, faults>>

\* The message in the parent's session and its outbound intent.
TellParent(c) ==
  /\ hand[c] \in {"completed told", "failed told", "cancelled told"}
  /\ told' = [told EXCEPT ![c] = Append(@, delegation[c].status)]
  /\ Hand(c, "none")
  /\ KeepParent /\ UNCHANGED <<childState, delegation, disturbed, faults>>

\* The intent cannot be written after the message was.  A worker that was
\* completing its run takes this for a failure of the run, and tells again; one
\* that reports a failure ignores it.
OutboundFails(c) ==
  /\ hand[c] \in {"completed told", "failed told", "cancelled told"} /\ Strike("error")
  /\ told' = [told EXCEPT ![c] = Append(@, delegation[c].status)]
  /\ disturbed' = disturbed \cup {c}
  /\ IF hand[c] = "completed told"
     THEN Run(c, "failed") /\ Hand(c, "failed")
     ELSE Hand(c, "none") /\ UNCHANGED childState
  /\ KeepParent /\ UNCHANGED delegation

\* The user cancels: a worker that holds the run may still find out.
CancelChild(c) ==
  /\ childState[c] \in {"queued", "leased", "running"} /\ Strike("cancel")
  /\ Run(c, "cancelled")
  /\ disturbed' = IF hand[c] = "none" THEN disturbed \cup {c} ELSE disturbed
  /\ KeepParent /\ UNCHANGED <<delegation, hand, told>>

\* The child's worker dies.  A run that has not ended is queued again; one that
\* has is not looked at again.
ChildDies(c) ==
  /\ hand[c] # "none" /\ Strike("crash")
  /\ Hand(c, "none")
  /\ IF childState[c] \in ChildEnded
     THEN disturbed' = disturbed \cup {c} /\ UNCHANGED childState
     ELSE Run(c, "queued") /\ UNCHANGED disturbed
  /\ KeepParent /\ UNCHANGED <<delegation, told>>

ChildStep(c) ==
  \/ ClaimChild(c) \/ StartRefused(c) \/ BeginChild(c) \/ CompleteChild(c) \/ RefineChild(c)
  \/ CompleteAgentDelegation(c) \/ FailChild(c) \/ FailAgentDelegation(c) \/ StopChild(c)
  \/ CancelAgentDelegation(c) \/ TellParent(c) \/ OutboundFails(c) \/ CancelChild(c) \/ ChildDies(c)

DelegationNext ==
  \/ CreateAgentDelegationRun \/ SkipMention \/ CreationRefused \/ ParentAnswers \/ ParentDies
  \/ \E c \in Children : ChildStep(c)

-----------------------------------------------------------------------------
(* Properties *)

\* The parent's session hears of every child exactly once, and what it hears is
\* what the delegation's row says and how the run ended, whatever race of
\* completion and cancellation; except of a child whose worker died, or whose
\* outbound write failed, after its end, that was cancelled unclaimed, refused
\* at its start, or followed up.
ParentIsTold ==
  \A c \in Children :
    childState[c] \in ChildEnded /\ hand[c] = "none" /\ c \notin disturbed =>
      told[c] = <<childState[c]>> /\ delegation[c].status = childState[c]

\* A handle is delegated to once, and only the first mentions are; a second child
\* for it needs a parent that was executed again.
DelegatedOnce ==
  /\ \A h \in Handles :
       Cardinality({c \in Children : delegation[c].handle = h}) <= 1 + parent.deaths
  /\ parent.phase = "acknowledged" /\ parent.deaths = 0 =>
       {delegation[c].handle : c \in Children} \ {"none"}
         = {Mentions[i] : i \in MentionedAgentHandles} \cap Delegable
=============================================================================
