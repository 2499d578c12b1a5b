------------------------------- MODULE Outbox -------------------------------
(***************************************************************************)
(* The transactional outbox: rows of async_outbox, the outbox workers of   *)
(* all instances, and the sink (Nexus) they deliver to.  A worker claims a *)
(* batch under a five-minute lease, delivers it call by call, and renews   *)
(* the lease of the items in the running call only.  An item may be sent   *)
(* by a worker that has lost its claim meanwhile.                          *)
(***************************************************************************)
EXTENDS Naturals, FiniteSets

CONSTANTS
  Items,     \* async_outbox.id
  Workers,   \* outbox workers, one per instance
  Owners,    \* claim_owner values
  OwnerOf,   \* the owner string each worker writes
  Limit,     \* items per claim (50)
  TopicOf,   \* async_outbox.topic
  Batched,   \* topics the sink takes in one call (NEXUS_OUTBOUND_BULK_URL)
  Budget     \* how often each kind of fault may happen

None == "none"
Faults == {"crash", "stall", "refusal"}

ASSUME OutboxAssumption ==
  /\ Items \subseteq Nat
  /\ OwnerOf \in [Workers -> Owners] /\ None \notin Owners
  /\ Limit \in Nat \ {0}
  /\ Budget \in [Faults -> Nat]

VARIABLES
  row,    \* the row: absent, pending, or done (completed_at is set)
  due,    \* items whose available_at has passed
  owner,  \* claim_owner
  lease,  \* claim_expires_at: null, fresh (beyond the next heartbeat), ending, expired
  pc,     \* where each worker's RunOnce is
  batch,  \* claimed items it has not come to
  call,   \* the items of its sink call, until their rows are written
  sure,   \* those it held a fresh claim on when the call began (history)
  sent,   \* deliveries of an item the sink has taken
  spent   \* faults so far

claimVars  == <<due, owner, lease>>
workerVars == <<pc, batch, call, sure>>
vars == <<row, claimVars, workerVars, sent, spent>>

Phases == {"idle", "between", "calling", "completing", "releasing"}

\* Types; a worker has a call in hand exactly while it is in one.
TypeOK ==
  /\ row \in [Items -> {"absent", "pending", "done"}]
  /\ due \subseteq Items
  /\ owner \in [Items -> Owners \cup {None}]
  /\ lease \in [Items -> {"null", "fresh", "ending", "expired"}]
  /\ pc \in [Workers -> Phases]
  /\ batch \in [Workers -> SUBSET Items]
  /\ call \in [Workers -> SUBSET Items]
  /\ sure \in [Workers -> SUBSET Items]
  /\ \A w \in Workers : /\ call[w] = {} <=> pc[w] \in {"idle", "between"}
                        /\ pc[w] = "idle" => batch[w] = {}
  /\ sent \in [Items -> Nat]
  /\ spent \in [Faults -> Nat]

Init ==
  /\ row = [i \in Items |-> "absent"]
  /\ due = {}
  /\ owner = [i \in Items |-> None]
  /\ lease = [i \in Items |-> "null"]
  /\ pc = [w \in Workers |-> "idle"]
  /\ batch = [w \in Workers |-> {}]
  /\ call = [w \in Workers |-> {}]
  /\ sure = [w \in Workers |-> {}]
  /\ sent = [i \in Items |-> 0]
  /\ spent = [f \in Faults |-> 0]

Spend(f) ==
  /\ spent[f] < Budget[f]
  /\ spent' = [spent EXCEPT ![f] = @ + 1]

Owns(w, i) == owner[i] = OwnerOf[w]

-----------------------------------------------------------------------------
\* CreateOutboundIntent: the intent and its outbox row in one transaction.
CreateOutboundIntent(i) ==
  /\ row[i] = "absent"
  /\ row' = [row EXCEPT ![i] = "pending"]
  /\ due' = due \cup {i}
  /\ UNCHANGED <<owner, lease, workerVars, sent, spent>>

\* The next sink call on items of S: a batch of one topic, or a single item.
\* Rows come back from the claim in no particular order.
Groups(S) ==
  {{j \in S : j = i \/ (TopicOf[i] \in Batched /\ TopicOf[j] = TopicOf[i])} : i \in S}

BeginCall(w, S) ==
  \E G \in Groups(S) :
    /\ pc' = [pc EXCEPT ![w] = "calling"]
    /\ call' = [call EXCEPT ![w] = G]
    /\ batch' = [batch EXCEPT ![w] = S \ G]
    /\ sure' = [sure EXCEPT ![w] = {i \in G : owner'[i] = OwnerOf[w] /\ lease'[i] = "fresh"}]

\* Variant: without the expiry test.
ClaimableFree(i) == row[i] = "pending" /\ i \in due /\ lease[i] = "null"

Claimable(i) == row[i] = "pending" /\ i \in due /\ lease[i] \in {"null", "expired"}

\* ClaimOutbox: the first Limit items by id; the first call begins at once.
ClaimOutbox(w) ==
  LET candidates == {i \in Items : Claimable(i)} IN
  /\ pc[w] = "idle"
  /\ \E S \in SUBSET candidates :
       /\ S # {} /\ Cardinality(S) <= Limit
       /\ S = candidates \/ Cardinality(S) = Limit
       /\ \A i \in S, j \in candidates \ S : i < j
       /\ owner' = [i \in Items |-> IF i \in S THEN OwnerOf[w] ELSE owner[i]]
       /\ lease' = [i \in Items |-> IF i \in S THEN "fresh" ELSE lease[i]]
       /\ BeginCall(w, S)
  /\ UNCHANGED <<row, due, sent, spent>>

\* The claim of what waited in the batch is not looked at again.
NextCall(w) ==
  /\ pc[w] = "between"
  /\ UNCHANGED <<row, claimVars, sent, spent>>
  /\ BeginCall(w, batch[w])

Rest == <<batch, sure>>

SinkAccepts(w) ==
  /\ pc[w] = "calling"
  /\ pc' = [pc EXCEPT ![w] = "completing"]
  /\ sent' = [i \in Items |-> IF i \in call[w] THEN sent[i] + 1 ELSE sent[i]]
  /\ UNCHANGED <<row, claimVars, call, Rest, spent>>

\* Handle returns an error: a refusal, or a time-out after D was taken.
SinkFails(w) ==
  /\ pc[w] = "calling"
  /\ Spend("refusal")
  /\ pc' = [pc EXCEPT ![w] = "releasing"]
  /\ \E D \in SUBSET call[w] :
       sent' = [i \in Items |-> IF i \in D THEN sent[i] + 1 ELSE sent[i]]
  /\ UNCHANGED <<row, claimVars, call, Rest>>

\* Variant: the batch survives into the next RunOnce.
ReturnKeeping(w) ==
  /\ pc' = [pc EXCEPT ![w] = "idle"]
  /\ call' = [call EXCEPT ![w] = {}]
  /\ sure' = [sure EXCEPT ![w] = {}]
  /\ UNCHANGED batch

\* RunOnce returns: what is left of the batch stays claimed in the table.
Return(w) ==
  /\ pc' = [pc EXCEPT ![w] = "idle"]
  /\ call' = [call EXCEPT ![w] = {}]
  /\ batch' = [batch EXCEPT ![w] = {}]
  /\ sure' = [sure EXCEPT ![w] = {}]

\* One row of the call written; onward after the last of them.
Written(w, i, onward) ==
  IF call[w] = {i}
  THEN IF onward /\ batch[w] # {}
       THEN /\ pc' = [pc EXCEPT ![w] = "between"]
            /\ call' = [call EXCEPT ![w] = {}]
            /\ sure' = [sure EXCEPT ![w] = {}]
            /\ UNCHANGED batch
       ELSE Return(w)
  ELSE /\ call' = [call EXCEPT ![w] = @ \ {i}]
       /\ sure' = [sure EXCEPT ![w] = @ \ {i}]
       /\ UNCHANGED <<pc, batch>>

\* Variant: after one call all that was claimed is completed.
CompleteWhole(w) ==
  /\ pc[w] = "completing"
  /\ row' = [i \in Items |-> IF i \in call[w] \cup batch[w] /\ Owns(w, i) THEN "done" ELSE row[i]]
  /\ Return(w)
  /\ UNCHANGED <<claimVars, sent, spent>>

\* CompleteOutbox fails for an item that another owner has claimed, and ends
\* RunOnce.
CompleteOutbox(w) ==
  /\ pc[w] = "completing"
  /\ \E i \in call[w] :
       IF Owns(w, i)
       THEN row' = [row EXCEPT ![i] = "done"] /\ Written(w, i, TRUE)
       ELSE Return(w) /\ UNCHANGED row
  /\ UNCHANGED <<claimVars, sent, spent>>

\* Variant: no test of the owner.
ReleaseUnowned(w) ==
  /\ pc[w] = "releasing"
  /\ \E i \in call[w] :
       /\ IF row[i] = "pending"
          THEN /\ owner' = [owner EXCEPT ![i] = None]
               /\ lease' = [lease EXCEPT ![i] = "null"]
               /\ due' = due \ {i}
          ELSE UNCHANGED claimVars
       /\ Written(w, i, FALSE)
  /\ UNCHANGED <<row, sent, spent>>

\* ReleaseOutbox: given back for a later retry, if it is still the owner's.
ReleaseOutbox(w) ==
  /\ pc[w] = "releasing"
  /\ \E i \in call[w] :
       /\ IF Owns(w, i) /\ row[i] = "pending"
          THEN /\ owner' = [owner EXCEPT ![i] = None]
               /\ lease' = [lease EXCEPT ![i] = "null"]
               /\ due' = due \ {i}
          ELSE UNCHANGED claimVars
       /\ Written(w, i, FALSE)
  /\ UNCHANGED <<row, sent, spent>>

\* A tick of the heartbeat during a call, for one of its items: the claim is
\* renewed, expired or not, unless it is gone.
ExtendOutboxClaim(w) ==
  /\ pc[w] = "calling"
  /\ \E i \in call[w] :
       /\ Owns(w, i) /\ row[i] = "pending" /\ lease[i] # "fresh"
       /\ lease' = [lease EXCEPT ![i] = "fresh"]
  /\ UNCHANGED <<row, due, owner, workerVars, sent, spent>>

-----------------------------------------------------------------------------
(* Time and faults *)

RetryDelayPasses(i) ==
  /\ row[i] = "pending" /\ i \notin due
  /\ due' = due \cup {i}
  /\ UNCHANGED <<row, owner, lease, workerVars, sent, spent>>

\* The heartbeat of its claimant keeps the item fresh, up to the write of its row.
Attended(i) == \E w \in Workers : i \in call[w] /\ Owns(w, i)

Age(i, from, to) ==
  /\ lease[i] = from /\ row[i] = "pending"
  /\ lease' = [lease EXCEPT ![i] = to]
  /\ UNCHANGED <<row, due, owner, workerVars, sent>>

\* Heartbeats come three to a lease: a claim that nobody renews ends.
ClaimEnds(i)    == Age(i, "fresh", "ending") /\ ~Attended(i) /\ UNCHANGED spent
ClaimExpires(i) == Age(i, "ending", "expired") /\ UNCHANGED spent

\* The heartbeat misses its ticks: the process is paused or the database away.
HeartbeatStalls(i) == Age(i, "fresh", "ending") /\ Attended(i) /\ Spend("stall")

Crash(w) ==
  /\ pc[w] # "idle"
  /\ Spend("crash")
  /\ Return(w)
  /\ UNCHANGED <<row, claimVars, sent>>

-----------------------------------------------------------------------------
WorkerStep(w) ==
  \/ ClaimOutbox(w) \/ NextCall(w) \/ SinkAccepts(w) \/ SinkFails(w)
  \/ CompleteOutbox(w) \/ ReleaseOutbox(w)

Next ==
  \/ \E w \in Workers : WorkerStep(w) \/ ExtendOutboxClaim(w) \/ Crash(w)
  \/ \E i \in Items : \/ CreateOutboundIntent(i) \/ RetryDelayPasses(i)
                      \/ ClaimEnds(i) \/ ClaimExpires(i) \/ HeartbeatStalls(i)

Spec == Init /\ [][Next]_vars

\* The worker's loop ticks, its calls return (HTTP time-outs), time passes.
Fairness ==
  /\ \A w \in Workers : WF_vars(WorkerStep(w))
  /\ \A i \in Items : WF_vars(RetryDelayPasses(i)) /\ WF_vars(ClaimEnds(i))
                      /\ WF_vars(ClaimExpires(i))

FairSpec == Spec /\ Fairness

-----------------------------------------------------------------------------
(* Properties *)

Promise == INSTANCE Delivery

\* At least once: a row is completed only after the sink took the item, and
\* while crashes, stalls and refusals are finite every row is completed.
AtLeastOnce == Promise!Spec

\* Its safety part.
NoLossStep == Promise!SafeSpec

\* The inductive form: what is being completed has been taken by the sink.
CompletionInv ==
  /\ \A i \in Items : row[i] = "done" => sent[i] > 0
  /\ \A w \in Workers : pc[w] = "completing" => \A i \in call[w] : sent[i] > 0

\* Unless a heartbeat stalls, a claim that was fresh when the sink call began is
\* not lost before the rows of the call are written: the heartbeat covers the
\* call, and nobody else touches a claim he does not own, so that two workers are
\* never both sure of an item.  Needs distinct owners.
ClaimSurvivesCall ==
  spent["stall"] = 0 =>
    \A w \in Workers : \A i \in sure[w] : Owns(w, i) /\ lease[i] = "fresh"
=============================================================================
