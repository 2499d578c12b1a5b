--------------------------- MODULE SessionMonitor ---------------------------
(***************************************************************************)
(* The session monitor: sessions that went quiet are claimed in batches,   *)
(* what the user said since the last time is summarized, counted, and      *)
(* mined for a profile, which is then consolidated by a model.  Anybody    *)
(* may ask for the same by hand, without a claim.                          *)
(***************************************************************************)
EXTENDS Integers, FiniteSets

CONSTANTS
  UserSessions,        \* of one user
  Monitors,            \* processes that claim
  ByHand,              \* a request to compact a session
  Said,                \* Said[s]: what each message of the session states, in order
  Texts,               \* wordings: fact and kind, "memory" or "preference"
  Named,               \* facts that patterns find: names of the user and of children
  OneOff,              \* notes and inferences that are no profile
  MessageLimit,
  CompactionThreshold, \* in messages
  MaxRows              \* bound: rows of the profile, ever

VARIABLES
  session,   \* rows of sessions
  profile,   \* rows of memories and preferences
  monitor,   \* the processes
  known,     \* rows that were ever in the profile
  overlapped \* two consolidations were under way together

monitorVars == <<session, profile, monitor, known, overlapped>>

Actors == Monitors \cup {ByHand}
Nobody == "nobody"
IdleMonitor == [phase |-> "idle", todo |-> {}, claim |-> <<>>, at |-> Nobody, window |-> {}, wanted |-> {},
         listed |-> {}]

\* Instants are counted by the messages of a session; 0 is its creation.
MonitorInit ==
  /\ session = [s \in UserSessions |-> [last |-> 0, monitored |-> -1,
                                    pattern |-> [i \in DOMAIN Said[s] |-> 0], summary |-> {}, lease |-> Nobody]]
  /\ profile = {}
  /\ monitor = [m \in Actors |-> IdleMonitor]
  /\ known = {}
  /\ overlapped = FALSE

Goes(m, phase) == monitor' = [monitor EXCEPT ![m].phase = phase]

-----------------------------------------------------------------------------
(* Sessions *)

MessageArrives(s) ==
  /\ session[s].last < Cardinality(DOMAIN Said[s])
  /\ session' = [session EXCEPT ![s].last = @ + 1]
  /\ UNCHANGED <<profile, monitor, known, overlapped>>

SessionLeaseLapses(s) ==
  /\ session[s].lease # Nobody
  /\ session' = [session EXCEPT ![s].lease = Nobody]
  /\ UNCHANGED <<profile, monitor, known, overlapped>>

ClaimableSessions == {s \in UserSessions : session[s].monitored < session[s].last /\ session[s].lease = Nobody}

Snapshot(s) == [last |-> session[s].last, monitored |-> session[s].monitored, pattern |-> session[s].pattern]

\* The sessions that have been quiet for idleFor by now.
ClaimIdleSessions(m) ==
  /\ monitor[m] = IdleMonitor
  /\ \E quiet \in SUBSET ClaimableSessions \ {{}} :
       /\ monitor' = [monitor EXCEPT ![m] =
            [IdleMonitor EXCEPT !.phase = "next", !.todo = quiet, !.claim = [s \in quiet |-> Snapshot(s)]]]
       /\ session' = [s \in UserSessions |-> IF s \in quiet THEN [session[s] EXCEPT !.lease = m] ELSE session[s]]
  /\ UNCHANGED <<profile, known, overlapped>>

ReleaseSessionMonitor(s) == session' = [session EXCEPT ![s].lease = Nobody]

-----------------------------------------------------------------------------
(* Reading *)

RecentMessages(s) == {i \in 1..session[s].last : i > session[s].last - MessageLimit}

\* Variant: whatever has been said by now.
MonitoredWindowOpen(messages, claim) == {i \in messages : i > claim.monitored}

\* Since the last time, and up to the last message when the session was claimed.
MonitoredWindow(messages, claim) == {i \in messages : i > claim.monitored /\ i <= claim.last}

UpsertSessionSummary(s, window) ==
  \/ session' = [session EXCEPT ![s].summary = window]
  \/ UNCHANGED session

\* A long window is summarized, unless the model fails, which is no error here.
ProcessSession(m, s) ==
  /\ monitor[m].phase = "next" /\ s \in monitor[m].todo
  /\ LET window == MonitoredWindow(RecentMessages(s), monitor[m].claim[s])
     IN /\ monitor' = [monitor EXCEPT ![m].at = s, ![m].todo = @ \ {s}, ![m].window = window,
                                      ![m].phase = IF window = {} THEN "complete" ELSE "extract"]
        /\ IF Cardinality(window) >= CompactionThreshold THEN UpsertSessionSummary(s, window)
           ELSE UNCHANGED session
  /\ UNCHANGED <<profile, known, overlapped>>

BatchEnds(m) ==
  /\ monitor[m].phase = "next" /\ monitor[m].todo = {}
  /\ monitor' = [monitor EXCEPT ![m] = IdleMonitor]
  /\ UNCHANGED <<session, profile, known, overlapped>>

\* By hand: the recent messages, whoever has looked at them, if there are many or
\* the request forces it; the profile if it asks for that.
CompactSession(s) ==
  /\ monitor[ByHand] = IdleMonitor /\ RecentMessages(s) # {}
  /\ \/ monitor' = [monitor EXCEPT ![ByHand] = [IdleMonitor EXCEPT !.phase = "extract", !.at = s, !.window = RecentMessages(s)]]
     \/ UNCHANGED monitor
  /\ session' = [session EXCEPT ![s].summary = RecentMessages(s)]
  /\ UNCHANGED <<profile, known, overlapped>>

-----------------------------------------------------------------------------
(* The profile *)

SkipProfileExtraction(t) == t.fact \in OneOff

\* What marks a row as known: its words, and the name in it.
ProfileSemanticKeys(t) == IF t.fact \in Named THEN {[t EXCEPT !.wording = 0]} ELSE {}
TextKeys(t) == {t} \cup ProfileSemanticKeys(t)

\* The model words some of what was said; a name that a pattern finds is added.
Extractions(facts) ==
  {W \in SUBSET {t \in Texts : t.fact \in facts} : \A f \in facts \cap Named : \E t \in W : t.fact = f}

\* Of that, what is neither known nor said twice; a policy may be against any.
Accepted(W) ==
  {A \in SUBSET {t \in W : ~SkipProfileExtraction(t) /\ \A r \in profile : TextKeys(t) \cap TextKeys(r.text) = {}} :
     \A t, u \in A : t # u => TextKeys(t) \cap TextKeys(u) = {}}

\* The model fails: the session is released and the rest of the batch left.
ExtractionFails(m) ==
  /\ monitor[m].phase = "extract"
  /\ monitor' = [monitor EXCEPT ![m] = IdleMonitor]
  /\ IF m = ByHand THEN UNCHANGED session ELSE ReleaseSessionMonitor(monitor[m].at)
  /\ UNCHANGED <<profile, known, overlapped>>

\* It answers, and what the profile has is read; what is no JSON yields nothing.
ExtractMemoryAndPreferences(m) ==
  /\ monitor[m].phase = "extract"
  /\ \/ \E W \in Extractions({Said[monitor[m].at][i] : i \in monitor[m].window}) : \E A \in Accepted(W) :
          monitor' = [monitor EXCEPT ![m].phase = IF A = {} THEN "complete" ELSE "write", ![m].wanted = A]
     \/ Goes(m, "complete")
  /\ UNCHANGED <<session, profile, known, overlapped>>

\* Then the whole profile is read, to be consolidated.
WriteProfile(m) ==
  /\ monitor[m].phase = "write"
  /\ Cardinality(known) + Cardinality(monitor[m].wanted) <= MaxRows
  /\ LET rows == {[id |-> Cardinality(known) + 1, text |-> t] : t \in monitor[m].wanted}
         listed == profile \cup rows
     IN /\ profile' = listed /\ known' = known \cup rows
        /\ IF Cardinality(listed) < 2
           THEN /\ monitor' = [monitor EXCEPT ![m].phase = "complete", ![m].wanted = {}]
                /\ UNCHANGED overlapped
           ELSE /\ monitor' = [monitor EXCEPT ![m].phase = "consolidate", ![m].wanted = {}, ![m].listed = listed]
                /\ overlapped' = (overlapped \/ \E n \in Actors \ {m} : monitor[n].phase = "consolidate")
  /\ UNCHANGED session

\* A statement fails after some of the rows.
WriteFails(m) ==
  /\ monitor[m].phase = "write"
  /\ \E W \in SUBSET monitor[m].wanted \ {monitor[m].wanted} :
       LET rows == {[id |-> Cardinality(known) + 1, text |-> t] : t \in W}
       IN profile' = profile \cup rows /\ known' = known \cup rows
  /\ Cardinality(known') <= MaxRows
  /\ monitor' = [monitor EXCEPT ![m] = IdleMonitor]
  /\ IF m = ByHand THEN UNCHANGED session ELSE ReleaseSessionMonitor(monitor[m].at)
  /\ UNCHANGED overlapped

\* A truthful answer: which rows say the same as one that is kept, and which may go
\* because a row that is kept says it.
Same(listed, r) == {q \in listed : q.text.fact = r.text.fact}
Consolidations(listed) ==
  {c \in [updates : SUBSET listed, duplicates : SUBSET listed] :
     \A q \in c.duplicates : \E r \in c.updates : r # q /\ q \in Same(listed, r)}

\* A row that is kept is not deleted, whatever else is said of it.
Deleted(c) == c.duplicates \ c.updates

\* The model fails, or says what to do with the rows as they were listed.
ConsolidateProfile(m) ==
  /\ monitor[m].phase = "consolidate"
  /\ \/ UNCHANGED profile
     \/ \E c \in Consolidations(monitor[m].listed) :
          profile' = profile \ Deleted(c)
  /\ monitor' = [monitor EXCEPT ![m].phase = "complete", ![m].listed = {}]
  /\ UNCHANGED <<session, known, overlapped>>

-----------------------------------------------------------------------------
(* The end *)

ActivePattern(pattern, window) == [i \in DOMAIN pattern |-> IF i \in window THEN pattern[i] + 1 ELSE pattern[i]]

\* Without a look at the lease: what was read with the claim, and the window.
CompleteSessionMonitor(m) ==
  /\ monitor[m].phase = "complete" /\ m # ByHand
  /\ LET s == monitor[m].at
         claim == monitor[m].claim[s]
     IN session' = [session EXCEPT ![s].monitored = claim.last, ![s].lease = Nobody,
                                   ![s].pattern = ActivePattern(claim.pattern, monitor[m].window)]
  /\ monitor' = [monitor EXCEPT ![m].phase = "next", ![m].at = Nobody, ![m].window = {}]
  /\ UNCHANGED <<profile, known, overlapped>>

CompactionEnds ==
  /\ monitor[ByHand].phase = "complete"
  /\ monitor' = [monitor EXCEPT ![ByHand] = IdleMonitor]
  /\ UNCHANGED <<session, profile, known, overlapped>>

MonitorNext ==
  \/ \E s \in UserSessions : MessageArrives(s) \/ SessionLeaseLapses(s) \/ CompactSession(s)
  \/ \E m \in Monitors :
       \/ ClaimIdleSessions(m) \/ BatchEnds(m) \/ CompleteSessionMonitor(m)
       \/ \E s \in UserSessions : ProcessSession(m, s)
  \/ \E m \in Actors :
       \/ ExtractionFails(m) \/ ExtractMemoryAndPreferences(m) \/ WriteProfile(m) \/ WriteFails(m)
       \/ ConsolidateProfile(m)
  \/ CompactionEnds

-----------------------------------------------------------------------------
(* Properties *)

\* The pattern counts each message once, and none that is still to be monitored,
\* though a claim may lapse, two monitors may complete one session in either
\* order, and messages arrive meanwhile: what is written goes together.
PatternCountsOnce ==
  \A s \in UserSessions : \A i \in DOMAIN session[s].pattern :
    session[s].pattern[i] <= IF i <= session[s].monitored THEN 1 ELSE 0

\* What the profile knows it does not lose in being consolidated, unless two
\* consolidations overlap: each may delete what the other one keeps.
FactsKept ==
  overlapped \/ \A k \in known : \E r \in profile : r.text.fact = k.text.fact
=============================================================================
