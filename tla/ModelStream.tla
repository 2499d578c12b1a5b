---------------------------- MODULE ModelStream ----------------------------
(***************************************************************************)
(* One call to a provider.  A streamed answer is read delta by delta: its  *)
(* text is collected, and passed on as events of a few kilobytes of which  *)
(* a run gets at most a fixed number; the pieces of a tool call are        *)
(* gathered under the index the provider gives the call.  A call that does *)
(* not stream goes through a list of candidates, each retried once when    *)
(* its error is transient.                                                 *)
(***************************************************************************)
EXTENDS Naturals, FiniteSets

CONSTANTS
  FlushBytes,  \* streamDeltaFlushBytes
  MaxEvents,   \* streamDeltaMaxEvents
  MaxContent,  \* bound: text the provider sends
  MaxIndex,    \* bound: the last tool call of an answer
  Candidates   \* how many candidates a fallback has

VARIABLES
  stream,      \* the reader's state
  sent,        \* what the provider sent: text, and the indexes of its tool calls
  fallback     \* the attempts made on each candidate, and the outcome

streamVars == <<stream, sent, fallback>>

NoStream == [phase |-> "idle", content |-> 0, chunk |-> 0, events |-> 0, shown |-> 0,
             dropped |-> 0, partials |-> {}, calls |-> {}]

StreamInit ==
  /\ stream = NoStream
  /\ sent = [content |-> 0, calls |-> {}]
  /\ fallback = [cand |-> 0, tries |-> [i \in 1..Candidates |-> 0], outcome |-> "none"]

-----------------------------------------------------------------------------
(* A streamed answer *)

ChatStream ==
  /\ stream.phase = "idle"
  /\ stream' = [NoStream EXCEPT !.phase = "reading"]
  /\ UNCHANGED <<sent, fallback>>

\* A chunk becomes an event while the run has events left; the rest is counted.
Emit(s) ==
  IF s.events < MaxEvents
  THEN [s EXCEPT !.events = @ + 1, !.shown = @ + s.chunk, !.chunk = 0]
  ELSE [s EXCEPT !.dropped = @ + s.chunk, !.chunk = 0]

ContentDelta ==
  /\ stream.phase = "reading"
  /\ \E n \in 1..(FlushBytes + 1) :
       /\ sent.content + n <= MaxContent
       /\ sent' = [sent EXCEPT !.content = @ + n]
       /\ LET s == [stream EXCEPT !.content = @ + n, !.chunk = @ + n]
          IN  stream' = IF s.chunk >= FlushBytes THEN Emit(s) ELSE s
  /\ UNCHANGED fallback

\* A piece of a call: of whatever index the provider gives it.
ToolCallDelta ==
  /\ stream.phase = "reading"
  /\ \E i \in 0..MaxIndex :
       /\ sent' = [sent EXCEPT !.calls = @ \cup {i}]
       /\ stream' = [stream EXCEPT !.partials = @ \cup {i}]
  /\ UNCHANGED fallback

\* The calls of the first indexes, as many as there are partial calls: an index that
\* is missing costs the last ones.
FinishStreamToolCalls(partials) == {i \in 0..(Cardinality(partials) - 1) : i \in partials}

\* The channel is closed: by [DONE], by the end of the body, or because the
\* connection broke, which the reader of the channel cannot tell apart.
StreamEnds ==
  /\ stream.phase = "reading"
  /\ LET s == IF stream.chunk > 0 THEN Emit(stream) ELSE stream
     IN  stream' = [s EXCEPT !.phase = "answered", !.calls = FinishStreamToolCalls(s.partials)]
  /\ UNCHANGED <<sent, fallback>>

\* The run's context has ended: no answer.
StreamCancelled ==
  /\ stream.phase = "reading"
  /\ stream' = [stream EXCEPT !.phase = "failed"]
  /\ UNCHANGED <<sent, fallback>>

-----------------------------------------------------------------------------
(* A call with fallbacks *)

FallbackBegins ==
  /\ fallback.cand = 0
  /\ fallback' = [fallback EXCEPT !.cand = 1]
  /\ UNCHANGED <<stream, sent>>

\* An attempt on the candidate at hand: it answers or is cancelled, is repeated
\* once if its error is transient, or gives way to the next.
ExecuteFallback ==
  /\ fallback.cand > 0 /\ fallback.outcome = "none"
  /\ LET c == fallback.cand
         tried == [fallback EXCEPT !.tries[c] = @ + 1]
     IN  \/ \E result \in {"answer", "cancelled"} : fallback' = [tried EXCEPT !.outcome = result]
         \/ fallback.tries[c] = 0 /\ fallback' = tried
         \/ c < Candidates /\ fallback' = [tried EXCEPT !.cand = c + 1]
         \/ c >= Candidates /\ fallback' = [tried EXCEPT !.outcome = "failed"]
  /\ UNCHANGED <<stream, sent>>

StreamNext ==
  \/ ChatStream \/ ContentDelta \/ ToolCallDelta \/ StreamEnds \/ StreamCancelled
  \/ FallbackBegins \/ ExecuteFallback

-----------------------------------------------------------------------------
(* Properties *)

\* Nothing of a streamed answer is lost between the provider and the loop without a
\* reason: the text is shown or counted as dropped whatever the sizes of its pieces;
\* a tool call that was begun reaches the answer, unless the provider skipped an
\* index before it; and a fallback gives up only after every candidate failed, none
\* asked more than twice.
AnswerIsWhole ==
  /\ stream.phase = "answered" =>
       /\ stream.shown + stream.dropped = sent.content
       /\ stream.content = sent.content
       /\ stream.calls \subseteq sent.calls
       /\ \A i \in sent.calls \ stream.calls : \E skipped \in 0..(i - 1) : skipped \notin sent.calls
  /\ fallback.outcome = "failed" => \A i \in 1..Candidates : fallback.tries[i] \in 1..2
=============================================================================
