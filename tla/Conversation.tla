---------------------------- MODULE Conversation ----------------------------
(***************************************************************************)
(* What a chat session promises its user: every message that was accepted  *)
(* gets exactly one final reply, alone or together with the messages that  *)
(* interrupted it.                                                         *)
(***************************************************************************)
EXTENDS Naturals

CONSTANT Messages
VARIABLES received, replies
vars == <<received, replies>>

Init == received = {} /\ replies = [m \in Messages |-> 0]

Receive(m) ==
  /\ m \notin received
  /\ received' = received \cup {m}
  /\ UNCHANGED replies

\* One reply to all the messages of S, none of which had one.
Reply(S) ==
  /\ S # {} /\ S \subseteq received
  /\ \A m \in S : replies[m] = 0
  /\ replies' = [m \in Messages |-> IF m \in S THEN 1 ELSE replies[m]]
  /\ UNCHANGED received

Next == (\E m \in Messages : Receive(m)) \/ (\E S \in SUBSET Messages : Reply(S))

Spec ==
  /\ Init /\ [][Next]_vars
  /\ \A m \in Messages : WF_vars(\E S \in SUBSET Messages : m \in S /\ Reply(S))
=============================================================================
