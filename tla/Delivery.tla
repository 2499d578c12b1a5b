------------------------------ MODULE Delivery ------------------------------
(***************************************************************************)
(* At-least-once delivery: what the outbox promises to those who put a     *)
(* message into it.  An item that was put in is delivered, perhaps more    *)
(* than once, and is struck off only after a delivery.                     *)
(***************************************************************************)
EXTENDS Naturals

CONSTANT Items
VARIABLES row, sent
vars == <<row, sent>>

Init ==
  /\ row = [i \in Items |-> "absent"]
  /\ sent = [i \in Items |-> 0]

Put(i) ==
  /\ row[i] = "absent"
  /\ row' = [row EXCEPT ![i] = "pending"]
  /\ UNCHANGED sent

\* The sink takes the items of S, some of them perhaps again.
Deliver(S) ==
  /\ S # {} /\ \A i \in S : row[i] # "absent"
  /\ sent' = [i \in Items |-> IF i \in S THEN sent[i] + 1 ELSE sent[i]]
  /\ UNCHANGED row

StrikeOff(i) ==
  /\ row[i] = "pending" /\ sent[i] > 0
  /\ row' = [row EXCEPT ![i] = "done"]
  /\ UNCHANGED sent

Next ==
  \/ \E i \in Items : Put(i) \/ StrikeOff(i)
  \/ \E S \in SUBSET Items : Deliver(S)

SafeSpec == Init /\ [][Next]_vars

FirstDelivery(i) == sent[i] = 0 /\ \E S \in SUBSET Items : i \in S /\ Deliver(S)

Spec == SafeSpec /\ \A i \in Items : WF_vars(FirstDelivery(i)) /\ WF_vars(StrikeOff(i))
=============================================================================
