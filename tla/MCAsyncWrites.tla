---------------------------- MODULE MCAsyncWrites ----------------------------
(* Instances of AsyncWrites for TLC. *)
EXTENDS AsyncWrites, TLC

CONSTANTS w1, w2, j1, j2, j3

\* One job of each size.
MCSizeOf == [j \in Jobs |-> IF j = j1 THEN "small" ELSE IF j = j2 THEN "big" ELSE "huge"]

\* Two ordinary jobs and one that is degraded.
Ordinary == [j \in Jobs |-> IF j = j3 THEN "big" ELSE "small"]

AllFaults  == [crash |-> 1, database |-> 1, apply |-> 2]
OneFailure == [crash |-> 0, database |-> 0, apply |-> 1]

=============================================================================
