---------------------------- MODULE MCScheduler ----------------------------
(* Instances of Scheduler for TLC. *)
EXTENDS Scheduler

CONSTANTS s1, s2, shared, twice, until, cron, u1, u2

MCTableOf == [j \in Jobs |-> IF j = shared THEN 1 ELSE IF j = cron THEN 3 ELSE 2]
MCFirst   == [j \in Jobs |-> 1]
MCPeriod  == [j \in Jobs |-> IF j = shared THEN 0 ELSE 1]
MCCount   == [j \in Jobs |-> IF j = twice THEN 2 ELSE 0]
MCUntil   == [j \in Jobs |-> IF j = until THEN 2 ELSE 0]
MCInterval == Jobs \cap {twice, until}
MCSubscribers == [j \in Jobs |-> IF j = shared THEN {u1, u2} ELSE {}]

MCBudget == [abort |-> 1, lapse |-> 1, evaluation |-> 1, edit |-> 1, toggle |-> 1]
=============================================================================
