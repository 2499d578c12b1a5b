--------------------------- MODULE SchedulerProofs ---------------------------
(***************************************************************************)
(* Theorems about Scheduler for every set of schedulers and jobs, every    *)
(* period, limit and horizon, and every budget of aborts, lapses, edits    *)
(* and pauses.                                                             *)
(***************************************************************************)
EXTENDS Scheduler, TLAPS, FiniteSetTheorems

\* What a pass has in hand: a row is sent to those it is to be sent to no more,
\* and one that is being completed has been fired.
PassFits ==
  \A s \in Schedulers :
    /\ \A r \in batch[s] : r.at <= clock
    /\ phase[s] = "sending" =>
         /\ TableOf[row[s].job] = 1 /\ todo[s] \subseteq Subscribers[row[s].job]
         /\ \A u \in Subscribers[row[s].job] \ todo[s] : <<row[s].job, row[s].at, u>> \in sent
    /\ phase[s] = "completing" => <<row[s].job, row[s].at>> \in fired \cup failed

Shape == TypeOK /\ PassFits /\ FanoutComplete

\* Until it has fired or its count is used up, the time a user asked for is the
\* row's, and that of every claim of the row.
UsedUp(j) == Count[j] > 0 /\ count[j] >= Count[j]

AskedKept ==
  \A j \in Jobs :
    asked[j] # Never =>
      /\ asked[j] \in 1..Horizon /\ (Until[j] # Never => asked[j] < Until[j])
      /\ \A s \in Schedulers : \A r \in batch[s] : r.job = j => r.count <= count[j]
      /\ asked[j] \in Handled(j) \/ UsedUp(j) \/
           /\ on[j] /\ next[j] = asked[j]
           /\ \A s \in Schedulers : \A r \in batch[s] : r.job = j => r.at = asked[j]

\* The times of a job nobody has moved.
OnGrid(j, t) == \E k \in Nat : t = First[j] + k * Period[j]

TimesKept ==
  \A j \in Jobs \ touched :
    /\ OnGrid(j, next[j])
    /\ \A s \in Schedulers : \A r \in batch[s] : r.job = j => OnGrid(j, r.at)
    /\ Handled(j) \subseteq Grid(j) \cap 0..clock

\* The row's time is a function of its count, as long as nobody moves the job:
\* so every fire has a count of its own.
CountTells(j, G) ==
  /\ next[j] = G[count[j]]
  /\ \A s \in Schedulers : \A r \in batch[s] :
       r.job = j => r.count <= count[j] /\ r.at = G[r.count]
  /\ \A t \in Handled(j) : \E c \in 0..(Count[j] - 1) : c <= count[j] /\ t = G[c]

Counted == \A j \in Jobs \ touched : Count[j] > 0 => \E G \in [Nat -> Nat] : CountTells(j, G)

\* Without a lapse a claimed row is leased, in one scheduler's hands and
\* unchanged; and either the course is run, or the job is at its next time and
\* has fired at those before.
Undisturbed(j) ==
  /\ \A s \in Schedulers : \A r \in batch[s] :
       r.job = j => /\ lease[j] = "live" /\ r.at = next[j] /\ r.count = count[j]
                    /\ \A z \in Schedulers : Holds(z, j) => z = s
  /\ j \in Interval \/ Period[j] = 0 =>
       \/ Course(j) \subseteq Handled(j)
       \/ /\ on[j] \/ j \in paused
          /\ next[j] = First[j] + count[j] * Period[j]
          /\ \A t \in Course(j) : t < next[j] => t \in Handled(j)

CourseKept ==
  /\ \A e \in Events : left[e] <= Budget[e]
  /\ NoLapse => \A j \in Jobs \ touched : Undisturbed(j)

-----------------------------------------------------------------------------
(* When a job fires *)

\* The next time of a cron schedule is one of the job's, or none.
LEMMA CronFits ==
  ASSUME NEW j \in Jobs, NEW t \in Nat
  PROVE  CronNext(j, t) \in Nat /\ (CronNext(j, t) # Never => OnGrid(j, CronNext(j, t)))
<1> USE SchedulerAssumption DEF SchedulerAssumption
<1> DEFINE p == Period[j]  q == (t - First[j]) \div p
<1>1. p \in Nat /\ First[j] \in Nat
  OBVIOUS
<1>2. CASE p = 0
  BY <1>2 DEF CronNext, Never
<1>3. CASE p > 0 /\ t < First[j]
  <2>1. First[j] = First[j] + 0 * p
    BY <1>1
  <2> QED BY <1>1, <1>3, <2>1 DEF CronNext, OnGrid
<1>4. CASE p > 0 /\ ~(t < First[j])
  <2>1. t - First[j] \in Nat
    BY <1>1, <1>4
  <2>2. q \in Nat
    BY <1>1, <1>4, <2>1
  <2>3. CronNext(j, t) = First[j] + p * (q + 1)
    BY <1>4 DEF CronNext
  <2>4. \A a \in Nat : p * a = a * p /\ p * a \in Nat
    BY <1>1
  <2>5. p * (q + 1) = (q + 1) * p /\ p * (q + 1) \in Nat
    BY <2>2, <2>4
  <2> HIDE DEF p, q
  <2> QED BY <1>1, <2>2, <2>3, <2>5 DEF OnGrid, p
<1> QED BY <1>1, <1>2, <1>3, <1>4

\* The next time of a row is a time or none.
LEMMA NextFits ==
  ASSUME NEW r \in Rows, NEW t \in Nat
  PROVE  NextRun(r, t) \in Nat
<1>1. r.job \in Jobs /\ r.at \in Nat /\ Period[r.job] \in Nat
  BY SchedulerAssumption DEF Rows, SchedulerAssumption
<1>2. \A u \in Nat : CronNext(r.job, u) \in Nat
  BY <1>1, CronFits
<1> QED BY <1>1, <1>2 DEF NextRun, Never


-----------------------------------------------------------------------------
(* Shape *)

\* The types, what a pass has in hand, and the deliveries of recorded fires.
THEOREM ShapeKept == Spec => []Shape
<1> USE SchedulerAssumption
<1>1. Init => Shape
  BY DEF Init, Shape, TypeOK, PassFits, FanoutComplete, Tables, Rows, NoRow, Events, Never,
         SchedulerAssumption
<1>2. ASSUME Shape, NEW s \in Schedulers, Begin(s) PROVE Shape'
  <2> USE <1>2 DEF Shape
  <2>1. TypeOK'
    BY DEF TypeOK, Begin, rowVars, effects, userVars, Moves, Tables
  <2>2. PassFits'
    BY SMTT(30) DEF TypeOK, PassFits, Begin, rowVars, effects, userVars, Moves, Tables
  <2>3. FanoutComplete'
    BY DEF FanoutComplete, Begin, effects
  <2> QED BY <2>1, <2>2, <2>3
<1>3. ASSUME Shape, NEW s \in Schedulers, Claim(s) PROVE Shape'
  <2> USE <1>3 DEF Shape
  <2>1. TypeOK'
    BY DEF TypeOK, Claim, effects, userVars, Moves, Continues, Rows, Tables
  <2>2. PassFits'
    <3>1. PICK J \in SUBSET {j \in Jobs : TableOf[j] = table[s] /\ Due(j)} :
            batch' = [batch EXCEPT ![s] = {[job |-> j, at |-> next[j], count |-> count[j]] : j \in J}]
      BY DEF Claim
    <3>2. phase'[s] \notin {"sending", "completing"} /\ UNCHANGED <<clock, fired, failed, sent, row, todo>>
      BY DEF Claim, Continues, Moves, effects, TypeOK
    <3>3. \A z \in Schedulers \ {s} : phase'[z] = phase[z] /\ batch'[z] = batch[z]
      BY <3>1 DEF Claim, Continues, Moves, TypeOK
    <3>4. \A r \in batch'[s] : r.at <= clock
      BY <3>1 DEF Due, TypeOK
    <3> QED BY <3>2, <3>3, <3>4, SMTT(30) DEF PassFits
  <2>3. FanoutComplete'
    BY DEF FanoutComplete, Claim, effects
  <2> QED BY <2>1, <2>2, <2>3
<1>4. ASSUME Shape, NEW s \in Schedulers, Fire(s) PROVE Shape'
  <2> USE <1>4 DEF Shape
  <2>1. TypeOK'
    BY DEF TypeOK, Fire, rowVars, effects, userVars, Moves, Takes, Rows
  <2>2. PassFits'
    BY SMTT(30) DEF TypeOK, PassFits, Fire, rowVars, effects, userVars, Moves, Takes, Rows
  <2>3. FanoutComplete'
    <3>1. PICK r \in batch[s] : TableOf[r.job] # 1 /\ fired' = fired \cup {<<r.job, r.at>>} /\ sent' = sent
      BY DEF Fire
    <3>2. r.job \in Jobs /\ Subscribers[r.job] = {}
      BY <3>1 DEF TypeOK, Rows, SchedulerAssumption
    <3>3. ASSUME NEW f \in fired', NEW u \in Subscribers[f[1]] PROVE f \in fired
      <4>1. CASE f = <<r.job, r.at>>
        BY <3>2, <4>1
      <4> QED BY <3>1, <4>1
    <3> QED BY <3>1, <3>3 DEF FanoutComplete
  <2> QED BY <2>1, <2>2, <2>3
<1>5. ASSUME Shape, NEW s \in Schedulers, Evaluate(s) PROVE Shape'
  <2> USE <1>5 DEF Shape
  <2>1. TypeOK'
    BY SMTT(60) DEF TypeOK, Evaluate, rowVars, effects, userVars, Moves, Takes, Rows, Spend, Events
  <2>2. PassFits'
    <3>1. PICK r \in batch[s] :
            /\ TableOf[r.job] = 1 /\ Takes(s, r)
            /\ \/ Moves(s, "picking", "sending") /\ todo' = [todo EXCEPT ![s] = Subscribers[r.job]]
                  /\ UNCHANGED <<fired, failed, sent>>
               \/ /\ Moves(s, "picking", "completing") /\ UNCHANGED <<sent, todo>>
                  /\ failed' = failed \cup {<<r.job, r.at>>} /\ fired' = fired \ {<<r.job, r.at>>}
      BY DEF Evaluate, effects
    <3>2. UNCHANGED <<clock, batch>> /\ r \in Rows
      BY <3>1 DEF Evaluate, TypeOK
    <3>3. row'[s] = r /\ \A z \in Schedulers \ {s} : row'[z] = row[z] /\ phase'[z] = phase[z] /\ todo'[z] = todo[z]
      BY <3>1 DEF Takes, Moves, TypeOK
    <3>4. fired \cup failed \subseteq fired' \cup failed' /\ sent' = sent
      BY <3>1
    <3>5. phase'[s] = "sending" => todo'[s] = Subscribers[r.job]
      BY <3>1 DEF Moves, TypeOK
    <3>6. phase'[s] = "completing" => <<r.job, r.at>> \in failed'
      BY <3>1 DEF Moves, TypeOK
    <3>7. ASSUME NEW z \in Schedulers \ {s} PROVE PassFits!(z)'
      BY <3>2, <3>3, <3>4 DEF PassFits
    <3>8. PassFits!(s)'
      BY <3>1, <3>2, <3>3, <3>5, <3>6 DEF PassFits
    <3> QED BY <3>7, <3>8 DEF PassFits
  <2>3. FanoutComplete'
    <3>1. fired' \subseteq fired /\ sent \subseteq sent'
      BY DEF Evaluate, effects
    <3> QED BY <3>1 DEF FanoutComplete
  <2> QED BY <2>1, <2>2, <2>3
<1>6. ASSUME Shape, NEW s \in Schedulers, Send(s) PROVE Shape'
  <2> USE <1>6 DEF Shape
  <2>1. TypeOK'
    BY DEF TypeOK, Send, rowVars, effects, userVars, Rows
  <2>2. PassFits'
    BY SMTT(30) DEF TypeOK, PassFits, Send, rowVars, effects, userVars, Rows
  <2>3. FanoutComplete'
    <3>1. fired' \subseteq fired /\ sent \subseteq sent'
      BY DEF Send
    <3> QED BY <3>1 DEF FanoutComplete
  <2> QED BY <2>1, <2>2, <2>3
<1>7. ASSUME Shape, NEW s \in Schedulers, Record(s) PROVE Shape'
  <2> USE <1>7 DEF Shape
  <2>1. TypeOK'
    BY DEF TypeOK, Record, rowVars, effects, userVars, Moves, Rows
  <2>2. PassFits'
    BY SMTT(30) DEF TypeOK, PassFits, Record, rowVars, effects, userVars, Moves, Rows
  <2>3. FanoutComplete'
    <3>1. \A u \in Subscribers[row[s].job] : <<row[s].job, row[s].at, u>> \in sent
      BY DEF PassFits, Record, Moves
    <3>2. fired' = fired \cup {<<row[s].job, row[s].at>>} /\ sent' = sent
      BY DEF Record
    <3>3. ASSUME NEW f \in fired', NEW u \in Subscribers[f[1]] PROVE <<f[1], f[2], u>> \in sent
      <4>1. CASE f = <<row[s].job, row[s].at>>
        BY <3>1, <4>1
      <4>2. CASE f \in fired
        BY <4>2 DEF FanoutComplete
      <4> QED BY <3>2, <4>1, <4>2
    <3> QED BY <3>2, <3>3 DEF FanoutComplete
  <2> QED BY <2>1, <2>2, <2>3
<1>8. ASSUME Shape, NEW s \in Schedulers, Complete(s) PROVE Shape'
  <2> USE <1>8 DEF Shape
  <2>1. TypeOK'
    <3>1. row[s] \in batch[s] /\ row[s] \in Rows
      BY DEF TypeOK, Complete
    <3>2. NextRun(row[s], now[s]) \in Nat
      BY <3>1, NextFits DEF TypeOK
    <3>3. /\ on' \in [Jobs -> BOOLEAN] /\ next' \in [Jobs -> Nat] /\ count' \in [Jobs -> Nat]
          /\ lease' \in [Jobs -> {"null", "live", "expired"}]
      BY <3>1, <3>2 DEF TypeOK, Complete, Written, Rows, Never
    <3>4. /\ phase' \in [Schedulers -> {"idle", "claiming", "picking", "sending", "completing"}]
          /\ phase'[s] \notin {"sending", "completing"}
          /\ table' \in [Schedulers -> Tables] /\ now' \in [Schedulers -> 0..Horizon]
      BY DEF TypeOK, Complete, Continues, Moves, Tables
    <3>5. /\ batch' \in [Schedulers -> SUBSET Rows] /\ row' \in [Schedulers -> Rows \cup {NoRow}]
          /\ row'[s] = NoRow
          /\ \A z \in Schedulers \ {s} : row'[z] = row[z] /\ batch'[z] = batch[z] /\ phase'[z] = phase[z]
      BY DEF TypeOK, Complete, Written, Continues, Moves
    <3> QED BY <3>3, <3>4, <3>5 DEF TypeOK, Complete, effects, userVars
  <2>2. PassFits'
    BY SMTT(30) DEF TypeOK, PassFits, Complete, rowVars, effects, userVars, Moves, Continues, Written, Rows, NoRow, Tables, Never
  <2>3. FanoutComplete'
    BY DEF FanoutComplete, Complete, effects
  <2> QED BY <2>1, <2>2, <2>3
<1>9. ASSUME Shape, NEW s \in Schedulers, Stop(s) PROVE Shape'
  <2> USE <1>9 DEF Shape
  <2>1. TypeOK'
    BY DEF TypeOK, Stop, rowVars, effects, userVars, Moves, Continues, Written, Rows, NoRow, Tables, Never
  <2>2. PassFits'
    BY SMTT(30) DEF TypeOK, PassFits, Stop, rowVars, effects, userVars, Moves, Continues, Written, Rows, NoRow, Tables, Never
  <2>3. FanoutComplete'
    BY DEF FanoutComplete, Stop, effects
  <2> QED BY <2>1, <2>2, <2>3
<1>10. ASSUME Shape, NEW s \in Schedulers, Abort(s) PROVE Shape'
  <2> USE <1>10 DEF Shape
  <2>1. TypeOK'
    BY DEF TypeOK, Abort, rowVars, effects, userVars, Spend, Events, NoRow, Tables
  <2>2. PassFits'
    BY SMTT(30) DEF TypeOK, PassFits, Abort, rowVars, effects, userVars, Spend, Events, NoRow, Tables
  <2>3. FanoutComplete'
    BY DEF FanoutComplete, Abort, effects
  <2> QED BY <2>1, <2>2, <2>3
<1>11. ASSUME Shape, Tick PROVE Shape'
  <2> USE <1>11 DEF Shape
  <2>1. clock' = clock + 1 /\ clock' \in 0..Horizon /\ UNCHANGED <<rowVars, effects, passVars, userVars, left>>
    BY DEF Tick, TypeOK, SchedulerAssumption
  <2>2. TypeOK'
    BY <2>1 DEF TypeOK, rowVars, effects, passVars, userVars
  <2>3. PassFits'
    <3>1. \A s \in Schedulers : \A r \in batch[s] : r.at <= clock'
      <4> SUFFICES ASSUME NEW s \in Schedulers, NEW r \in batch[s] PROVE r.at <= clock'
        OBVIOUS
      <4>1. r.at \in Nat /\ clock \in Nat
        BY DEF TypeOK, Rows, SchedulerAssumption
      <4>2. r.at <= clock
        BY DEF PassFits
      <4> QED BY <2>1, <4>1, <4>2
    <3> QED BY <2>1, <3>1 DEF PassFits, effects, passVars
  <2> QED BY <2>1, <2>2, <2>3 DEF FanoutComplete, effects
<1>12. ASSUME Shape, NEW j \in Jobs, LeaseExpires(j) PROVE Shape'
  BY <1>12, SMTT(30) DEF Shape, TypeOK, PassFits, FanoutComplete, LeaseExpires, Spend, Events, Never,
     rowVars, effects, passVars, userVars
<1>13. ASSUME Shape, NEW j \in Jobs, Toggle(j) PROVE Shape'
  BY <1>13, SMTT(30) DEF Shape, TypeOK, PassFits, FanoutComplete, Toggle, Spend, Events, Never,
     rowVars, effects, passVars, userVars
<1>14. ASSUME Shape, NEW j \in Jobs, NEW t \in 1..Horizon, Reschedule(j, t) PROVE Shape'
  BY <1>14, SMTT(30) DEF Shape, TypeOK, PassFits, FanoutComplete, Reschedule, Spend, Events, Never,
     rowVars, effects, passVars, userVars
<1>15. ASSUME Shape, UNCHANGED vars PROVE Shape'
  BY <1>15 DEF Shape, TypeOK, PassFits, FanoutComplete, vars, rowVars, effects, passVars, userVars
<1> QED
  <2>1. Shape /\ [Next]_vars => Shape'
    BY <1>2, <1>3, <1>4, <1>5, <1>6, <1>7, <1>8, <1>9, <1>10, <1>11, <1>12, <1>13, <1>14, <1>15 DEF Next, SchedulerStep
  <2> QED BY <1>1, <2>1, PTL DEF Spec

\* Succeeded fires of shared jobs have all their deliveries.
THEOREM FanoutIsComplete == Spec => []FanoutComplete
<1>1. Shape => FanoutComplete
  BY DEF Shape
<1> QED BY <1>1, ShapeKept, PTL

-----------------------------------------------------------------------------
(* What a step leaves *)

\* A fire that is recorded stays recorded, as a success or as a failure.
LEMMA FiresStay ==
  ASSUME [Next]_vars
  PROVE  /\ fired \cup failed \subseteq fired' \cup failed'
         /\ \A j : Handled(j) \subseteq Handled(j)'
<1>1. fired \cup failed \subseteq fired' \cup failed'
  <2>1. ASSUME NEW s \in Schedulers, SchedulerStep(s) \/ Abort(s)
        PROVE  fired \cup failed \subseteq fired' \cup failed'
    BY <2>1 DEF SchedulerStep, Begin, Claim, Fire, Evaluate, Send, Record, Complete, Stop, Abort, effects
  <2>2. CASE Tick \/ UNCHANGED vars
    BY <2>2 DEF Tick, vars, effects
  <2>3. ASSUME NEW j \in Jobs, LeaseExpires(j) \/ Toggle(j) \/ \E t \in 1..Horizon : Reschedule(j, t)
        PROVE  fired \cup failed \subseteq fired' \cup failed'
    BY <2>3 DEF LeaseExpires, Toggle, Reschedule, effects
  <2> QED BY <2>1, <2>2, <2>3 DEF Next
<1> QED BY <1>1 DEF Handled

\* The actions that only take rows out of hand, or a lease from a row.
Passing ==
  \/ \E s \in Schedulers : Begin(s) \/ Fire(s) \/ Evaluate(s) \/ Send(s) \/ Record(s) \/ Abort(s)
  \/ Tick \/ (\E j \in Jobs : LeaseExpires(j)) \/ UNCHANGED vars

\* They leave the rows of the tables alone.
LEMMA Passes ==
  ASSUME TypeOK, Passing
  PROVE  /\ UNCHANGED <<on, next, count, asked, touched, paused>>
         /\ \A z \in Schedulers : batch'[z] \subseteq batch[z]
<1>1. ASSUME NEW s \in Schedulers, Begin(s) \/ Fire(s) \/ Evaluate(s) \/ Send(s) \/ Record(s)
      PROVE  UNCHANGED <<on, next, count, asked, touched, paused, batch>>
  BY <1>1 DEF Begin, Fire, Evaluate, Send, Record, rowVars, userVars
<1>2. ASSUME NEW s \in Schedulers, Abort(s)
      PROVE  /\ UNCHANGED <<on, next, count, asked, touched, paused>>
             /\ \A z \in Schedulers : batch'[z] \subseteq batch[z]
  BY <1>2 DEF Abort, rowVars, userVars, TypeOK
<1>3. ASSUME Tick \/ (\E j \in Jobs : LeaseExpires(j)) \/ UNCHANGED vars
      PROVE  UNCHANGED <<on, next, count, asked, touched, paused, batch>>
  BY <1>3 DEF Tick, LeaseExpires, vars, rowVars, passVars, userVars
<1> QED BY <1>1, <1>2, <1>3 DEF Passing

\* A claim takes the rows as they are.
LEMMA Claims ==
  ASSUME TypeOK, NEW s \in Schedulers, Claim(s)
  PROVE  /\ UNCHANGED <<clock, on, next, count, fired, failed, asked, touched, paused, left>>
         /\ \A z \in Schedulers \ {s} : batch'[z] = batch[z]
         /\ \A r \in batch'[s] : /\ r.job \in Jobs /\ r.at = next[r.job] /\ r.count = count[r.job]
                                 /\ lease[r.job] # "live" /\ lease'[r.job] = "live"
         /\ \A j \in Jobs : lease[j] = "live" => lease'[j] = "live"
<1>1. PICK J \in SUBSET {j \in Jobs : TableOf[j] = table[s] /\ Due(j)} :
        /\ batch' = [batch EXCEPT ![s] = {[job |-> j, at |-> next[j], count |-> count[j]] : j \in J}]
        /\ lease' = [j \in Jobs |-> IF j \in J THEN "live" ELSE lease[j]]
  BY DEF Claim
<1>2. UNCHANGED <<clock, on, next, count, fired, failed, asked, touched, paused, left>>
  BY DEF Claim, effects, userVars
<1>3. \A z \in Schedulers \ {s} : batch'[z] = batch[z]
  BY <1>1 DEF TypeOK
<1>4. ASSUME NEW r \in batch'[s]
      PROVE  /\ r.job \in J /\ r.job \in Jobs /\ r.at = next[r.job] /\ r.count = count[r.job]
             /\ lease[r.job] # "live" /\ lease'[r.job] = "live"
  BY <1>1 DEF TypeOK, Due
<1>5. \A j \in Jobs : lease[j] = "live" => lease'[j] = "live"
  BY <1>1
<1> QED BY <1>2, <1>3, <1>4, <1>5

\* The row in hand is completed or stopped, r with next time n or none.
Ends(s, r, n) ==
  \/ Complete(s) /\ r = row[s] /\ n = NextRun(r, now[s])
  \/ /\ phase[s] = "picking" /\ r \in batch[s] /\ TableOf[r.job] = 2 /\ Stopped(r) /\ n = Never
     /\ Written(s, r, n) /\ UNCHANGED <<clock, effects, todo, userVars, left>>

\* What becomes of the row, of the others and of what is in hand.
LEMMA Ending ==
  ASSUME TypeOK, NEW s \in Schedulers, NEW r, NEW n, Ends(s, r, n)
  PROVE  /\ UNCHANGED <<clock, fired, failed, sent, asked, touched, paused, left>>
         /\ r \in batch[s] /\ r \in Rows /\ n \in Nat
         /\ \A j \in Jobs \ {r.job} : /\ on'[j] = on[j] /\ next'[j] = next[j]
                                      /\ count'[j] = count[j] /\ lease'[j] = lease[j]
         /\ on'[r.job] = (on[r.job] /\ n # Never)
         /\ next'[r.job] = IF n = Never THEN next[r.job] ELSE n
         /\ count'[r.job] = count[r.job] + IF TableOf[r.job] = 2 THEN 1 ELSE 0
         /\ lease'[r.job] = "null"
         /\ batch'[s] = batch[s] \ {r}
         /\ \A z \in Schedulers \ {s} : batch'[z] = batch[z]
<1>1. Written(s, r, n) /\ UNCHANGED <<clock, fired, failed, sent, asked, touched, paused, left>>
  BY DEF Ends, Complete, effects, userVars
<1>2. r \in batch[s] /\ r \in Rows
  BY DEF Ends, Complete, TypeOK
<1>3. n \in Nat
  <2>1. NextRun(r, now[s]) \in Nat
    BY <1>2, NextFits, SchedulerAssumption DEF TypeOK, SchedulerAssumption
  <2> QED BY <2>1 DEF Ends, Never
<1>4. r.job \in Jobs
  BY <1>2 DEF Rows
<1> QED BY <1>1, <1>2, <1>3, <1>4 DEF Written, TypeOK

\* Complete and Stop are such ends.
LEMMA EndOrStop ==
  ASSUME NEW s \in Schedulers, Complete(s) \/ Stop(s)
  PROVE  \E r, n : Ends(s, r, n)
<1>1. CASE Complete(s)
  BY <1>1 DEF Ends
<1>2. CASE Stop(s)
  BY <1>2 DEF Ends, Stop
<1> QED BY <1>1, <1>2

-----------------------------------------------------------------------------
(* The time a user asked for *)

\* What a user asked for fires, unless the scheduler that has the row in hand
\* overwrites it or its count is used up: until then it is the row's time, and
\* that of every claim of the row.
THEOREM AskedIsFired == Spec => []AskedFires
<1> USE SchedulerAssumption
<1>1. Init => AskedKept
  BY DEF Init, AskedKept
<1>2. Shape /\ AskedKept /\ [Next]_vars => AskedKept'
  <2> SUFFICES ASSUME Shape, AskedKept, [Next]_vars, NEW j \in Jobs, asked'[j] # Never
               PROVE  AskedKept!(j)'
    BY DEF AskedKept
  <2>1. TypeOK /\ PassFits
    BY DEF Shape
  <2>2. Handled(j) \subseteq Handled(j)'
    BY FiresStay
  <2>3. CASE Passing
    <3>1. UNCHANGED <<on, next, count, asked>> /\ \A z \in Schedulers : batch'[z] \subseteq batch[z]
      BY <2>1, <2>3, Passes
    <3> QED BY <2>2, <3>1 DEF AskedKept, UsedUp
  <2>4. ASSUME NEW s \in Schedulers, Claim(s) PROVE AskedKept!(j)'
    <3>1. /\ UNCHANGED <<on, next, count, asked>>
          /\ \A z \in Schedulers \ {s} : batch'[z] = batch[z]
          /\ \A r \in batch'[s] : r.at = next[r.job] /\ r.count = count[r.job]
      BY <2>1, <2>4, Claims
    <3>2. count[j] \in Nat
      BY <2>1 DEF TypeOK
    <3> QED BY <2>2, <3>1, <3>2 DEF AskedKept, UsedUp
  <2>5. ASSUME NEW s \in Schedulers, NEW r, NEW n, Ends(s, r, n) PROVE AskedKept!(j)'
    <3>1. /\ UNCHANGED asked /\ r \in batch[s]
          /\ \A k \in Jobs \ {r.job} : on'[k] = on[k] /\ next'[k] = next[k] /\ count'[k] = count[k]
          /\ \A z \in Schedulers : batch'[z] \subseteq batch[z]
      BY <2>1, <2>5, Ending
    <3>2. CASE r.job # j
      BY <2>2, <3>1, <3>2 DEF AskedKept, UsedUp
    <3>3. CASE r.job = j
      <4>1. count'[j] = count[j] \/ count'[j] = count[j] + 1
        BY <2>1, <2>5, <3>3, Ending DEF TypeOK
      <4>2. count[j] \in Nat /\ Count[j] \in Nat /\ Until[j] \in Nat /\ r \in Rows
        BY <2>1, <2>5, Ending DEF TypeOK, SchedulerAssumption
      <4>3. r.count <= count[j] /\ r.at \in Nat /\ r.count \in Nat
        BY <3>1, <3>3, <4>2 DEF AskedKept, Rows
      <4>4. asked[j] \in Handled(j) \/ UsedUp(j)
        <5>1. CASE r.at = asked[j] /\ phase[s] = "completing" /\ r = row[s]
          <6>1. <<j, asked[j]>> \in fired \cup failed
            BY <2>1, <3>3, <5>1 DEF PassFits
          <6>2. asked[j] \in Times
            BY <3>1 DEF AskedKept, Times
          <6> QED BY <6>1, <6>2 DEF Handled
        <5>2. CASE r.at = asked[j] /\ Stopped(r)
          <6>1. ~(Until[j] # Never /\ r.at >= Until[j])
            BY <3>1, <4>2, <4>3, <5>2 DEF AskedKept
          <6> QED BY <3>3, <4>2, <4>3, <5>2, <6>1 DEF Stopped, UsedUp
        <5>3. CASE r.at # asked[j]
          BY <3>1, <3>3, <5>3 DEF AskedKept
        <5> QED BY <2>5, <5>1, <5>2, <5>3 DEF Ends, Complete
      <4>5. asked'[j] \in Handled(j)' \/ UsedUp(j)'
        BY <2>2, <3>1, <4>1, <4>2, <4>4 DEF UsedUp
      <4>6. ASSUME NEW z \in Schedulers, NEW q \in batch'[z], q.job = j PROVE q.count <= count'[j]
        <5>1. q \in batch[z] /\ q.count \in Nat
          BY <2>1, <3>1 DEF TypeOK, Rows
        <5>2. q.count <= count[j]
          BY <3>1, <4>6, <5>1 DEF AskedKept
        <5> QED BY <4>1, <4>2, <5>1, <5>2
      <4> QED BY <3>1, <4>5, <4>6 DEF AskedKept
    <3> QED BY <3>2, <3>3
  <2>6. ASSUME NEW k \in Jobs, Toggle(k) PROVE AskedKept!(j)'
    <3>1. k # j /\ UNCHANGED <<next, count, batch>> /\ on'[j] = on[j] /\ asked'[j] = asked[j]
      BY <2>1, <2>6 DEF Toggle, passVars, TypeOK
    <3> QED BY <2>2, <3>1 DEF AskedKept, UsedUp
  <2>7. ASSUME NEW k \in Jobs, NEW t \in 1..Horizon, Reschedule(k, t) PROVE AskedKept!(j)'
    <3>1. UNCHANGED batch
      BY <2>7 DEF Reschedule, passVars
    <3>2. CASE k # j
      <4>1. on'[j] = on[j] /\ next'[j] = next[j] /\ count'[j] = count[j] /\ asked'[j] = asked[j]
        BY <2>1, <2>7, <3>2 DEF Reschedule, TypeOK
      <4> QED BY <2>2, <3>1, <4>1 DEF AskedKept, UsedUp
    <3>3. CASE k = j
      <4>1. /\ ~Held(j) /\ asked'[j] = t /\ next'[j] = t /\ on'[j] = TRUE
            /\ Until[j] # Never => t < Until[j]
        BY <2>1, <2>7, <3>3 DEF Reschedule, TypeOK
      <4> QED BY <3>1, <4>1 DEF AskedKept, Held, Holds
    <3> QED BY <3>2, <3>3
  <2> QED BY <2>3, <2>4, <2>5, <2>6, <2>7, EndOrStop DEF Next, SchedulerStep, Passing
<1>3. AskedKept => AskedFires
  BY DEF AskedKept, AskedFires, UsedUp
<1> QED BY <1>1, <1>2, <1>3, ShapeKept, PTL DEF Spec

-----------------------------------------------------------------------------
(* The times of a job nobody has moved *)

\* A fire is recorded only for a row in hand that is not to be stopped.
LEMMA NewFires ==
  ASSUME Shape, [Next]_vars, NEW f \in fired' \cup failed', f \notin fired \cup failed
  PROVE  /\ Passing /\ clock' = clock
         /\ \E s \in Schedulers : \E r \in batch[s] :
              f = <<r.job, r.at>> /\ (TableOf[r.job] = 2 => ~Stopped(r))
<1>1. ASSUME NEW s \in Schedulers, Fire(s) \/ Evaluate(s) \/ Record(s)
      PROVE  /\ clock' = clock
             /\ \E r \in batch[s] : f = <<r.job, r.at>> /\ (TableOf[r.job] = 2 => ~Stopped(r))
  <2>1. CASE Fire(s)
    BY <2>1 DEF Fire
  <2>2. CASE Evaluate(s)
    BY <2>2 DEF Evaluate, effects
  <2>3. CASE Record(s)
    <3>1. row[s] \in batch[s] /\ TableOf[row[s].job] = 1
      BY <2>3 DEF Shape, TypeOK, PassFits, Record, Moves
    <3> QED BY <2>3, <3>1 DEF Record
  <2> QED BY <1>1, <2>1, <2>2, <2>3
<1>2. ASSUME UNCHANGED <<fired, failed>> PROVE FALSE
  BY <1>2
<1>3. ASSUME NEW s \in Schedulers, SchedulerStep(s) \/ Abort(s)
      PROVE  Fire(s) \/ Evaluate(s) \/ Record(s)
  BY <1>2, <1>3 DEF SchedulerStep, Begin, Claim, Send, Complete, Stop, Abort, effects
<1>4. ASSUME Tick \/ UNCHANGED vars
             \/ \E j \in Jobs : LeaseExpires(j) \/ Toggle(j) \/ \E t \in 1..Horizon : Reschedule(j, t)
      PROVE  FALSE
  BY <1>2, <1>4 DEF Tick, LeaseExpires, Toggle, Reschedule, vars, effects
<1> QED BY <1>1, <1>3, <1>4 DEF Next, Passing

\* Multiplication by a period.
LEMMA Multiples ==
  ASSUME NEW p \in Nat
  PROVE  /\ \A a \in Nat : a * p \in Nat /\ (a + 1) * p = a * p + p /\ (p > 0 => a <= a * p)
         /\ \A a, b \in Nat : a <= b => a * p <= b * p
         /\ \A a, b \in Nat : a * p < b * p => (a + 1) * p <= b * p
<1>1. \A a \in Nat : a * p \in Nat /\ (a + 1) * p = a * p + p
  OBVIOUS
<1>2. ASSUME NEW a \in Nat, NEW b \in Nat, a <= b PROVE a * p <= b * p
  <2>1. PICK d \in Nat : b = a + d
    <3>1. b - a \in Nat /\ b = a + (b - a)
      BY <1>2
    <3> QED BY <3>1
  <2>2. (a + d) * p = a * p + d * p
    OBVIOUS
  <2> QED BY <1>1, <2>1, <2>2
<1>3. ASSUME NEW a \in Nat, NEW b \in Nat, a * p < b * p PROVE (a + 1) * p <= b * p
  <2>1. ~(b <= a)
    <3>1. b <= a => b * p <= a * p
      BY <1>2
    <3> QED BY <1>1, <1>3, <3>1
  <2>2. a + 1 <= b
    BY <2>1
  <2> QED BY <1>2, <2>2
<1>4. ASSUME NEW a \in Nat, p > 0 PROVE a <= a * p
  <2>1. a * p = a + a * (p - 1) /\ p - 1 \in Nat
    BY <1>4
  <2>2. \A b \in Nat : a * b \in Nat
    OBVIOUS
  <2>3. a * (p - 1) \in Nat
    BY <2>1, <2>2
  <2> QED BY <2>1, <2>3
<1> QED BY <1>1, <1>2, <1>3, <1>4

\* A time of the job's that the horizon and repeat_until admit is one of its grid.
LEMMA InGrid ==
  ASSUME NEW j \in Jobs, NEW t \in Nat, OnGrid(j, t), t <= Horizon, Until[j] # Never => t < Until[j]
  PROVE  t \in Grid(j)
<1>1. PICK k \in Nat : t = First[j] + k * Period[j]
  BY DEF OnGrid
<1>2. First[j] \in Nat /\ Period[j] \in Nat /\ Horizon \in Nat
  BY SchedulerAssumption DEF SchedulerAssumption
<1>3. t \in Times
  BY <1>2 DEF Times
<1>4. CASE Period[j] = 0
  <2>1. t = First[j] + 0 * Period[j]
    BY <1>1, <1>2, <1>4
  <2>2. 0 \in 0..Horizon
    BY <1>2
  <2> QED BY <1>3, <2>1, <2>2 DEF Grid
<1>5. CASE Period[j] > 0
  <2>1. k <= k * Period[j] /\ k * Period[j] \in Nat
    BY <1>2, <1>5, Multiples
  <2>2. k \in 0..Horizon
    BY <1>1, <1>2, <2>1
  <2> QED BY <1>1, <1>3, <2>2 DEF Grid
<1> QED BY <1>2, <1>4, <1>5

\* From a time of the job's the next is one too.
LEMMA NextOnGrid ==
  ASSUME NEW r \in Rows, NEW t \in Nat, OnGrid(r.job, r.at), NextRun(r, t) # Never
  PROVE  OnGrid(r.job, NextRun(r, t))
<1>1. r.job \in Jobs /\ r.at \in Nat /\ First[r.job] \in Nat /\ Period[r.job] \in Nat
  BY SchedulerAssumption DEF Rows, SchedulerAssumption
<1>2. CASE r.job \in Interval
  <2>1. PICK k \in Nat : r.at = First[r.job] + k * Period[r.job]
    BY DEF OnGrid
  <2>2. (k + 1) * Period[r.job] = k * Period[r.job] + Period[r.job] /\ k * Period[r.job] \in Nat
    BY <1>1, Multiples
  <2>3. r.at + Period[r.job] = First[r.job] + (k + 1) * Period[r.job]
    BY <1>1, <2>1, <2>2
  <2>4. NextRun(r, t) = r.at + Period[r.job]
    BY <1>2 DEF NextRun
  <2> QED BY <2>3, <2>4 DEF OnGrid
<1>3. CASE r.job \notin Interval
  <2>1. \A u \in Nat : CronNext(r.job, u) # Never => OnGrid(r.job, CronNext(r.job, u))
    BY <1>1, CronFits
  <2> QED BY <1>1, <1>3, <2>1 DEF NextRun
<1> QED BY <1>2, <1>3

\* A job nobody has moved is claimed and fired only at its times.
THEOREM TimesAreKept == Spec => []TimesKept
<1> USE SchedulerAssumption
<1>1. Init => TimesKept
  <2> SUFFICES ASSUME Init, NEW j \in Jobs PROVE TimesKept!(j)
    BY DEF TimesKept
  <2>1. First[j] = First[j] + 0 * Period[j]
    BY DEF SchedulerAssumption
  <2>2. OnGrid(j, next[j])
    BY <2>1 DEF Init, OnGrid
  <2> QED BY <2>2 DEF Init, Handled
<1>2. Shape /\ TimesKept /\ [Next]_vars => TimesKept'
  <2> SUFFICES ASSUME Shape, TimesKept, [Next]_vars, NEW j \in Jobs, j \notin touched'
               PROVE  TimesKept!(j)'
    BY DEF TimesKept
  <2>1. TypeOK /\ PassFits
    BY DEF Shape
  <2>2. clock \in Nat /\ clock' \in Nat /\ clock <= clock' /\ clock <= Horizon /\ touched \subseteq touched'
    <3>1. clock' = clock \/ Tick
      BY DEF Next, SchedulerStep, Begin, Claim, Fire, Evaluate, Send, Record, Complete, Stop, Abort,
             LeaseExpires, Toggle, Reschedule, vars
    <3>2. touched \subseteq touched'
      BY ZenonT(60) DEF Next, SchedulerStep, Begin, Claim, Fire, Evaluate, Send, Record, Complete, Stop, Abort,
             Tick, LeaseExpires, Toggle, Reschedule, vars, userVars
    <3> QED BY <2>1, <3>1, <3>2 DEF Tick, TypeOK, SchedulerAssumption
  <2>3. /\ OnGrid(j, next[j]) /\ Handled(j) \subseteq Grid(j) \cap 0..clock
        /\ \A s \in Schedulers : \A r \in batch[s] : r.job = j => OnGrid(j, r.at)
    BY <2>2 DEF TimesKept
  <2>4. ASSUME NEW t \in Handled(j)' PROVE t \in Grid(j) \cap 0..clock'
    <3>1. CASE <<j, t>> \in fired \cup failed
      <4>1. t \in Grid(j) \cap 0..clock
        BY <2>3, <2>4, <3>1 DEF Handled
      <4> QED BY <2>2, <4>1
    <3>2. CASE <<j, t>> \notin fired \cup failed
      <4>1. <<j, t>> \in fired' \cup failed'
        BY <2>4 DEF Handled
      <4>2. PICK s \in Schedulers : \E r \in batch[s] :
              <<j, t>> = <<r.job, r.at>> /\ (TableOf[r.job] = 2 => ~Stopped(r))
        BY <3>2, <4>1, NewFires
      <4>3. PICK r \in batch[s] : r.job = j /\ r.at = t /\ (TableOf[j] = 2 => ~Stopped(r))
        BY <4>2
      <4>4. t \in Nat /\ t <= clock /\ OnGrid(j, t)
        <5>1. r \in Rows
          BY <2>1 DEF TypeOK
        <5>2. r.at <= clock
          BY <2>1 DEF PassFits
        <5> QED BY <2>3, <4>3, <5>1, <5>2 DEF Rows
      <4>5. Until[j] # Never => t < Until[j]
        BY <4>3, <4>4 DEF Stopped, SchedulerAssumption
      <4>6. t \in Grid(j)
        BY <2>2, <4>4, <4>5, InGrid DEF SchedulerAssumption
      <4> QED BY <2>2, <4>4, <4>6
    <3> QED BY <3>1, <3>2
  <2> SUFFICES /\ OnGrid(j, next'[j])
               /\ \A s \in Schedulers : \A r \in batch'[s] : r.job = j => OnGrid(j, r.at)
    BY <2>4 DEF TimesKept
  <2>5. CASE Passing
    BY <2>1, <2>3, <2>5, Passes
  <2>6. ASSUME NEW s \in Schedulers, Claim(s)
        PROVE  /\ OnGrid(j, next'[j])
               /\ \A z \in Schedulers : \A r \in batch'[z] : r.job = j => OnGrid(j, r.at)
    BY <2>1, <2>3, <2>6, Claims
  <2>7. ASSUME NEW s \in Schedulers, NEW r, NEW n, Ends(s, r, n)
        PROVE  /\ OnGrid(j, next'[j])
               /\ \A z \in Schedulers : \A q \in batch'[z] : q.job = j => OnGrid(j, q.at)
    <3>1. /\ r \in batch[s] /\ r \in Rows
          /\ \A k \in Jobs \ {r.job} : next'[k] = next[k]
          /\ next'[r.job] = IF n = Never THEN next[r.job] ELSE n
          /\ \A z \in Schedulers : batch'[z] \subseteq batch[z]
      BY <2>1, <2>7, Ending
    <3>2. r.job = j /\ n # Never => OnGrid(j, n)
      <4>1. now[s] \in Nat
        BY <2>1 DEF TypeOK, SchedulerAssumption
      <4> QED BY <2>3, <2>7, <3>1, <4>1, NextOnGrid DEF Ends
    <3> QED BY <2>3, <3>1, <3>2
  <2>8. ASSUME NEW k \in Jobs, Toggle(k) \/ \E t \in 1..Horizon : Reschedule(k, t)
        PROVE  next'[j] = next[j] /\ UNCHANGED batch
    BY <2>1, <2>8 DEF Toggle, Reschedule, passVars, TypeOK
  <2> QED BY <2>3, <2>5, <2>6, <2>7, <2>8, EndOrStop DEF Next, SchedulerStep, Passing
<1> QED BY <1>1, <1>2, ShapeKept, PTL DEF Spec

\* A job of repeat_count fires that nobody has moved has no more of them.
THEOREM CountIsKept == Spec => []Counted
<1> USE SchedulerAssumption
<1>1. Init => Counted
  <2> SUFFICES ASSUME Init, NEW j \in Jobs PROVE \E G \in [Nat -> Nat] : CountTells(j, G)
    BY DEF Counted
  <2> DEFINE G == [c \in Nat |-> First[j]]
  <2>1. G \in [Nat -> Nat]
    BY DEF SchedulerAssumption
  <2>2. CountTells(j, G)
    BY DEF Init, CountTells, Handled
  <2> QED BY <2>1, <2>2
<1>2. Shape /\ Counted /\ [Next]_vars => Counted'
  <2> SUFFICES ASSUME Shape, Counted, [Next]_vars, NEW j \in Jobs, j \notin touched', Count[j] > 0
               PROVE  \E G \in [Nat -> Nat] : CountTells(j, G)'
    BY DEF Counted
  <2>1. TypeOK
    BY DEF Shape
  <2>2. touched \subseteq touched'
    BY DEF Next, SchedulerStep, Begin, Claim, Fire, Evaluate, Send, Record, Complete, Stop, Abort,
           Tick, LeaseExpires, Toggle, Reschedule, vars, userVars
  <2>3. PICK G \in [Nat -> Nat] : CountTells(j, G)
    BY <2>2 DEF Counted
  <2>4. TableOf[j] = 2 /\ Count[j] \in Nat /\ count[j] \in Nat
    BY <2>1 DEF TypeOK, SchedulerAssumption
  <2>5. ASSUME NEW t \in Handled(j)' PROVE \E c \in 0..(Count[j] - 1) : c <= count[j] /\ t = G[c]
    <3>1. CASE t \in Handled(j)
      BY <2>3, <3>1 DEF CountTells
    <3>2. CASE t \notin Handled(j)
      <4>1. <<j, t>> \in fired' \cup failed' /\ <<j, t>> \notin fired \cup failed
        BY <2>5, <3>2 DEF Handled
      <4>2. PICK s \in Schedulers : \E r \in batch[s] :
              <<j, t>> = <<r.job, r.at>> /\ (TableOf[r.job] = 2 => ~Stopped(r))
        BY <4>1, NewFires
      <4>3. PICK r \in batch[s] : r.job = j /\ r.at = t /\ ~Stopped(r)
        BY <2>4, <4>2
      <4>4. r.count \in Nat /\ r.count <= count[j] /\ t = G[r.count]
        BY <2>1, <2>3, <4>3 DEF TypeOK, Rows, CountTells
      <4>5. r.count < Count[j]
        BY <2>4, <4>3, <4>4 DEF Stopped
      <4>6. r.count \in 0..(Count[j] - 1)
        BY <2>4, <4>4, <4>5
      <4> QED BY <4>4, <4>6
    <3> QED BY <3>1, <3>2
  <2>6. ASSUME next'[j] = next[j], count'[j] = count[j],
               \A s \in Schedulers : \A r \in batch'[s] :
                 r.job = j => r \in batch[s] \/ (r.at = next[j] /\ r.count = count[j])
        PROVE  CountTells(j, G)'
    <3>1. \A s \in Schedulers : \A r \in batch'[s] : r.job = j => r.count <= count[j] /\ r.at = G[r.count]
      BY <2>3, <2>4, <2>6 DEF CountTells
    <3> QED BY <2>3, <2>5, <2>6, <3>1 DEF CountTells
  <2>7. CASE Passing
    BY <2>1, <2>3, <2>6, <2>7, Passes
  <2>8. ASSUME NEW s \in Schedulers, Claim(s) PROVE CountTells(j, G)'
    BY <2>1, <2>6, <2>8, Claims
  <2>9. ASSUME NEW s \in Schedulers, NEW r, NEW n, Ends(s, r, n)
        PROVE  \E F \in [Nat -> Nat] : CountTells(j, F)'
    <3>1. /\ \A k \in Jobs \ {r.job} : next'[k] = next[k] /\ count'[k] = count[k]
          /\ \A z \in Schedulers : batch'[z] \subseteq batch[z]
      BY <2>1, <2>9, Ending
    <3>2. CASE r.job # j
      BY <2>3, <2>6, <3>1, <3>2
    <3>3. CASE r.job = j
      <4>1. count'[j] = count[j] + 1 /\ next'[j] \in Nat
        BY SMTT(60), <2>1, <2>4, <2>9, <3>3, Ending DEF TypeOK
      <4>2. PICK F \in [Nat -> Nat] : F[count'[j]] = next'[j] /\ \A c \in 0..count[j] : F[c] = G[c]
        <5> DEFINE H == [c \in Nat |-> IF c = count[j] + 1 THEN next'[j] ELSE G[c]]
        <5>1. H \in [Nat -> Nat] /\ H[count'[j]] = next'[j] /\ \A c \in 0..count[j] : H[c] = G[c]
          BY <2>4, <4>1
        <5> QED BY <5>1
      <4>3. \A c \in Nat : c <= count[j] => F[c] = G[c] /\ c <= count'[j]
        BY <2>4, <4>1, <4>2
      <4>4. ASSUME NEW z \in Schedulers, NEW q \in batch'[z], q.job = j
            PROVE  q.count <= count'[j] /\ q.at = F[q.count]
        <5>1. q \in batch[z] /\ q.count \in Nat
          BY <2>1, <3>1 DEF TypeOK, Rows
        <5> QED BY <2>3, <4>3, <4>4, <5>1 DEF CountTells
      <4>5. ASSUME NEW t \in Handled(j)'
            PROVE  \E c \in 0..(Count[j] - 1) : c <= count'[j] /\ t = F[c]
        <5>1. PICK c \in 0..(Count[j] - 1) : c <= count[j] /\ t = G[c]
          BY <2>5
        <5> QED BY <2>4, <4>3, <5>1
      <4> QED BY <4>2, <4>4, <4>5 DEF CountTells
    <3> QED BY <3>2, <3>3
  <2>10. ASSUME NEW k \in Jobs, Toggle(k) \/ \E t \in 1..Horizon : Reschedule(k, t)
         PROVE  CountTells(j, G)'
    <3>1. next'[j] = next[j] /\ count'[j] = count[j] /\ UNCHANGED batch
      BY <2>1, <2>10 DEF Toggle, Reschedule, passVars, TypeOK
    <3> QED BY <2>6, <3>1
  <2> QED BY <2>3, <2>7, <2>8, <2>9, <2>10, EndOrStop DEF Next, SchedulerStep, Passing
<1> QED BY <1>1, <1>2, ShapeKept, PTL DEF Spec

\* So many fires are as many times at most.
LEMMA CountBounds ==
  ASSUME NEW j \in Jobs, NEW G \in [Nat -> Nat], CountTells(j, G), Count[j] > 0
  PROVE  Cardinality(Handled(j)) <= Count[j]
<1>1. Count[j] \in Nat
  BY SchedulerAssumption DEF SchedulerAssumption
<1> DEFINE I == 0..(Count[j] - 1)
           T == {G[c] : c \in I}
           f == [c \in I |-> G[c]]
<1>2. IsFiniteSet(I) /\ Cardinality(I) = Count[j]
  <2>1. 0 \in Int /\ Count[j] - 1 \in Int /\ ~(0 > Count[j] - 1)
    BY <1>1
  <2>2. IsFiniteSet(I) /\ Cardinality(I) = Count[j] - 1 - 0 + 1
    BY <2>1, FS_Interval
  <2> QED BY <1>1, <2>2
<1>3. f \in Surjection(I, T)
  BY DEF Surjection
<1>4. IsFiniteSet(T) /\ Cardinality(T) <= Count[j]
  <2> HIDE DEF I, T, f
  <2> QED BY <1>2, <1>3, FS_Surjection
<1>5. Handled(j) \in SUBSET T
  BY DEF CountTells
<1> HIDE DEF T
<1>6. /\ Cardinality(Handled(j)) <= Cardinality(T) /\ IsFiniteSet(Handled(j))
      /\ Cardinality(T) \in Nat
  BY <1>4, <1>5, FS_Subset, FS_CardinalityType
<1>7. Cardinality(Handled(j)) \in Nat
  BY <1>6, FS_CardinalityType
<1> QED BY <1>1, <1>4, <1>6, <1>7

-----------------------------------------------------------------------------
(* The course of a job nobody disturbs *)

\* An interval or @once job has fired at the times before the one it is at, and
\* nobody else has it in hand: fired at that time too, it has fired at those
\* before the next.
LEMMA FiresInTurn ==
  ASSUME NEW j \in Jobs, NEW c \in Nat, NEW t \in Course(j),
         t < First[j] + (c + 1) * Period[j],
         ~(t < First[j] + c * Period[j])
  PROVE  t = First[j] + c * Period[j]
<1>1. PICK k \in Nat : t = First[j] + k * Period[j]
  BY SchedulerAssumption DEF Course, Grid, SchedulerAssumption
<1>2. First[j] \in Nat /\ Period[j] \in Nat
  BY SchedulerAssumption DEF SchedulerAssumption
<1>3. /\ k * Period[j] \in Nat /\ c * Period[j] \in Nat /\ (c + 1) * Period[j] \in Nat
      /\ (c * Period[j] < k * Period[j] => (c + 1) * Period[j] <= k * Period[j])
  BY <1>2, Multiples
<1> QED BY <1>1, <1>2, <1>3

\* What the end of a row does to a job that nobody disturbs: the times before
\* the next have fired, or all of the course.
LEMMA CourseAdvances ==
  ASSUME Shape, NEW s \in Schedulers, NEW r, NEW n, Ends(s, r, n),
         Undisturbed(r.job), r.job \in Interval \/ Period[r.job] = 0
  PROVE  \/ Course(r.job) \subseteq Handled(r.job)
         \/ /\ n # Never /\ n = First[r.job] + (count[r.job] + 1) * Period[r.job]
            /\ TableOf[r.job] = 2 /\ (on[r.job] \/ r.job \in paused)
            /\ \A t \in Course(r.job) : t < n => t \in Handled(r.job)
<1> DEFINE j == r.job  c == count[j]  p == Period[j]
<1>1. /\ r \in batch[s] /\ r \in Rows /\ j \in Jobs /\ r.at = next[j] /\ r.count = c /\ TypeOK
  <2>1. TypeOK /\ r \in batch[s] /\ r \in Rows
    BY Ending DEF Shape
  <2> QED BY <2>1 DEF Undisturbed, Rows
<1>2. /\ First[j] \in Nat \ {0} /\ p \in Nat /\ c \in Nat /\ Count[j] \in Nat /\ Until[j] \in Nat
      /\ next[j] \in Nat /\ c * p \in Nat /\ (c + 1) * p = c * p + p
      /\ j \in Interval => p > 0 /\ TableOf[j] = 2
  <2>1. c \in Nat /\ next[j] \in Nat
    BY <1>1 DEF TypeOK
  <2> QED BY <1>1, <2>1, Multiples, SchedulerAssumption DEF SchedulerAssumption
<1>3. SUFFICES ASSUME ~(Course(j) \subseteq Handled(j))
               PROVE  /\ n # Never /\ n = First[j] + (c + 1) * p
                      /\ TableOf[j] = 2 /\ (on[j] \/ j \in paused)
                      /\ \A t \in Course(j) : t < n => t \in Handled(j)
  OBVIOUS
<1>4. /\ on[j] \/ j \in paused
      /\ next[j] = First[j] + c * p /\ \A t \in Course(j) : t < next[j] => t \in Handled(j)
  BY <1>3 DEF Undisturbed
<1> HIDE DEF j, c, p
<1>5. \A t \in Course(j) : /\ t \in Nat /\ (Until[j] # Never => t < Until[j])
                           /\ Count[j] > 0 => t < First[j] + Count[j] * p
  BY SchedulerAssumption DEF Course, Grid, Times, SchedulerAssumption, p
<1>6. ~(phase[s] = "picking" /\ Stopped(r))
  <2> SUFFICES ASSUME Stopped(r) PROVE Course(j) \subseteq Handled(j)
    BY <1>3
  <2>1. CASE Until[j] # Never /\ next[j] >= Until[j]
    BY <1>2, <1>4, <1>5, <2>1
  <2>2. CASE Count[j] > 0 /\ c >= Count[j]
    <3>1. Count[j] * p <= c * p /\ Count[j] * p \in Nat
      BY <1>2, <2>2, Multiples
    <3> QED BY <1>2, <1>4, <1>5, <2>2, <3>1
  <2> QED BY <1>1, <2>1, <2>2 DEF Stopped, j, c
<1>7. Complete(s) /\ r = row[s] /\ n = NextRun(r, now[s])
  BY <1>6 DEF Ends
<1>8. next[j] \in Handled(j)
  <2>1. <<j, next[j]>> \in fired \cup failed
    BY <1>1, <1>7 DEF Complete, Shape, PassFits, j
  <2>2. next[j] <= clock /\ clock <= Horizon /\ clock \in Nat
    <3>1. clock \in 0..Horizon /\ Horizon \in Nat
      BY <1>1, SchedulerAssumption DEF TypeOK, SchedulerAssumption
    <3>2. r.at <= clock
      BY <1>1 DEF Shape, PassFits
    <3> QED BY <1>1, <3>1, <3>2
  <2>3. next[j] \in Times
    BY <1>2, <2>2, SchedulerAssumption DEF Times, SchedulerAssumption
  <2> QED BY <2>1, <2>3 DEF Handled
<1>9. \A t \in Course(j) : t < next[j] + p => t \in Handled(j)
  <2> SUFFICES ASSUME NEW t \in Course(j), t < next[j] + p, ~(t < next[j]) PROVE t = next[j]
    BY <1>4, <1>8
  <2>1. t < First[j] + (c + 1) * Period[j] /\ ~(t < First[j] + c * Period[j])
    BY <1>2, <1>4 DEF p
  <2> QED BY <1>1, <1>2, <1>4, <2>1, FiresInTurn DEF p
<1>10. \E t \in Course(j) : ~(t < next[j] + p)
  BY <1>3, <1>9
<1>11. j \in Interval
  <2> SUFFICES ASSUME p = 0 PROVE Course(j) \subseteq Handled(j)
    BY <1>3 DEF j, p
  <2>1. next[j] = First[j]
    BY <1>2, <1>4
  <2>2. ASSUME NEW t \in Course(j) PROVE t = First[j]
    <3>1. PICK k \in Nat : t = First[j] + k * p
      BY SchedulerAssumption DEF Course, Grid, SchedulerAssumption, p
    <3> QED BY <1>2, <3>1
  <2> QED BY <1>8, <2>1, <2>2
<1>12. n # Never
  <2> SUFFICES ASSUME n = Never PROVE FALSE
    OBVIOUS
  <2>1. PICK t \in Course(j) : ~(t < next[j] + p)
    BY <1>10
  <2>2. \/ Count[j] > 0 /\ c + 1 >= Count[j]
        \/ Until[j] # Never /\ next[j] + p > Until[j]
    BY <1>1, <1>2, <1>7, <1>11 DEF NextRun, Never, j, c, p
  <2>3. CASE Count[j] > 0 /\ c + 1 >= Count[j]
    <3>1. Count[j] * p <= (c + 1) * p /\ Count[j] * p \in Nat
      BY <1>2, <2>3, Multiples
    <3> QED BY <1>2, <1>4, <1>5, <2>1, <2>3, <3>1
  <2> QED BY <1>2, <1>5, <2>1, <2>2, <2>3
<1>13. n = next[j] + p
  BY <1>1, <1>7, <1>11, <1>12 DEF NextRun, j, p
<1> QED BY <1>2, <1>4, <1>9, <1>11, <1>12, <1>13

\* The lapses, and all else that is budgeted, are never given back.
LEMMA BudgetsShrink ==
  ASSUME TypeOK, [Next]_vars
  PROVE  \A e \in Events : left'[e] <= left[e]
<1>1. ASSUME NEW e \in Events, Spend(e) PROVE \A d \in Events : left'[d] <= left[d]
  BY <1>1 DEF Spend, TypeOK
<1>2. UNCHANGED left \/ \E e \in Events : Spend(e)
  <2>1. ASSUME NEW s \in Schedulers, SchedulerStep(s) \/ Abort(s)
        PROVE  UNCHANGED left \/ \E e \in Events : Spend(e)
    BY <2>1 DEF SchedulerStep, Begin, Claim, Fire, Evaluate, Send, Record, Complete, Stop, Abort, Events
  <2>2. CASE Tick \/ UNCHANGED vars
    BY <2>2 DEF Tick, vars
  <2>3. ASSUME NEW j \in Jobs, LeaseExpires(j) \/ Toggle(j) \/ \E t \in 1..Horizon : Reschedule(j, t)
        PROVE  UNCHANGED left \/ \E e \in Events : Spend(e)
    BY <2>3 DEF LeaseExpires, Toggle, Reschedule, Events
  <2> QED BY <2>1, <2>2, <2>3 DEF Next
<1> QED BY <1>1, <1>2 DEF TypeOK

\* As long as no lease lapses under a scheduler at work, a claimed row is leased,
\* unchanged and in one scheduler's hands, so that the fires of an interval or
\* @once job that nobody has moved are neither skipped nor counted twice.
THEOREM CourseIsKept == Spec => []CourseKept
<1> USE SchedulerAssumption
<1>1. Init => CourseKept
  <2> SUFFICES ASSUME Init PROVE CourseKept
    OBVIOUS
  <2>1. \A e \in Events : left[e] <= Budget[e]
    BY DEF Init, SchedulerAssumption
  <2>2. ASSUME NEW j \in Jobs PROVE Undisturbed(j)
    <3>1. First[j] \in Nat /\ Period[j] \in Nat
      BY DEF SchedulerAssumption
    <3>2. next[j] = First[j] + 0 * Period[j] /\ count[j] = 0 /\ on[j]
      BY <3>1 DEF Init
    <3>3. ASSUME NEW t \in Course(j), t < next[j] PROVE FALSE
      <4>1. PICK k \in Nat : t = First[j] + k * Period[j]
        BY DEF Course, Grid, SchedulerAssumption
      <4>2. k * Period[j] \in Nat
        BY <3>1, Multiples
      <4> QED BY <3>1, <3>2, <3>3, <4>1, <4>2
    <3>4. \A s \in Schedulers : batch[s] = {}
      BY DEF Init
    <3> QED BY <3>2, <3>3, <3>4 DEF Undisturbed
  <2> QED BY <2>1, <2>2 DEF CourseKept
<1>2. Shape /\ CourseKept /\ [Next]_vars => CourseKept'
  <2> SUFFICES ASSUME Shape, CourseKept, [Next]_vars PROVE CourseKept'
    OBVIOUS
  <2>1. TypeOK
    BY DEF Shape
  <2>2. \A e \in Events : left'[e] <= left[e] /\ left[e] <= Budget[e] /\ left'[e] <= Budget[e]
    <3>1. \A e \in Events : left[e] \in Nat /\ left'[e] \in Nat /\ Budget[e] \in Nat
      <4>1. left' = left \/ \E e \in Events : Spend(e)
        BY ZenonT(60) DEF Next, SchedulerStep, Begin, Claim, Fire, Evaluate, Send, Record, Complete, Stop, Abort,
               Tick, LeaseExpires, Toggle, Reschedule, vars, Events
      <4>2. left \in [Events -> Nat]
        BY <2>1 DEF TypeOK
      <4>3. left' \in [Events -> Nat]
        BY <4>1, <4>2 DEF Spend
      <4> QED BY <4>2, <4>3 DEF SchedulerAssumption
    <3> QED BY <2>1, <3>1, BudgetsShrink DEF CourseKept
  <2> SUFFICES ASSUME NoLapse', NEW j \in Jobs, j \notin touched' PROVE Undisturbed(j)'
    BY <2>2 DEF CourseKept
  <2>3. NoLapse
    <3>1. "lapse" \in Events
      BY DEF Events
    <3>2. left["lapse"] \in Nat /\ Budget["lapse"] \in Nat
      BY <2>1, <3>1 DEF TypeOK, SchedulerAssumption
    <3> QED BY <2>2, <3>1, <3>2 DEF NoLapse
  <2>4. touched \subseteq touched'
    BY ZenonT(60) DEF Next, SchedulerStep, Begin, Claim, Fire, Evaluate, Send, Record, Complete, Stop, Abort,
           Tick, LeaseExpires, Toggle, Reschedule, vars, userVars
  <2>5. Undisturbed(j) /\ Handled(j) \subseteq Handled(j)'
    BY <2>3, <2>4, FiresStay DEF CourseKept
  <2>6. ASSUME \/ Course(j) \subseteq Handled(j)'
               \/ /\ on'[j] \/ j \in paused'
                  /\ next'[j] = First[j] + count'[j] * Period[j]
                  /\ \A t \in Course(j) : t < next'[j] => t \in Handled(j)',
               \A z \in Schedulers : \A q \in batch'[z] :
                 q.job = j => /\ lease'[j] = "live" /\ q.at = next'[j] /\ q.count = count'[j]
                              /\ \A y \in Schedulers : Holds(y, j)' => y = z
        PROVE  Undisturbed(j)'
    BY <2>6 DEF Undisturbed
  <2>7. CASE Passing
    <3>1. UNCHANGED <<on, next, count, paused>> /\ \A z \in Schedulers : batch'[z] \subseteq batch[z]
      BY <2>1, <2>7, Passes
    <3>2. \A z \in Schedulers : Holds(z, j)' => Holds(z, j)
      BY <3>1 DEF Holds
    <3>3. Held(j) => lease'[j] = lease[j]
      <4>1. ASSUME NEW s \in Schedulers, Begin(s) \/ Fire(s) \/ Evaluate(s) \/ Send(s) \/ Record(s) \/ Abort(s)
            PROVE  UNCHANGED lease
        BY <4>1 DEF Begin, Fire, Evaluate, Send, Record, Abort, rowVars
      <4>2. CASE Tick \/ UNCHANGED vars
        BY <4>2 DEF Tick, vars, rowVars
      <4>3. ASSUME NEW k \in Jobs, LeaseExpires(k), Held(j) PROVE lease'[j] = lease[j]
        <5>1. k = j => Spend("lapse")
          BY <4>3 DEF LeaseExpires
        <5>2. ~Spend("lapse")
          <6>1. left["lapse"] \in Nat /\ left'["lapse"] = left["lapse"]
            BY <2>1, <2>3 DEF NoLapse, TypeOK, Events
          <6> QED BY <2>1, <6>1 DEF Spend, TypeOK, Events
        <5> QED BY <2>1, <4>3, <5>1, <5>2 DEF LeaseExpires, TypeOK
      <4> QED BY <2>7, <4>1, <4>2, <4>3 DEF Passing
    <3>4. ASSUME NEW z \in Schedulers, NEW q \in batch'[z], q.job = j
          PROVE  /\ lease'[j] = "live" /\ q.at = next'[j] /\ q.count = count'[j]
                 /\ \A y \in Schedulers : Holds(y, j)' => y = z
      <4>1. q \in batch[z] /\ Held(j)
        BY <3>1, <3>4 DEF Held, Holds
      <4> QED BY <2>5, <3>1, <3>2, <3>3, <3>4, <4>1 DEF Undisturbed
    <3> QED BY <2>5, <3>1, <3>4 DEF Undisturbed
  <2>8. ASSUME NEW s \in Schedulers, Claim(s) PROVE Undisturbed(j)'
    <3>1. /\ UNCHANGED <<on, next, count, paused>> /\ (lease[j] = "live" => lease'[j] = "live")
          /\ \A z \in Schedulers \ {s} : batch'[z] = batch[z]
          /\ \A q \in batch'[s] : q.job = j =>
               /\ q.at = next[j] /\ q.count = count[j] /\ lease[j] # "live" /\ lease'[j] = "live"
      BY <2>1, <2>8, Claims
    <3>2. ASSUME NEW q \in batch'[s], q.job = j, NEW z \in Schedulers PROVE ~Holds(z, j)
      BY <2>5, <3>1, <3>2 DEF Undisturbed, Holds
    <3>3. ASSUME NEW q \in batch'[s], q.job = j, NEW z \in Schedulers, Holds(z, j)' PROVE z = s
      BY <3>1, <3>2, <3>3 DEF Holds
    <3>4. ASSUME NEW z \in Schedulers \ {s}, NEW q \in batch'[z], q.job = j
          PROVE  /\ lease'[j] = "live" /\ q.at = next'[j] /\ q.count = count'[j]
                 /\ \A y \in Schedulers : Holds(y, j)' => y = z
      <4>1. q \in batch[z] /\ Holds(z, j)
        BY <3>1, <3>4 DEF Holds
      <4>2. ~Holds(s, j)'
        BY <3>2, <4>1 DEF Holds
      <4>3. ASSUME NEW y \in Schedulers, Holds(y, j)' PROVE Holds(y, j)
        BY <3>1, <4>2, <4>3 DEF Holds
      <4> QED BY <2>5, <3>1, <3>4, <4>1, <4>3 DEF Undisturbed
    <3> QED BY <2>5, <3>1, <3>3, <3>4 DEF Undisturbed
  <2>9. ASSUME NEW s \in Schedulers, NEW r, NEW n, Ends(s, r, n) PROVE Undisturbed(j)'
    <3>1. /\ UNCHANGED paused /\ r \in batch[s] /\ r \in Rows /\ n \in Nat
          /\ \A k \in Jobs \ {r.job} : /\ on'[k] = on[k] /\ next'[k] = next[k]
                                       /\ count'[k] = count[k] /\ lease'[k] = lease[k]
          /\ on'[r.job] = (on[r.job] /\ n # Never)
          /\ next'[r.job] = IF n = Never THEN next[r.job] ELSE n
          /\ count'[r.job] = count[r.job] + IF TableOf[r.job] = 2 THEN 1 ELSE 0
          /\ batch'[s] = batch[s] \ {r}
          /\ \A z \in Schedulers \ {s} : batch'[z] = batch[z]
      BY <2>1, <2>9, Ending
    <3>2. CASE r.job # j
      <4>1. \A z \in Schedulers : Holds(z, j)' => Holds(z, j)
        BY <3>1 DEF Holds
      <4>2. \A z \in Schedulers : batch'[z] \subseteq batch[z]
        BY <3>1
      <4> QED BY <2>5, <3>1, <3>2, <4>1, <4>2 DEF Undisturbed
    <3>3. CASE r.job = j
      <4>1. ASSUME NEW z \in Schedulers, NEW q \in batch'[z], q.job = j PROVE FALSE
        <5>1. z = s
          BY <2>5, <3>1, <3>3, <4>1 DEF Undisturbed, Holds
        <5>2. q \in batch[s] /\ q # r /\ q \in Rows
          BY <2>1, <3>1, <4>1, <5>1 DEF TypeOK
        <5>3. q.at = r.at /\ q.count = r.count /\ q.job = r.job
          BY <2>5, <3>1, <3>3, <4>1, <5>2 DEF Undisturbed
        <5> QED BY <3>1, <5>2, <5>3 DEF Rows
      <4>2. ASSUME j \in Interval \/ Period[j] = 0
            PROVE  \/ Course(j) \subseteq Handled(j)'
                   \/ /\ on'[j] \/ j \in paused'
                      /\ next'[j] = First[j] + count'[j] * Period[j]
                      /\ \A t \in Course(j) : t < next'[j] => t \in Handled(j)'
        <5>1. \/ Course(j) \subseteq Handled(j)
              \/ /\ n # Never /\ n = First[j] + (count[j] + 1) * Period[j]
                 /\ TableOf[j] = 2 /\ (on[j] \/ j \in paused)
                 /\ \A t \in Course(j) : t < n => t \in Handled(j)
          BY <2>5, <2>9, <3>3, <4>2, CourseAdvances
        <5>2. CASE Course(j) \subseteq Handled(j)
          BY <2>5, <5>2
        <5>3. ASSUME n # Never, n = First[j] + (count[j] + 1) * Period[j], TableOf[j] = 2,
                     on[j] \/ j \in paused, \A t \in Course(j) : t < n => t \in Handled(j)
              PROVE  /\ on'[j] \/ j \in paused'
                     /\ next'[j] = First[j] + count'[j] * Period[j]
                     /\ \A t \in Course(j) : t < next'[j] => t \in Handled(j)'
          <6>1. on'[j] = on[j] /\ next'[j] = n /\ count'[j] = count[j] + 1
            BY <2>1, <3>1, <3>3, <5>3 DEF TypeOK
          <6> QED BY <2>5, <3>1, <5>3, <6>1
        <5> QED BY <5>1, <5>2, <5>3
      <4> QED BY <4>1, <4>2 DEF Undisturbed
    <3> QED BY <3>2, <3>3
  <2>10. ASSUME NEW k \in Jobs, Toggle(k) PROVE Undisturbed(j)'
    <3>1. UNCHANGED <<next, count, lease, batch>>
      BY <2>10 DEF Toggle, passVars
    <3>2. on[j] \/ j \in paused => on'[j] \/ j \in paused'
      BY <2>1, <2>10 DEF Toggle, TypeOK
    <3> QED BY <2>5, <3>1, <3>2 DEF Undisturbed, Holds
  <2>11. ASSUME NEW k \in Jobs, NEW t \in 1..Horizon, Reschedule(k, t) PROVE Undisturbed(j)'
    <3>1. k # j /\ UNCHANGED batch
      BY <2>11 DEF Reschedule, passVars
    <3>2. /\ on'[j] = on[j] /\ next'[j] = next[j] /\ count'[j] = count[j] /\ lease'[j] = lease[j]
          /\ (j \in paused => j \in paused')
      BY ZenonT(60), <2>1, <2>11, <3>1 DEF Reschedule, TypeOK
    <3> QED BY <2>5, <3>1, <3>2 DEF Undisturbed, Holds
  <2> QED BY <2>7, <2>8, <2>9, <2>10, <2>11, EndOrStop DEF Next, SchedulerStep, Passing
<1> QED BY <1>1, <1>2, ShapeKept, PTL DEF Spec

\* What docs/concepts/reminders-jobs.md promises of a job nobody has moved: it
\* fires at its times only, no more often than repeat_count says, and, as long
\* as no lease lapses under a scheduler at work, at every one of them.
THEOREM CourseIsRun == Spec => []RunsItsCourse
<1>1. TimesKept /\ Counted /\ CourseKept => RunsItsCourse
  <2> SUFFICES ASSUME TimesKept, Counted, CourseKept, NEW j \in Jobs, j \notin touched
               PROVE  RunsItsCourse!(j)
    BY DEF RunsItsCourse
  <2>1. Handled(j) \subseteq Grid(j) \cap 0..clock
    BY DEF TimesKept
  <2>2. Count[j] > 0 => Cardinality(Handled(j)) <= Count[j]
    BY CountBounds DEF Counted
  <2>3. NoLapse => Undisturbed(j)
    BY DEF CourseKept
  <2> QED BY <2>1, <2>2, <2>3 DEF RunsItsCourse, Undisturbed
<1> QED BY <1>1, TimesAreKept, CountIsKept, CourseIsKept, PTL
=============================================================================
