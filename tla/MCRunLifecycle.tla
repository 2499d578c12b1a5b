--------------------------- MODULE MCRunLifecycle ---------------------------
(* Instances of RunLifecycle for TLC. *)
EXTENDS RunLifecycle, TLC

CONSTANTS w1, w2, r1, r2, r3, s1, s2

MCOwnerOf == [w \in Workers |-> w]

OneSession  == [r \in Runs |-> s1]
TwoSessions == [r \in Runs |-> IF r = r1 THEN s2 ELSE s1]

NoFaults    == [crash |-> 0, lapse |-> 0, cancel |-> 0, resume |-> 0]
OneOfEach   == [crash |-> 1, lapse |-> 1, cancel |-> 1, resume |-> 1]
CrashResume == [crash |-> 1, lapse |-> 0, cancel |-> 0, resume |-> 1]

Symmetry == Permutations(Workers)
=============================================================================
