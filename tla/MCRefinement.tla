---------------------------- MODULE MCRefinement ----------------------------
(* Instances of Refinement for TLC. *)
EXTENDS Refinement, TLC

CONSTANTS m1, m2, m3, q1, q2, q3

\* Each message submitted once.
Once == (q1 :> m1) @@ (q2 :> m2) @@ (q3 :> m3)
=============================================================================
