--------------------------- MODULE RuntimeLimits ---------------------------
(***************************************************************************)
(* The configured limits: one optional row for the customer, one per agent *)
(* instance and one per user, and how they combine.  A row is a function   *)
(* from the kinds it sets to natural numbers; 0 is no limit.               *)
(***************************************************************************)
EXTENDS Naturals

RunKinds   == {"active_runs", "queued_runs", "background_runs"}
UsageKinds == {"daily", "weekly", "monthly"}
Kinds      == RunKinds \cup UsageKinds

\* What holds when no row sets a kind: every quota is off.
DefaultRuntimeLimits == [k \in Kinds |-> 0]

\* A row overrides the kinds it sets, to 0 as well: an agent instance can lift
\* a limit of its customer.
ApplyRuntimeLimits(limits, row) ==
  [k \in Kinds |-> IF k \in DOMAIN row THEN row[k] ELSE limits[k]]

\* A row that is not there sets nothing.
NoRow == [k \in {} |-> 0]

EffectiveRuntimeLimits(customerRow, agentRow) ==
  ApplyRuntimeLimits(ApplyRuntimeLimits(DefaultRuntimeLimits, customerRow), agentRow)

\* What the upserts accept; a user's row sets usage quotas only.
ValidRow(row)     == DOMAIN row \subseteq Kinds /\ \A k \in DOMAIN row : row[k] >= 0
ValidUserRow(row) == ValidRow(row) /\ DOMAIN row \cap RunKinds = {}
=============================================================================
