------------------------------ MODULE Policies ------------------------------
(***************************************************************************)
(* Policy packs and their enforcement (internal/policy, db/policies.go).   *)
(* Packs of rules are versioned, switched on and assigned to everyone, to  *)
(* a customer or to an agent, while a run passes the points at which the   *)
(* rules are asked: at each the active rules are read once, every one that *)
(* matches is recorded, and the strongest decides.                         *)
(***************************************************************************)
EXTENDS Naturals, Sequences, FiniteSets, SequencesExt

CONSTANTS
  Packs,      \* versions of one pack, the first one exists
  FirstPack,
  Drafts,     \* what a rule may be: [type, mode, priority, action, condition]
  FirstRules, \* of the first pack
  Points,     \* of a run, in order: [mode, subject, content]
  BuiltIn,    \* tools that policyContext knows
  Likes,      \* <<operator, value, argument>> that hold
  BlockedTerms,
  MaxEdits    \* bound: edits of the policies

VARIABLES
  packs,     \* pack -> its status, or "absent"
  packRules, \* rows of policy_rules
  assigned,  \* pack -> scope -> "none", "on" or "off"
  policyRun, \* [phase, point, pinned, terms, queue, action, reason, matched]
  evals,     \* rows of policy_evaluations, of the run
  edits

policyVars == <<packs, packRules, assigned, policyRun, evals, edits>>

\* Scopes in their order: everyone, the customer, the agent.
AssignedTo == 1..3

-----------------------------------------------------------------------------
(* Conditions *)

ValueAt(pc, key) == IF key \in DOMAIN pc THEN pc[key] ELSE "<nil>"

\* What cannot be read does not match, and what names no operator does.
ConditionMapMatches(c, pc) ==
  CASE c.op = "equals" -> ValueAt(pc, c.key) = c.value
    [] c.op = "not_equals" -> ValueAt(pc, c.key) # c.value
    [] c.op = "in" -> ValueAt(pc, c.key) \in c.values
    [] c.op \in {"contains", "prefix", "suffix", "matches"} -> <<c.op, ValueAt(pc, c.key), c.value>> \in Likes
    [] c.op = "malformed" -> FALSE
    [] OTHER -> TRUE

RuleMatches(c, pc) ==
  CASE c.op = "all" -> \A d \in c.of : ConditionMapMatches(d, pc)
    [] c.op = "any" -> \E d \in c.of : ConditionMapMatches(d, pc)
    [] c.op = "not" -> \A d \in c.of : ~ConditionMapMatches(d, pc)
    [] OTHER -> ConditionMapMatches(c, pc)

\* A subject is a tool if it is one of those built in, else it is a workflow.
PolicyContext(point) ==
  [content |-> point.content,
   tool_name |-> IF point.subject \in BuiltIn THEN point.subject ELSE "",
   workflow_id |-> IF point.subject \in BuiltIn THEN "" ELSE point.subject]

-----------------------------------------------------------------------------
(* The rules in force *)

\* One row for every assignment of a rule's pack.
PolicyRulesForScope(mode) ==
  {row \in [scope : AssignedTo, rule : {r \in packRules : r.mode = mode /\ r.status = "active" /\ packs[r.pack] = "active"}] :
     assigned[row.rule.pack][row.scope] = "on"}

PolicyRulesForScopeAndPacks(mode, pinned) ==
  {row \in PolicyRulesForScope(mode) : pinned = {} \/ row.rule.pack \in pinned}

\* A row of policy_rules: which it is, and what it says.
RuleRow(id, pack, status, at, says) ==
  [id |-> id, pack |-> pack, status |-> status, at |-> at, type |-> says.type, mode |-> says.mode,
   priority |-> says.priority, action |-> says.action, condition |-> says.condition]

\* By scope, then by priority, then by age; rows of one age come in any order, as
\* the rules of a copied pack do.
Before(a, b) ==
  \/ a.scope < b.scope
  \/ a.scope = b.scope /\ a.rule.priority > b.rule.priority
  \/ a.scope = b.scope /\ a.rule.priority = b.rule.priority /\ a.rule.at < b.rule.at

Orders(rows) == {s \in SetToSeqs(rows) : \A i, j \in DOMAIN s : Before(s[i], s[j]) => i < j}

-----------------------------------------------------------------------------
(* A run at its points *)

StrengthOf == [deny |-> 4, require_clarification |-> 3, modify |-> 2]
Strength(action) == IF action \in DOMAIN StrengthOf THEN StrengthOf[action] ELSE 1

\* Variant: the last of the strongest gives the reason.
StrongerOrEqual(current, rule) ==
  IF Strength(rule.action) >= Strength(current.action)
  THEN [current EXCEPT !.action = rule.action, !.reason = rule.id] ELSE current

StrongerDecision(current, rule) ==
  IF Strength(rule.action) > Strength(current.action)
  THEN [current EXCEPT !.action = rule.action, !.reason = rule.id] ELSE current

PoliciesInit ==
  /\ packs = [p \in Packs |-> IF p = FirstPack THEN "active" ELSE "absent"]
  /\ packRules = {RuleRow(i, FirstPack, "active", i, FirstRules[i]) : i \in DOMAIN FirstRules}
  /\ assigned = [p \in Packs |-> [s \in AssignedTo |-> IF p = FirstPack /\ s = 2 THEN "on" ELSE "none"]]
  /\ \E pinned \in {{}, {FirstPack}}, terms \in BlockedTerms :
       policyRun = [phase |-> "starting", point |-> 1, pinned |-> pinned, terms |-> terms,
              queue |-> <<>>, action |-> "allow", reason |-> 0, matched |-> <<>>]
  /\ evals = <<>>
  /\ edits = 0

\* The version's own terms are asked first.
EnforcePolicyConfigForRun ==
  /\ policyRun.phase = "starting"
  /\ policyRun' = [policyRun EXCEPT !.phase = IF \E t \in policyRun.terms : <<"contains", Points[1].content, t>> \in Likes
                                  THEN "blocked" ELSE "at"]
  /\ UNCHANGED <<packs, packRules, assigned, evals, edits>>

\* Packs that the run's version names narrow the rules, unless it cannot be read.
PolicyPackIDsForRun == {policyRun.pinned, {}}

Evaluate ==
  LET point == Points[policyRun.point] IN
  /\ policyRun.phase = "at"
  /\ \/ \E pinned \in PolicyPackIDsForRun :
         LET matching == {row \in PolicyRulesForScopeAndPacks(point.mode, pinned) :
                            RuleMatches(row.rule.condition, PolicyContext(point))} IN
         \E rows \in Orders(matching) :
           policyRun' = [policyRun EXCEPT !.phase = "evaluating", !.action = "allow", !.reason = 0,
                           !.matched = <<>>, !.queue = rows]
     \/ policyRun' = [policyRun EXCEPT !.phase = "failed"]
  /\ UNCHANGED <<packs, packRules, assigned, evals, edits>>

RecordPolicyEvaluation(rule) ==
  evals' = Append(evals, [point |-> policyRun.point, rule |-> rule.id, action |-> rule.action])

\* A match that cannot be recorded ends the run.
EvaluateRule ==
  LET rule == Head(policyRun.queue).rule IN
  /\ policyRun.phase = "evaluating" /\ policyRun.queue # <<>>
  /\ \/ /\ RecordPolicyEvaluation(rule)
        /\ policyRun' = StrongerDecision([policyRun EXCEPT !.queue = Tail(@), !.matched = Append(@, rule)], rule)
     \/ policyRun' = [policyRun EXCEPT !.phase = "failed"] /\ UNCHANGED evals
  /\ UNCHANGED <<packs, packRules, assigned, edits>>

\* That nothing matched is recorded if it can be.
Decided ==
  /\ policyRun.phase = "evaluating" /\ policyRun.queue = <<>>
  /\ \/ policyRun.matched = <<>> /\ evals' = Append(evals, [point |-> policyRun.point, rule |-> 0, action |-> "allow"])
     \/ UNCHANGED evals
  /\ UNCHANGED <<packs, packRules, assigned, edits>>

GoesOn ==
  IF policyRun.point = Len(Points) THEN [policyRun EXCEPT !.phase = "completed"]
  ELSE [policyRun EXCEPT !.phase = "at", !.point = @ + 1]

InPrompt(point) == Points[point].mode = "prompt"

\* Only a denial stops a run,
Enforce ==
  /\ ~InPrompt(policyRun.point) /\ Decided
  /\ policyRun' = IF policyRun.action = "deny" THEN [policyRun EXCEPT !.phase = "denied"] ELSE GoesOn

\* and one of the rules for the prompt stops nothing: they add their instructions.
PromptInstructions == InPrompt(policyRun.point) /\ Decided /\ policyRun' = GoesOn

-----------------------------------------------------------------------------
(* Edits *)

Edited == edits < MaxEdits /\ edits' = edits + 1
Now == Cardinality(DOMAIN FirstRules) + edits + 1
NextID == Cardinality(packRules) + 1

\* A pack of that name and version is one, made once.
CreatePolicyPack ==
  /\ Edited
  /\ \E p \in Packs : packs[p] = "absent" /\ packs' = [packs EXCEPT ![p] = "active"]
  /\ UNCHANGED <<packRules, assigned, policyRun, evals>>

\* The rules of the source as they are, all of one age, and no assignment.
Copies(source, p) ==
  LET from == {r \in packRules : r.pack = source} IN
  {[r EXCEPT !.pack = p, !.at = Now, !.id = NextID + Cardinality({q \in from : q.id < r.id})] : r \in from}

CreatePolicyPackVersion ==
  /\ Edited
  /\ \E source, p \in Packs, status \in {"active", "draft"} :
       /\ packs[source] # "absent" /\ packs[p] = "absent"
       /\ packs' = [packs EXCEPT ![p] = status]
       /\ packRules' = packRules \cup Copies(source, p)
  /\ UNCHANGED <<assigned, policyRun, evals>>

SetPolicyPackStatus ==
  /\ Edited
  /\ \E p \in Packs, status \in {"active", "disabled"} :
       packs[p] # "absent" /\ packs' = [packs EXCEPT ![p] = status]
  /\ UNCHANGED <<packRules, assigned, policyRun, evals>>

\* A new rule of a pack, or another content of one that has its place and age.
Upserts(p) ==
  {packRules \cup {RuleRow(NextID, p, "active", Now, d)} : d \in Drafts}
  \cup {(packRules \ {r}) \cup {RuleRow(r.id, p, status, r.at, d)} :
          r \in {q \in packRules : q.pack = p}, d \in Drafts, status \in {"active", "disabled"}}

UpsertPolicyRule ==
  /\ Edited
  /\ \E p \in Packs : packs[p] # "absent" /\ packRules' \in Upserts(p)
  /\ UNCHANGED <<packs, assigned, policyRun, evals>>

AssignPolicyPack ==
  /\ Edited
  /\ \E p \in Packs, s \in AssignedTo, enabled \in {"on", "off"} :
       packs[p] # "absent" /\ assigned' = [assigned EXCEPT ![p][s] = enabled]
  /\ UNCHANGED <<packs, packRules, policyRun, evals>>

PoliciesNext ==
  \/ EnforcePolicyConfigForRun \/ Evaluate \/ EvaluateRule \/ Enforce \/ PromptInstructions
  \/ CreatePolicyPack \/ CreatePolicyPackVersion \/ SetPolicyPackStatus \/ UpsertPolicyRule \/ AssignPolicyPack

-----------------------------------------------------------------------------
(* The difference of two packs *)

\* Rules are the same rule if type, mode and priority are; of several such in a pack
\* the last in its order stands for all.
PolicyRuleNaturalKey(r) == <<r.type, r.mode, r.priority>>
PolicyRuleFingerprint(r) == <<r.condition, r.action, r.status>>

Keyed(p) ==
  LET own == {r \in packRules : r.pack = p} IN
  {r \in own : \A q \in own : PolicyRuleNaturalKey(q) = PolicyRuleNaturalKey(r) => q.at <= r.at}

KeysOf(p) == {PolicyRuleNaturalKey(r) : r \in Keyed(p)}
PolicyPackDiff(from, to) ==
  [added |-> {r \in Keyed(to) : PolicyRuleNaturalKey(r) \notin KeysOf(from)},
   removed |-> {r \in Keyed(from) : PolicyRuleNaturalKey(r) \notin KeysOf(to)},
   modified |-> {r \in Keyed(to) : \E q \in Keyed(from) :
                    /\ PolicyRuleNaturalKey(q) = PolicyRuleNaturalKey(r)
                    /\ PolicyRuleFingerprint(q) # PolicyRuleFingerprint(r)}]

-----------------------------------------------------------------------------
(* Properties *)

RowsAt(point) == {i \in DOMAIN evals : evals[i].point = point}

\* A denial that is on record, of any rules but those for the prompt, stopped the run
\* where it was recorded, and a run that is denied has its record, whatever was
\* edited meanwhile.
DenialsStop ==
  /\ \A i \in DOMAIN evals : evals[i].action = "deny" /\ ~InPrompt(evals[i].point) =>
       evals[i].point = policyRun.point /\ policyRun.phase \in {"evaluating", "denied", "failed"}
  /\ policyRun.phase = "denied" =>
       ~InPrompt(policyRun.point) /\ \E i \in RowsAt(policyRun.point) : evals[i].action = "deny"

\* The reason of a decision is the first recorded rule of its strength, and no
\* recorded rule is stronger.
ReasonIsFirst ==
  policyRun.phase \in {"evaluating", "denied"} =>
    LET strongest == {i \in DOMAIN policyRun.matched : Strength(policyRun.matched[i].action) = Strength(policyRun.action)} IN
    /\ \A i \in DOMAIN policyRun.matched : Strength(policyRun.matched[i].action) <= Strength(policyRun.action)
    /\ Strength(policyRun.action) > 1 => \E i \in strongest : policyRun.matched[i].id = policyRun.reason /\ \A j \in strongest : i <= j

\* Every point that a run has passed was recorded, if anything matched there.
PassedIsRecorded ==
  policyRun.phase \in {"at", "completed"} => \A i \in DOMAIN policyRun.matched :
    \E j \in DOMAIN evals : evals[j].rule = policyRun.matched[i].id /\ evals[j].action = policyRun.matched[i].action

\* Packs without two rules of one key that do not differ decide alike when one takes
\* the other's place.
Decisive(p, pc, mode) ==
  {r.action : r \in {q \in packRules : q.pack = p /\ q.mode = mode /\ q.status = "active" /\ RuleMatches(q.condition, pc)}}
UniqueKeys(p) == Cardinality(KeysOf(p)) = Cardinality({r \in packRules : r.pack = p})
NothingDiffers(d) == d.added = {} /\ d.removed = {} /\ d.modified = {}
EqualPacksDecideAlike ==
  \A p, q \in Packs :
    UniqueKeys(p) /\ UniqueKeys(q) /\ NothingDiffers(PolicyPackDiff(p, q)) =>
      \A i \in DOMAIN Points : Decisive(p, PolicyContext(Points[i]), Points[i].mode)
                                 = Decisive(q, PolicyContext(Points[i]), Points[i].mode)
=============================================================================
