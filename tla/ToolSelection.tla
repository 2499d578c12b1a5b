--------------------------- MODULE ToolSelection ---------------------------
(***************************************************************************)
(* Which of the authorized tools the model is shown.  The words of the     *)
(* message score the tools; a method may rank them again, and a router,    *)
(* both with a model call that may fail.  Scores are in tenths, and        *)
(* confidences in thousandths.                                             *)
(***************************************************************************)
EXTENDS Integers, Sequences, FiniteSets, SequencesExt

CONSTANTS
  Tools,         \* the definitions, numbered in the order of their names
  Metadata,      \* Metadata[t]: the entries whose name fits the tool
  Evidence,      \* what a message may say for or against a tool
  RouterReplies, \* what the router may answer
  Similarities,  \* how near a needed capability may be to a tool
  Labels,        \* what the classifier may be sure of: by tool, 0 for no tool's label
  MaxTools,      \* max_tools
  Threshold      \* confidence_threshold

VARIABLES
  config,   \* mode and method of the profile
  message,  \* what the scope judge said of the message, and its evidence
  metadata, \* the entry used for each tool, chosen once
  decision, \* toolSelectionDecision
  selection \* where the selection is, and what it comes to

selectionVars == <<config, message, metadata, decision, selection>>

SelectionModes   == {"heuristic", "hybrid", "llm"}
Methods == {"heuristic", "hypothetical", "intent_classifier"}

\* Anything else a profile says is the default.
NormalizeToolSelectionConfig(mode, method) ==
  [mode   |-> IF mode \in SelectionModes \cup {"disabled"} THEN mode ELSE "hybrid",
   method |-> IF method \in Methods THEN method ELSE "heuristic"]

Decision(selected, confidence, force, by) ==
  [selected |-> selected, confidence |-> confidence, force |-> force, by |-> by]

\* The tool's own entry, or one whose name its name contains: which one, if there
\* are several, is the order of a map.
MaterializeToolSelectionMetadata == metadata \in [Tools -> UNION {Metadata[t] : t \in Tools}]
                                    /\ \A t \in Tools : metadata[t] \in Metadata[t]

SelectionInit ==
  /\ config \in {NormalizeToolSelectionConfig(mode, method) : mode \in {"disabled", "llm", "heuristic", "unknown"}, method \in Methods}
  /\ message \in [requires : {"no", "yes"}, toolLike : BOOLEAN, evidence : [Tools -> Evidence]]
  /\ MaterializeToolSelectionMetadata
  /\ decision = Decision(<<>>, 0, FALSE, "nobody")
  /\ selection = [phase |-> "begin", defs |-> {}, force |-> FALSE]

-----------------------------------------------------------------------------
(* Ranking *)

ActionIntentToolScore(e) == IF e.intent = "same" THEN 50 ELSE IF e.intent = "part" THEN 20 ELSE 0
PhraseToolScore(e)       == IF e.phrase = "trigger" THEN 40 ELSE IF e.phrase = "negative" THEN -50 ELSE 0
LexicalToolScore(e)      == 8 * e.tokens

\* The tools with a score, the best first.
ScoresBefore(score, a, b) == score[a] > score[b] \/ (score[a] = score[b] /\ a < b)
RankedTools(score) ==
  CHOOSE ranked \in SetToSeqs({t \in Tools : score[t] > 0}) :
    \A i, j \in DOMAIN ranked : i < j => ScoresBefore(score, ranked[i], ranked[j])

\* Variant: a tool is kept beside one that rules it out.
SelectedInOrder(ranked, entries) == SubSeq(ranked, 1, IF Len(ranked) < MaxTools THEN Len(ranked) ELSE MaxTools)

\* The best ones, but none that a better one conflicts with.
SelectedScoredTools(ranked, entries) ==
  FoldLeft(LAMBDA kept, t :
             IF Len(kept) >= MaxTools \/ \E k \in Range(kept) : t \in entries[k].conflicts
             THEN kept ELSE Append(kept, t),
           <<>>, ranked)

ToolSelectionConfidence(ranked, score) ==
  LET top == score[ranked[1]]
  IN IF Len(ranked) = 1 THEN (IF 10 * top > 950 THEN 950 ELSE 10 * top)
     ELSE LET c == 450 + (25 * (top - score[ranked[2]])) \div 2
          IN IF c > 950 THEN 950 ELSE c

\* A single tool that writes, of which the decision is sure.
ShouldForceToolUseForSelection(selected, entries, confidence) ==
  /\ Len(selected) = 1 /\ confidence >= Threshold
  /\ entries[selected[1]].sideEffect = "write"

Ranking(score, entries, confidence, by) ==
  LET selected == SelectedScoredTools(RankedTools(score), entries)
  IN Decision(selected, confidence, ShouldForceToolUseForSelection(selected, entries, confidence), by)

HeuristicToolSelection(said, entries) ==
  LET e == said.evidence
      score == [t \in Tools |-> LexicalToolScore(e[t]) + ActionIntentToolScore(e[t]) + PhraseToolScore(e[t])]
      ranked == RankedTools(score)
      sure == ToolSelectionConfidence(ranked, score)
  IN IF ranked = <<>> THEN Decision(<<>>, IF said.toolLike THEN 0 ELSE 800, FALSE, "heuristic")
     ELSE Ranking(score, entries, IF e[ranked[1]].phrase = "trigger" /\ sure < 950 THEN 950 ELSE sure, "heuristic")

\* The capabilities the model would need, compared with the tools.
RankHypotheticalToolSelection(similar, entries) ==
  LET ranked == RankedTools(similar)
  IN IF ranked = <<>> THEN Decision(<<>>, 0, FALSE, "hypothetical")
     ELSE Ranking(similar, entries, ToolSelectionConfidence(ranked, similar), "hypothetical")

\* The labels the classifier is sure enough of, and the tools that carry them.
RankIntentToolSelection(labels, entries, confidence) ==
  LET sure == {l \in DOMAIN labels : labels[l] >= Threshold}
      score == [t \in Tools |-> IF t \in sure THEN labels[t] \div 10 ELSE 0]
      ranked == RankedTools(score)
  IN IF sure = {} THEN Decision(<<>>, IF confidence = 0 THEN 900 ELSE confidence, FALSE, "classifier")
     ELSE IF ranked = <<>> THEN Decision(<<>>, 0, FALSE, "classifier")
     ELSE Ranking(score, entries, 10 * score[ranked[1]], "classifier")

-----------------------------------------------------------------------------
(* Selecting *)

Keep == UNCHANGED <<config, message, metadata>>
Phase(p) == selection' = [selection EXCEPT !.phase = p]
Finish(defs, force) == selection' = [phase |-> "done", defs |-> defs, force |-> force]

\* Switched off, or no action wanted: all of the tools, or none.
NotSelecting ==
  /\ selection.phase = "begin"
  /\ \/ config.mode = "disabled" /\ Finish(Tools, FALSE)
     \/ config.mode # "disabled" /\ message.requires = "no" /\ Finish({}, FALSE)
  /\ Keep /\ UNCHANGED decision

BeginSelection ==
  /\ selection.phase = "begin" /\ config.mode # "disabled" /\ message.requires # "no"
  /\ decision' = HeuristicToolSelection(message, metadata)
  /\ Phase(IF config.mode = "llm" \/ config.method = "heuristic" THEN "route" ELSE config.method)
  /\ Keep

RouteHypotheticalToolSelection ==
  /\ selection.phase = "hypothetical"
  /\ \/ decision' = Decision(<<>>, 900, FALSE, "hypothetical")
     \/ \E similar \in [Tools -> Similarities] : decision' = RankHypotheticalToolSelection(similar, metadata)
  /\ Phase("route") /\ Keep

RouteIntentToolSelection ==
  /\ selection.phase = "intent_classifier"
  /\ \E labels \in Labels, confidence \in {0, 500} : decision' = RankIntentToolSelection(labels, metadata, confidence)
  /\ Phase("route") /\ Keep

\* The model call of the method fails, or its answer is not JSON: what the words
\* said stands; in the hybrid mode the router shall have a look after a classifier.
MethodFails ==
  /\ selection.phase \in {"hypothetical", "intent_classifier"}
  /\ decision' = IF selection.phase = "intent_classifier" /\ config.mode = "hybrid"
                 THEN [decision EXCEPT !.confidence = 0] ELSE decision
  /\ Phase("route") /\ Keep

DecisionNeedsRouter == decision.selected = <<>> \/ decision.confidence < Threshold

ShouldRoute == config.mode = "llm" \/ (config.mode = "hybrid" /\ DecisionNeedsRouter)

\* Known names, once each, and not too many.
UniqueAllowedToolNames(names) ==
  FoldLeft(LAMBDA kept, t :
             IF t \in Tools \ Range(kept) /\ Len(kept) < MaxTools THEN Append(kept, t) ELSE kept,
           <<>>, names)

\* The router's word replaces the rest, whether to force a tool included.
RouteToolSelection ==
  /\ selection.phase = "route" /\ ShouldRoute
  /\ \E r \in RouterReplies :
       decision' = Decision(UniqueAllowedToolNames(r.names), IF r.confidence = 0 THEN 650 ELSE r.confidence, r.force, "router")
  /\ Phase("filter") /\ Keep

\* It fails, or is not asked.
NoRouter ==
  /\ selection.phase = "route"
  /\ Phase("filter") /\ Keep /\ UNCHANGED decision

\* No tool, if the decision is sure of it; all of them, if it is not.
FilterToolDefinitions ==
  /\ selection.phase = "filter"
  /\ IF decision.selected = <<>> /\ decision.confidence >= Threshold THEN Finish({}, FALSE)
     ELSE Finish(IF decision.selected = <<>> THEN Tools ELSE Range(decision.selected), decision.force)
  /\ Keep /\ UNCHANGED decision

SelectionNext ==
  \/ NotSelecting \/ BeginSelection \/ RouteHypotheticalToolSelection \/ RouteIntentToolSelection
  \/ MethodFails \/ RouteToolSelection \/ NoRouter \/ FilterToolDefinitions

-----------------------------------------------------------------------------
(* Properties *)

Selected == selection.phase = "done"

\* The model is left without tools only if somebody was sure that none is needed:
\* a model call that fails takes no tool away that the words asked for.
NoToolsForAReason ==
  Selected /\ message.requires # "no" =>
    /\ selection.defs = {} => decision.by # "nobody" /\ decision.confidence >= Threshold
    /\ decision.by \in {"heuristic", "nobody"} => Range(HeuristicToolSelection(message, metadata).selected) \subseteq selection.defs

\* A tool is forced on the model only if it is the one tool shown, it writes and
\* the decision is sure, or if the router said so.  A classifier that fails takes
\* the confidence away from what the words said, and leaves the force.
ForcedIsSure ==
  Selected /\ selection.force /\ decision.by # "router" =>
    /\ decision.confidence >= Threshold
         \/ (config.method = "intent_classifier" /\ decision.by = "heuristic")
    /\ \E t \in Tools : selection.defs = {t} /\ metadata[t].sideEffect = "write"

\* Of what was ranked, no tool is shown beside a better one that rules it out.
NoConflictsShown ==
  Selected /\ decision.by \in {"heuristic", "hypothetical", "classifier"} =>
    \A i, j \in DOMAIN decision.selected :
      i < j => decision.selected[j] \notin metadata[decision.selected[i]].conflicts
=============================================================================
