--------------------------- MODULE CoachingEngine ---------------------------
(***************************************************************************)
(* One review's turns through the analytical engine.  A turn is one        *)
(* request that holds the review's row lock: the reviewer converses and    *)
(* merges what it heard into the legacy reasoning, the independent         *)
(* validator judges the proposals and keeps a shadow of them, the planner  *)
(* picks a question in the light of that shadow, and one commit stores it  *)
(* all.  Every step calls a model that may fail or answer anything its     *)
(* schema admits; a turn that ends early stores nothing.                   *)
(***************************************************************************)
EXTENDS ReasoningShadow

\* What a planner may propose.
Candidates == [move : Moves, target : Outcomes, refs : SUBSET STRING]

CONSTANTS
  Modes,            \* modes a start may ask for
  Selections,       \* sets of findings it may select
  FrozenFindings,   \* the findings of the frozen evidence
  Proposals,        \* sets of dimensions a reviewer may propose in a turn
  Intents,          \* intents a reviewer may read in a turn
  RefSets,          \* sets of references a student may name in a turn
  CandidateLists,   \* what a planner may return
  SemanticNeeds,    \* what need it may name
  OpeningLens,      \* the lens of the reviewer who opens
  Lenses,           \* the reviewers' lenses
  StallLimit        \* etis_direct_teach_after_stall_turns

ASSUME EngineAssumption ==
  /\ Proposals \subseteq SUBSET Dimensions
  /\ SemanticNeeds \subseteq Needs \cup {NoNeed}
  /\ OpeningLens \in Lenses /\ "red_team" \in Lenses
  /\ StallLimit \in Nat
  /\ \A list \in CandidateLists : list \in Seq(Candidates)

VARIABLES
  doc,    \* the stored state of the review
  turn    \* the turn in progress, or NoTurn

vars == <<doc, turn>>

Operations == {"respond", "clarify", "coach"}
NoTurn == [step |-> "none"]
Unplanned == [stage |-> "skipped", move |-> "none", target |-> "none", challenged |-> FALSE]

CoreDimensions == Dimensions \ {"uncertainty", "tradeoff"}
DirectIntents == {"stuck", "answer_seeking", "frustration"}
UnmergedIntents == {"meta_repair", "meta_misunderstood", "clarification", "stuck", "answer_seeking", "disagreement"}

Kinds == {ObjectiveFor(mode, selected, FrozenFindings) : mode \in Modes, selected \in Selections}

\* start: a review begins blank, locked to one objective and one pair of modes;
\* the configuration admits no shadow planning without shadow validation.
Init ==
  /\ turn = NoTurn
  /\ \E kind \in Kinds, modes \in {{}, {"reasoning"}, {"reasoning", "planning"}} :
       doc = [objective |-> kind, shadows |-> modes, legacy |-> {}, shadow |-> BlankShadow,
              stall |-> 0, lens |-> OpeningLens, handoffs |-> {}, disputed |-> FALSE]

\* Mutated: the reviewer's reply replaces what it heard before.
MergeForgets(old, new) == new

\* The legacy reasoning only ever grows.
MergeState(old, new) == old \cup new

\* evaluate_cumulative: ready needs the six core dimensions.
ReadyToCommit(legacy) == CoreDimensions \subseteq legacy

HandOver(document, lens) ==
  [document EXCEPT !.lens = lens, !.handoffs = @ \cup {lens}]

\* A turn whose reply is there: what the reviewer understood, and the document
\* it would store.
Replied(operation, intent, refs, taught, proposals, draft) ==
  /\ turn' = [step |-> "validate", operation |-> operation, intent |-> intent, refs |-> refs,
              taught |-> taught, proposals |-> proposals, draft |-> draft, plan |-> Unplanned]
  /\ UNCHANGED doc

\* Only a response names evidence, and a clarification names no decision.
RefsOf(operation) == IF operation = "respond" THEN RefSets ELSE {{}}
DecisionOf(operation) == IF operation = "clarify" THEN {FALSE} ELSE BOOLEAN

\* _semantic_converse: a reply that adds nothing to the reasoning counts as a
\* stall, and the reviewer teaches on a direct signal or after StallLimit of them.
StallAfter(legacy) ==
  IF legacy \subseteq doc.legacy THEN IF doc.stall < StallLimit THEN doc.stall + 1 ELSE StallLimit ELSE 0
MustTeach(legacy, signalled, intent) ==
  signalled \/ intent \in DirectIntents \/ StallAfter(legacy) >= StallLimit

\* The document with the conversation memory of such a reply; a colleague may
\* take over once the position is strong.
Remembering(legacy, mustTeach, handoff) ==
  LET heard == [doc EXCEPT !.stall = StallAfter(legacy)]
  IN IF handoff # doc.lens /\ Cardinality(legacy) >= 5 /\ ~mustTeach THEN HandOver(heard, handoff) ELSE heard

\* A semantic turn: the reply proposes dimensions, reads an intent, and may
\* teach of its own accord.
SemanticTurn(operation, updates, intent, refs) ==
  \E signalled \in BOOLEAN, teaches \in BOOLEAN, handoff \in Lenses :
    LET legacy == MergeState(doc.legacy, updates)
        mustTeach == MustTeach(legacy, signalled, intent)
    IN Replied(operation, intent, refs, mustTeach \/ teaches, updates,
               [Remembering(legacy, mustTeach, handoff) EXCEPT !.legacy = legacy])

\* converse without the semantic conversation: conversation about the
\* conversation changes no reasoning.
ScriptedReply(operation, intent, refs) ==
  Replied(operation, intent, refs, FALSE, {}, doc)

\* analyze: naming evidence shows the boundary and choosing shows a decision,
\* whatever the words are; the words may show anything.
Analyzed(words, decided, refs) ==
  words \cup (IF refs # {} THEN {"evidence"} ELSE {}) \cup (IF decided THEN {"decision"} ELSE {})

\* converse without the semantic conversation: what the analysis of the text
\* shows is merged, nothing is proposed to the validator, and the Red Team
\* takes over once, when the position is first complete.
ScriptedReasoning(operation, words, decided, refs) ==
  LET heard == [doc EXCEPT !.legacy = MergeState(doc.legacy, Analyzed(words, decided, refs))]
      hands == /\ ReadyToCommit(heard.legacy)
               /\ doc.lens # "red_team" /\ "red_team" \notin doc.handoffs
  IN Replied(operation, "reasoning", refs, FALSE, {},
             IF hands THEN HandOver(heard, "red_team") ELSE heard)

Converse ==
  /\ turn = NoTurn
  /\ \E operation \in Operations : \E refs \in RefsOf(operation) :
       \/ \E updates \in Proposals, intent \in Intents : SemanticTurn(operation, updates, intent, refs)
       \/ \E intent \in UnmergedIntents \cap Intents : ScriptedReply(operation, intent, refs)
       \/ \E words \in Proposals, decided \in DecisionOf(operation) :
            ScriptedReasoning(operation, words, decided, refs)

-----------------------------------------------------------------------------

AdvanceTurn(step, draft, plan) ==
  /\ turn' = [turn EXCEPT !.step = step, !.proposals = {}, !.draft = draft, !.plan = plan]
  /\ UNCHANGED doc

ToReopen == ReopenCandidates(turn.draft.shadow, turn.intent)
Validates == /\ "reasoning" \in turn.draft.shadows
             /\ turn.operation # "coach"
             /\ turn.proposals \cup ToReopen # {}

\* validate_turn without a completed validation: it is skipped, or the
\* validator is unavailable or fails, and the shadow keeps its statuses.
KeepShadow ==
  /\ turn.step = "validate"
  /\ AdvanceTurn("plan", turn.draft, turn.plan)

\* validate_turn completed: the judgments of the proposals, repaired once where
\* they are missing; a repair that fails leaves them missing.
CompleteValidation ==
  /\ turn.step = "validate"
  /\ Validates
  /\ \E first \in Judgments(turn.proposals), reopens \in Reopens(ToReopen) :
       \E again \in Judgments(Missing(first)) :
         AdvanceTurn("plan",
           [turn.draft EXCEPT !.shadow = Validated(@, reopens, Repaired(first, again))], turn.plan)

-----------------------------------------------------------------------------

\* Mutated: the planner reads the reasoning as it was before this turn.
ContextBeforeTurn(summarised, corrected) ==
  [objective |-> doc.objective, shadow |-> doc.shadow, latest |-> turn.refs, intent |-> turn.intent,
   taught |-> turn.taught, disputed |-> doc.disputed,
   corrected |-> corrected, summarised |-> summarised]

\* _run_planning_shadow: what the planner and the selector are given, the
\* shadow as this turn's validation left it.
Context(summarised, corrected) ==
  [objective |-> turn.draft.objective, shadow |-> turn.draft.shadow, latest |-> turn.refs,
   intent |-> turn.intent, taught |-> turn.taught, disputed |-> turn.draft.disputed,
   corrected |-> corrected, summarised |-> summarised]

Plans == /\ "planning" \in turn.draft.shadows
         /\ turn.operation # "coach"
         /\ Plannable(turn.draft.objective) # {}

\* plan_turn: nothing to plan, or the planner is unavailable or fails.
KeepQuestion ==
  /\ turn.step = "plan"
  /\ AdvanceTurn("save", turn.draft,
                 IF Plans THEN [Unplanned EXCEPT !.stage = "planner"] ELSE Unplanned)

\* The realizer phrases the selected move; a phrase the deterministic checks
\* reject is repaired once, with the move locked.
RealizationStage(first, again) ==
  CASE first = "raised" -> "realizer"
    [] first = "accepted" -> "completed"
    [] again = "raised" -> "realizer_repair"
    [] again = "accepted" -> "completed"
    [] OTHER -> "realizer_validation"

RealizationStages ==
  {RealizationStage(first, again) : first, again \in {"accepted", "rejected", "raised"}}

NoChoice(ctx) == [move |-> "none", target |-> "none", challenged |-> ActiveChallenge(ctx)]

\* What the selector makes of a planner's answer: the application adds its
\* bounded candidate, and one is picked, or none.
Choices(ctx, semantic, list) ==
  LET candidates == WithFallback(ctx, PrimaryNeed(ctx, semantic), list)
  IN IF Admitted(ctx, semantic, candidates) = {} THEN {NoChoice(ctx)}
     ELSE {[NoChoice(ctx) EXCEPT !.move = candidates[i].move, !.target = candidates[i].target] :
             i \in Preferred(ctx, semantic, candidates)}

\* plan_turn once the planner has answered: the selector picks one candidate or
\* none, and the realizer phrases it.
SelectQuestion ==
  /\ turn.step = "plan"
  /\ Plans
  /\ \E choice \in UNION {Choices(Context(summarised, corrected), semantic, list) :
                           semantic \in SemanticNeeds, list \in CandidateLists,
                           summarised \in BOOLEAN, corrected \in BOOLEAN} :
       \E stage \in IF choice.move = "none" THEN {"selector"} ELSE RealizationStages :
         AdvanceTurn("save", turn.draft, [stage |-> stage, move |-> choice.move,
                     target |-> choice.target, challenged |-> choice.challenged])

\* The handler commits the document with its turns.
Save ==
  /\ turn.step = "save"
  /\ doc' = turn.draft
  /\ turn' = NoTurn

\* The model fails where the engine does not recover, or the process stops: the
\* transaction ends without a trace.
Abort ==
  /\ turn # NoTurn
  /\ turn' = NoTurn
  /\ UNCHANGED doc

\* evidence_dispute, between two turns (ReviewRoom models the handler): the
\* document lists the dispute from then on.  A semantic reply leaves its
\* conversation memory, too, but none of the reasoning it read.
Dispute ==
  /\ turn = NoTurn
  /\ \/ doc' = [doc EXCEPT !.disputed = TRUE]
     \/ \E updates \in Proposals, intent \in Intents, signalled \in BOOLEAN, handoff \in Lenses :
          LET legacy == MergeState(doc.legacy, updates)
          IN doc' = [Remembering(legacy, MustTeach(legacy, signalled, intent), handoff)
                       EXCEPT !.disputed = TRUE]
  /\ UNCHANGED turn

Next == \/ Converse \/ KeepShadow \/ CompleteValidation \/ KeepQuestion
        \/ SelectQuestion \/ Save \/ Abort \/ Dispute

Spec == Init /\ [][Next]_vars

-----------------------------------------------------------------------------

Documents ==
  [objective : Kinds, shadows : {{}, {"reasoning"}, {"reasoning", "planning"}},
   legacy : SUBSET Dimensions, shadow : [Dimensions -> Statuses], stall : 0..StallLimit,
   lens : Lenses, handoffs : SUBSET Lenses, disputed : BOOLEAN]

PlanStages == {"skipped", "planner", "selector", "realizer", "realizer_repair", "realizer_validation", "completed"}

Plan == [stage : PlanStages, move : Moves \cup {"none"}, target : Outcomes \cup {"none"},
         challenged : BOOLEAN]

Turns ==
  [step : {"validate", "plan", "save"}, operation : Operations,
   intent : Intents \cup {"reasoning"}, refs : RefSets \cup {{}}, taught : BOOLEAN,
   proposals : Proposals \cup {{}}, draft : Documents, plan : Plan]

TypeOK == doc \in Documents /\ turn \in Turns \cup {NoTurn}

\* What the shadow holds, the legacy reasoning holds too: the validator can
\* only withhold credit, before and during a turn.
ShadowWithinLegacy ==
  /\ Established(doc.shadow) \subseteq doc.legacy
  /\ turn # NoTurn => Established(turn.draft.shadow) \cup turn.proposals \subseteq turn.draft.legacy

\* The types of the documents, and the shadow never holds more reasoning than
\* the legacy state (reasoning_validation.py:130: it "evaluates only proposed
\* transitions"), whatever the models answer and whichever turns are lost.
EngineInv == TypeOK /\ ShadowWithinLegacy

Credit == [unestablished |-> 0, partial |-> 1, validated |-> 2]

\* No turn takes shadow credit back, except one whose newest message the
\* reviewer read as a correction, and never the synthetic request for coaching:
\* partial credit, a rejection, a missing judgment or a failed call never
\* lowers what an earlier turn established (reasoning_validation.py:615).
LowersCredit == \E d \in Dimensions : Credit[doc'.shadow[d]] < Credit[doc.shadow[d]]
CorrectionStep == LowersCredit => turn.intent \in CorrectionIntents /\ turn.operation # "coach"
CorrectionsOnlyReopen == [][CorrectionStep]_vars

TurnNeedsTeaching == turn.intent \in AssistanceIntents \/ turn.taught

\* A planner that answers a student who needs teaching, and has no evidence-
\* backed challenge open, ends with a teaching move: the fallback of
\* review_planner.py:584 and the constraints of next_question_selector.py:254
\* together never leave such a student without a usable move.
TeachingIsServed ==
  TurnNeedsTeaching /\ ~turn.plan.challenged => turn.plan.move \in TeachingMoves

\* The question fits the reasoning that is stored with it: it does not ask again
\* for what this very turn validated, and it synthesizes only a finished review.
PlanFitsReasoning ==
  turn.plan.move # "none" =>
    /\ OutcomeStatus(turn.draft.shadow, turn.plan.target) = "validated"
         => turn.plan.move \in DeepeningMoves
    /\ turn.plan.move = "SYNTHESIZE_OBJECTIVE" =>
         \A d \in Dimensions :
           OutcomesOf[d] \cap Objectives[turn.draft.objective].required # {}
             => turn.draft.shadow[d] = "validated"

\* Both hold of every turn whose planner answered, when it is saved.
PlanServesTurn ==
  turn.step = "save" /\ turn.plan.stage \notin {"skipped", "planner"}
    => TeachingIsServed /\ PlanFitsReasoning

=============================================================================
