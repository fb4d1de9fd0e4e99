-------------------------- MODULE QuestionSelector --------------------------
(***************************************************************************)
(* How the planner's question is chosen: the need that matters now, the    *)
(* bounded fallback candidates the application adds for a need of its own, *)
(* the constraints no candidate may break, and the lexicographic ranking   *)
(* of what is left.  A candidate is a move, an outcome and the evidence it *)
(* cites.  A context holds the kind of the objective, the shadow reasoning,*)
(* the references of the student's turn (latest) and all that are          *)
(* authorized, the intent, whether the reply taught (taught), whether the  *)
(* review holds a dispute (disputed), whether a finding in view is         *)
(* disputed or corrected for the team (corrected), and whether the shadow  *)
(* keeps a summary of an uncertainty (summarised).                         *)
(***************************************************************************)
EXTENDS ReviewObjective, Integers, Sequences

CONSTANTS FrozenRefs,      \* references of the frozen evidence package
          ObjectiveRefs    \* those of the objective itself

ASSUME RefsAssumption == ObjectiveRefs \subseteq FrozenRefs

Statuses == {"unestablished", "partial", "validated"}
AssistanceIntents == {"stuck", "answer_seeking", "frustration", "misconception", "simplify_request"}
ActiveChallengeIntents == {"disagreement", "evidence_dispute", "meta_misunderstood"}

\* A reference the student names this turn is authorized whether or not the
\* snapshot holds it.
AllowedRefs(ctx) == FrozenRefs \cup ctx.latest

OutcomeStatus(shadow, outcome) ==
  IF outcome \in Unmapped THEN "unestablished" ELSE shadow[DimensionOf[outcome]]

RequiresTeaching(ctx) == ctx.intent \in AssistanceIntents \/ ctx.taught
ActiveChallenge(ctx) == /\ ctx.intent \in ActiveChallengeIntents
                        /\ ctx.latest # {} \/ ctx.disputed \/ ctx.corrected
ActiveUncertainty(ctx) == ctx.shadow["uncertainty"] # "unestablished"

\* The need the application imposes, in its order of precedence.
ApplicationNeed(ctx) ==
  IF ActiveChallenge(ctx) THEN "STUDENT_CHALLENGE"
  ELSE IF RequiresTeaching(ctx) THEN "TEACHING_OR_TEACHBACK"
  ELSE IF ctx.shadow["uncertainty"] = "partial" THEN "UNCERTAINTY"
  ELSE IF ctx.intent = "self_correction" THEN "CONTRADICTION_OR_STALE_STATE"
  ELSE NoNeed

PrimaryNeed(ctx, semantic) ==
  IF ApplicationNeed(ctx) # NoNeed THEN ApplicationNeed(ctx) ELSE semantic

AddressesChallenge(c) ==
  \/ c.move \in {"ADDRESS_STUDENT_CHALLENGE", "TEST_FINDING_SUPPORT", "RECONCILE_CONTRADICTION"}
  \/ /\ c.move \in {"TEST_EVIDENCE_BOUNDARY", "REQUEST_MISSING_EVIDENCE"}
     /\ c.target = "FINDING_EVIDENCE_TESTED"

AddressesNeed(c, need) ==
  IF need = "STUDENT_CHALLENGE" THEN AddressesChallenge(c)
  ELSE need # NoNeed /\ c.move \in NeedMoves[need]

-----------------------------------------------------------------------------

\* A candidate that stays inside the objective and its authorized evidence.
InBounds(ctx, c) == /\ c.target \in Plannable(ctx.objective)
                    /\ c.refs \subseteq AllowedRefs(ctx)

ClosureAllowed(ctx, c) ==
  IF c.move = "CLOSE_WITH_UNRESOLVED_EVIDENCE"
  THEN (ctx.summarised \/ ctx.disputed) /\ ActiveUncertainty(ctx)
  ELSE LET mapped == Objectives[ctx.objective].required \ Unmapped
       IN mapped # {} /\ \A o \in mapped : OutcomeStatus(ctx.shadow, o) = "validated"

\* The hard constraints: a candidate that breaks any of them is rejected.
Selectable(ctx, need, c) ==
  /\ InBounds(ctx, c)
  /\ c.target \in MoveTargets[c.move]
  /\ OutcomeStatus(ctx.shadow, c.target) = "validated" => c.move \in DeepeningMoves
  /\ RequiresTeaching(ctx) => c.move \in TeachingMoves
  /\ need = "STUDENT_CHALLENGE" => AddressesChallenge(c)
  /\ c.move \in ClosureMoves => ClosureAllowed(ctx, c)

Bit(b) == IF b THEN 1 ELSE 0

ObjectiveRank(ctx, c) ==
  LET required == c.target \in Objectives[ctx.objective].required
      status == OutcomeStatus(ctx.shadow, c.target)
  IN CASE status = "unestablished" -> IF required THEN 4 ELSE 2
       [] status = "partial" -> IF required THEN 3 ELSE 1
       [] OTHER -> 0

EvidenceRank(c) ==
  IF c.refs # {} THEN 2
  ELSE Bit(c.move \in {"REQUEST_MISSING_EVIDENCE", "TEST_EVIDENCE_BOUNDARY"})

\* _candidate_priority: the need first; completeness, evidence and continuity
\* only order the candidates within it.
Priority(ctx, need, c) ==
  <<Bit(AddressesNeed(c, need)), ObjectiveRank(ctx, c), EvidenceRank(c),
    Bit(c.refs \cap ctx.latest # {}), Bit(c.target \in Objectives[ctx.objective].required),
    Bit(c.move \notin TeachingMoves \/ RequiresTeaching(ctx))>>

Above(v, w) == \E k \in DOMAIN v : v[k] > w[k] /\ \A j \in 1..(k - 1) : v[j] = w[j]

\* Without any need, an explicit teaching move signals one.
EffectiveNeed(ctx, semantic, candidates) ==
  IF PrimaryNeed(ctx, semantic) = NoNeed
     /\ \E i \in DOMAIN candidates : candidates[i].move \in TeachingMoves
  THEN "TEACHING_OR_TEACHBACK" ELSE PrimaryNeed(ctx, semantic)

\* The candidates that break no hard constraint, by their index.
Admitted(ctx, semantic, candidates) ==
  LET need == EffectiveNeed(ctx, semantic, candidates)
  IN {i \in DOMAIN candidates : Selectable(ctx, need, candidates[i])}

\* select: the one admitted candidate of the highest priority, the first of its
\* equals.
Preferred(ctx, semantic, candidates) ==
  LET need == EffectiveNeed(ctx, semantic, candidates)
      admitted == Admitted(ctx, semantic, candidates)
      rank(i) == Priority(ctx, need, candidates[i])
  IN {i \in admitted : \A j \in admitted : /\ ~Above(rank(j), rank(i))
                                           /\ rank(j) = rank(i) => i <= j}

-----------------------------------------------------------------------------

\* Where the first of the preferred outcomes that the objective has is, if any.
FirstPlannable(ctx, preferred) ==
  {i \in DOMAIN preferred : /\ preferred[i] \in Plannable(ctx.objective)
                            /\ \A j \in 1..(i - 1) : preferred[j] \notin Plannable(ctx.objective)}

ChallengeTargets == <<"FINDING_EVIDENCE_TESTED", "EVIDENCE_BOUNDARY_CLEAR", "CURRENT_EVIDENCE_ASSESSED">>
TeachingTargets == <<"FOCUS_UNDERSTOOD", "FINDING_CLAIM_CLEAR", "CURRENT_POSITION_CLEAR",
                     "CURRENT_EVIDENCE_ASSESSED", "EVIDENCE_BOUNDARY_CLEAR">>
UncertaintyTargets == <<"NEXT_IMPROVEMENT_OR_EVIDENCE_NEED_CLEAR", "NEXT_ACTION_OR_UNCERTAINTY_CLEAR",
                        "UNCERTAINTY_CLEAR">>

FallbackTargets(need) ==
  CASE need = "STUDENT_CHALLENGE" -> ChallengeTargets
    [] need = "TEACHING_OR_TEACHBACK" -> TeachingTargets
    [] need = "UNCERTAINTY" -> UncertaintyTargets
    [] OTHER -> <<>>

\* The candidate the application adds for a need of its own.
FallbackCandidate(ctx, need, target) ==
  [move   |-> CASE need = "TEACHING_OR_TEACHBACK" -> "TEACH_CONCEPT"
                [] need = "UNCERTAINTY" -> "SURFACE_UNCERTAINTY"
                [] OTHER -> IF target = "FINDING_EVIDENCE_TESTED" THEN "TEST_FINDING_SUPPORT"
                            ELSE "ADDRESS_STUDENT_CHALLENGE",
   target |-> target,
   refs   |-> IF need = "TEACHING_OR_TEACHBACK" THEN {} ELSE ctx.latest \cup ObjectiveRefs]

\* Mutated: a candidate that cites evidence nobody supplied suppresses the
\* fallback and is rejected afterwards.
FallbackForgetsEvidence(ctx, need, candidates) ==
  LET targets == FallbackTargets(need)
      first == FirstPlannable(ctx, targets)
      answered == \E i \in DOMAIN candidates :
                    AddressesNeed(candidates[i], need) /\ candidates[i].target \in Plannable(ctx.objective)
  IN IF answered \/ first = {} THEN candidates
     ELSE Append(candidates, FallbackCandidate(ctx, need, targets[CHOOSE i \in first : TRUE]))

\* _ensure_bounded_fallback_candidates: nothing is added when a candidate in
\* bounds addresses the need already, selectable or not.
WithFallback(ctx, need, candidates) ==
  LET targets == FallbackTargets(need)
      first == FirstPlannable(ctx, targets)
      answered == \E i \in DOMAIN candidates :
                    AddressesNeed(candidates[i], need) /\ InBounds(ctx, candidates[i])
  IN IF answered \/ first = {} THEN candidates
     ELSE Append(candidates, FallbackCandidate(ctx, need, targets[CHOOSE i \in first : TRUE]))

=============================================================================
