-------------------------- MODULE MCCoachingEngine --------------------------
(***************************************************************************)
(* Small instances of CoachingEngine for TLC.                              *)
(***************************************************************************)
EXTENDS CoachingEngine

\* A turn that proposes nothing, evidence, or an uncertainty.
SmallProposals == {{}, {"evidence"}, {"uncertainty"}}

Cand(move, target, refs) == [move |-> move, target |-> target, refs |-> refs]

\* Planners that return nothing, an ordinary question, a teaching move with
\* invented evidence, a challenge aimed at the wrong outcome, a synthesis.
SmallLists ==
  {<<>>,
   <<Cand("TEST_EVIDENCE_BOUNDARY", "CURRENT_EVIDENCE_ASSESSED", {"frozen"}),
     Cand("MAKE_POSITION_EXPLICIT", "FOCUS_UNDERSTOOD", {})>>,
   <<Cand("TEACH_CONCEPT", "FOCUS_UNDERSTOOD", {"invented"})>>,
   <<Cand("ADDRESS_STUDENT_CHALLENGE", "OWNERSHIP_CLEAR", {}),
     Cand("SURFACE_UNCERTAINTY", "UNCERTAINTY_CLEAR", {})>>,
   <<Cand("SYNTHESIZE_OBJECTIVE", "FOCUS_UNDERSTOOD", {}),
     Cand("REQUEST_TEACH_BACK", "CURRENT_EVIDENCE_ASSESSED", {"frozen"})>>}

\* The contexts of a turn that names no evidence, with one dimension judged.
SmallContexts ==
  [objective : Kinds,
   shadow : {[BlankShadow EXCEPT ![d] = status] :
               d \in {"evidence", "uncertainty"}, status \in Statuses},
   latest : {{}}, intent : Intents, taught : BOOLEAN, disputed : BOOLEAN, corrected : BOOLEAN,
   summarised : BOOLEAN]

\* The ranking of next_question_selector.py:276 is total: whenever a candidate is
\* admitted exactly one is preferred, and it is an admitted one.
ASSUME OneIsPreferred ==
  \A ctx \in SmallContexts, list \in SmallLists, semantic \in SemanticNeeds :
    LET candidates == WithFallback(ctx, PrimaryNeed(ctx, semantic), list)
    IN Cardinality(Preferred(ctx, semantic, candidates)) =
         IF Admitted(ctx, semantic, candidates) = {} THEN 0 ELSE 1

=============================================================================
