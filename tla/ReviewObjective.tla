--------------------------- MODULE ReviewObjective ---------------------------
(***************************************************************************)
(* The vocabulary of the analytical engine: the eight reasoning dimensions,*)
(* the outcomes a review can aim at, the engineering moves a reviewer can  *)
(* make, and the objective a review is locked to when it starts.           *)
(***************************************************************************)
EXTENDS FiniteSets

\* The outcomes each reasoning dimension stands for.  The outcomes of Focused
\* and Finding Reviews that no dimension is aligned to are in Unmapped.
OutcomesOf ==
  [decision       |-> {"CURRENT_POSITION_CLEAR"},
   evidence       |-> {"EVIDENCE_BOUNDARY_CLEAR", "CURRENT_EVIDENCE_ASSESSED", "FINDING_EVIDENCE_TESTED"},
   consequence    |-> {"ENGINEERING_CONSEQUENCE_CLEAR", "IMPORTANT_IMPLICATION_CLEAR",
                       "FINDING_ENGINEERING_IMPLICATION_CLEAR"},
   boundary       |-> {"ACTION_BOUNDARY_CLEAR"},
   ownership      |-> {"OWNERSHIP_CLEAR"},
   change_trigger |-> {"CHANGE_OR_CLOSURE_CONDITION_CLEAR"},
   uncertainty    |-> {"UNCERTAINTY_CLEAR"},
   tradeoff       |-> {"TRADEOFF_CLEAR"}]

Dimensions == DOMAIN OutcomesOf
Unmapped == {"FOCUS_UNDERSTOOD", "NEXT_IMPROVEMENT_OR_EVIDENCE_NEED_CLEAR",
             "FINDING_CLAIM_CLEAR", "NEXT_ACTION_OR_UNCERTAINTY_CLEAR"}
Outcomes == Unmapped \cup UNION {OutcomesOf[d] : d \in Dimensions}

\* The dimension an outcome is read from.
DimensionOf == [o \in Outcomes \ Unmapped |-> CHOOSE d \in Dimensions : o \in OutcomesOf[d]]

NextStepOutcomes == {"NEXT_IMPROVEMENT_OR_EVIDENCE_NEED_CLEAR", "NEXT_ACTION_OR_UNCERTAINTY_CLEAR"}

\* The moves, each with the outcomes it is compatible with.
MoveTargets ==
  [CLARIFY_CONSEQUENCE       |-> OutcomesOf.consequence,
   TEST_EVIDENCE_BOUNDARY    |-> OutcomesOf.evidence,
   MAKE_POSITION_EXPLICIT    |-> {"CURRENT_POSITION_CLEAR", "FOCUS_UNDERSTOOD", "FINDING_CLAIM_CLEAR"},
   CLARIFY_ACTION_BOUNDARY   |-> OutcomesOf.boundary \cup NextStepOutcomes,
   ESTABLISH_OWNERSHIP       |-> OutcomesOf.ownership,
   ESTABLISH_CHANGE_TRIGGER  |-> OutcomesOf.change_trigger \cup NextStepOutcomes,
   SURFACE_UNCERTAINTY       |-> OutcomesOf.uncertainty \cup NextStepOutcomes,
   TEST_TRADEOFF             |-> OutcomesOf.tradeoff,
   TEST_FINDING_SUPPORT      |-> {"FINDING_CLAIM_CLEAR", "FINDING_EVIDENCE_TESTED"},
   RECONCILE_CONTRADICTION   |-> OutcomesOf.evidence \cup OutcomesOf.decision,
   ADDRESS_STUDENT_CHALLENGE |-> OutcomesOf.evidence \cup {"FINDING_CLAIM_CLEAR"},
   REQUEST_MISSING_EVIDENCE  |-> OutcomesOf.evidence \cup OutcomesOf.uncertainty \cup NextStepOutcomes,
   TEACH_CONCEPT             |-> Outcomes,
   REQUEST_TEACH_BACK        |-> Outcomes,
   STRESS_TEST_POSITION      |-> OutcomesOf.decision \cup OutcomesOf.consequence \cup OutcomesOf.tradeoff,
   SYNTHESIZE_OBJECTIVE      |-> Outcomes,
   CLOSE_WITH_UNRESOLVED_EVIDENCE |->
     OutcomesOf.uncertainty \cup OutcomesOf.change_trigger \cup NextStepOutcomes,
   HANDOFF_EXPERTISE         |-> Outcomes]

Moves == DOMAIN MoveTargets
TeachingMoves == {"TEACH_CONCEPT", "REQUEST_TEACH_BACK"}
ClosureMoves == {"SYNTHESIZE_OBJECTIVE", "CLOSE_WITH_UNRESOLVED_EVIDENCE"}

\* Moves that test or deepen what is established instead of asking it again.
DeepeningMoves ==
  {"TEST_EVIDENCE_BOUNDARY", "REQUEST_MISSING_EVIDENCE", "RECONCILE_CONTRADICTION",
   "ADDRESS_STUDENT_CHALLENGE", "TEST_FINDING_SUPPORT", "STRESS_TEST_POSITION"} \cup TeachingMoves

\* What each planning need is answered by; STUDENT_CHALLENGE has a rule of its
\* own (AddressesChallenge in QuestionSelector).
NeedMoves ==
  [TEACHING_OR_TEACHBACK |-> TeachingMoves,
   EVIDENCE_DEFICIT      |-> {"TEST_EVIDENCE_BOUNDARY", "REQUEST_MISSING_EVIDENCE", "TEST_FINDING_SUPPORT"},
   CONTRADICTION_OR_STALE_STATE |->
     {"RECONCILE_CONTRADICTION", "CLARIFY_ACTION_BOUNDARY", "ESTABLISH_CHANGE_TRIGGER"},
   UNCERTAINTY           |-> {"SURFACE_UNCERTAINTY", "REQUEST_MISSING_EVIDENCE",
                              "ESTABLISH_CHANGE_TRIGGER", "CLOSE_WITH_UNRESOLVED_EVIDENCE"},
   INDEPENDENT_JUDGMENT  |-> {"MAKE_POSITION_EXPLICIT", "STRESS_TEST_POSITION", "REQUEST_TEACH_BACK"},
   POSITION_CLARITY      |-> {"MAKE_POSITION_EXPLICIT", "STRESS_TEST_POSITION"},
   ACTION_OR_CHANGE      |-> {"CLARIFY_ACTION_BOUNDARY", "ESTABLISH_OWNERSHIP", "ESTABLISH_CHANGE_TRIGGER"},
   STRESS_TEST           |-> {"STRESS_TEST_POSITION", "TEST_TRADEOFF", "TEST_EVIDENCE_BOUNDARY"},
   CONSEQUENCE           |-> {"CLARIFY_CONSEQUENCE", "STRESS_TEST_POSITION"},
   SYNTHESIS             |-> ClosureMoves]

NoNeed == "none"
Needs == DOMAIN NeedMoves \cup {"STUDENT_CHALLENGE"}

\* The outcomes a review of each kind requires and permits.  "unselected" is a
\* Finding Review whose selected findings are not in the frozen evidence.
Objectives ==
  [board |->
     [required |-> {"CURRENT_POSITION_CLEAR", "EVIDENCE_BOUNDARY_CLEAR",
                    "ENGINEERING_CONSEQUENCE_CLEAR", "ACTION_BOUNDARY_CLEAR", "OWNERSHIP_CLEAR",
                    "CHANGE_OR_CLOSURE_CONDITION_CLEAR"},
      optional |-> {"UNCERTAINTY_CLEAR", "TRADEOFF_CLEAR"}],
   focused |->
     [required |-> {"FOCUS_UNDERSTOOD", "CURRENT_EVIDENCE_ASSESSED", "IMPORTANT_IMPLICATION_CLEAR",
                    "NEXT_IMPROVEMENT_OR_EVIDENCE_NEED_CLEAR"},
      optional |-> {"UNCERTAINTY_CLEAR", "TRADEOFF_CLEAR", "OWNERSHIP_CLEAR"}],
   finding |->
     [required |-> {"FINDING_CLAIM_CLEAR", "FINDING_EVIDENCE_TESTED",
                    "FINDING_ENGINEERING_IMPLICATION_CLEAR", "NEXT_ACTION_OR_UNCERTAINTY_CLEAR"},
      optional |-> {"OWNERSHIP_CLEAR", "CHANGE_OR_CLOSURE_CONDITION_CLEAR", "TRADEOFF_CLEAR"}],
   unselected |-> [required |-> {}, optional |-> {}]]

ObjectiveKinds == DOMAIN Objectives
Plannable(kind) == Objectives[kind].required \cup Objectives[kind].optional

\* prepare and build_review_objective: the kind of the review a start asks for,
\* from the mode of the request and the findings it selects.  Only a selected
\* finding that is in the frozen evidence becomes the object of the review.
ObjectiveFor(mode, selected, frozen) ==
  CASE mode = "focused_review" -> "focused"
    [] mode = "finding_review" -> IF selected \cap frozen = {} THEN "unselected" ELSE "finding"
    [] OTHER -> "board"

=============================================================================
