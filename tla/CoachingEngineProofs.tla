------------------------- MODULE CoachingEngineProofs -------------------------
(***************************************************************************)
(* The analytical engine is correct for every reviewer, validator and      *)
(* planner: whatever the models answer, whichever turns are lost, and for  *)
(* every set of references and candidate lists.  The invariant that        *)
(* carries the proofs adds to the properties that the draft of a turn in   *)
(* progress holds at least the shadow credit of the stored document,       *)
(* unless the turn is a correction (DraftKeepsCredit).                     *)
(***************************************************************************)
EXTENDS CoachingEngine, WellFoundedInduction, TLAPS

Correcting == turn.intent \in CorrectionIntents /\ turn.operation # "coach"

\* A turn that is no correction has not lowered any credit in its draft.
DraftKeepsCredit ==
  turn # NoTurn /\ ~Correcting =>
    \A d \in Dimensions : Credit[doc.shadow[d]] <= Credit[turn.draft.shadow[d]]

EngineIInv == TypeOK /\ ShadowWithinLegacy /\ DraftKeepsCredit /\ PlanServesTurn

-----------------------------------------------------------------------------
(***************************************************************************)
(* Lemmas about the vocabulary.                                            *)
(***************************************************************************)

\* The eight dimensions, by name.
LEMMA DimensionNames ==
  Dimensions = {"decision", "evidence", "consequence", "boundary", "ownership", "change_trigger",
                "uncertainty", "tradeoff"}
BY DEF Dimensions, OutcomesOf

\* An outcome of a dimension is read from that dimension and no other.
LEMMA OutcomesAligned ==
  ASSUME NEW d \in Dimensions, NEW o \in OutcomesOf[d]
  PROVE  o \in Outcomes \ Unmapped /\ DimensionOf[o] = d
<1>1. o \in Outcomes \ Unmapped
  BY DimensionNames DEF Outcomes, Unmapped, OutcomesOf
<1>2. \A e \in Dimensions : o \in OutcomesOf[e] => e = d
  BY DimensionNames DEF OutcomesOf
<1> DEFINE Reads(e) == e \in Dimensions /\ o \in OutcomesOf[e]
<1>3. \A e : Reads(e) => e = d
  BY <1>2
<1>4. DimensionOf[o] = CHOOSE e : Reads(e)
  BY <1>1 DEF DimensionOf
<1>5. Reads(d)
  OBVIOUS
<1> HIDE DEF Reads
<1> QED
  BY <1>1, <1>3, <1>4, <1>5

\* A teaching move is compatible with every outcome, deepens whatever is
\* validated and closes nothing.
LEMMA TeachingFitsAnything ==
  ASSUME NEW m \in TeachingMoves
  PROVE  /\ m \in Moves /\ MoveTargets[m] = Outcomes
         /\ m \in DeepeningMoves /\ m \notin ClosureMoves
BY DEF TeachingMoves, Moves, MoveTargets, DeepeningMoves, ClosureMoves

\* Every kind of review only plans outcomes that exist.
LEMMA PlannableAreOutcomes ==
  ASSUME NEW kind \in ObjectiveKinds
  PROVE  Plannable(kind) \subseteq Outcomes
BY DimensionNames DEF Plannable, ObjectiveKinds, Objectives, Outcomes, Unmapped, OutcomesOf

\* A start locks the review to one of the four kinds.
LEMMA KindsAreObjectives == Kinds \subseteq ObjectiveKinds
BY DEF Kinds, ObjectiveFor, ObjectiveKinds, Objectives

-----------------------------------------------------------------------------
(***************************************************************************)
(* Lemmas about the validator's shadow.                                    *)
(***************************************************************************)

Shadows == [Dimensions -> Statuses]

\* The credit of a shadow is a number for each dimension.
LEMMA CreditIsNumber ==
  ASSUME NEW status \in Statuses
  PROVE  /\ Credit[status] \in 0..2
         /\ status # "unestablished" <=> Credit[status] > 0
BY DEF Credit, Statuses

\* One decision leaves a status that never has less credit.
LEMMA GrantKeepsCredit ==
  ASSUME NEW status \in Statuses, NEW decision \in {"ACCEPT", "PARTIAL", "REJECT"}
  PROVE  /\ Grant(status, decision) \in Statuses
         /\ Credit[status] <= Credit[Grant(status, decision)]
<1>1. CASE decision = "ACCEPT"
  <2>1. Grant(status, decision) = "validated"
    BY <1>1 DEF Grant
  <2> QED
    BY <2>1 DEF Credit, Statuses
<1>2. CASE decision = "PARTIAL" /\ status # "validated"
  <2>1. Grant(status, decision) = "partial"
    BY <1>2 DEF Grant
  <2> QED
    BY <1>2, <2>1 DEF Credit, Statuses
<1>3. CASE decision = "REJECT" \/ (decision = "PARTIAL" /\ status = "validated")
  <2>1. Grant(status, decision) = status
    BY <1>3 DEF Grant
  <2> QED
    BY <2>1 DEF Credit, Statuses
<1> QED
  BY <1>1, <1>2, <1>3

\* A repair keeps one judgment for each proposal.
LEMMA RepairedJudgments ==
  ASSUME NEW asked, NEW first \in Judgments(asked), NEW again \in Judgments(Missing(first))
  PROVE  Repaired(first, again) \in Judgments(asked)
BY DEF Judgments, Missing, Repaired

\* What a correction may reopen is what is established.
LEMMA ReopensAreEstablished ==
  ASSUME NEW shadow \in Shadows, NEW intent, NEW reopens \in Reopens(ReopenCandidates(shadow, intent))
  PROVE  /\ DOMAIN reopens \subseteq Established(shadow)
         /\ intent \notin CorrectionIntents => DOMAIN reopens = {}
         /\ \A d \in DOMAIN reopens : reopens[d] \in Statuses
<1>1. PICK D \in SUBSET ReopenCandidates(shadow, intent) : reopens \in [D -> {"unestablished", "partial"}]
  BY DEF Reopens
<1>2. ReopenCandidates(shadow, intent) \subseteq Established(shadow)
  BY DEF ReopenCandidates
<1>3. intent \notin CorrectionIntents => ReopenCandidates(shadow, intent) = {}
  BY DEF ReopenCandidates
<1> QED
  BY <1>1, <1>2, <1>3 DEF Statuses

\* A completed validation establishes nothing that was neither established nor
\* proposed, and lowers nothing where nothing is reopened.
LEMMA ValidationWithholds ==
  ASSUME NEW shadow \in Shadows, NEW intent, NEW reopens \in Reopens(ReopenCandidates(shadow, intent)),
         NEW asked \in SUBSET Dimensions, NEW judged \in Judgments(asked)
  PROVE  /\ Validated(shadow, reopens, judged) \in Shadows
         /\ Established(Validated(shadow, reopens, judged)) \subseteq Established(shadow) \cup asked
         /\ intent \notin CorrectionIntents =>
              \A d \in Dimensions : Credit[shadow[d]] <= Credit[Validated(shadow, reopens, judged)[d]]
<1> DEFINE old == Reopened(shadow, reopens)
           new == Validated(shadow, reopens, judged)
<1>1. /\ old \in Shadows
      /\ Established(old) \subseteq Established(shadow)
      /\ intent \notin CorrectionIntents => \A d \in Dimensions : old[d] = shadow[d]
  <2>1. \A d \in Dimensions : old[d] = IF d \in DOMAIN reopens THEN reopens[d] ELSE shadow[d]
    BY DEF Reopened
  <2>2. old \in Shadows
    BY ReopensAreEstablished DEF Reopened, Shadows
  <2> HIDE DEF old
  <2> QED
    BY <2>1, <2>2, ReopensAreEstablished DEF Established
<1>2. DOMAIN judged = asked /\ \A d \in asked : judged[d].decision \in {"ACCEPT", "PARTIAL", "REJECT"}
  BY DEF Judgments, Evaluations
<1>3. \A d \in Dimensions : new[d] = IF d \in asked THEN Grant(old[d], judged[d].decision) ELSE old[d]
  BY <1>2 DEF Validated
<1>4. \A d \in Dimensions : new[d] \in Statuses /\ Credit[old[d]] <= Credit[new[d]]
  <2> TAKE d \in Dimensions
  <2>1. old[d] \in Statuses
    BY <1>1 DEF Shadows
  <2> HIDE DEF old, new
  <2>2. CASE d \in asked
    BY <2>1, <2>2, <1>2, <1>3, GrantKeepsCredit
  <2>3. CASE d \notin asked
    BY <2>1, <2>3, <1>3, CreditIsNumber
  <2> QED
    BY <2>2, <2>3
<1>5. new \in Shadows
  <2>1. new = [d \in Dimensions |-> new[d]]
    BY DEF Validated
  <2> HIDE DEF new
  <2> QED
    BY <1>4, <2>1 DEF Shadows
<1> HIDE DEF old, new
<1>6. Established(new) \subseteq Established(shadow) \cup asked
  <2> SUFFICES ASSUME NEW d \in Dimensions, new[d] # "unestablished", d \notin asked
               PROVE  d \in Established(shadow)
    BY DEF Established
  <2>1. old[d] # "unestablished"
    BY <1>3
  <2> QED
    BY <1>1, <2>1 DEF Established
<1>7. intent \notin CorrectionIntents => \A d \in Dimensions : Credit[shadow[d]] <= Credit[new[d]]
  BY <1>1, <1>4
<1> QED
  BY <1>5, <1>6, <1>7 DEF new

-----------------------------------------------------------------------------
(***************************************************************************)
(* Lemmas about the selector.                                              *)
(***************************************************************************)

\* A list of candidates that name moves and outcomes.
Proposed(list) == list \in Seq(Candidates)

\* The first plannable target, if there is one, is plannable.
LEMMA FirstIsPlannable ==
  ASSUME NEW ctx, NEW targets, FirstPlannable(ctx, targets) # {}
  PROVE  targets[CHOOSE i \in FirstPlannable(ctx, targets) : TRUE] \in Plannable(ctx.objective)
BY DEF FirstPlannable

\* Every review that plans anything has an outcome to teach towards.
LEMMA TeachingHasATarget ==
  ASSUME NEW ctx, ctx.objective \in ObjectiveKinds, Plannable(ctx.objective) # {}
  PROVE  FirstPlannable(ctx, TeachingTargets) # {}
<1>1. ctx.objective \in {"board", "focused", "finding"}
  BY DEF ObjectiveKinds, Objectives, Plannable
<1>2. /\ DOMAIN TeachingTargets = 1..5
      /\ TeachingTargets[1] = "FOCUS_UNDERSTOOD"
      /\ TeachingTargets[2] = "FINDING_CLAIM_CLEAR"
      /\ TeachingTargets[3] = "CURRENT_POSITION_CLEAR"
  BY DEF TeachingTargets
<1>3. CASE ctx.objective = "board"
  <2>1. /\ "CURRENT_POSITION_CLEAR" \in Plannable("board")
        /\ "FOCUS_UNDERSTOOD" \notin Plannable("board")
        /\ "FINDING_CLAIM_CLEAR" \notin Plannable("board")
    BY DEF Plannable, Objectives
  <2>2. 3 \in FirstPlannable(ctx, TeachingTargets)
    BY <1>2, <1>3, <2>1 DEF FirstPlannable
  <2> QED
    BY <2>2
<1>4. CASE ctx.objective = "focused"
  <2>1. "FOCUS_UNDERSTOOD" \in Plannable("focused")
    BY DEF Plannable, Objectives
  <2>2. 1 \in FirstPlannable(ctx, TeachingTargets)
    BY <1>2, <1>4, <2>1 DEF FirstPlannable
  <2> QED
    BY <2>2
<1>5. CASE ctx.objective = "finding"
  <2>1. /\ "FINDING_CLAIM_CLEAR" \in Plannable("finding")
        /\ "FOCUS_UNDERSTOOD" \notin Plannable("finding")
    BY DEF Plannable, Objectives
  <2>2. 2 \in FirstPlannable(ctx, TeachingTargets)
    BY <1>2, <1>5, <2>1 DEF FirstPlannable
  <2> QED
    BY <2>2
<1> QED
  BY <1>1, <1>3, <1>4, <1>5

\* The list with the application's candidate still names moves and outcomes.
LEMMA FallbackIsProposed ==
  ASSUME NEW ctx, ctx.objective \in ObjectiveKinds, NEW need, NEW list, Proposed(list),
         NEW i \in DOMAIN WithFallback(ctx, need, list)
  PROVE  /\ WithFallback(ctx, need, list)[i].move \in Moves
         /\ WithFallback(ctx, need, list)[i].target \in Outcomes
<1> DEFINE targets == FallbackTargets(need)
           target == targets[CHOOSE k \in FirstPlannable(ctx, targets) : TRUE]
           added == FallbackCandidate(ctx, need, target)
           candidates == WithFallback(ctx, need, list)
<1>1. /\ DOMAIN list = 1..Len(list) /\ Len(list) \in Nat
      /\ \A k \in 1..Len(list) : list[k] \in Candidates
  BY DEF Proposed
<1>2. \A k \in 1..Len(list) : list[k].move \in Moves /\ list[k].target \in Outcomes
  BY <1>1 DEF Candidates
<1>3. candidates = list \/ (FirstPlannable(ctx, targets) # {} /\ candidates = Append(list, added))
  BY DEF WithFallback
<1>4. CASE candidates = list
  <2> HIDE DEF candidates
  <2>1. i \in 1..Len(list)
    BY <1>1, <1>4 DEF candidates
  <2> QED
    BY <1>2, <1>4, <2>1 DEF candidates
<1>5. CASE FirstPlannable(ctx, targets) # {} /\ candidates = Append(list, added)
  <2>1. target \in Outcomes
    BY <1>5, FirstIsPlannable, PlannableAreOutcomes
  <2>2. added.target = target
    BY DEF FallbackCandidate
  <2>3. added.move \in {"TEACH_CONCEPT", "SURFACE_UNCERTAINTY", "TEST_FINDING_SUPPORT",
                        "ADDRESS_STUDENT_CHALLENGE"}
    BY DEF FallbackCandidate
  <2>4. added.move \in Moves
    BY <2>3 DEF Moves, MoveTargets
  <2> HIDE DEF target, added, targets, candidates
  <2>5. /\ DOMAIN Append(list, added) = 1..(Len(list) + 1)
        /\ Append(list, added)[Len(list) + 1] = added
        /\ \A k \in 1..Len(list) : Append(list, added)[k] = list[k]
    BY DEF Proposed
  <2>6. i \in 1..(Len(list) + 1)
    BY <1>5, <2>5 DEF candidates
  <2>7. candidates[i].move \in Moves /\ candidates[i].target \in Outcomes
    BY <1>1, <1>2, <1>5, <2>1, <2>2, <2>4, <2>5, <2>6
  <2> QED
    BY <2>7 DEF candidates
<1> QED
  BY <1>3, <1>4, <1>5

\* A teaching move inside the objective and its evidence breaks no constraint
\* when the application asks for teaching.
LEMMA TeachingIsSelectable ==
  ASSUME NEW ctx, ctx.objective \in ObjectiveKinds, NEW c,
         c.move \in TeachingMoves, InBounds(ctx, c)
  PROVE  Selectable(ctx, "TEACHING_OR_TEACHBACK", c)
<1>1. c.target \in Outcomes
  BY PlannableAreOutcomes DEF InBounds
<1> QED
  BY <1>1, TeachingFitsAnything DEF Selectable

\* A student who needs teaching and has no challenge open is always served: some
\* candidate is admitted, and whichever is admitted teaches.
LEMMA TeachingIsAdmitted ==
  ASSUME NEW ctx, ctx.objective \in ObjectiveKinds, Plannable(ctx.objective) # {},
         RequiresTeaching(ctx), ~ActiveChallenge(ctx),
         NEW semantic, NEW list, Proposed(list)
  PROVE  LET candidates == WithFallback(ctx, PrimaryNeed(ctx, semantic), list)
         IN /\ Admitted(ctx, semantic, candidates) # {}
            /\ \A i \in Admitted(ctx, semantic, candidates) : candidates[i].move \in TeachingMoves
<1> DEFINE need == "TEACHING_OR_TEACHBACK"
           candidates == WithFallback(ctx, need, list)
<1>1. PrimaryNeed(ctx, semantic) = need
  BY DEF PrimaryNeed, ApplicationNeed, NoNeed
<1>2. EffectiveNeed(ctx, semantic, candidates) = need
  BY <1>1 DEF EffectiveNeed, NoNeed
<1>3. Admitted(ctx, semantic, candidates) = {i \in DOMAIN candidates : Selectable(ctx, need, candidates[i])}
  BY <1>2 DEF Admitted
<1>4. \E i \in DOMAIN candidates : candidates[i].move \in TeachingMoves /\ InBounds(ctx, candidates[i])
  <2>1. \A c : AddressesNeed(c, need) => c.move \in TeachingMoves
    BY DEF AddressesNeed, NeedMoves
  <2>2. CASE \E i \in DOMAIN list : AddressesNeed(list[i], need) /\ InBounds(ctx, list[i])
    <3>1. candidates = list
      BY <2>2 DEF WithFallback
    <3> QED
      BY <2>1, <2>2, <3>1
  <2>3. CASE ~\E i \in DOMAIN list : AddressesNeed(list[i], need) /\ InBounds(ctx, list[i])
    <3> DEFINE first == FirstPlannable(ctx, TeachingTargets)
               target == TeachingTargets[CHOOSE i \in first : TRUE]
               added == FallbackCandidate(ctx, need, target)
    <3>1. FallbackTargets(need) = TeachingTargets
      BY DEF FallbackTargets
    <3>2. first # {}
      BY TeachingHasATarget
    <3>3. candidates = Append(list, added)
      BY <2>3, <3>1, <3>2 DEF WithFallback
    <3>4. target \in Plannable(ctx.objective)
      BY <3>2, FirstIsPlannable
    <3>5. added.target = target /\ added.move = "TEACH_CONCEPT" /\ added.refs = {}
      BY DEF FallbackCandidate
    <3>6. added.move \in TeachingMoves /\ InBounds(ctx, added)
      BY <3>4, <3>5 DEF TeachingMoves, InBounds
    <3> HIDE DEF first, target, added
    <3>7. /\ Len(list) + 1 \in DOMAIN Append(list, added)
          /\ Append(list, added)[Len(list) + 1] = added
      BY DEF Proposed
    <3> QED
      BY <3>3, <3>6, <3>7
  <2> QED
    BY <2>2, <2>3
<1>5. Admitted(ctx, semantic, candidates) # {}
  BY <1>3, <1>4, TeachingIsSelectable
<1>6. \A i \in Admitted(ctx, semantic, candidates) : candidates[i].move \in TeachingMoves
  BY <1>3 DEF Selectable
<1> QED
  BY <1>1, <1>5, <1>6

\* Whatever is admitted does not ask again for what is validated, and only
\* synthesizes a review whose aligned requirements are all validated.
LEMMA AdmittedFits ==
  ASSUME NEW ctx, ctx.objective \in ObjectiveKinds, NEW semantic, NEW candidates,
         NEW i \in Admitted(ctx, semantic, candidates)
  PROVE  /\ OutcomeStatus(ctx.shadow, candidates[i].target) = "validated"
              => candidates[i].move \in DeepeningMoves
         /\ candidates[i].move = "SYNTHESIZE_OBJECTIVE" =>
              \A d \in Dimensions :
                OutcomesOf[d] \cap Objectives[ctx.objective].required # {}
                  => ctx.shadow[d] = "validated"
<1>1. PICK need : Selectable(ctx, need, candidates[i])
  BY DEF Admitted
<1>2. ASSUME candidates[i].move = "SYNTHESIZE_OBJECTIVE", NEW d \in Dimensions,
             NEW o \in OutcomesOf[d] \cap Objectives[ctx.objective].required
      PROVE  ctx.shadow[d] = "validated"
  <2>1. candidates[i].move \in ClosureMoves /\ candidates[i].move # "CLOSE_WITH_UNRESOLVED_EVIDENCE"
    BY <1>2 DEF ClosureMoves
  <2>2. ClosureAllowed(ctx, candidates[i])
    BY <1>1, <2>1 DEF Selectable
  <2>3. o \notin Unmapped /\ DimensionOf[o] = d
    BY OutcomesAligned
  <2>4. OutcomeStatus(ctx.shadow, o) = "validated"
    BY <2>1, <2>2, <2>3 DEF ClosureAllowed
  <2> QED
    BY <2>3, <2>4 DEF OutcomeStatus
<1> QED
  BY <1>1, <1>2 DEF Selectable

-----------------------------------------------------------------------------
(***************************************************************************)
(* The ranking chooses: it is the order of the natural numbers in another  *)
(* notation, so among admitted candidates one is first.                    *)
(***************************************************************************)

\* A priority read as a number, its first component in the highest place.
Weight(v) == v[6] + 2 * v[5] + 4 * v[4] + 8 * v[3] + 24 * v[2] + 120 * v[1]

Ranks == {<<a, b, c, d, e, f>> : a \in 0..1, b \in 0..4, c \in 0..2, d \in 0..1, e \in 0..1, f \in 0..1}

LEMMA PrioritiesAreRanks ==
  ASSUME NEW ctx, NEW need, NEW c
  PROVE  Priority(ctx, need, c) \in Ranks
<1>1. \A b : Bit(b) \in 0..1
  BY DEF Bit
<1>2. ObjectiveRank(ctx, c) \in 0..4
  BY DEF ObjectiveRank
<1>3. EvidenceRank(c) \in 0..2
  BY <1>1 DEF EvidenceRank
<1> QED
  BY <1>1, <1>2, <1>3 DEF Priority, Ranks

\* Comparing two priorities is comparing their weights.
LEMMA WeightsCompare ==
  ASSUME NEW v \in Ranks, NEW w \in Ranks
  PROVE  /\ Weight(v) \in 0..239
         /\ Above(v, w) <=> Weight(v) > Weight(w)
         /\ v = w <=> Weight(v) = Weight(w)
<1>1. PICK a \in 0..1, b \in 0..4, c \in 0..2, d \in 0..1, e \in 0..1, f \in 0..1 :
        v = <<a, b, c, d, e, f>>
  BY DEF Ranks
<1>2. PICK x \in 0..1, y \in 0..4, z \in 0..2, p \in 0..1, q \in 0..1, r \in 0..1 :
        w = <<x, y, z, p, q, r>>
  BY DEF Ranks
<1>3. /\ Weight(v) = f + 2 * e + 4 * d + 8 * c + 24 * b + 120 * a
      /\ Weight(w) = r + 2 * q + 4 * p + 8 * z + 24 * y + 120 * x
  BY <1>1, <1>2 DEF Weight
<1>4. Above(v, w) <=>
        \/ a > x
        \/ a = x /\ b > y
        \/ a = x /\ b = y /\ c > z
        \/ a = x /\ b = y /\ c = z /\ d > p
        \/ a = x /\ b = y /\ c = z /\ d = p /\ e > q
        \/ a = x /\ b = y /\ c = z /\ d = p /\ e = q /\ f > r
  <2> DEFINE First(k) == v[k] > w[k] /\ \A j \in 1..(k - 1) : v[j] = w[j]
  <2>1. DOMAIN v = 1..6
    BY <1>1
  <2>2. Above(v, w) <=> First(1) \/ First(2) \/ First(3) \/ First(4) \/ First(5) \/ First(6)
    BY <2>1 DEF Above
  <2>3. /\ First(1) <=> v[1] > w[1]
        /\ First(2) <=> v[2] > w[2] /\ v[1] = w[1]
        /\ First(3) <=> v[3] > w[3] /\ v[1] = w[1] /\ v[2] = w[2]
    OBVIOUS
  <2>4. /\ First(4) <=> v[4] > w[4] /\ v[1] = w[1] /\ v[2] = w[2] /\ v[3] = w[3]
        /\ First(5) <=> v[5] > w[5] /\ v[1] = w[1] /\ v[2] = w[2] /\ v[3] = w[3] /\ v[4] = w[4]
        /\ First(6) <=> /\ v[6] > w[6] /\ v[1] = w[1] /\ v[2] = w[2]
                        /\ v[3] = w[3] /\ v[4] = w[4] /\ v[5] = w[5]
    OBVIOUS
  <2> HIDE DEF First
  <2> QED
    BY <1>1, <1>2, <2>2, <2>3, <2>4
<1>5. v = w <=> a = x /\ b = y /\ c = z /\ d = p /\ e = q /\ f = r
  BY <1>1, <1>2
<1> QED
  BY <1>3, <1>4, <1>5

\* A non-empty set of numbers has a least one.
LEMMA LeastOf ==
  ASSUME NEW T, T \subseteq Nat, T # {}
  PROVE  \E x \in T : \A y \in T : x =< y
<1> DEFINE R == {p \in Nat \X Nat : p[1] < p[2]}
<1>1. IsWellFoundedOn(R, Nat)
  BY NatLessThanWellFounded DEF OpToRel
<1>2. \E x \in T : \A y \in T : ~ (<<y, x>> \in R)
  <2> HIDE DEF R
  <2> QED
    BY <1>1, WFMin
<1>3. PICK x \in T : \A y \in T : ~ (<<y, x>> \in R)
  BY <1>2
<1>4. ASSUME NEW y \in T PROVE x =< y
  <2>1. <<y, x>> \in Nat \X Nat /\ ~(<<y, x>> \in R)
    BY <1>3
  <2>2. ~(y < x)
    BY <2>1
  <2> QED
    BY <2>2
<1> QED
  BY <1>4

\* Of finitely many weights one is the greatest.
LEMMA HeaviestOf ==
  ASSUME NEW A, A # {}, NEW w \in [A -> 0..239]
  PROVE  \E m \in A : \A i \in A : w[i] <= w[m]
<1> DEFINE T == {x \in Nat : \E i \in A : x = 239 - w[i]}
<1>1. \A i \in A : w[i] \in 0..239
  OBVIOUS
<1>2. \A i \in A : 239 - w[i] \in Nat
  BY <1>1
<1>3. T \subseteq Nat /\ T # {}
  BY <1>2
<1>4. PICK x \in T : \A y \in T : x =< y
  <2> HIDE DEF T
  <2> QED
    BY <1>3, LeastOf
<1>5. PICK m \in A : x = 239 - w[m]
  OBVIOUS
<1>6. ASSUME NEW i \in A PROVE w[i] <= w[m]
  <2>1. 239 - w[i] \in T
    BY <1>2
  <2> HIDE DEF T
  <2>2. x =< 239 - w[i]
    BY <1>4, <2>1
  <2>3. PICK a \in 0..239, b \in 0..239 : a = w[i] /\ b = w[m]
    <3>1. w[i] \in 0..239 /\ w[m] \in 0..239
      BY <1>1
    <3> QED
      BY ONLY <3>1, Zenon
  <2>4. 239 - b =< 239 - a
    BY <1>5, <2>2, <2>3
  <2>5. a <= b
    BY <2>4
  <2> QED
    BY <2>3, <2>5
<1> QED
  BY <1>6

\* No member of A is heavier, and none before i is as heavy.
Leads(i, A, w) == \A j \in A : ~(w[j] > w[i]) /\ (w[j] = w[i] => i <= j)

Weighed(A, w) == A # {} /\ A \subseteq Nat /\ w \in [A -> 0..239]

\* Of finitely many weights the first of the greatest is one.
LEMMA FirstOfHeaviest ==
  ASSUME NEW A, NEW w, Weighed(A, w)
  PROVE  \E first \in A : \A i \in A : Leads(i, A, w) <=> i = first
<1>0. A # {} /\ A \subseteq Nat /\ \A i \in A : w[i] \in 0..239
  BY DEF Weighed
<1>1. PICK m \in A : \A i \in A : w[i] <= w[m]
  BY HeaviestOf DEF Weighed
<1> DEFINE best == {i \in A : w[i] = w[m]}
<1>2. best \subseteq Nat /\ best # {}
  BY <1>0
<1>3. PICK first \in best : \A i \in best : first =< i
  <2> HIDE DEF best
  <2> QED
    BY <1>2, LeastOf
<1>4. first \in A /\ w[first] = w[m] /\ \A i \in A : w[i] = w[m] => first =< i
  BY <1>3
<1> HIDE DEF best
<1>5. ASSUME NEW i \in A PROVE Leads(i, A, w) <=> i = first
  <2>1. ASSUME \A j \in A : ~(w[j] > w[i]) /\ (w[j] = w[i] => i <= j)
        PROVE  i = first
    <3>1. ~(w[m] > w[i]) /\ w[i] <= w[m] /\ w[m] \in 0..239 /\ w[i] \in 0..239
      BY <1>0, <1>1, <2>1
    <3>2. \A a, b \in 0..239 : ~(b > a) /\ a <= b => a = b
      OBVIOUS
    <3>3. w[i] = w[m]
      BY <3>1, <3>2
    <3>4. first =< i /\ i <= first /\ i \in Nat /\ first \in Nat
      BY <1>0, <1>4, <2>1, <3>3
    <3>5. \A a, b \in Nat : a =< b /\ b =< a => a = b
      OBVIOUS
    <3> QED
      BY <3>4, <3>5
  <2>2. ASSUME i = first, NEW j \in A
        PROVE  ~(w[j] > w[i]) /\ (w[j] = w[i] => i <= j)
    <3>1. w[j] <= w[m] /\ w[j] \in 0..239 /\ w[m] \in 0..239
      BY <1>0, <1>1
    <3>2. \A a, b \in 0..239 : a <= b => ~(a > b)
      OBVIOUS
    <3>3. ~(w[j] > w[m])
      BY <3>1, <3>2
    <3> QED
      BY <1>4, <2>2, <3>3
  <2> QED
    BY <2>1, <2>2 DEF Leads
<1> QED
  BY <1>4, <1>5

\* Of the admitted candidates exactly one is preferred.
LEMMA OnePreferred ==
  ASSUME NEW ctx, NEW semantic, NEW candidates, DOMAIN candidates \subseteq Nat,
         Admitted(ctx, semantic, candidates) # {}
  PROVE  \E i : Preferred(ctx, semantic, candidates) = {i}
<1> DEFINE need == EffectiveNeed(ctx, semantic, candidates)
           admitted == Admitted(ctx, semantic, candidates)
           rank(i) == Priority(ctx, need, candidates[i])
           w == [i \in admitted |-> Weight(rank(i))]
<1>1. admitted \subseteq Nat /\ admitted # {}
  BY DEF Admitted
<1>2. \A i, j \in admitted :
        /\ Weight(rank(i)) \in 0..239
        /\ Above(rank(j), rank(i)) <=> Weight(rank(j)) > Weight(rank(i))
        /\ rank(j) = rank(i) <=> Weight(rank(j)) = Weight(rank(i))
  BY PrioritiesAreRanks, WeightsCompare
<1>3. Preferred(ctx, semantic, candidates) =
        {i \in admitted : \A j \in admitted : /\ ~Above(rank(j), rank(i))
                                              /\ rank(j) = rank(i) => i <= j}
  BY DEF Preferred
<1> HIDE DEF admitted, rank
<1>4. Weighed(admitted, w)
  BY <1>1, <1>2 DEF Weighed
<1>5. \A i \in admitted : w[i] = Weight(rank(i))
  OBVIOUS
<1> HIDE DEF w
<1>6. PICK first \in admitted : \A i \in admitted : Leads(i, admitted, w) <=> i = first
  BY <1>4, FirstOfHeaviest
<1>7. \A i \in admitted :
        (\A j \in admitted : /\ ~Above(rank(j), rank(i))
                             /\ rank(j) = rank(i) => i <= j) <=> Leads(i, admitted, w)
  BY <1>2, <1>5 DEF Leads
<1> QED
  BY <1>3, <1>6, <1>7

-----------------------------------------------------------------------------
(***************************************************************************)
(* Lemmas about documents and turns.                                       *)
(***************************************************************************)

LEMMA HandOverTyped ==
  ASSUME NEW document \in Documents, NEW lens \in Lenses
  PROVE  /\ HandOver(document, lens) \in Documents
         /\ HandOver(document, lens).legacy = document.legacy
         /\ HandOver(document, lens).shadow = document.shadow
<1> DEFINE one == [document EXCEPT !.lens = lens]
           two == [one EXCEPT !.handoffs = document.handoffs \cup {lens}]
<1>1. one \in Documents /\ one.legacy = document.legacy /\ one.shadow = document.shadow
  BY DEF Documents
<1>2. two = HandOver(document, lens)
  BY DEF HandOver
<1>3. document.handoffs \cup {lens} \in SUBSET Lenses
  BY DEF Documents
<1> HIDE DEF one
<1>4. two \in Documents /\ two.legacy = one.legacy /\ two.shadow = one.shadow
  BY <1>1, <1>3 DEF Documents
<1> QED
  BY <1>1, <1>2, <1>4

\* Conversation memory leaves the reasoning of a document as it was.
LEMMA RememberingTyped ==
  ASSUME doc \in Documents, NEW legacy, NEW mustTeach, NEW handoff \in Lenses
  PROVE  /\ Remembering(legacy, mustTeach, handoff) \in Documents
         /\ Remembering(legacy, mustTeach, handoff).legacy = doc.legacy
         /\ Remembering(legacy, mustTeach, handoff).shadow = doc.shadow
<1> DEFINE stall == StallAfter(legacy)
           heard == [doc EXCEPT !.stall = stall]
<1>1. stall \in 0..StallLimit
  BY EngineAssumption DEF StallAfter, Documents
<1>2. Remembering(legacy, mustTeach, handoff) \in {heard, HandOver(heard, handoff)}
  BY DEF Remembering
<1> HIDE DEF stall
<1>3. heard \in Documents /\ heard.legacy = doc.legacy /\ heard.shadow = doc.shadow
  BY <1>1 DEF Documents
<1> HIDE DEF heard
<1> QED
  BY <1>2, <1>3, HandOverTyped

LEMMA LegacyTyped ==
  ASSUME NEW document \in Documents, NEW legacy \in SUBSET Dimensions
  PROVE  LET heard == [document EXCEPT !.legacy = legacy]
         IN heard \in Documents /\ heard.legacy = legacy /\ heard.shadow = document.shadow
BY DEF Documents

LEMMA DisputedTyped ==
  ASSUME NEW document \in Documents
  PROVE  LET told == [document EXCEPT !.disputed = TRUE]
         IN told \in Documents /\ told.legacy = document.legacy /\ told.shadow = document.shadow
BY DEF Documents

LEMMA ShadowTyped ==
  ASSUME NEW document \in Documents, NEW shadow \in Shadows
  PROVE  LET kept == [document EXCEPT !.shadow = shadow]
         IN kept \in Documents /\ kept.legacy = document.legacy /\ kept.shadow = shadow
BY DEF Documents, Shadows

\* The plan a turn that plans nothing carries.
LEMMA UnplannedTyped ==
  Unplanned \in Plan /\ \A stage \in PlanStages : [Unplanned EXCEPT !.stage = stage] \in Plan
BY DEF Unplanned, Plan, PlanStages

\* A turn in progress is not NoTurn.
LEMMA TurnInProgress ==
  ASSUME TypeOK, turn.step \in {"validate", "plan", "save"}
  PROVE  turn \in Turns /\ turn # NoTurn
<1>1. turn # NoTurn
  BY DEF NoTurn
<1> QED
  BY <1>1 DEF TypeOK

\* A step of a turn in progress changes its step, its draft and its plan.
LEMMA AdvancedTurn ==
  ASSUME turn \in Turns, NEW step \in {"validate", "plan", "save"},
         NEW draft \in Documents, NEW plan \in Plan, AdvanceTurn(step, draft, plan)
  PROVE  /\ turn' \in Turns
         /\ turn'.step = step /\ turn'.draft = draft /\ turn'.plan = plan /\ turn'.proposals = {}
         /\ turn'.intent = turn.intent /\ turn'.operation = turn.operation
         /\ turn'.taught = turn.taught
         /\ doc' = doc
<1> DEFINE one == [turn EXCEPT !.step = step]
           two == [one EXCEPT !.proposals = {}]
           three == [two EXCEPT !.draft = draft]
           four == [three EXCEPT !.plan = plan]
<1>1. /\ one \in Turns /\ one.step = step
      /\ one.intent = turn.intent /\ one.operation = turn.operation /\ one.taught = turn.taught
  BY DEF Turns
<1>2. turn' = four /\ doc' = doc
  BY DEF AdvanceTurn
<1> HIDE DEF one
<1>3. /\ two \in Turns /\ two.step = step /\ two.proposals = {}
      /\ two.intent = turn.intent /\ two.operation = turn.operation /\ two.taught = turn.taught
  BY <1>1 DEF Turns
<1> HIDE DEF two
<1>4. /\ three \in Turns /\ three.step = step /\ three.proposals = {} /\ three.draft = draft
      /\ three.intent = turn.intent /\ three.operation = turn.operation /\ three.taught = turn.taught
  BY <1>3 DEF Turns
<1> HIDE DEF three
<1>5. /\ four \in Turns /\ four.step = step /\ four.proposals = {} /\ four.draft = draft
      /\ four.plan = plan
      /\ four.intent = turn.intent /\ four.operation = turn.operation /\ four.taught = turn.taught
  BY <1>4 DEF Turns
<1> HIDE DEF four
<1> QED
  BY <1>2, <1>5

-----------------------------------------------------------------------------
(***************************************************************************)
(* The invariant: one lemma per kind of step.                              *)
(***************************************************************************)

\* What a reply leaves: a draft whose shadow is the stored one and whose legacy
\* reasoning holds what was stored and what is proposed.
LEMMA RepliedPreserves ==
  ASSUME EngineIInv, turn = NoTurn,
         NEW operation \in Operations, NEW intent \in Intents \cup {"reasoning"},
         NEW refs \in RefSets \cup {{}}, NEW taught \in BOOLEAN,
         NEW proposals \in Proposals \cup {{}}, NEW draft \in Documents,
         draft.shadow = doc.shadow, doc.legacy \cup proposals \subseteq draft.legacy,
         Replied(operation, intent, refs, taught, proposals, draft)
  PROVE  EngineIInv'
<1> DEFINE new == [step |-> "validate", operation |-> operation, intent |-> intent, refs |-> refs,
                   taught |-> taught, proposals |-> proposals, draft |-> draft, plan |-> Unplanned]
<1>1. turn' = new /\ doc' = doc
  BY DEF Replied
<1>2. new \in Turns
  BY UnplannedTyped DEF Turns
<1>3. new.step = "validate" /\ new.draft = draft /\ new.proposals = proposals
  OBVIOUS
<1> HIDE DEF new
<1>4. TypeOK'
  BY <1>1, <1>2 DEF EngineIInv, TypeOK
<1>5. ShadowWithinLegacy'
  BY <1>1, <1>3 DEF EngineIInv, ShadowWithinLegacy, Established
<1>6. DraftKeepsCredit'
  <2>1. doc.shadow \in Shadows
    BY DEF EngineIInv, TypeOK, Documents, Shadows
  <2>2. \A d \in Dimensions : Credit[doc.shadow[d]] <= Credit[doc.shadow[d]]
    BY <2>1, CreditIsNumber DEF Shadows
  <2> QED
    BY <1>1, <1>3, <2>2 DEF DraftKeepsCredit
<1>7. PlanServesTurn'
  BY <1>1, <1>3 DEF PlanServesTurn
<1> QED
  BY <1>4, <1>5, <1>6, <1>7 DEF EngineIInv

\* The reviewer's reply to a semantic turn.
LEMMA SemanticPreserves ==
  ASSUME EngineIInv, turn = NoTurn, NEW operation \in Operations, NEW refs \in RefSets \cup {{}},
         NEW updates \in Proposals, NEW intent \in Intents,
         SemanticTurn(operation, updates, intent, refs)
  PROVE  EngineIInv'
<1> DEFINE legacy == MergeState(doc.legacy, updates)
           mustTeach(s) == MustTeach(legacy, s, intent)
           draft(s, handoff) == [Remembering(legacy, mustTeach(s), handoff) EXCEPT !.legacy = legacy]
<1>1. PICK signalled \in BOOLEAN, teaches \in BOOLEAN, handoff \in Lenses :
        Replied(operation, intent, refs, mustTeach(signalled) \/ teaches, updates, draft(signalled, handoff))
  BY DEF SemanticTurn
<1>2. doc \in Documents /\ doc.legacy \in SUBSET Dimensions
  BY DEF EngineIInv, TypeOK, Documents
<1>3. legacy \in SUBSET Dimensions /\ doc.legacy \cup updates \subseteq legacy
  BY <1>2, EngineAssumption DEF MergeState
<1>4. (mustTeach(signalled) \/ teaches) \in BOOLEAN
  OBVIOUS
<1> HIDE DEF legacy, mustTeach
<1>5. /\ Remembering(legacy, mustTeach(signalled), handoff) \in Documents
      /\ Remembering(legacy, mustTeach(signalled), handoff).shadow = doc.shadow
  BY <1>2, RememberingTyped
<1>6. /\ draft(signalled, handoff) \in Documents
      /\ draft(signalled, handoff).legacy = legacy /\ draft(signalled, handoff).shadow = doc.shadow
  BY <1>3, <1>5, LegacyTyped
<1> HIDE DEF draft
<1> QED
  BY <1>1, <1>3, <1>4, <1>6, RepliedPreserves

\* A scripted reply changes no reasoning.
LEMMA ScriptedReplyPreserves ==
  ASSUME EngineIInv, turn = NoTurn, NEW operation \in Operations, NEW refs \in RefSets \cup {{}},
         NEW intent \in Intents, ScriptedReply(operation, intent, refs)
  PROVE  EngineIInv'
<1>1. doc \in Documents
  BY DEF EngineIInv, TypeOK
<1>2. Replied(operation, intent, refs, FALSE, {}, doc)
  BY DEF ScriptedReply
<1> QED
  BY <1>1, <1>2, RepliedPreserves

\* Scripted reasoning merges what the text shows and proposes nothing.
LEMMA ScriptedReasoningPreserves ==
  ASSUME EngineIInv, turn = NoTurn, NEW operation \in Operations, NEW refs \in RefSets \cup {{}},
         NEW words \in Proposals, NEW decided \in BOOLEAN,
         ScriptedReasoning(operation, words, decided, refs)
  PROVE  EngineIInv'
<1> DEFINE legacy == MergeState(doc.legacy, Analyzed(words, decided, refs))
           heard == [doc EXCEPT !.legacy = legacy]
           hands == /\ ReadyToCommit(heard.legacy)
                    /\ doc.lens # "red_team" /\ "red_team" \notin doc.handoffs
           draft == IF hands THEN HandOver(heard, "red_team") ELSE heard
<1>1. doc \in Documents /\ doc.legacy \in SUBSET Dimensions
  BY DEF EngineIInv, TypeOK, Documents
<1>2. legacy \in SUBSET Dimensions /\ doc.legacy \subseteq legacy
  BY <1>1, EngineAssumption, DimensionNames DEF MergeState, Analyzed
<1>3. Replied(operation, "reasoning", refs, FALSE, {}, draft)
  BY DEF ScriptedReasoning
<1> HIDE DEF legacy, hands
<1>4. heard \in Documents /\ heard.legacy = legacy /\ heard.shadow = doc.shadow
  BY <1>1, <1>2 DEF Documents
<1> HIDE DEF heard
<1>5. draft \in Documents /\ draft.legacy = legacy /\ draft.shadow = doc.shadow
  BY <1>4, HandOverTyped, EngineAssumption
<1> HIDE DEF draft
<1> QED
  BY <1>2, <1>3, <1>5, RepliedPreserves

LEMMA ConversePreserves ==
  ASSUME EngineIInv, Converse
  PROVE  EngineIInv'
<1>1. turn = NoTurn
  BY DEF Converse
<1>2. PICK operation \in Operations : \E refs \in RefsOf(operation) :
        \/ \E updates \in Proposals, intent \in Intents : SemanticTurn(operation, updates, intent, refs)
        \/ \E intent \in UnmergedIntents \cap Intents : ScriptedReply(operation, intent, refs)
        \/ \E words \in Proposals, decided \in DecisionOf(operation) :
             ScriptedReasoning(operation, words, decided, refs)
  BY DEF Converse
<1>3. RefsOf(operation) \subseteq RefSets \cup {{}} /\ DecisionOf(operation) \subseteq BOOLEAN
  BY DEF RefsOf, DecisionOf
<1> QED
  BY <1>1, <1>2, <1>3, SemanticPreserves, ScriptedReplyPreserves, ScriptedReasoningPreserves

\* However the phrase is judged, the realization ends in a stage of the plan.
LEMMA RealizationEnds == RealizationStages \subseteq PlanStages \ {"skipped", "planner"}
<1> SUFFICES ASSUME NEW first \in {"accepted", "rejected", "raised"},
                    NEW again \in {"accepted", "rejected", "raised"}
             PROVE  RealizationStage(first, again) \in PlanStages \ {"skipped", "planner"}
  BY DEF RealizationStages
<1>1. CASE first \in {"raised", "accepted"}
  BY <1>1 DEF RealizationStage, PlanStages
<1>2. CASE first = "rejected"
  BY <1>2 DEF RealizationStage, PlanStages
<1> QED
  BY <1>1, <1>2

\* What the selector makes of any planner's answer: a teaching move where one
\* is due, and a move that fits the reasoning it was given.
LEMMA ChoiceServes ==
  ASSUME NEW ctx, ctx.objective \in ObjectiveKinds, Plannable(ctx.objective) # {},
         NEW semantic, NEW list, Proposed(list), NEW choice \in Choices(ctx, semantic, list)
  PROVE  /\ choice.move \in Moves \cup {"none"} /\ choice.target \in Outcomes \cup {"none"}
         /\ choice.challenged \in BOOLEAN /\ (choice.challenged <=> ActiveChallenge(ctx))
         /\ RequiresTeaching(ctx) /\ ~ActiveChallenge(ctx) => choice.move \in TeachingMoves
         /\ choice.move # "none" =>
              /\ OutcomeStatus(ctx.shadow, choice.target) = "validated"
                   => choice.move \in DeepeningMoves
              /\ choice.move = "SYNTHESIZE_OBJECTIVE" =>
                   \A d \in Dimensions :
                     OutcomesOf[d] \cap Objectives[ctx.objective].required # {}
                       => ctx.shadow[d] = "validated"
<1> DEFINE candidates == WithFallback(ctx, PrimaryNeed(ctx, semantic), list)
           admitted == Admitted(ctx, semantic, candidates)
<1>1. RequiresTeaching(ctx) /\ ~ActiveChallenge(ctx) =>
        admitted # {} /\ \A i \in admitted : candidates[i].move \in TeachingMoves
  BY TeachingIsAdmitted
<1>2. /\ NoChoice(ctx).move = "none" /\ NoChoice(ctx).target = "none"
      /\ NoChoice(ctx).challenged = ActiveChallenge(ctx)
      /\ NoChoice(ctx) = [move |-> "none", target |-> "none", challenged |-> ActiveChallenge(ctx)]
  BY DEF NoChoice
<1>3. ActiveChallenge(ctx) \in BOOLEAN
  BY DEF ActiveChallenge
<1>4. CASE admitted = {}
  <2>1. choice = NoChoice(ctx)
    BY <1>4 DEF Choices
  <2> HIDE DEF candidates, admitted
  <2> QED
    BY <1>1, <1>2, <1>3, <1>4, <2>1
<1>5. CASE admitted # {}
  <2>1. PICK i \in Preferred(ctx, semantic, candidates) :
          choice = [NoChoice(ctx) EXCEPT !.move = candidates[i].move, !.target = candidates[i].target]
    BY <1>5 DEF Choices
  <2>2. i \in admitted /\ i \in DOMAIN candidates
    BY DEF Preferred, Admitted
  <2>3. candidates[i].move \in Moves /\ candidates[i].target \in Outcomes
    BY <2>2, FallbackIsProposed
  <2>4. /\ OutcomeStatus(ctx.shadow, candidates[i].target) = "validated"
             => candidates[i].move \in DeepeningMoves
        /\ candidates[i].move = "SYNTHESIZE_OBJECTIVE" =>
             \A d \in Dimensions :
               OutcomesOf[d] \cap Objectives[ctx.objective].required # {}
                 => ctx.shadow[d] = "validated"
    BY <2>2, AdmittedFits
  <2> HIDE DEF candidates, admitted
  <2>5. /\ choice.move = candidates[i].move /\ choice.target = candidates[i].target
        /\ choice.challenged = ActiveChallenge(ctx)
    BY <1>2, <2>1
  <2> QED
    BY <1>1, <1>3, <2>2, <2>3, <2>4, <2>5
<1> QED
  BY <1>4, <1>5

\* A turn in progress that changes neither reasoning nor plan, but for its stage.
LEMMA KeepShadowPreserves ==
  ASSUME EngineIInv, KeepShadow
  PROVE  EngineIInv'
<1>1. turn \in Turns /\ turn # NoTurn
  BY TurnInProgress DEF EngineIInv, KeepShadow
<1>2. turn.draft \in Documents /\ turn.plan \in Plan
  BY <1>1 DEF Turns
<1>3. AdvanceTurn("plan", turn.draft, turn.plan)
  BY DEF KeepShadow
<1>4. /\ turn' \in Turns /\ turn'.step = "plan" /\ turn'.draft = turn.draft
      /\ turn'.proposals = {} /\ turn'.intent = turn.intent /\ turn'.operation = turn.operation
      /\ doc' = doc
  BY <1>1, <1>2, <1>3, AdvancedTurn
<1> QED
  BY <1>1, <1>4
     DEF EngineIInv, TypeOK, ShadowWithinLegacy, DraftKeepsCredit, PlanServesTurn, Correcting, Established

LEMMA CompleteValidationPreserves ==
  ASSUME EngineIInv, CompleteValidation
  PROVE  EngineIInv'
<1>1. turn \in Turns /\ turn # NoTurn
  BY TurnInProgress DEF EngineIInv, CompleteValidation
<1>2. /\ turn.draft \in Documents /\ turn.plan \in Plan /\ turn.proposals \subseteq Dimensions
      /\ turn.draft.shadow \in Shadows
  BY <1>1, EngineAssumption DEF Turns, Documents, Shadows
<1>3. PICK first \in Judgments(turn.proposals), reopens \in Reopens(ToReopen) :
        \E again \in Judgments(Missing(first)) :
          AdvanceTurn("plan",
            [turn.draft EXCEPT !.shadow = Validated(@, reopens, Repaired(first, again))], turn.plan)
  BY DEF CompleteValidation
<1>4. PICK again \in Judgments(Missing(first)) :
        AdvanceTurn("plan",
          [turn.draft EXCEPT !.shadow = Validated(@, reopens, Repaired(first, again))], turn.plan)
  BY <1>3
<1> DEFINE old == turn.draft.shadow
           judged == Repaired(first, again)
           new == Validated(old, reopens, judged)
           kept == [turn.draft EXCEPT !.shadow = new]
<1>5. /\ new \in Shadows
      /\ Established(new) \subseteq Established(old) \cup turn.proposals
      /\ turn.intent \notin CorrectionIntents =>
           \A d \in Dimensions : Credit[old[d]] <= Credit[new[d]]
  <2>1. judged \in Judgments(turn.proposals)
    BY RepairedJudgments
  <2>2. reopens \in Reopens(ReopenCandidates(old, turn.intent))
    BY DEF ToReopen
  <2> HIDE DEF judged
  <2> QED
    BY <1>2, <2>1, <2>2, ValidationWithholds
<1>6. AdvanceTurn("plan", kept, turn.plan)
  BY <1>4
<1> HIDE DEF new, judged
<1>7. kept \in Documents /\ kept.legacy = turn.draft.legacy /\ kept.shadow = new
  BY <1>2, <1>5, ShadowTyped
<1> HIDE DEF kept
<1>8. /\ turn' \in Turns /\ turn'.step = "plan" /\ turn'.draft = kept
      /\ turn'.proposals = {} /\ turn'.intent = turn.intent /\ turn'.operation = turn.operation
      /\ doc' = doc
  BY <1>1, <1>2, <1>6, <1>7, AdvancedTurn
<1>9. TypeOK' /\ PlanServesTurn'
  BY <1>8 DEF EngineIInv, TypeOK, PlanServesTurn
<1>10. ShadowWithinLegacy'
  <2>1. Established(old) \cup turn.proposals \subseteq turn.draft.legacy
    BY <1>1 DEF EngineIInv, ShadowWithinLegacy
  <2>2. Established(doc.shadow) \subseteq doc.legacy
    BY DEF EngineIInv, ShadowWithinLegacy
  <2> QED
    BY <1>5, <1>7, <1>8, <2>1, <2>2 DEF ShadowWithinLegacy
<1>11. DraftKeepsCredit'
  <2> SUFFICES ASSUME ~Correcting', NEW d \in Dimensions
               PROVE  Credit[doc'.shadow[d]] <= Credit[turn'.draft.shadow[d]]
    BY DEF DraftKeepsCredit
  <2>1. turn.operation # "coach"
    BY DEF CompleteValidation, Validates
  <2>2. turn.intent \notin CorrectionIntents
    BY <1>8, <2>1 DEF Correcting
  <2>3. Credit[doc.shadow[d]] <= Credit[old[d]]
    BY <1>1, <2>2 DEF EngineIInv, DraftKeepsCredit, Correcting
  <2>4. Credit[old[d]] <= Credit[new[d]]
    BY <1>5, <2>2
  <2>5. doc.shadow[d] \in Statuses /\ old[d] \in Statuses /\ new[d] \in Statuses
    BY <1>2, <1>5 DEF EngineIInv, TypeOK, Documents, Shadows
  <2> QED
    BY <1>7, <1>8, <2>3, <2>4, <2>5, CreditIsNumber
<1> QED
  BY <1>9, <1>10, <1>11 DEF EngineIInv

LEMMA KeepQuestionPreserves ==
  ASSUME EngineIInv, KeepQuestion
  PROVE  EngineIInv'
<1> DEFINE plan == IF Plans THEN [Unplanned EXCEPT !.stage = "planner"] ELSE Unplanned
<1>1. turn \in Turns /\ turn # NoTurn
  BY TurnInProgress DEF EngineIInv, KeepQuestion
<1>2. turn.draft \in Documents
  BY <1>1 DEF Turns
<1>3. plan \in Plan /\ plan.stage \in {"skipped", "planner"}
  BY UnplannedTyped DEF PlanStages, Unplanned
<1>4. AdvanceTurn("save", turn.draft, plan)
  BY DEF KeepQuestion
<1> HIDE DEF plan
<1>5. /\ turn' \in Turns /\ turn'.draft = turn.draft /\ turn'.plan = plan
      /\ turn'.proposals = {} /\ turn'.intent = turn.intent /\ turn'.operation = turn.operation
      /\ doc' = doc
  BY <1>1, <1>2, <1>3, <1>4, AdvancedTurn
<1>6. PlanServesTurn'
  BY <1>3, <1>5 DEF PlanServesTurn
<1> QED
  BY <1>1, <1>5, <1>6
     DEF EngineIInv, TypeOK, ShadowWithinLegacy, DraftKeepsCredit, Correcting, Established

LEMMA SelectQuestionPreserves ==
  ASSUME EngineIInv, SelectQuestion
  PROVE  EngineIInv'
<1>1. turn \in Turns /\ turn # NoTurn
  BY TurnInProgress DEF EngineIInv, SelectQuestion
<1>2. turn.draft \in Documents /\ turn.draft.objective \in ObjectiveKinds
  BY <1>1, KindsAreObjectives DEF Turns, Documents
<1>3. PICK choice \in UNION {Choices(Context(summarised, corrected), semantic, list) :
                              semantic \in SemanticNeeds, list \in CandidateLists,
                              summarised \in BOOLEAN, corrected \in BOOLEAN} :
        \E stage \in IF choice.move = "none" THEN {"selector"} ELSE RealizationStages :
          AdvanceTurn("save", turn.draft, [stage |-> stage, move |-> choice.move,
                      target |-> choice.target, challenged |-> choice.challenged])
  BY DEF SelectQuestion
<1>4. PICK stage \in IF choice.move = "none" THEN {"selector"} ELSE RealizationStages :
        AdvanceTurn("save", turn.draft, [stage |-> stage, move |-> choice.move,
                    target |-> choice.target, challenged |-> choice.challenged])
  BY <1>3
<1>5. PICK semantic \in SemanticNeeds, list \in CandidateLists,
           summarised \in BOOLEAN, corrected \in BOOLEAN :
        choice \in Choices(Context(summarised, corrected), semantic, list)
  BY <1>3
<1> DEFINE ctx == Context(summarised, corrected)
           plan == [stage |-> stage, move |-> choice.move,
                    target |-> choice.target, challenged |-> choice.challenged]
<1>6. /\ ctx.objective = turn.draft.objective /\ ctx.shadow = turn.draft.shadow
      /\ ctx.intent = turn.intent /\ ctx.taught = turn.taught
  BY DEF Context
<1>7. Proposed(list)
  BY EngineAssumption DEF Proposed
<1>8. Plannable(ctx.objective) # {} /\ ctx.objective \in ObjectiveKinds
  <2>1. Plannable(turn.draft.objective) # {}
    BY DEF SelectQuestion, Plans
  <2> HIDE DEF ctx
  <2> QED
    BY <1>2, <1>6, <2>1
<1> HIDE DEF ctx
<1>9. /\ choice.move \in Moves \cup {"none"} /\ choice.target \in Outcomes \cup {"none"}
      /\ choice.challenged \in BOOLEAN /\ (choice.challenged <=> ActiveChallenge(ctx))
      /\ RequiresTeaching(ctx) /\ ~ActiveChallenge(ctx) => choice.move \in TeachingMoves
      /\ choice.move # "none" =>
           /\ OutcomeStatus(ctx.shadow, choice.target) = "validated"
                => choice.move \in DeepeningMoves
           /\ choice.move = "SYNTHESIZE_OBJECTIVE" =>
                \A d \in Dimensions :
                  OutcomesOf[d] \cap Objectives[ctx.objective].required # {}
                    => ctx.shadow[d] = "validated"
  BY <1>5, <1>7, <1>8, ChoiceServes DEF ctx
<1>10. stage \in PlanStages
  BY <1>4, RealizationEnds DEF PlanStages
<1>11. /\ plan \in Plan /\ plan.move = choice.move /\ plan.target = choice.target
       /\ plan.challenged = choice.challenged
  BY <1>9, <1>10 DEF Plan
<1> HIDE DEF plan
<1>12. AdvanceTurn("save", turn.draft, plan)
  BY <1>4 DEF plan
<1>13. /\ turn' \in Turns /\ turn'.draft = turn.draft /\ turn'.plan = plan
       /\ turn'.proposals = {} /\ turn'.intent = turn.intent /\ turn'.operation = turn.operation
       /\ turn'.taught = turn.taught
       /\ doc' = doc
  BY <1>1, <1>2, <1>11, <1>12, AdvancedTurn
<1>14. TeachingIsServed'
  BY <1>6, <1>9, <1>11, <1>13 DEF TeachingIsServed, TurnNeedsTeaching, RequiresTeaching
<1>15. PlanFitsReasoning'
  BY <1>6, <1>9, <1>11, <1>13 DEF PlanFitsReasoning
<1>16. PlanServesTurn'
  BY <1>14, <1>15 DEF PlanServesTurn
<1> QED
  BY <1>1, <1>13, <1>16
     DEF EngineIInv, TypeOK, ShadowWithinLegacy, DraftKeepsCredit, Correcting, Established

\* A dispute changes conversation memory, and no reasoning.
LEMMA DisputeKeepsReasoning ==
  ASSUME EngineIInv, Dispute
  PROVE  doc' \in Documents /\ doc'.legacy = doc.legacy /\ doc'.shadow = doc.shadow
<1>1. doc \in Documents
  BY DEF EngineIInv, TypeOK
<1>2. CASE doc' = [doc EXCEPT !.disputed = TRUE]
  BY <1>1, <1>2, DisputedTyped
<1>3. ASSUME NEW legacy, NEW mustTeach, NEW handoff \in Lenses,
             doc' = [Remembering(legacy, mustTeach, handoff) EXCEPT !.disputed = TRUE]
      PROVE  doc' \in Documents /\ doc'.legacy = doc.legacy /\ doc'.shadow = doc.shadow
  BY <1>1, <1>3, RememberingTyped, DisputedTyped
<1> QED
  BY <1>2, <1>3, Zenon DEF Dispute

\* The end of a turn, kept or lost, and a dispute between two turns.
LEMMA BetweenTurnsPreserves ==
  ASSUME EngineIInv, Save \/ Abort \/ Dispute
  PROVE  EngineIInv'
<1>1. CASE Save
  <2>1. turn \in Turns /\ turn # NoTurn
    BY <1>1, TurnInProgress DEF EngineIInv, Save
  <2>2. turn.draft \in Documents /\ Established(turn.draft.shadow) \subseteq turn.draft.legacy
    BY <2>1 DEF EngineIInv, ShadowWithinLegacy, Turns
  <2>3. doc' = turn.draft /\ turn' = NoTurn /\ turn'.step = "none"
    BY <1>1 DEF Save, NoTurn
  <2> QED
    BY <2>2, <2>3 DEF EngineIInv, TypeOK, ShadowWithinLegacy, DraftKeepsCredit, PlanServesTurn, Established
<1>2. CASE Abort
  <2>1. doc' = doc /\ turn' = NoTurn /\ turn'.step = "none"
    BY <1>2 DEF Abort, NoTurn
  <2> QED
    BY <2>1 DEF EngineIInv, TypeOK, ShadowWithinLegacy, DraftKeepsCredit, PlanServesTurn, Established
<1>3. CASE Dispute
  <2>1. turn = NoTurn /\ turn' = turn /\ turn.step = "none"
    BY <1>3 DEF Dispute, NoTurn
  <2>2. doc' \in Documents /\ doc'.legacy = doc.legacy /\ doc'.shadow = doc.shadow
    BY <1>3, DisputeKeepsReasoning
  <2> QED
    BY <2>1, <2>2 DEF EngineIInv, TypeOK, ShadowWithinLegacy, DraftKeepsCredit, PlanServesTurn, Established
<1> QED
  BY <1>1, <1>2, <1>3

\* A review begins with no reasoning and no turn in progress.
LEMMA InitEstablishes == Init => EngineIInv
<1> SUFFICES ASSUME Init PROVE EngineIInv
  OBVIOUS
<1>1. PICK kind \in Kinds, modes \in {{}, {"reasoning"}, {"reasoning", "planning"}} :
        doc = [objective |-> kind, shadows |-> modes, legacy |-> {}, shadow |-> BlankShadow,
               stall |-> 0, lens |-> OpeningLens, handoffs |-> {}, disputed |-> FALSE]
  BY DEF Init
<1>2. BlankShadow \in Shadows /\ Established(BlankShadow) = {}
  BY DEF BlankShadow, Shadows, Statuses, Established
<1>3. doc \in Documents
  BY <1>1, <1>2, EngineAssumption DEF Documents, Shadows
<1>4. turn = NoTurn /\ turn.step = "none"
  BY DEF Init, NoTurn
<1>5. Established(doc.shadow) \subseteq doc.legacy
  BY <1>1, <1>2
<1> QED
  BY <1>3, <1>4, <1>5
     DEF EngineIInv, TypeOK, ShadowWithinLegacy, DraftKeepsCredit, PlanServesTurn

\* Every step, and every stutter, keeps the invariant.
LEMMA StepPreserves == EngineIInv /\ [Next]_vars => EngineIInv'
<1> SUFFICES ASSUME EngineIInv, [Next]_vars PROVE EngineIInv'
  OBVIOUS
<1>1. CASE Converse
  BY <1>1, ConversePreserves
<1>2. CASE KeepShadow
  BY <1>2, KeepShadowPreserves
<1>3. CASE CompleteValidation
  BY <1>3, CompleteValidationPreserves
<1>4. CASE KeepQuestion
  BY <1>4, KeepQuestionPreserves
<1>5. CASE SelectQuestion
  BY <1>5, SelectQuestionPreserves
<1>6. CASE Save \/ Abort \/ Dispute
  BY <1>6, BetweenTurnsPreserves
<1>7. CASE UNCHANGED vars
  BY <1>7 DEF vars, EngineIInv, TypeOK, ShadowWithinLegacy, DraftKeepsCredit, Correcting,
              PlanServesTurn, TeachingIsServed, PlanFitsReasoning, TurnNeedsTeaching, Established
<1> QED
  BY <1>1, <1>2, <1>3, <1>4, <1>5, <1>6, <1>7 DEF Next

\* Neither a reply nor a step of a turn in progress stores anything.
LEMMA AdvanceStoresNothing ==
  ASSUME NEW step, NEW draft, NEW plan, AdvanceTurn(step, draft, plan)
  PROVE  doc' = doc
BY DEF AdvanceTurn

LEMMA ConverseStoresNothing == Converse => doc' = doc
<1> SUFFICES ASSUME Converse PROVE doc' = doc
  OBVIOUS
<1>1. \A operation, intent, refs, taught, proposals, draft :
        Replied(operation, intent, refs, taught, proposals, draft) => doc' = doc
  BY DEF Replied
<1>2. ASSUME NEW operation, NEW updates, NEW intent, NEW refs,
             SemanticTurn(operation, updates, intent, refs)
      PROVE  doc' = doc
  <2>1. \E taught, draft : Replied(operation, intent, refs, taught, updates, draft)
    BY <1>2, Zenon DEF SemanticTurn
  <2> QED
    BY <1>1, <2>1, Zenon
<1>3. \A operation, intent, refs : ScriptedReply(operation, intent, refs) => doc' = doc
  BY <1>1, Zenon DEF ScriptedReply
<1>4. \A operation, words, decided, refs : ScriptedReasoning(operation, words, decided, refs) => doc' = doc
  BY <1>1, Zenon DEF ScriptedReasoning
<1> QED
  BY <1>2, <1>3, <1>4, Zenon DEF Converse

\* Only a correction lowers the credit of the stored shadow.
LEMMA StepLowersOnlyByCorrection == EngineIInv /\ [Next]_vars => [CorrectionStep]_vars
<1> SUFFICES ASSUME EngineIInv, Next PROVE CorrectionStep
  BY DEF vars
<1>1. doc.shadow \in Shadows
  BY DEF EngineIInv, TypeOK, Documents, Shadows
<1>2. \A d \in Dimensions : ~(Credit[doc.shadow[d]] < Credit[doc.shadow[d]])
  BY <1>1, CreditIsNumber DEF Shadows
<1>3. CASE doc'.shadow = doc.shadow
  BY <1>2, <1>3 DEF CorrectionStep, LowersCredit
<1>4. CASE Save
  <2>1. turn \in Turns /\ turn # NoTurn
    BY <1>4, TurnInProgress DEF EngineIInv, Save
  <2>2. turn.draft.shadow \in Shadows
    BY <2>1 DEF Turns, Documents, Shadows
  <2>3. ASSUME ~Correcting, NEW d \in Dimensions
        PROVE  ~(Credit[turn.draft.shadow[d]] < Credit[doc.shadow[d]])
    <3>1. Credit[doc.shadow[d]] <= Credit[turn.draft.shadow[d]]
      BY <2>1, <2>3 DEF EngineIInv, DraftKeepsCredit
    <3>2. doc.shadow[d] \in Statuses /\ turn.draft.shadow[d] \in Statuses
      BY <1>1, <2>2 DEF Shadows
    <3> QED
      BY <3>1, <3>2, CreditIsNumber
  <2>4. doc' = turn.draft
    BY <1>4 DEF Save
  <2> QED
    BY <2>3, <2>4 DEF CorrectionStep, LowersCredit, Correcting
<1>5. CASE ~Save
  <2>1. doc' = doc \/ Dispute
    <3>1. \A step, draft, plan : AdvanceTurn(step, draft, plan) => doc' = doc
      BY AdvanceStoresNothing, Zenon
    <3>2. KeepShadow \/ KeepQuestion => doc' = doc
      BY <3>1, Zenon DEF KeepShadow, KeepQuestion
    <3>3. CompleteValidation => doc' = doc
      BY <3>1, Zenon DEF CompleteValidation
    <3>4. ASSUME SelectQuestion PROVE doc' = doc
      <4> DEFINE offered == UNION {Choices(Context(summarised, corrected), semantic, list) :
                                     semantic \in SemanticNeeds, list \in CandidateLists,
                                     summarised \in BOOLEAN, corrected \in BOOLEAN}
                 stages(choice) == IF choice.move = "none" THEN {"selector"} ELSE RealizationStages
                 plan(choice, stage) == [stage |-> stage, move |-> choice.move,
                                         target |-> choice.target, challenged |-> choice.challenged]
      <4>1. \E choice \in offered : \E stage \in stages(choice) :
              AdvanceTurn("save", turn.draft, plan(choice, stage))
        BY <3>4 DEF SelectQuestion
      <4> HIDE DEF offered, stages, plan
      <4> QED
        BY <3>1, <4>1
    <3> QED
      BY <1>5, <3>2, <3>3, <3>4, ConverseStoresNothing DEF Next, Abort
  <2>2. CASE Dispute
    BY <2>2, <1>3, DisputeKeepsReasoning
  <2> QED
    BY <1>3, <2>1, <2>2
<1> QED
  BY <1>4, <1>5

-----------------------------------------------------------------------------
(***************************************************************************)
(* The theorems.                                                           *)
(***************************************************************************)

\* The inductive invariant holds of every reachable state of a review.
THEOREM EngineInvariant == Spec => []EngineIInv
<1>1. Init => EngineIInv
  BY InitEstablishes
<1>2. EngineIInv /\ [Next]_vars => EngineIInv'
  BY StepPreserves
<1> QED
  BY <1>1, <1>2, PTL DEF Spec

\* The validator's shadow never holds reasoning the legacy state lacks, before
\* and during a turn, whatever the models of the engine answer.
THEOREM ShadowOnlyWithholds == Spec => []EngineInv
<1>1. EngineIInv => EngineInv
  BY DEF EngineIInv, EngineInv
<1> QED
  BY <1>1, EngineInvariant, PTL

\* A student who needs teaching gets a teaching move from every planner that
\* answers, and every question fits the reasoning stored with it.
THEOREM PlanServes == Spec => []PlanServesTurn
<1>1. EngineIInv => PlanServesTurn
  BY DEF EngineIInv
<1> QED
  BY <1>1, EngineInvariant, PTL

\* Only a turn the reviewer read as a correction takes shadow credit back.
THEOREM CreditLoweredOnlyByCorrections == Spec => CorrectionsOnlyReopen
<1>1. EngineIInv /\ [Next]_vars => [CorrectionStep]_vars
  BY StepLowersOnlyByCorrection
<1> QED
  BY <1>1, EngineInvariant, PTL DEF Spec, CorrectionsOnlyReopen

\* The limit of PlanServes: while an evidence-backed challenge is open, a student
\* who needs teaching gets no question, whatever the planner proposes and the
\* application adds (next_question_selector.py:254 asks for a teaching move and
\* for a move that is none).
THEOREM ChallengeExcludesTeaching ==
  ASSUME NEW ctx, ActiveChallenge(ctx), RequiresTeaching(ctx), NEW semantic, NEW candidates
  PROVE  Admitted(ctx, semantic, candidates) = {}
<1>1. EffectiveNeed(ctx, semantic, candidates) = "STUDENT_CHALLENGE"
  BY DEF EffectiveNeed, PrimaryNeed, ApplicationNeed, NoNeed
<1>2. \A c : AddressesChallenge(c) => c.move \notin TeachingMoves
  BY DEF AddressesChallenge, TeachingMoves
<1>3. \A i : ~Selectable(ctx, "STUDENT_CHALLENGE", candidates[i])
  BY <1>2 DEF Selectable
<1> QED
  BY <1>1, <1>3 DEF Admitted

\* The selector answers every planner and leaves nothing to chance: it makes one
\* choice, the first of the candidates of the highest priority or none if no
\* candidate is admitted.
THEOREM OneChoicePerPlan ==
  ASSUME NEW ctx, NEW semantic, NEW list, Proposed(list)
  PROVE  \E choice : Choices(ctx, semantic, list) = {choice}
<1> DEFINE candidates == WithFallback(ctx, PrimaryNeed(ctx, semantic), list)
           chosen(i) == [NoChoice(ctx) EXCEPT !.move = candidates[i].move, !.target = candidates[i].target]
<1>1. DOMAIN candidates \subseteq Nat
  <2>1. \A c : /\ DOMAIN list = 1..Len(list) /\ Len(list) \in Nat
               /\ DOMAIN Append(list, c) = 1..(Len(list) + 1)
    BY DEF Proposed
  <2>2. candidates = list \/ \E c : candidates = Append(list, c)
    BY DEF WithFallback
  <2> QED
    BY <2>1, <2>2
<1>2. Choices(ctx, semantic, list) =
        IF Admitted(ctx, semantic, candidates) = {} THEN {NoChoice(ctx)}
        ELSE {chosen(i) : i \in Preferred(ctx, semantic, candidates)}
  BY DEF Choices
<1> HIDE DEF candidates, chosen
<1>3. CASE Admitted(ctx, semantic, candidates) = {}
  BY <1>2, <1>3
<1>4. CASE Admitted(ctx, semantic, candidates) # {}
  <2>1. PICK i : Preferred(ctx, semantic, candidates) = {i}
    BY <1>1, <1>4, OnePreferred
  <2> QED
    BY <1>2, <1>4, <2>1
<1> QED
  BY <1>3, <1>4

=============================================================================
