--------------------------- MODULE ReasoningShadow ---------------------------
(***************************************************************************)
(* The independent validator's side of one turn: what its replies may say, *)
(* how they are normalized and repaired, and what they do to the shadow    *)
(* reasoning, a status per dimension.  An evaluation is a decision and     *)
(* whether it carries the reason code VALIDATOR_RESULT_MISSING, which the  *)
(* schema of the model's reply admits.                                     *)
(***************************************************************************)
EXTENDS QuestionSelector

CorrectionIntents ==
  {"self_correction", "disagreement", "evidence_dispute", "misconception", "meta_misunderstood"}

BlankShadow == [d \in Dimensions |-> "unestablished"]
Established(shadow) == {d \in Dimensions : shadow[d] # "unestablished"}

Evaluations == [decision : {"ACCEPT", "PARTIAL", "REJECT"}, missing : BOOLEAN]
Omitted == [decision |-> "REJECT", missing |-> TRUE]

\* The replies to a call about the given dimensions, after normalization: one
\* evaluation for each, Omitted where the model returned none.
Judgments(asked) == [asked -> Evaluations]

\* What an explicit correction may reopen, and to what.
ReopenCandidates(shadow, intent) ==
  IF intent \in CorrectionIntents THEN Established(shadow) ELSE {}
Reopens(candidates) == UNION {[D -> {"unestablished", "partial"}] : D \in SUBSET candidates}

Missing(judged) == {d \in DOMAIN judged : judged[d].missing}

\* _merge_validator_repair: the repair replaces only what was missing, and only
\* by a judgment that is not itself marked missing.
Repaired(judged, again) ==
  [d \in DOMAIN judged |->
     IF d \in Missing(judged) /\ ~again[d].missing THEN again[d] ELSE judged[d]]

Reopened(shadow, reopens) ==
  [d \in Dimensions |-> IF d \in DOMAIN reopens THEN reopens[d] ELSE shadow[d]]

\* Mutated: partial credit also replaces a status that was validated.
GrantPartialAlways(status, decision) ==
  CASE decision = "ACCEPT" -> "validated"
    [] decision = "PARTIAL" -> "partial"
    [] OTHER -> status

\* The status after one decision: partial credit never lowers a validated one.
Grant(status, decision) ==
  CASE decision = "ACCEPT" -> "validated"
    [] decision = "PARTIAL" /\ status # "validated" -> "partial"
    [] OTHER -> status

\* _apply_completed_validation: first the reopens, then the judgments.
Validated(shadow, reopens, judged) ==
  [d \in Dimensions |->
     IF d \in DOMAIN judged THEN Grant(Reopened(shadow, reopens)[d], judged[d].decision)
     ELSE Reopened(shadow, reopens)[d]]

=============================================================================
