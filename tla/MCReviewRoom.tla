---------------------------- MODULE MCReviewRoom ----------------------------
(***************************************************************************)
(* Small instances of ReviewRoom for TLC: the requests a run may submit    *)
(* and the symmetry of its requests and replicas.                          *)
(***************************************************************************)
EXTENDS ReviewRoom, TLC

CONSTANTS s1, s2, k1, k2, ta, tb, f1, f2

\* A request on session s with the defaults of the optional fields.
Ask(op, s, k, said) ==
  [op |-> op, session |-> s, key |-> k, said |-> said, finding |-> None, reasoned |-> FALSE]

About(c, f) == [c EXCEPT !.finding = f]

\* One conversation: two positions, one of them under a key, a request for
\* help, the recommendation and the end.
ConversationCalls ==
  {Ask("respond", s1, k1, ta), Ask("respond", s1, None, tb), Ask("clarify", s1, k2, ta),
   Ask("commit", s1, None, None), Ask("complete", s1, None, None)}

\* One key used for a position, its retry, another position, a request for
\* help and a dispute; help without a key, asked again past the level cap.
RetryCalls ==
  {Ask("respond", s1, k1, ta), Ask("respond", s1, k1, tb), Ask("coach", s1, k1, None),
   Ask("coach", s1, None, None), Ask("evidence_dispute", s1, k1, ta)}

\* Two sessions on one snapshot: disputes of a frozen finding with a path that
\* is there and one that is not, of an unknown finding, of the opening finding;
\* dispositions by the student and by staff, acceptable or not.
FindingCalls ==
  {About(Ask("evidence_dispute", s1, k1, ta), f1), About(Ask("evidence_dispute", s1, k2, tb), f1),
   About(Ask("evidence_dispute", s2, k1, ta), f2), Ask("evidence_dispute", s2, k2, ta),
   About(Ask("disposition", s2, None, "accepted_risk"), f1),
   About(Ask("disposition", s2, None, "corrected"), f1),
   [About(Ask("disposition", s2, None, "corrected"), f1) EXCEPT !.reasoned = TRUE],
   About(Ask("disposition", s2, None, "resolved"), f1)}

RoomSymmetry == Permutations(Requests) \cup Permutations(Replicas)

=============================================================================
