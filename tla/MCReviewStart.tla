---------------------------- MODULE MCReviewStart ----------------------------
(***************************************************************************)
(* Small instances of ReviewStart for TLC.                                 *)
(***************************************************************************)
EXTENDS ReviewStart, TLC

CONSTANTS k1, k2, f1, f2, c1, c2, p1, p2

Ask(k, p, f) == [key |-> k, phase |-> p, finding |-> f, scenario |-> FALSE]

\* A review of the finding, in another phase under the same key, and of the board
\* under none.
StudentRequests == {Ask(k1, p1, f1), Ask(k1, p2, None), Ask(None, p1, None)}
CarryRequests == {Ask(None, p1, f1), Ask(None, p1, None)}

Say(f, st) == [finding |-> f, status |-> st]
Answers == {Say(f1, "evidence_disputed")}

\* The default branch only advances.
Forward == {<<c1, c2>>}

StartSymmetry == Permutations(Starts) \cup Permutations(Handlers)

=============================================================================
