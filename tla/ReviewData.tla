----------------------------- MODULE ReviewData -----------------------------
(***************************************************************************)
(* The persisted data of a Review Room and the pure part of every handler  *)
(* of routers/reviews.py: which rows a handler inserts and how it rewrites *)
(* the challenge-state document of its review session.  No operator here   *)
(* refers to a variable: the handlers apply these operators to the values  *)
(* they READ under the row lock, the abstract specification AtomicReview   *)
(* applies them to the current values.                                     *)
(***************************************************************************)
EXTENDS Integers, FiniteSets, FiniteSetsExt

CONSTANTS
  Sessions,         \* review sessions attached to one frozen snapshot
  Keys,             \* client_turn_id values the browsers generate
  Texts,            \* response, question, decision or disputed path
  Findings,         \* finding ids a request may name
  FrozenFindings,   \* those present in the frozen snapshot
  FrozenPaths,      \* disputed paths that are artifacts of the snapshot
  OpeningFinding,   \* the finding of the opening challenge, or None
  Submissions,      \* the requests clients may send
  MaxCoachingLevel, \* reviews.py caps coaching_level at 5
  None

\* The handlers that exchange a student turn for a reviewer turn.
TurnOps == {"respond", "clarify", "coach"}

\* The handlers whose request carries a client_turn_id.
KeyedOps == TurnOps \cup {"evidence_dispute"}

Ops == KeyedOps \cup {"disposition", "commit", "complete"}

\* The handlers that also lock the frozen snapshot row.
SnapshotOps == {"evidence_dispute", "disposition"}

\* FindingDispositionRequest.status; a finding without a row is "open".
FindingStatuses == {"open", "under_discussion", "evidence_disputed", "confirmed",
                    "corrected", "resolved", "accepted_risk", "deferred"}

\* Statuses only a current instructor or course owner may set.
StaffStatuses == {"confirmed", "corrected", "resolved"}

ReviewStatuses == {"active", "completed", "archived_incomplete"}

\* What a request says: a text, a path or a disposition.
Payloads == Texts \cup FindingStatuses \cup {None}

\* A request.  A blank rationale is told apart from a given one (`reasoned`).
Submission ==
  [op: Ops, session: Sessions, key: Keys \cup {None}, said: Payloads,
   finding: Findings \cup {None}, reasoned: BOOLEAN]

ASSUME DataAssumption ==
  /\ Submissions \subseteq Submission
  /\ FrozenFindings \subseteq Findings
  /\ FrozenPaths \subseteq Texts
  /\ OpeningFinding \in Findings \cup {None}
  /\ MaxCoachingLevel \in Nat \ {0}
  /\ None \notin Sessions \cup Keys \cup Texts \cup Findings \cup FindingStatuses
  /\ \A c \in Submissions :
       /\ c.op \notin KeyedOps => c.key = None
       /\ c.op = "respond" => c.said # None
       /\ c.op = "disposition" => c.said \in FindingStatuses /\ c.finding # None

-----------------------------------------------------------------------------
(***************************************************************************)
(* review_turns rows.  `ready` is the evaluation the handler computed with *)
(* the student turn.                                                       *)
(***************************************************************************)
Turn == [seq: Nat, actor: {"student", "reviewer"}, op: Ops \cup {"start"},
         key: Keys \cup {None}, said: Payloads, finding: Findings \cup {None},
         ready: BOOLEAN]

StudentTurn(n, c, ready) ==
  [seq |-> n, actor |-> "student", op |-> c.op, key |-> c.key, said |-> c.said,
   finding |-> c.finding, ready |-> ready]

ReviewerTurn(n, op) ==
  [seq |-> n, actor |-> "reviewer", op |-> op, key |-> None, said |-> None,
   finding |-> None, ready |-> FALSE]

\* The two rows a turn or dispute inserts, numbered from n.
Exchange(n, c, ready) == {StudentTurn(n, c, ready), ReviewerTurn(n + 1, c.op)}

\* start adds the opening message as turn 1.
OpeningTurns == {ReviewerTurn(1, "start")}

\* ORDER BY sequence; turns[-1].sequence + 1.
NextSequence(rows) == Max({t.seq : t \in rows}) + 1

\* The row that already carries a request key.
RowsWithKey(rows, k) == {t \in rows : t.key = k /\ k # None}

\* A retry must repeat the operation and the payload of the row it hits.
SameRequest(t, c) == t.op = c.op /\ t.said = c.said /\ t.finding = c.finding

\* Mutated: any row with the key counts as the same request.
KeyVerdictAnyPayload(rows, c) ==
  IF RowsWithKey(rows, c.key) = {} THEN "fresh" ELSE "duplicate"

\* "fresh": no such turn; "duplicate": a retry; "conflict": another request.
KeyVerdict(rows, c) ==
  LET hits == RowsWithKey(rows, c.key)
  IN  CASE hits = {} -> "fresh"
        [] \E t \in hits : SameRequest(t, c) -> "duplicate"
        [] OTHER -> "conflict"

\* The stored answer to a key: the first reviewer turn after its student turn.
AnswerSequence(rows, k) ==
  LET asked == CHOOSE t \in rows : t.key = k
  IN  Min({t.seq : t \in {u \in rows : u.actor = "reviewer" /\ u.seq > asked.seq}})

-----------------------------------------------------------------------------
(***************************************************************************)
(* review_sessions.challenge_state_json: one document, read whole and      *)
(* written back whole.                                                     *)
(***************************************************************************)
ChallengeState ==
  [turnCount: Nat, level: 0 .. MaxCoachingLevel, clarifications: Nat, disputes: Nat,
   position: Payloads, ready: BOOLEAN, committed: Payloads]

OpeningState ==
  [turnCount |-> 1, level |-> 0, clarifications |-> 0, disputes |-> 0,
   position |-> None, ready |-> FALSE, committed |-> None]

\* Mutated: the evaluation of the previous turn is kept.
AfterRespondStaleEvaluation(b, c, ready) ==
  [b EXCEPT !.turnCount = @ + 2, !.position = c.said]

AfterRespond(b, c, ready) ==
  [b EXCEPT !.turnCount = @ + 2, !.position = c.said, !.ready = ready]

AfterClarify(b, ready) ==
  [b EXCEPT !.turnCount = @ + 2, !.clarifications = @ + 1, !.ready = ready]

\* Mutated: the level is not capped.
CoachingLevelUncapped(n) == n + 1

CoachingLevel(n) == IF n + 1 > MaxCoachingLevel THEN MaxCoachingLevel ELSE n + 1

AfterCoach(b, ready) ==
  [b EXCEPT !.turnCount = @ + 2, !.level = CoachingLevel(@), !.ready = ready]

AfterDispute(b) == [b EXCEPT !.turnCount = @ + 2, !.disputes = @ + 1]

AfterCommit(b) == [b EXCEPT !.turnCount = @ + 1, !.committed = b.position]

-----------------------------------------------------------------------------
(***************************************************************************)
(* review_finding_states rows of the snapshot.                             *)
(***************************************************************************)

\* A dispute concerns the finding it names, else the opening challenge's.
DisputedFinding(c) == IF c.finding # None THEN c.finding ELSE OpeningFinding

\* A found artifact moves a frozen finding to "evidence_disputed".
AfterDisputeFindings(fs, c) ==
  [f \in FrozenFindings |->
     IF f = DisputedFinding(c) /\ c.said \in FrozenPaths THEN "evidence_disputed" ELSE fs[f]]

AfterDisposition(fs, c) ==
  [f \in FrozenFindings |-> IF f = c.finding THEN c.said ELSE fs[f]]

\* 422/409 of evidence_dispute and finding_disposition.
Unacceptable(c) ==
  \/ c.op \in SnapshotOps /\ c.finding \notin FrozenFindings \cup {None}
  \/ c.op = "disposition" /\ c.said = "resolved"
  \/ c.op = "disposition" /\ c.said = "corrected" /\ ~c.reasoned

=============================================================================
