---------------------------- MODULE AtomicReview ----------------------------
(***************************************************************************)
(* What the mutation endpoints of a Review Room promise: every operation   *)
(* happens at once, on the current record.  There are no replicas, locks,  *)
(* requests or crashes here; ReviewRoom, which has them, implements this   *)
(* specification.                                                          *)
(***************************************************************************)
EXTENDS ReviewData

VARIABLES
  status,    \* ReviewSession.status
  turns,     \* the review_turns rows of each session
  state,     \* ReviewSession.challenge_state_json
  findings   \* lifecycle status of each frozen finding

recordVars == <<status, turns, state, findings>>

Init ==
  /\ status = [s \in Sessions |-> "active"]
  /\ turns = [s \in Sessions |-> OpeningTurns]
  /\ state = [s \in Sessions |-> OpeningState]
  /\ findings = [f \in FrozenFindings |-> "open"]

-----------------------------------------------------------------------------
\* The rows ROWS are inserted and the document becomes DOC.
Write(s, rows, doc) ==
  /\ turns' = [turns EXCEPT ![s] = @ \cup rows]
  /\ state' = [state EXCEPT ![s] = doc]

\* A keyed operation takes effect only under a key that is still unused.
Accepts(c) == status[c.session] = "active" /\ RowsWithKey(turns[c.session], c.key) = {}

Respond(c, ready) ==
  /\ c.op = "respond" /\ Accepts(c)
  /\ LET s == c.session IN
     Write(s, Exchange(NextSequence(turns[s]), c, ready), AfterRespond(state[s], c, ready))
  /\ UNCHANGED <<status, findings>>

Clarify(c, ready) ==
  /\ c.op = "clarify" /\ Accepts(c)
  /\ LET s == c.session IN
     Write(s, Exchange(NextSequence(turns[s]), c, ready), AfterClarify(state[s], ready))
  /\ UNCHANGED <<status, findings>>

Coach(c, ready) ==
  /\ c.op = "coach" /\ Accepts(c)
  /\ LET s == c.session IN
     Write(s, Exchange(NextSequence(turns[s]), c, ready), AfterCoach(state[s], ready))
  /\ UNCHANGED <<status, findings>>

Dispute(c) ==
  /\ c.op = "evidence_dispute" /\ Accepts(c) /\ ~Unacceptable(c)
  /\ LET s == c.session IN
     Write(s, Exchange(NextSequence(turns[s]), c, FALSE), AfterDispute(state[s]))
  /\ findings' = AfterDisputeFindings(findings, c)
  /\ UNCHANGED status

Dispose(c) ==
  /\ c.op = "disposition" /\ status[c.session] = "active" /\ ~Unacceptable(c)
  /\ findings' = AfterDisposition(findings, c)
  /\ UNCHANGED <<status, turns, state>>

\* A recommendation is the latest position, judged ready, and a new one.
Commit(c) ==
  LET s == c.session IN
  /\ c.op = "commit" /\ status[s] = "active"
  /\ state[s].ready
  /\ state[s].position \notin {None, state[s].committed}
  /\ Write(s, {ReviewerTurn(NextSequence(turns[s]), "commit")}, AfterCommit(state[s]))
  /\ UNCHANGED <<status, findings>>

Complete(c) ==
  /\ c.op = "complete" /\ status[c.session] = "active"
  /\ status' = [status EXCEPT ![c.session] = "completed"]
  /\ UNCHANGED <<turns, state, findings>>

Next ==
  \E c \in Submissions :
    \/ \E ready \in BOOLEAN : Respond(c, ready) \/ Clarify(c, ready) \/ Coach(c, ready)
    \/ Dispute(c)
    \/ Dispose(c)
    \/ Commit(c)
    \/ Complete(c)

Spec == Init /\ [][Next]_recordVars

=============================================================================
