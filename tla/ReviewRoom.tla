----------------------------- MODULE ReviewRoom -----------------------------
(***************************************************************************)
(* The mutation endpoints of the Review Room (routers/reviews.py) as they  *)
(* run: requests handled by the worker threads of independent replicas of  *)
(* the API over one PostgreSQL database.  Every handler                    *)
(*                                                                         *)
(*   1. reads the session without a lock, authorizes the caller and may    *)
(*      answer a retry at once                              (PreCheck),    *)
(*   2. tries the process-local lock of its replica         (TryLocal),    *)
(*   3. waits for the session row, SELECT ... FOR UPDATE, repeats the      *)
(*      checks and reads the document and the transcript    (LockRow),     *)
(*   4. for disputes and dispositions waits for the snapshot row and       *)
(*      checks again                                        (LockSnapshot),*)
(*   5. works on what it read (an AI call, seconds) and commits            *)
(*                                    (RespondCommit ... CompleteCommit),  *)
(*   6. releases the local lock and answers                 (Finish).      *)
(*                                                                         *)
(* A refused request drops the local lock in `finally` before get_db       *)
(* closes the transaction and with it the row locks (Close).               *)
(***************************************************************************)
EXTENDS ReviewData

CONSTANTS
  Requests,   \* the requests handled in a behavior
  Replicas,   \* processes of the API
  MayLose     \* whose authorization the course may change in a behavior

ASSUME RoomAssumption == None \notin Requests \cup Replicas /\ MayLose \subseteq {"student", "staff"}

VARIABLES
  status, turns, state, findings,  \* the database, as in AtomicReview
  rowLock,    \* request holding the FOR UPDATE lock of a session row
  snapLock,   \* request holding the FOR UPDATE lock of the snapshot row
  localLock,  \* request holding the threading.Lock of a session in a replica
  access,     \* who the course currently authorizes: the student, staff
  pc, call, replica,               \* per request: progress, content, process
  view,       \* what the handler read under the row lock
  reply       \* what it answers

recordVars == <<status, turns, state, findings>>
lockVars == <<rowLock, snapLock, localLock>>
requestVars == <<pc, call, replica, view, reply>>
vars == <<recordVars, lockVars, access, requestVars>>

\* AtomicReview reads the database alone: its record is the stored one, and
\* what is held in memory or locked is not part of it.
Abs == INSTANCE AtomicReview
         WITH status <- status, turns <- turns, state <- state, findings <- findings

-----------------------------------------------------------------------------
PCs == {"idle", "arrived", "checked", "waiting", "snapWait", "working",
        "committed", "closing", "done", "lost"}

\* 200, 200 with duplicate: true, and the refusals.
ReplyKinds == {"none", "ok", "duplicate", "busy", "denied", "inactive",
               "conflict", "invalid", "failed"}

View == [doc: ChallengeState, next: Nat]
NoView == [doc |-> OpeningState, next |-> 0]

\* `turn` is the sequence of the reviewer turn in the answer, 0 if none.
Reply == [kind: ReplyKinds, turn: Nat]
Answer(kind) == [kind |-> kind, turn |-> 0]

HoldsRow == {"snapWait", "working", "closing"}
HoldsLocal == {"waiting", "snapWait", "working", "committed"}
InFlight == PCs \ {"idle", "done", "lost"}

TypeOK ==
  /\ status \in [Sessions -> ReviewStatuses]
  /\ turns \in [Sessions -> SUBSET Turn]
  /\ state \in [Sessions -> ChallengeState]
  /\ findings \in [FrozenFindings -> FindingStatuses]
  /\ rowLock \in [Sessions -> Requests \cup {None}]
  /\ snapLock \in Requests \cup {None}
  /\ localLock \in [Replicas \X Sessions -> Requests \cup {None}]
  /\ access \subseteq {"student", "staff"}
  /\ pc \in [Requests -> PCs]
  /\ call \in [Requests -> Submissions \cup {None}]
  /\ replica \in [Requests -> Replicas \cup {None}]
  /\ view \in [Requests -> View]
  /\ reply \in [Requests -> Reply]

Init ==
  /\ status = [s \in Sessions |-> "active"]
  /\ turns = [s \in Sessions |-> OpeningTurns]
  /\ state = [s \in Sessions |-> OpeningState]
  /\ findings = [f \in FrozenFindings |-> "open"]
  /\ rowLock = [s \in Sessions |-> None]
  /\ snapLock = None
  /\ localLock = [l \in Replicas \X Sessions |-> None]
  /\ access = {"student", "staff"}
  /\ pc = [r \in Requests |-> "idle"]
  /\ call = [r \in Requests |-> None]
  /\ replica = [r \in Requests |-> None]
  /\ view = [r \in Requests |-> NoView]
  /\ reply = [r \in Requests |-> Answer("none")]

-----------------------------------------------------------------------------
(***************************************************************************)
(* The checks of the handlers.                                             *)
(***************************************************************************)

\* _authorize_session_student_mutation, _authorize_finding_disposition_mutation
Authorized(c) ==
  IF c.op = "disposition" /\ c.said \in StaffStatuses
  THEN "staff" \in access
  ELSE "student" \in access

Active(c) == status[c.session] = "active"

\* evidence_dispute, commit and complete check the status under the lock only.
ChecksStatusEarly == TurnOps \cup {"disposition"}

\* Step 1; "go" sends the request on to the locks.
EarlyVerdict(c) ==
  LET key == KeyVerdict(turns[c.session], c) IN
  CASE ~Authorized(c) -> "denied"
    [] Authorized(c) /\ c.op \in ChecksStatusEarly /\ ~Active(c) -> "inactive"
    [] Authorized(c) /\ c.op \in TurnOps /\ Active(c) /\ key # "fresh" -> key
    [] OTHER -> "go"

\* Mutated: the material-gap check is forgotten.
CommitVerdictGapAllowed(doc) ==
  CASE doc.position = None -> "invalid"
    [] doc.position # None /\ doc.committed = doc.position -> "duplicate"
    [] OTHER -> "go"

\* Mutated: a retry of commit records the recommendation again.
CommitVerdictRepeats(doc) ==
  IF doc.position = None \/ ~doc.ready THEN "invalid" ELSE "go"

\* commit_position under the row lock.
CommitVerdict(doc) ==
  CASE doc.position = None \/ ~doc.ready -> "invalid"
    [] doc.position # None /\ doc.ready /\ doc.committed = doc.position -> "duplicate"
    [] OTHER -> "go"

\* Mutated: the checks of step 1 are not repeated after the wait.
RowVerdictUnrepeated(c) ==
  IF c.op = "commit" THEN CommitVerdict(state[c.session]) ELSE "go"

\* Step 3, under the row lock; complete answers a completed session first.
RowVerdict(c) ==
  LET key == KeyVerdict(turns[c.session], c) IN
  CASE ~Authorized(c) -> "denied"
    [] Authorized(c) /\ c.op = "complete" /\ status[c.session] = "completed" -> "duplicate"
    [] Authorized(c) /\ ~Active(c) /\ ~(c.op = "complete" /\ status[c.session] = "completed")
         -> "inactive"
    [] Authorized(c) /\ Active(c) /\ c.op \in TurnOps /\ key # "fresh" -> key
    [] Authorized(c) /\ Active(c) /\ c.op = "commit" -> CommitVerdict(state[c.session])
    [] OTHER -> "go"

\* Mutated: the snapshot is locked but the request is not checked against it.
SnapshotVerdictUnchecked(c) ==
  IF c.op = "evidence_dispute" /\ KeyVerdict(turns[c.session], c) # "fresh"
  THEN KeyVerdict(turns[c.session], c) ELSE "go"

\* Step 4, under both locks.
SnapshotVerdict(c) ==
  LET key == KeyVerdict(turns[c.session], c) IN
  CASE ~Authorized(c) -> "denied"
    [] Authorized(c) /\ Unacceptable(c) -> "invalid"
    [] Authorized(c) /\ ~Unacceptable(c) /\ c.op = "evidence_dispute" /\ key # "fresh" -> key
    [] OTHER -> "go"

\* A duplicate of a keyed request returns the stored reviewer turn.
Refusal(c, verdict) ==
  [kind |-> verdict,
   turn |-> IF verdict = "duplicate" /\ c.op \in KeyedOps
            THEN AnswerSequence(turns[c.session], c.key) ELSE 0]

-----------------------------------------------------------------------------
(***************************************************************************)
(* The steps every handler shares.                                         *)
(***************************************************************************)

Arrive(r) ==
  /\ pc[r] = "idle"
  /\ \E c \in Submissions, p \in Replicas :
       /\ call' = [call EXCEPT ![r] = c]
       /\ replica' = [replica EXCEPT ![r] = p]
  /\ pc' = [pc EXCEPT ![r] = "arrived"]
  /\ UNCHANGED <<recordVars, lockVars, access, view, reply>>

PreCheck(r) ==
  /\ pc[r] = "arrived"
  /\ LET verdict == EarlyVerdict(call[r]) IN
     \/ /\ verdict = "go"
        /\ pc' = [pc EXCEPT ![r] = "checked"]
        /\ UNCHANGED reply
     \/ /\ verdict # "go"
        /\ pc' = [pc EXCEPT ![r] = "done"]
        /\ reply' = [reply EXCEPT ![r] = Refusal(call[r], verdict)]
  /\ UNCHANGED <<recordVars, lockVars, access, call, replica, view>>

LocalLock(r) == <<replica[r], call[r].session>>

\* lock.acquire(blocking=False): a busy lock is answered with 409 at once.
TryLocal(r) ==
  /\ pc[r] = "checked"
  /\ \/ /\ localLock[LocalLock(r)] = None
        /\ localLock' = [localLock EXCEPT ![LocalLock(r)] = r]
        /\ pc' = [pc EXCEPT ![r] = "waiting"]
        /\ UNCHANGED reply
     \/ /\ localLock[LocalLock(r)] # None
        /\ pc' = [pc EXCEPT ![r] = "done"]
        /\ reply' = [reply EXCEPT ![r] = Answer("busy")]
        /\ UNCHANGED localLock
  /\ UNCHANGED <<recordVars, rowLock, snapLock, access, call, replica, view>>

\* Under its locks the handler reads the document and the last sequence.
Read(r) ==
  view' = [view EXCEPT ![r] = [doc |-> state[call[r].session],
                               next |-> NextSequence(turns[call[r].session])]]

\* A refusal under the locks: `finally` has released the local lock.
Refuse(r, verdict) ==
  /\ pc' = [pc EXCEPT ![r] = "closing"]
  /\ reply' = [reply EXCEPT ![r] = Refusal(call[r], verdict)]
  /\ localLock' = [localLock EXCEPT ![LocalLock(r)] = None]
  /\ UNCHANGED view

\* Mutated: a plain SELECT, which waits for no one.
LockRowUnlocked(r) ==
  /\ pc[r] = "waiting"
  /\ RowVerdict(call[r]) = "go" /\ call[r].op \notin SnapshotOps
  /\ Read(r)
  /\ pc' = [pc EXCEPT ![r] = "working"]
  /\ UNCHANGED <<recordVars, lockVars, access, call, replica, reply>>

LockRow(r) ==
  /\ pc[r] = "waiting"
  /\ rowLock[call[r].session] = None
  /\ rowLock' = [rowLock EXCEPT ![call[r].session] = r]
  /\ LET verdict == RowVerdict(call[r]) IN
     \/ /\ verdict = "go" /\ call[r].op \notin SnapshotOps
        /\ Read(r)
        /\ pc' = [pc EXCEPT ![r] = "working"]
        /\ UNCHANGED <<localLock, reply>>
     \/ /\ verdict = "go" /\ call[r].op \in SnapshotOps
        /\ pc' = [pc EXCEPT ![r] = "snapWait"]
        /\ UNCHANGED <<localLock, view, reply>>
     \/ verdict # "go" /\ Refuse(r, verdict)
  /\ UNCHANGED <<recordVars, snapLock, access, call, replica>>

LockSnapshot(r) ==
  /\ pc[r] = "snapWait"
  /\ snapLock = None
  /\ snapLock' = r
  /\ LET verdict == SnapshotVerdict(call[r]) IN
     \/ /\ verdict = "go"
        /\ Read(r)
        /\ pc' = [pc EXCEPT ![r] = "working"]
        /\ UNCHANGED <<localLock, reply>>
     \/ verdict # "go" /\ Refuse(r, verdict)
  /\ UNCHANGED <<recordVars, rowLock, access, call, replica>>

\* Mutated: the snapshot row stays locked.
ReleaseRowsKeepsSnapshot(r) ==
  /\ rowLock' = [s \in Sessions |-> IF rowLock[s] = r THEN None ELSE rowLock[s]]
  /\ UNCHANGED snapLock

\* Mutated: the session row stays locked.
ReleaseRowsKeepsRow(r) ==
  /\ snapLock' = IF snapLock = r THEN None ELSE snapLock
  /\ UNCHANGED rowLock

\* The database lets go of every row lock of r's transaction.
ReleaseRows(r) ==
  /\ rowLock' = [s \in Sessions |-> IF rowLock[s] = r THEN None ELSE rowLock[s]]
  /\ snapLock' = IF snapLock = r THEN None ELSE snapLock

\* The reviewer is unavailable (503) or the database aborts the transaction.
Abort(r) ==
  /\ pc[r] \in {"snapWait", "working"}
  /\ pc' = [pc EXCEPT ![r] = "closing"]
  /\ reply' = [reply EXCEPT ![r] = Answer("failed")]
  /\ localLock' = [localLock EXCEPT ![LocalLock(r)] = None]
  /\ view' = [view EXCEPT ![r] = NoView]
  /\ UNCHANGED <<recordVars, rowLock, snapLock, access, call, replica>>

\* get_db closes the session of a refused request: rollback.
Close(r) ==
  /\ pc[r] = "closing"
  /\ ReleaseRows(r)
  /\ pc' = [pc EXCEPT ![r] = "done"]
  /\ UNCHANGED <<recordVars, localLock, access, call, replica, view, reply>>

\* The end of a handler that committed: release the local lock and answer.
Finish(r) ==
  /\ pc[r] = "committed"
  /\ localLock' = [localLock EXCEPT ![LocalLock(r)] = None]
  /\ pc' = [pc EXCEPT ![r] = "done"]
  /\ UNCHANGED <<recordVars, rowLock, snapLock, access, call, replica, view, reply>>

-----------------------------------------------------------------------------
(***************************************************************************)
(* The transactions.  Each writes from what the handler read (view).       *)
(***************************************************************************)

Working(r, op) == pc[r] = "working" /\ call[r].op = op

\* db.commit(): the writes become visible and the row locks are released.
DbCommit(r, turn) ==
  /\ ReleaseRows(r)
  /\ pc' = [pc EXCEPT ![r] = "committed"]
  /\ reply' = [reply EXCEPT ![r] = [kind |-> "ok", turn |-> turn]]
  /\ view' = [view EXCEPT ![r] = NoView]
  /\ UNCHANGED <<localLock, access, call, replica>>

\* Insert ROWS and write the whole document DOC back.
Write(r, rows, doc) ==
  /\ turns' = [turns EXCEPT ![call[r].session] = @ \cup rows]
  /\ state' = [state EXCEPT ![call[r].session] = doc]

RespondCommit(r) ==
  /\ Working(r, "respond")
  /\ \E ready \in BOOLEAN :
       Write(r, Exchange(view[r].next, call[r], ready), AfterRespond(view[r].doc, call[r], ready))
  /\ UNCHANGED <<status, findings>>
  /\ DbCommit(r, view[r].next + 1)

ClarifyCommit(r) ==
  /\ Working(r, "clarify")
  /\ \E ready \in BOOLEAN :
       Write(r, Exchange(view[r].next, call[r], ready), AfterClarify(view[r].doc, ready))
  /\ UNCHANGED <<status, findings>>
  /\ DbCommit(r, view[r].next + 1)

CoachCommit(r) ==
  /\ Working(r, "coach")
  /\ \E ready \in BOOLEAN :
       Write(r, Exchange(view[r].next, call[r], ready), AfterCoach(view[r].doc, ready))
  /\ UNCHANGED <<status, findings>>
  /\ DbCommit(r, view[r].next + 1)

DisputeCommit(r) ==
  /\ Working(r, "evidence_dispute")
  /\ Write(r, Exchange(view[r].next, call[r], FALSE), AfterDispute(view[r].doc))
  /\ findings' = AfterDisputeFindings(findings, call[r])
  /\ UNCHANGED status
  /\ DbCommit(r, view[r].next + 1)

DispositionCommit(r) ==
  /\ Working(r, "disposition")
  /\ findings' = AfterDisposition(findings, call[r])
  /\ UNCHANGED <<status, turns, state>>
  /\ DbCommit(r, 0)

PositionCommit(r) ==
  /\ Working(r, "commit")
  /\ Write(r, {ReviewerTurn(view[r].next, "commit")}, AfterCommit(view[r].doc))
  /\ UNCHANGED <<status, findings>>
  /\ DbCommit(r, view[r].next)

CompleteCommit(r) ==
  /\ Working(r, "complete")
  /\ status' = [status EXCEPT ![call[r].session] = "completed"]
  /\ UNCHANGED <<turns, state, findings>>
  /\ DbCommit(r, 0)

-----------------------------------------------------------------------------
(***************************************************************************)
(* The environment.                                                        *)
(***************************************************************************)

\* A replica dies: its requests are never answered, PostgreSQL rolls their
\* transactions back, and the locks that lived in its memory are gone.
Crash(p) ==
  LET dead == {r \in Requests : replica[r] = p /\ pc[r] \in InFlight} IN
  /\ dead # {}
  /\ pc' = [r \in Requests |-> IF r \in dead THEN "lost" ELSE pc[r]]
  /\ localLock' = [l \in Replicas \X Sessions |-> IF l[1] = p THEN None ELSE localLock[l]]
  /\ rowLock' = [s \in Sessions |-> IF rowLock[s] \in dead THEN None ELSE rowLock[s]]
  /\ snapLock' = IF snapLock \in dead THEN None ELSE snapLock
  /\ view' = [r \in Requests |-> IF r \in dead THEN NoView ELSE view[r]]
  /\ UNCHANGED <<recordVars, access, call, replica, reply>>

\* Enrollment, team membership, staffing or the term changes.
ChangeAccess ==
  /\ \E who \in MayLose :
       access' = IF who \in access THEN access \ {who} ELSE access \cup {who}
  /\ UNCHANGED <<recordVars, lockVars, requestVars>>

CommitStep(r) ==
  \/ RespondCommit(r) \/ ClarifyCommit(r) \/ CoachCommit(r) \/ DisputeCommit(r)
  \/ DispositionCommit(r) \/ PositionCommit(r) \/ CompleteCommit(r)

\* What a handler does by itself once its request has arrived.
HandlerStep(r) ==
  \/ PreCheck(r) \/ TryLocal(r) \/ LockRow(r) \/ LockSnapshot(r)
  \/ CommitStep(r) \/ Finish(r) \/ Close(r)

Next ==
  \/ \E r \in Requests : Arrive(r) \/ HandlerStep(r) \/ Abort(r)
  \/ \E p \in Replicas : Crash(p)
  \/ ChangeAccess

Spec == Init /\ [][Next]_vars

\* A thread that can run does; AI calls are bounded by a timeout.
FairSpec == Spec /\ \A r \in Requests : WF_vars(HandlerStep(r))

-----------------------------------------------------------------------------
(***************************************************************************)
(* Properties.                                                             *)
(***************************************************************************)

\* Turn numbers are 1, 2, ... without gap or repetition and turn_count is the
\* last of them, although every handler numbers its rows from an earlier read
\* (sequence = turns[-1].sequence + 1) and replicas work at the same time.
TranscriptDense ==
  \A s \in Sessions :
    /\ {t.seq : t \in turns[s]} = 1 .. state[s].turnCount
    /\ \A t, u \in turns[s] : t.seq = u.seq => t = u

\* A client_turn_id is recorded at most once however often, and through
\* whichever replica, the browser retries.
OneTurnPerKey ==
  \A s \in Sessions : \A t, u \in turns[s] : t.key = u.key /\ t.key # None => t = u

Delivered(r) == pc[r] = "done" /\ reply[r].kind \in {"ok", "duplicate"}

\* Reviewer turn n is the stored answer to request c.
Recorded(c, n) ==
  /\ ReviewerTurn(n, c.op) \in turns[c.session]
  /\ \E t \in turns[c.session] : t.seq = n - 1 /\ t.key = c.key /\ SameRequest(t, c)

\* An answered turn or dispute is stored, and the answer is the reviewer turn
\* stored for exactly that request: also after crashes, also for a retry.
AnswersAreStored ==
  \A r \in Requests :
    Delivered(r) /\ call[r].op \in KeyedOps => Recorded(call[r], reply[r].turn)

-----------------------------------------------------------------------------
\* What the document must say, computed from the transcript alone.

Latest(rows) == CHOOSE t \in rows : \A u \in rows : u.seq =< t.seq

StudentTurns(rows, ops) == {t \in rows : t.actor = "student" /\ t.op \in ops}

PositionIn(rows) ==
  LET said == StudentTurns(rows, {"respond"})
  IN  IF said = {} THEN None ELSE Latest(said).said

ReadyIn(rows) ==
  LET judged == StudentTurns(rows, TurnOps)
  IN  judged # {} /\ Latest(judged).ready

\* The transcript up to the latest recommendation, or nothing.
BeforeRecommendation(rows) ==
  LET marks == {t \in rows : t.op = "commit"}
  IN  IF marks = {} THEN {} ELSE {t \in rows : t.seq < Latest(marks).seq}

\* A document that says what these rows do.
Repeats(doc, rows) ==
  LET count(op) == Cardinality(StudentTurns(rows, {op})) IN
  /\ doc.clarifications = count("clarify")
  /\ doc.disputes = count("evidence_dispute")
  /\ doc.level = Min({count("coach"), MaxCoachingLevel})
  /\ doc.position = PositionIn(rows)
  /\ doc.ready = ReadyIn(rows)
  /\ doc.committed = PositionIn(BeforeRecommendation(rows))

\* The document is a replay of the transcript: no handler's contribution is
\* lost when another one writes the whole document back.
DocumentReplaysTranscript == \A s \in Sessions : Repeats(state[s], turns[s])

\* The latest recommendation was recorded while the latest evaluation of the
\* position was that it may be (commit_position's material-gap check).
RecommendationWasReady ==
  \A s \in Sessions :
    state[s].committed # None => ReadyIn(BeforeRecommendation(turns[s]))

\* Between two recommendations the student has stated a position.
Revised(rows) ==
  \A a, b \in {t \in rows : t.op = "commit"} : a.seq < b.seq =>
    \E t \in StudentTurns(rows, {"respond"}) : a.seq < t.seq /\ t.seq < b.seq

\* A recommendation is recorded when it is ready, and again only once there is
\* a position to revise it: commit carries no request key, but "an identical
\* retry is idempotent", whichever turns came before it (commit_position).
RecommendationsAreEarned ==
  /\ RecommendationWasReady
  /\ \A s \in Sessions : Revised(turns[s])

\* A step that leaves the reviews that have ended alone.
EndedStays ==
  \A s \in Sessions : status[s] # "active" =>
    /\ status'[s] = status[s]
    /\ turns'[s] = turns[s]
    /\ state'[s] = state[s]

\* A review that has ended is never written again, nor its status reopened,
\* even by a handler that passed its first status check before the end.
EndedIsFinal == [][EndedStays]_vars

\* The locks make every handler atomic: the database only ever changes as
\* AtomicReview allows.
ImplementsAtomicReview == Abs!Spec

\* Every request that reaches a replica is answered unless the replica dies.
EveryRequestAnswered ==
  \A r \in Requests : pc[r] = "arrived" ~> pc[r] \in {"done", "lost"}

=============================================================================
