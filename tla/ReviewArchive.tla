---------------------------- MODULE ReviewArchive ----------------------------
(***************************************************************************)
(* A Review Room while its term is archived (services/semester_lifecycle,  *)
(* routers/admin.term_status).  The archiving transaction reads the active *)
(* sessions WITHOUT FOR UPDATE, prepares a rewritten document and a final  *)
(* status for each of them in memory, and writes those rows when it        *)
(* commits; only that UPDATE waits for the row locks of the handlers.      *)
(***************************************************************************)
EXTENDS ReviewRoom

VARIABLES
  term,         \* CourseTerm.status
  archive,      \* progress of the archiving transaction
  archived,     \* the documents it read, one per session it found active
  archiveLocks  \* session rows its UPDATEs have locked so far

archiveVars == <<term, archive, archived, archiveLocks>>
allVars == <<vars, archiveVars>>

NothingRead == [s \in {} |-> OpeningState]

ArchiveTypeOK ==
  /\ term \in {"active", "archived"}
  /\ archive \in {"idle", "flushing", "done"}
  /\ DOMAIN archived \subseteq Sessions
  /\ \A s \in DOMAIN archived : archived[s] \in ChallengeState
  /\ archiveLocks \subseteq DOMAIN archived

ArchiveInit ==
  /\ Init
  /\ term = "active" /\ archive = "idle"
  /\ archived = NothingRead /\ archiveLocks = {}

-----------------------------------------------------------------------------
\* Mutated: sessions locked by a handler are skipped.
ArchiveReadSkipLocked ==
  /\ archive = "idle" /\ term = "active"
  /\ archived' = [s \in {x \in Sessions : status[x] = "active" /\ rowLock[x] = None} |-> state[s]]
  /\ archive' = "flushing"
  /\ UNCHANGED <<vars, term, archiveLocks>>

\* archive_active_term_reviews: the query and the loop over its result.  The
\* semester_lifecycle marker it puts into each document says what status says.
ArchiveRead ==
  /\ archive = "idle" /\ term = "active"
  /\ archived' = [s \in {x \in Sessions : status[x] = "active"} |-> state[s]]
  /\ archive' = "flushing"
  /\ UNCHANGED <<vars, term, archiveLocks>>

\* The flush: UPDATE review_sessions, row by row, waits for a handler's lock.
ArchiveLock(s) ==
  /\ archive = "flushing"
  /\ s \in DOMAIN archived \ archiveLocks
  /\ rowLock[s] = None
  /\ archiveLocks' = archiveLocks \cup {s}
  /\ UNCHANGED <<vars, term, archive, archived>>

\* Mutated: the rows are written without waiting for their locks.
ArchiveCommitUnlocked ==
  /\ archive = "flushing"
  /\ status' = [s \in Sessions |-> IF s \in DOMAIN archived THEN "archived_incomplete" ELSE status[s]]
  /\ state' = [s \in Sessions |-> IF s \in DOMAIN archived THEN archived[s] ELSE state[s]]
  /\ term' = "archived" /\ access' = {} /\ archive' = "done"
  /\ archived' = NothingRead /\ archiveLocks' = {}
  /\ UNCHANGED <<turns, findings, lockVars, requestVars>>

\* Mutated: the rows stay locked after the commit.
ArchiveCommitKeepsLocks ==
  /\ archive = "flushing" /\ archiveLocks = DOMAIN archived
  /\ status' = [s \in Sessions |-> IF s \in DOMAIN archived THEN "archived_incomplete" ELSE status[s]]
  /\ state' = [s \in Sessions |-> IF s \in DOMAIN archived THEN archived[s] ELSE state[s]]
  /\ term' = "archived" /\ access' = {} /\ archive' = "done" /\ archived' = NothingRead
  /\ UNCHANGED <<turns, findings, lockVars, requestVars, archiveLocks>>

\* Mutated: the written document counts the turns of the row, not its own.
ArchiveCommitCountsAgain ==
  /\ archive = "flushing" /\ archiveLocks = DOMAIN archived
  /\ status' = [s \in Sessions |-> IF s \in DOMAIN archived THEN "archived_incomplete" ELSE status[s]]
  /\ state' = [s \in Sessions |-> IF s \in DOMAIN archived
                                  THEN [archived[s] EXCEPT !.turnCount = state[s].turnCount] ELSE state[s]]
  /\ term' = "archived" /\ access' = {} /\ archive' = "done"
  /\ archived' = NothingRead /\ archiveLocks' = {}
  /\ UNCHANGED <<turns, findings, lockVars, requestVars>>

\* term_status commits: the whole document is replaced by the rewritten one,
\* the term is read-only and no student or staff may mutate it any more.
ArchiveCommit ==
  /\ archive = "flushing" /\ archiveLocks = DOMAIN archived
  /\ status' = [s \in Sessions |-> IF s \in DOMAIN archived THEN "archived_incomplete" ELSE status[s]]
  /\ state' = [s \in Sessions |-> IF s \in DOMAIN archived THEN archived[s] ELSE state[s]]
  /\ term' = "archived" /\ access' = {} /\ archive' = "done"
  /\ archived' = NothingRead /\ archiveLocks' = {}
  /\ UNCHANGED <<turns, findings, lockVars, requestVars>>

\* The replica running it dies: nothing was written, staff may try again.
ArchiveCrash ==
  /\ archive = "flushing"
  /\ archive' = "idle" /\ archived' = NothingRead /\ archiveLocks' = {}
  /\ UNCHANGED <<vars, term>>

\* Under an archived term nobody regains the right to mutate it.
AccessStep == term = "active" /\ ChangeAccess

\* A handler's FOR UPDATE waits for the archiving transaction as well.
RoomStep(r) ==
  \/ PreCheck(r) \/ TryLocal(r) \/ LockSnapshot(r) \/ CommitStep(r) \/ Finish(r) \/ Close(r)
  \/ LockRow(r) /\ call[r].session \notin archiveLocks

ArchiveStep == ArchiveRead \/ ArchiveCommit \/ \E s \in Sessions : ArchiveLock(s)

ArchiveNext ==
  \/ \E r \in Requests : (Arrive(r) \/ RoomStep(r) \/ Abort(r)) /\ UNCHANGED archiveVars
  \/ (AccessStep \/ \E p \in Replicas : Crash(p)) /\ UNCHANGED archiveVars
  \/ ArchiveStep
  \/ ArchiveCrash

ArchiveSpec == ArchiveInit /\ [][ArchiveNext]_allVars

\* Threads that can run do, the archiving one too; PostgreSQL grants row locks
\* in the order of the requests, so a waiter is not overtaken for ever.
FairArchiveSpec ==
  /\ ArchiveSpec
  /\ \A r \in Requests : WF_allVars(RoomStep(r) /\ UNCHANGED archiveVars)
  /\ SF_allVars(ArchiveCommit \/ \E s \in Sessions : ArchiveLock(s))

-----------------------------------------------------------------------------
\* Once a term is archived its reviews are read-only: not even a handler that
\* was already past its checks writes to them (docs: archived terms are
\* read-only; archive waits for the in-flight turn, which then commits first).
ArchivedIsReadOnly ==
  [][term = "archived" => UNCHANGED <<status, turns, state, findings>>]_allVars

\* Archiving leaves none of the term's reviews open, whatever the handlers do
\* between its query and its commit.
NoReviewLeftActive ==
  term = "archived" => \A s \in Sessions : status[s] # "active"

\* The record the transaction leaves behind is the record it found: turns,
\* finding states and committed positions (docstring of
\* archive_active_term_reviews).
ArchiveKeepsRecord ==
  [][term' # term =>
       /\ UNCHANGED <<turns, findings>>
       /\ \A s \in Sessions : state'[s].committed = state[s].committed]_allVars

\* What the archive may lose of a document is its end, never a part of it: the
\* document it writes back is a replay of the turns up to its own turn_count,
\* one the review really had, though turns were recorded after it was read.
DocumentsReplayAPrefix ==
  \A s \in Sessions :
    Repeats(state[s], {t \in turns[s] : t.seq =< state[s].turnCount})

\* Only a review that was still active ends as archived_incomplete (docs:
\* it "ended because the semester lifecycle closed, not because the student
\* completed the normal review process").
ArchiveClosesActiveReviews ==
  [][\A s \in Sessions :
       status'[s] = "archived_incomplete" => status[s] \in {"active", "archived_incomplete"}]_allVars

\* An archiving transaction that started ends, though handlers keep the rows
\* locked while the reviewer answers.
ArchiveEnds == archive = "flushing" ~> archive # "flushing"

=============================================================================
