-------------------------- MODULE ReviewArchiveProofs --------------------------
(***************************************************************************)
(* Archiving a term ends its reviews for good, for every set of sessions,  *)
(* requests, replicas and submissions.  The archiving transaction reads    *)
(* without a lock, so the argument is not about what it read but about     *)
(* what it overwrites: every active row is among the rows it updates, a    *)
(* handler past its checks still holds the row of an active review, and    *)
(* the update waits for that row.                                          *)
(***************************************************************************)
EXTENDS ReviewArchive, ReviewReplayProofs

Checked == {"snapWait", "working"}

Shapes ==
  /\ status \in [Sessions -> ReviewStatuses]
  /\ rowLock \in [Sessions -> Requests \cup {None}]
  /\ pc \in [Requests -> PCs]
  /\ call \in [Requests -> Submissions \cup {None}]
  /\ term \in {"active", "archived"}
  /\ archive \in {"idle", "flushing", "done"}
  /\ DOMAIN archived \subseteq Sessions /\ archiveLocks \subseteq DOMAIN archived

\* A request past "idle" has content; past its row lock it holds that lock.
HandlersHold ==
  \A r \in Requests :
    /\ pc[r] # "idle" => call[r] \in Submissions
    /\ pc[r] \in HoldsRow => rowLock[call[r].session] = r

\* A handler past the checks of LockRow works on a review that is active.
CheckedIsActive == \A r \in Requests : pc[r] \in Checked => Active(call[r])

\* Whatever is active will be overwritten, and what the UPDATE has locked no
\* handler holds.
FlushCovers ==
  archive = "flushing" =>
    /\ term = "active"
    /\ \A s \in Sessions : status[s] = "active" => s \in DOMAIN archived

LocksExclude ==
  /\ \A s \in archiveLocks : rowLock[s] = None
  /\ archive # "flushing" => archiveLocks = {}

\* Under an archived term nobody is authorized and no handler is past its checks.
Sealed ==
  term = "archived" =>
    /\ access = {}
    /\ \A r \in Requests : pc[r] \notin Checked
    /\ \A s \in Sessions : status[s] # "active"

ArchiveInv == Shapes /\ HandlersHold /\ CheckedIsActive /\ FlushCovers /\ LocksExclude /\ Sealed

-----------------------------------------------------------------------------
\* The rows a handler may still write are rows the archive has not locked.
LEMMA CheckedHoldsRow ==
  ASSUME ArchiveInv, NEW r \in Requests, pc[r] \in Checked
  PROVE  /\ call[r] \in Submissions /\ call[r].session \in Sessions
         /\ rowLock[call[r].session] = r
         /\ status[call[r].session] = "active"
         /\ call[r].session \notin archiveLocks
         /\ term = "active"
<1>1. pc[r] # "idle" /\ pc[r] \in HoldsRow
  BY DEF Checked, HoldsRow
<1>2. call[r] \in Submissions /\ rowLock[call[r].session] = r /\ status[call[r].session] = "active"
  BY <1>1 DEF ArchiveInv, HandlersHold, CheckedIsActive, Active
<1>3. call[r].session \in Sessions
  BY <1>2, DataAssumption DEF Submission
<1>4. r # None
  BY RoomAssumption
<1> QED
  BY <1>2, <1>3, <1>4 DEF ArchiveInv, LocksExclude, Sealed, Shapes

LEMMA ArchiveInitHolds == ArchiveInit => ArchiveInv
BY DEF ArchiveInit, Init, ArchiveInv, Shapes, HandlersHold, CheckedIsActive, FlushCovers,
       LocksExclude, Sealed, NothingRead, ReviewStatuses, PCs, HoldsRow, Checked

-----------------------------------------------------------------------------
(***************************************************************************)
(* The handlers.  What a step of request r may change, seen from here.     *)
(***************************************************************************)
OthersKept(r) ==
  \A q \in Requests \ {r} :
    /\ pc'[q] = pc[q] /\ call'[q] = call[q]
    /\ \A s \in Sessions : rowLock[s] = q => rowLock'[s] = q

OwnKept(r) ==
  /\ call'[r] \in Submissions
  /\ pc'[r] \in HoldsRow => rowLock'[call'[r].session] = r
  /\ pc'[r] \in Checked => Active(call[r]) /\ call'[r] = call[r] /\ UNCHANGED status /\ term = "active"

\* A review is only ended, and only by the owner of its row; a row is taken
\* from nobody and not from the archive.
RowsKept(r) ==
  /\ \A s \in Sessions : status'[s] # status[s] => rowLock[s] = r /\ status'[s] # "active"
  /\ \A s \in archiveLocks : rowLock'[s] = None

Keeps(r) ==
  /\ UNCHANGED archiveVars /\ UNCHANGED access /\ Shapes'
  /\ OthersKept(r) /\ OwnKept(r) /\ RowsKept(r)

LEMMA KeepsPreserves ==
  ASSUME ArchiveInv, NEW r \in Requests, Keeps(r)
  PROVE  ArchiveInv'
<1>1. \A q \in Requests \ {r} :
        /\ pc'[q] = pc[q] /\ call'[q] = call[q]
        /\ pc[q] # "idle" => call[q] \in Submissions /\ call[q].session \in Sessions
  BY DataAssumption DEF Keeps, OthersKept, ArchiveInv, HandlersHold, Submission
<1>2. HandlersHold'
  <2>1. ASSUME NEW q \in Requests \ {r}, pc[q] \in HoldsRow
        PROVE  rowLock'[call[q].session] = q
    BY <1>1, <2>1 DEF Keeps, OthersKept, ArchiveInv, HandlersHold, HoldsRow
  <2> QED
    BY <1>1, <2>1 DEF Keeps, OwnKept, HandlersHold
<1>3. CheckedIsActive'
  <2>1. ASSUME NEW q \in Requests \ {r}, pc[q] \in Checked
        PROVE  status'[call[q].session] = "active"
    BY <2>1, CheckedHoldsRow DEF Keeps, RowsKept
  <2> QED
    BY <1>1, <2>1 DEF Keeps, OwnKept, CheckedIsActive, Active
<1>4. FlushCovers' /\ LocksExclude'
  BY DEF Keeps, RowsKept, archiveVars, ArchiveInv, FlushCovers, LocksExclude
<1>5. Sealed'
  BY <1>1 DEF Keeps, OwnKept, RowsKept, archiveVars, ArchiveInv, Sealed
<1> QED
  BY <1>2, <1>3, <1>4, <1>5 DEF Keeps, ArchiveInv

\* Before its row lock and after its commit a handler changes only its progress.
LEMMA QuietKeeps ==
  ASSUME ArchiveInv, UNCHANGED archiveVars, NEW r \in Requests,
         Arrive(r) \/ PreCheck(r) \/ TryLocal(r) \/ Finish(r)
  PROVE  Keeps(r)
<1>1. /\ UNCHANGED <<status, rowLock, access>>
      /\ pc' \in [Requests -> PCs] /\ pc'[r] \notin HoldsRow /\ call'[r] \in Submissions
      /\ call' \in [Requests -> Submissions \cup {None}]
      /\ \A q \in Requests \ {r} : pc'[q] = pc[q] /\ call'[q] = call[q]
  <2> USE DEF ArchiveInv, Shapes, HandlersHold, PCs, HoldsRow
  <2>1. CASE Arrive(r)
    BY <2>1 DEF Arrive, recordVars, lockVars
  <2>2. CASE PreCheck(r)
    BY <2>2 DEF PreCheck, recordVars, lockVars
  <2>3. CASE TryLocal(r)
    BY <2>3 DEF TryLocal, recordVars
  <2>4. CASE Finish(r)
    BY <2>4 DEF Finish, recordVars
  <2> QED
    BY <2>1, <2>2, <2>3, <2>4
<1> QED
  BY <1>1 DEF Keeps, OthersKept, OwnKept, RowsKept, archiveVars, ArchiveInv, Shapes, LocksExclude,
              HoldsRow, Checked

\* The row lock is granted when neither a handler nor the archive holds it, and
\* the checks are repeated under it: under an archived term they refuse.
LEMMA LockRowKept ==
  ASSUME ArchiveInv, UNCHANGED archiveVars, NEW r \in Requests,
         LockRow(r), call[r].session \notin archiveLocks
  PROVE  Keeps(r)
<1> DEFINE s == call[r].session
<1>1. call[r] \in Submissions /\ s \in Sessions
  BY DataAssumption DEF LockRow, ArchiveInv, HandlersHold, Submission
<1>2. /\ UNCHANGED <<status, access, call>> /\ rowLock[s] = None
      /\ rowLock' = [rowLock EXCEPT ![s] = r]
  BY DEF LockRow, recordVars
<1>3. /\ \/ pc' = [pc EXCEPT ![r] = "working"] \/ pc' = [pc EXCEPT ![r] = "snapWait"]
         \/ pc' = [pc EXCEPT ![r] = "closing"]
      /\ RowVerdict(call[r]) = "go" \/ pc' = [pc EXCEPT ![r] = "closing"]
  BY DEF LockRow, Refuse
<1>4. RowVerdict(call[r]) = "go" => Authorized(call[r]) /\ Active(call[r])
  BY DEF RowVerdict
<1>5. Authorized(call[r]) => term = "active"
  BY DEF Authorized, ArchiveInv, Sealed, Shapes
<1>6. /\ pc' \in [Requests -> PCs] /\ \A q \in Requests \ {r} : pc'[q] = pc[q]
      /\ pc'[r] \in Checked => RowVerdict(call[r]) = "go"
  BY <1>3 DEF ArchiveInv, Shapes, PCs, Checked
<1>7. rowLock' \in [Sessions -> Requests \cup {None}] /\ rowLock'[s] = r
      /\ \A x \in Sessions \ {s} : rowLock'[x] = rowLock[x]
  BY <1>1, <1>2 DEF ArchiveInv, Shapes
<1>8. OthersKept(r)
  BY <1>2, <1>6, <1>7, RoomAssumption DEF OthersKept
<1>9. OwnKept(r)
  BY <1>1, <1>2, <1>4, <1>5, <1>6, <1>7 DEF OwnKept
<1>10. RowsKept(r)
  BY <1>1, <1>2, <1>7 DEF RowsKept, ArchiveInv, Shapes, LocksExclude
<1> QED
  BY <1>2, <1>6, <1>7, <1>8, <1>9, <1>10 DEF Keeps, archiveVars, ArchiveInv, Shapes

\* The snapshot lock is asked for by handlers that hold their row already.
LEMMA LockSnapshotKept ==
  ASSUME ArchiveInv, UNCHANGED archiveVars, NEW r \in Requests, LockSnapshot(r)
  PROVE  Keeps(r)
<1>1. pc[r] \in Checked /\ UNCHANGED <<status, access, call, rowLock>>
  BY DEF LockSnapshot, Checked, recordVars
<1>2. pc' = [pc EXCEPT ![r] = "working"] \/ pc' = [pc EXCEPT ![r] = "closing"]
  BY DEF LockSnapshot, Refuse
<1>3. pc' \in [Requests -> PCs] /\ \A q \in Requests \ {r} : pc'[q] = pc[q]
  BY <1>2 DEF ArchiveInv, Shapes, PCs
<1> QED
  BY <1>1, <1>3, CheckedHoldsRow
  DEF Keeps, OthersKept, OwnKept, RowsKept, archiveVars, ArchiveInv, Shapes, LocksExclude, Active

\* A failed handler keeps its row until the transaction is closed.
LEMMA AbortKept ==
  ASSUME ArchiveInv, UNCHANGED archiveVars, NEW r \in Requests, Abort(r)
  PROVE  Keeps(r)
<1>1. pc[r] \in Checked /\ UNCHANGED <<status, access, call, rowLock>>
  BY DEF Abort, Checked, recordVars
<1>2. /\ pc' \in [Requests -> PCs] /\ pc'[r] = "closing"
      /\ \A q \in Requests \ {r} : pc'[q] = pc[q]
  BY DEF Abort, ArchiveInv, Shapes, PCs
<1> QED
  BY <1>1, <1>2, CheckedHoldsRow
  DEF Keeps, OthersKept, OwnKept, RowsKept, archiveVars, ArchiveInv, Shapes, LocksExclude, Checked

\* The end of a transaction gives up the rows of its own request.
LEMMA ReleaseKeepsOthers ==
  ASSUME ArchiveInv, NEW r \in Requests, ReleaseRows(r)
  PROVE  /\ rowLock' \in [Sessions -> Requests \cup {None}]
         /\ \A q \in Requests \ {r} : \A s \in Sessions : rowLock[s] = q => rowLock'[s] = q
         /\ \A s \in archiveLocks : rowLock'[s] = None
BY DEF ReleaseRows, ArchiveInv, Shapes, LocksExclude

LEMMA CloseKept ==
  ASSUME ArchiveInv, UNCHANGED archiveVars, NEW r \in Requests, Close(r)
  PROVE  Keeps(r)
<1>1. /\ ReleaseRows(r) /\ UNCHANGED <<status, access, call>> /\ pc[r] # "idle"
      /\ pc' \in [Requests -> PCs] /\ pc'[r] = "done"
      /\ \A q \in Requests \ {r} : pc'[q] = pc[q]
  BY DEF Close, recordVars, ArchiveInv, Shapes, PCs
<1>2. call[r] \in Submissions
  BY <1>1 DEF ArchiveInv, HandlersHold
<1> QED
  BY <1>1, <1>2, ReleaseKeepsOthers
  DEF Keeps, OthersKept, OwnKept, RowsKept, archiveVars, ArchiveInv, Shapes, Checked, HoldsRow

\* A transaction changes the status of no review but its own.
LEMMA CommitKept ==
  ASSUME ArchiveInv, UNCHANGED archiveVars, NEW r \in Requests, CommitStep(r)
  PROVE  Keeps(r)
<1> DEFINE s == call[r].session
<1>1. /\ pc[r] = "working" /\ \E turn : DbCommit(r, turn)
      /\ UNCHANGED status \/ status' = [status EXCEPT ![s] = "completed"]
  BY DEF CommitStep, RespondCommit, ClarifyCommit, CoachCommit, DisputeCommit,
         DispositionCommit, PositionCommit, CompleteCommit, Working
<1>2. /\ call[r] \in Submissions /\ s \in Sessions /\ rowLock[s] = r
  BY <1>1, CheckedHoldsRow DEF Checked
<1>3. /\ ReleaseRows(r) /\ UNCHANGED <<access, call>>
      /\ pc' \in [Requests -> PCs] /\ pc'[r] = "committed"
      /\ \A q \in Requests \ {r} : pc'[q] = pc[q]
  BY <1>1 DEF DbCommit, ArchiveInv, Shapes, PCs
<1>4. /\ status' \in [Sessions -> ReviewStatuses]
      /\ \A x \in Sessions : status'[x] # status[x] => rowLock[x] = r /\ status'[x] # "active"
  BY <1>1, <1>2 DEF ArchiveInv, Shapes, ReviewStatuses
<1> QED
  BY <1>2, <1>3, <1>4, ReleaseKeepsOthers
  DEF Keeps, OthersKept, OwnKept, RowsKept, archiveVars, ArchiveInv, Shapes, Checked, HoldsRow

-----------------------------------------------------------------------------
(***************************************************************************)
(* The environment and the archiving transaction.                          *)
(***************************************************************************)

\* A dead replica's requests are past their locks: PostgreSQL rolled them back.
LEMMA CrashKeepsArchive ==
  ASSUME ArchiveInv, UNCHANGED archiveVars, NEW p \in Replicas, Crash(p)
  PROVE  ArchiveInv'
<1>1. /\ UNCHANGED <<status, access, call>>
      /\ pc' \in [Requests -> PCs]
      /\ \A q \in Requests : pc'[q] = "lost" \/ pc'[q] = pc[q]
      /\ \A q \in Requests : pc'[q] # "idle" => pc[q] # "idle"
      /\ \A q \in Requests : \A s \in Sessions : pc'[q] \in HoldsRow /\ rowLock[s] = q => rowLock'[s] = q
      /\ rowLock' \in [Sessions -> Requests \cup {None}]
      /\ \A s \in Sessions : rowLock[s] = None => rowLock'[s] = None
  BY DEF Crash, recordVars, ArchiveInv, Shapes, PCs, InFlight, HoldsRow
<1>2. HandlersHold'
  <2>1. ASSUME NEW q \in Requests, pc'[q] \in HoldsRow
        PROVE  rowLock'[call[q].session] = q
    <3>1. pc'[q] = pc[q] /\ pc[q] # "idle"
      BY <1>1, <2>1 DEF HoldsRow
    <3>2. call[q].session \in Sessions /\ rowLock[call[q].session] = q
      BY <2>1, <3>1, DataAssumption DEF ArchiveInv, HandlersHold, Submission
    <3> QED
      BY <1>1, <2>1, <3>2
  <2> QED
    BY <1>1, <2>1 DEF HandlersHold, ArchiveInv
<1>3. CheckedIsActive' /\ Sealed'
  BY <1>1 DEF ArchiveInv, CheckedIsActive, Sealed, Active, Checked, archiveVars
<1>4. FlushCovers' /\ LocksExclude' /\ Shapes'
  BY <1>1 DEF ArchiveInv, FlushCovers, LocksExclude, Shapes, archiveVars
<1> QED
  BY <1>2, <1>3, <1>4 DEF ArchiveInv

LEMMA AccessKeepsArchive ==
  ASSUME ArchiveInv, UNCHANGED archiveVars, AccessStep
  PROVE  ArchiveInv'
<1>1. term = "active" /\ UNCHANGED <<status, rowLock, pc, call>>
  BY DEF AccessStep, ChangeAccess, recordVars, lockVars, requestVars
<1> QED
  BY <1>1 DEF ArchiveInv, Shapes, HandlersHold, CheckedIsActive, Active, FlushCovers, LocksExclude,
              Sealed, archiveVars

\* The query finds every active review, and none becomes active later.
LEMMA ReadKeeps ==
  ASSUME ArchiveInv, ArchiveRead
  PROVE  ArchiveInv'
<1>1. /\ archive' = "flushing" /\ term = "active" /\ UNCHANGED <<term, archiveLocks>>
      /\ UNCHANGED <<status, rowLock, pc, call, access>>
      /\ DOMAIN archived' = {x \in Sessions : status[x] = "active"}
  BY DEF ArchiveRead, vars, recordVars, lockVars, requestVars
<1>2. archiveLocks = {} /\ Shapes'
  BY <1>1 DEF ArchiveRead, ArchiveInv, Shapes, LocksExclude
<1> QED
  BY <1>1, <1>2 DEF ArchiveInv, HandlersHold, CheckedIsActive, Active, FlushCovers, LocksExclude, Sealed

LEMMA LockKeeps ==
  ASSUME ArchiveInv, NEW s \in Sessions, ArchiveLock(s)
  PROVE  ArchiveInv'
<1>1. /\ UNCHANGED <<term, archive, archived, status, rowLock, pc, call, access>>
      /\ archive = "flushing"
      /\ s \in DOMAIN archived /\ rowLock[s] = None /\ archiveLocks' = archiveLocks \cup {s}
  BY DEF ArchiveLock, vars, recordVars, lockVars, requestVars
<1> QED
  BY <1>1 DEF ArchiveInv, Shapes, HandlersHold, CheckedIsActive, Active, FlushCovers, LocksExclude, Sealed

\* The commit waits for every row it overwrites, so it finds no handler past
\* its checks: such a handler would hold the row of an active review.
LEMMA NobodyChecked ==
  ASSUME ArchiveInv, archive = "flushing", archiveLocks = DOMAIN archived
  PROVE  \A r \in Requests : pc[r] \notin Checked
<1> SUFFICES ASSUME NEW r \in Requests, pc[r] \in Checked PROVE FALSE
  OBVIOUS
<1>1. /\ call[r].session \in Sessions /\ status[call[r].session] = "active"
      /\ call[r].session \notin archiveLocks
  BY CheckedHoldsRow
<1> QED
  BY <1>1 DEF ArchiveInv, FlushCovers

LEMMA CommitKeeps ==
  ASSUME ArchiveInv, ArchiveCommit
  PROVE  ArchiveInv'
<1>1. /\ archive = "flushing" /\ archiveLocks = DOMAIN archived
      /\ term' = "archived" /\ access' = {} /\ archive' = "done" /\ archiveLocks' = {}
      /\ DOMAIN archived' = {} /\ UNCHANGED <<rowLock, pc, call>>
      /\ status' = [s \in Sessions |->
                      IF s \in DOMAIN archived THEN "archived_incomplete" ELSE status[s]]
  BY DEF ArchiveCommit, lockVars, requestVars, NothingRead
<1>2. \A r \in Requests : pc[r] \notin Checked
  BY <1>1, NobodyChecked
<1>3. \A s \in Sessions : status'[s] # "active"
  BY <1>1 DEF ArchiveInv, FlushCovers
<1>4. Shapes'
  BY <1>1 DEF ArchiveInv, Shapes, ReviewStatuses
<1> QED
  BY <1>1, <1>2, <1>3, <1>4
  DEF ArchiveInv, HandlersHold, CheckedIsActive, FlushCovers, LocksExclude, Sealed

LEMMA ArchiveCrashKeeps ==
  ASSUME ArchiveInv, ArchiveCrash
  PROVE  ArchiveInv'
<1>1. /\ archive' = "idle" /\ DOMAIN archived' = {} /\ archiveLocks' = {}
      /\ UNCHANGED <<term, status, rowLock, pc, call, access>>
  BY DEF ArchiveCrash, NothingRead, vars, recordVars, lockVars, requestVars
<1> QED
  BY <1>1 DEF ArchiveInv, Shapes, HandlersHold, CheckedIsActive, Active, FlushCovers, LocksExclude, Sealed

-----------------------------------------------------------------------------
(***************************************************************************)
(* The theorems.                                                           *)
(***************************************************************************)
LEMMA ArchiveNextKeeps ==
  ASSUME ArchiveInv, [ArchiveNext]_allVars
  PROVE  ArchiveInv'
<1>1. ASSUME NEW r \in Requests, Arrive(r) \/ RoomStep(r) \/ Abort(r), UNCHANGED archiveVars
      PROVE  ArchiveInv'
  BY <1>1, QuietKeeps, LockRowKept, LockSnapshotKept, AbortKept, CloseKept, CommitKept,
     KeepsPreserves DEF RoomStep
<1>2. ASSUME AccessStep, UNCHANGED archiveVars PROVE ArchiveInv'
  BY <1>2, AccessKeepsArchive
<1>3. ASSUME NEW p \in Replicas, Crash(p), UNCHANGED archiveVars PROVE ArchiveInv'
  BY <1>3, CrashKeepsArchive
<1>4. ASSUME ArchiveStep PROVE ArchiveInv'
  BY <1>4, ReadKeeps, LockKeeps, CommitKeeps DEF ArchiveStep
<1>5. CASE UNCHANGED allVars
  <2>1. UNCHANGED <<status, rowLock, pc, call, access, term, archive, archived, archiveLocks>>
    BY <1>5 DEF allVars, archiveVars, vars, recordVars, lockVars, requestVars
  <2> QED
    BY <2>1 DEF ArchiveInv, Shapes, HandlersHold, CheckedIsActive, Active, FlushCovers, LocksExclude,
                Sealed
<1> QED
  BY <1>1, <1>2, <1>3, <1>4, <1>5, ArchiveCrashKeeps DEF ArchiveNext

\* ArchiveInv holds in every reachable state.
THEOREM ArchiveInvariant == ArchiveSpec => []ArchiveInv
<1>1. ArchiveInit => ArchiveInv
  BY ArchiveInitHolds
<1>2. ArchiveInv /\ [ArchiveNext]_allVars => ArchiveInv'
  BY ArchiveNextKeeps
<1> QED
  BY <1>1, <1>2, PTL DEF ArchiveSpec

\* Archiving a term leaves none of its reviews open, whatever the handlers do
\* between the query and the commit of the archiving transaction.
THEOREM ArchiveClosesReviews == ArchiveSpec => []NoReviewLeftActive
<1>1. ArchiveInv => NoReviewLeftActive
  BY DEF ArchiveInv, Sealed, NoReviewLeftActive
<1> QED
  BY <1>1, ArchiveInvariant, PTL

\* Under an archived term no step writes the record of a review.
ArchivedStays == term = "archived" => UNCHANGED <<status, turns, state, findings>>

\* The reviews of an archived term are read-only: also for handlers that had
\* passed their checks before it was archived.
THEOREM ArchivedReadOnly == ArchiveSpec => ArchivedIsReadOnly
<1>1. ASSUME ArchiveInv, [ArchiveNext]_allVars PROVE [ArchivedStays]_allVars
  <2> SUFFICES ASSUME term = "archived" PROVE UNCHANGED <<status, turns, state, findings>>
    BY DEF ArchivedStays
  <2>1. \A r \in Requests : ~CommitStep(r)
    <3>1. \A r \in Requests : pc[r] # "working"
      BY <1>1 DEF ArchiveInv, Sealed, Checked
    <3> QED
      BY <3>1 DEF CommitStep, RespondCommit, ClarifyCommit, CoachCommit, DisputeCommit,
                  DispositionCommit, PositionCommit, CompleteCommit, Working
  <2>2. archive # "flushing"
    BY <1>1 DEF ArchiveInv, FlushCovers
  <2> QED
    BY <1>1, <2>1, <2>2
    DEF ArchiveNext, RoomStep, ArchiveStep, ArchiveRead, ArchiveLock, ArchiveCommit, ArchiveCrash,
        AccessStep, allVars, vars, recordVars, Arrive, PreCheck, TryLocal, LockRow, LockSnapshot,
        Abort, Close, Finish, Crash, ChangeAccess
<1> QED
  BY <1>1, ArchiveInvariant, PTL DEF ArchiveSpec, ArchivedIsReadOnly, ArchivedStays

-----------------------------------------------------------------------------
(***************************************************************************)
(* What the archive leaves of the record.  While the term is active        *)
(* nothing but a handler writes it, so the invariants of the Review Room   *)
(* and the replay hold; the documents the archive has read are replays of  *)
(* what the transcripts began with, and stay so since turns are only added *)
(* at the end.  The commit puts such a document back, and afterwards       *)
(* nothing is written any more.                                            *)
(***************************************************************************)

\* The turns of a transcript up to number n.
Upto(rows, n) == {t \in rows : t.seq =< n}

\* A document the archive has read is one the review had.
ReadsArePast ==
  \A s \in DOMAIN archived :
    /\ s \in Sessions /\ archived[s] \in ChallengeState
    /\ archived[s].turnCount =< state[s].turnCount
    /\ Replay(Upto(turns[s], archived[s].turnCount), archived[s])

\* A stored document is a replay of the turns it counts.
PrefixesReplay ==
  \A s \in Sessions : Replay(Upto(turns[s], state[s].turnCount), state[s])

\* What holds of the record before the archive and after it.
RecordSound == TypeOK /\ RequestsKnown /\ OneTurnPerKey /\ AnswersRecorded

RecordInv ==
  /\ RecordSound /\ ReadsArePast /\ PrefixesReplay
  /\ term = "active" => RoomInv /\ ReplayInv

\* A transcript numbered up to n is its own beginning.
LEMMA WholeIsPrefix ==
  ASSUME NEW rows, NEW n \in Nat, {t.seq : t \in rows} = 1 .. n
  PROVE  Upto(rows, n) = rows
<1>1. \A t \in rows : t.seq \in 1 .. n
  OBVIOUS
<1> QED
  BY <1>1 DEF Upto

\* While a transcript grows densely nothing is added to what it began with.
LEMMA BeginningStays ==
  ASSUME NEW rows, NEW more, rows \subseteq more,
         NEW n \in Nat, {t.seq : t \in rows} = 1 .. n,
         NEW m \in Nat, {t.seq : t \in more} = 1 .. m,
         \A t, u \in more : t.seq = u.seq => t = u,
         NEW k \in Nat, k =< n
  PROVE  Upto(more, k) = Upto(rows, k) /\ n =< m
<1>1. ASSUME NEW t \in more, t.seq =< k PROVE t \in rows
  <2>1. t.seq \in 1 .. m
    OBVIOUS
  <2>2. t.seq \in 1 .. n
    BY <1>1, <2>1
  <2>3. PICK u \in rows : u.seq = t.seq
    BY <2>2
  <2> QED
    BY <2>3
<1>2. 1 .. n \subseteq 1 .. m
  <2>1. {t.seq : t \in rows} \subseteq {t.seq : t \in more}
    OBVIOUS
  <2> QED
    BY <2>1
<1>3. n =< m
  <2>1. n = 0 \/ n \in 1 .. n
    OBVIOUS
  <2> QED
    BY <1>2, <2>1
<1> QED
  BY <1>1, <1>3 DEF Upto

LEMMA RecordInitHolds == ArchiveInit => RecordInv
<1> SUFFICES ASSUME ArchiveInit PROVE RecordInv
  OBVIOUS
<1>1. RoomInv /\ ReplayInv
  BY InitEstablishes, OpeningReplays DEF ArchiveInit
<1>2. \A s \in Sessions : Upto(turns[s], state[s].turnCount) = turns[s]
  BY <1>1, WholeIsPrefix DEF RoomInv, TypeOK, ChallengeState, TranscriptsSound, TranscriptDense
<1>3. PrefixesReplay
  BY <1>1, <1>2 DEF PrefixesReplay, ReplayInv
<1>4. ReadsArePast
  BY DEF ArchiveInit, ReadsArePast, NothingRead
<1>5. RecordSound
  BY <1>1 DEF RecordSound, RoomInv, TranscriptsSound
<1> QED
  BY <1>1, <1>3, <1>4, <1>5 DEF RecordInv

\* A transaction only adds turns.
LEMMA CommitGrows ==
  ASSUME RoomInv, NEW r \in Requests, CommitStep(r), NEW s \in Sessions
  PROVE  turns[s] \subseteq turns'[s]
<1>1. \/ UNCHANGED turns
      \/ \E rows, doc : Write(r, rows, doc)
  BY DEF CommitStep, RespondCommit, ClarifyCommit, CoachCommit, DisputeCommit,
         DispositionCommit, PositionCommit, CompleteCommit
<1> QED
  BY <1>1 DEF Write, RoomInv, TypeOK

LEMMA NextGrows ==
  ASSUME RoomInv, [Next]_vars, NEW s \in Sessions
  PROVE  turns[s] \subseteq turns'[s]
<1>1. CASE \E r \in Requests : CommitStep(r)
  BY <1>1, CommitGrows
<1>2. CASE \A r \in Requests : ~CommitStep(r)
  BY <1>2, OthersStutter DEF recordVars
<1> QED
  BY <1>1, <1>2

\* The Review Room at work, before or while the archive has its documents.
LEMMA RoomKeepsRecord ==
  ASSUME RecordInv, term = "active", [Next]_vars, UNCHANGED <<term, archived>>
  PROVE  RecordInv'
<1>1. RoomInv /\ ReplayInv
  BY DEF RecordInv
<1>2. RoomInv' /\ ReplayInv'
  BY <1>1, NextKeeps, NextReplays
<1>3. ASSUME NEW s \in Sessions
      PROVE  /\ state[s].turnCount \in Nat /\ state'[s].turnCount \in Nat
             /\ {t.seq : t \in turns[s]} = 1 .. state[s].turnCount
             /\ {t.seq : t \in turns'[s]} = 1 .. state'[s].turnCount
             /\ \A t, u \in turns'[s] : t.seq = u.seq => t = u
  BY <1>1, <1>2 DEF RoomInv, TypeOK, ChallengeState, TranscriptsSound, TranscriptDense
<1>4. PrefixesReplay'
  <2>1. \A s \in Sessions : Upto(turns'[s], state'[s].turnCount) = turns'[s]
    BY <1>3, WholeIsPrefix
  <2>2. \A s \in Sessions : Replay(turns'[s], state'[s])
    BY <1>2 DEF ReplayInv
  <2> QED
    BY <2>1, <2>2 DEF PrefixesReplay
<1>5. ReadsArePast'
  <2>1. ASSUME NEW s \in Sessions, s \in DOMAIN archived
        PROVE  /\ archived[s].turnCount =< state'[s].turnCount
               /\ Upto(turns'[s], archived[s].turnCount) = Upto(turns[s], archived[s].turnCount)
    <3>1. archived[s].turnCount \in Nat /\ archived[s].turnCount =< state[s].turnCount
      BY <2>1 DEF RecordInv, ReadsArePast, ChallengeState
    <3>2. turns[s] \subseteq turns'[s]
      BY <1>1, NextGrows
    <3>3. /\ state[s].turnCount \in Nat /\ state'[s].turnCount \in Nat
          /\ {t.seq : t \in turns[s]} = 1 .. state[s].turnCount
          /\ {t.seq : t \in turns'[s]} = 1 .. state'[s].turnCount
          /\ \A t, u \in turns'[s] : t.seq = u.seq => t = u
      BY <1>3
    <3>4. /\ Upto(turns'[s], archived[s].turnCount) = Upto(turns[s], archived[s].turnCount)
          /\ state[s].turnCount =< state'[s].turnCount
      BY <3>1, <3>2, <3>3, BeginningStays
    <3> QED
      BY <3>1, <3>3, <3>4
  <2>2. ASSUME NEW s \in DOMAIN archived
        PROVE  /\ s \in Sessions /\ archived[s] \in ChallengeState
               /\ Replay(Upto(turns[s], archived[s].turnCount), archived[s])
    BY DEF RecordInv, ReadsArePast
  <2> QED
    BY <2>1, <2>2 DEF ReadsArePast
<1>6. RecordSound'
  BY <1>2 DEF RecordSound, RoomInv, TranscriptsSound
<1> QED
  BY <1>2, <1>4, <1>5, <1>6 DEF RecordInv

\* The archive reads the documents as they are.
LEMMA ReadKeepsRecord ==
  ASSUME RecordInv, ArchiveRead
  PROVE  RecordInv'
<1>1. /\ term = "active" /\ UNCHANGED <<vars, term>>
      /\ archived' = [s \in {x \in Sessions : status[x] = "active"} |-> state[s]]
  BY DEF ArchiveRead
<1>2. [Next]_vars
  BY <1>1
<1>3. RoomInv' /\ ReplayInv'
  BY <1>1, <1>2, NextKeeps, NextReplays DEF RecordInv
<1>4. UNCHANGED <<turns, state>>
  BY <1>1 DEF vars, recordVars
<1>5. PrefixesReplay'
  BY <1>4 DEF RecordInv, PrefixesReplay
<1>6. ReadsArePast'
  <2>1. \A s \in Sessions : state[s] \in ChallengeState /\ state[s].turnCount =< state[s].turnCount
    BY DEF RecordInv, RecordSound, TypeOK, ChallengeState
  <2> QED
    BY <1>1, <1>4, <2>1 DEF RecordInv, PrefixesReplay, ReadsArePast
<1>7. RecordSound'
  BY <1>3 DEF RecordSound, RoomInv, TranscriptsSound
<1> QED
  BY <1>3, <1>5, <1>6, <1>7 DEF RecordInv

\* The commit puts back what was read.
LEMMA CommitKeepsRecord ==
  ASSUME RecordInv, ArchiveInv, ArchiveCommit
  PROVE  RecordInv'
<1>1. /\ term' = "archived" /\ access' = {} /\ archived' = NothingRead
      /\ status' = [s \in Sessions |->
                      IF s \in DOMAIN archived THEN "archived_incomplete" ELSE status[s]]
      /\ state' = [s \in Sessions |-> IF s \in DOMAIN archived THEN archived[s] ELSE state[s]]
      /\ UNCHANGED <<turns, findings, lockVars, requestVars>>
  BY DEF ArchiveCommit
<1>2. TypeOK'
  <2>1. \A s \in DOMAIN archived : archived[s] \in ChallengeState
    BY DEF RecordInv, ReadsArePast
  <2>2. state' \in [Sessions -> ChallengeState] /\ status' \in [Sessions -> ReviewStatuses]
    BY <1>1, <2>1 DEF RecordInv, RecordSound, TypeOK, ReviewStatuses
  <2> QED
    BY <1>1, <2>2 DEF RecordInv, RecordSound, TypeOK, lockVars, requestVars
<1>3. RequestsKnown' /\ OneTurnPerKey' /\ AnswersRecorded'
  BY <1>1 DEF RecordInv, RecordSound, RequestsKnown, OneTurnPerKey, AnswersRecorded, Recorded,
              requestVars
<1>4. PrefixesReplay'
  BY <1>1 DEF RecordInv, ReadsArePast, PrefixesReplay
<1>5. ReadsArePast'
  BY <1>1 DEF ReadsArePast, NothingRead
<1> QED
  BY <1>1, <1>2, <1>3, <1>4, <1>5 DEF RecordInv, RecordSound

-----------------------------------------------------------------------------
(***************************************************************************)
(* After the archive: nobody is authorized, so the requests that are still *)
(* on their way are denied, and the record stays what it is.               *)
(***************************************************************************)
LEMMA SealedDenies ==
  ASSUME ArchiveInv, term = "archived", NEW c
  PROVE  /\ EarlyVerdict(c) = "denied" /\ RowVerdict(c) = "denied"
         /\ Refusal(c, "denied") \in Reply /\ Refusal(c, "denied").kind = "denied"
<1>1. ~Authorized(c)
  BY DEF ArchiveInv, Sealed, Authorized
<1> QED
  BY <1>1 DEF EarlyVerdict, RowVerdict, Refusal, Reply, ReplyKinds

\* Answers that are not acknowledgements need no record; the others keep theirs.
LEMMA AnswersStayRecorded ==
  ASSUME AnswersRecorded, UNCHANGED recordVars,
         \A q \in Requests :
           \/ pc'[q] \notin {"committed", "closing", "done"}
           \/ reply'[q].kind \notin {"ok", "duplicate"}
           \/ /\ pc[q] \in {"committed", "closing", "done"}
              /\ call'[q] = call[q] /\ reply'[q] = reply[q]
  PROVE  AnswersRecorded'
BY DEF AnswersRecorded, Recorded, recordVars

\* What a request may still do under an archived term.
Idles(r) == Arrive(r) \/ PreCheck(r) \/ TryLocal(r) \/ LockRow(r) \/ Close(r) \/ Finish(r)

LEMMA SealedRequest ==
  ASSUME RecordSound, ArchiveInv, term = "archived", NEW r \in Requests, Idles(r)
  PROVE  RecordSound' /\ UNCHANGED <<turns, state>>
<1> DEFINE c == call[r]
<1>1. UNCHANGED recordVars /\ access' = access
  BY DEF Idles, Arrive, PreCheck, TryLocal, LockRow, Close, Finish
<1>2. /\ TypeOK /\ AnswersRecorded /\ RequestsKnown
      /\ \A q \in Requests : reply[q] \in Reply
  BY DEF RecordSound, TypeOK
<1>3. pc[r] # "idle" => c \in Submissions /\ replica[r] \in Replicas
                        /\ LocalLock(r) \in Replicas \X Sessions /\ c.session \in Sessions
  BY <1>2, DataAssumption DEF RequestsKnown, LocalLock, Submission
<1>4. /\ Refusal(c, "denied") \in Reply /\ Refusal(c, "denied").kind = "denied"
      /\ EarlyVerdict(c) = "denied" /\ RowVerdict(c) = "denied"
      /\ Answer("busy") \in Reply /\ Answer("busy").kind = "busy"
  BY SealedDenies DEF Answer, Reply, ReplyKinds
<1>5. /\ TypeOK' /\ RequestsKnown' /\ AnswersRecorded'
  <2>1. CASE Arrive(r)
    <3>1. /\ TypeOK'
          /\ pc'[r] = "arrived" /\ call'[r] \in Submissions /\ replica'[r] \in Replicas
          /\ \A q \in Requests \ {r} :
               pc'[q] = pc[q] /\ call'[q] = call[q] /\ replica'[q] = replica[q]
          /\ UNCHANGED reply
      BY <1>1, <1>2, <2>1 DEF Arrive, TypeOK, recordVars, lockVars, PCs
    <3> QED
      BY <1>1, <1>2, <3>1, AnswersStayRecorded DEF RequestsKnown
  <2>2. CASE PreCheck(r)
    <3>1. /\ pc[r] # "idle" /\ pc' = [pc EXCEPT ![r] = "done"]
          /\ reply' = [reply EXCEPT ![r] = Refusal(c, "denied")]
          /\ UNCHANGED <<lockVars, call, replica, view>>
      BY <1>4, <2>2 DEF PreCheck
    <3>2. TypeOK'
      BY <1>1, <1>2, <1>4, <3>1 DEF TypeOK, recordVars, lockVars, PCs
    <3>3. \A q \in Requests : q # r => pc'[q] = pc[q] /\ reply'[q] = reply[q]
      BY <3>1
    <3>4. reply'[r].kind = "denied"
      BY <1>2, <1>4, <3>1 DEF TypeOK
    <3>5. AnswersRecorded'
      BY <1>1, <1>2, <3>1, <3>3, <3>4, AnswersStayRecorded DEF RequestsKnown
    <3>6. RequestsKnown'
      BY <1>2, <3>1, <3>3 DEF RequestsKnown
    <3> QED
      BY <3>2, <3>5, <3>6
  <2>3. CASE TryLocal(r)
    <3>1. /\ pc[r] = "checked" /\ UNCHANGED <<rowLock, snapLock, call, replica, view>>
          /\ \/ /\ localLock' = [localLock EXCEPT ![LocalLock(r)] = r]
                /\ pc' = [pc EXCEPT ![r] = "waiting"] /\ UNCHANGED reply
             \/ /\ pc' = [pc EXCEPT ![r] = "done"]
                /\ reply' = [reply EXCEPT ![r] = Answer("busy")] /\ UNCHANGED localLock
      BY <2>3 DEF TryLocal
    <3>2. /\ pc' \in [Requests -> PCs] /\ reply' \in [Requests -> Reply]
          /\ localLock' \in [Replicas \X Sessions -> Requests \cup {None}]
      BY <1>2, <1>3, <1>4, <3>1 DEF TypeOK, PCs
    <3>3. TypeOK'
      BY <1>1, <1>2, <3>1, <3>2 DEF TypeOK, recordVars
    <3>4. /\ \A q \in Requests : q # r => pc'[q] = pc[q] /\ reply'[q] = reply[q]
          /\ pc'[r] = "waiting" \/ reply'[r].kind = "busy"
      BY <1>2, <1>4, <3>1 DEF TypeOK
    <3>5. AnswersRecorded'
      BY <1>1, <1>2, <3>1, <3>4, AnswersStayRecorded
    <3>6. RequestsKnown'
      BY <1>2, <3>1, <3>4 DEF RequestsKnown
    <3> QED
      BY <3>3, <3>5, <3>6
  <2>4. CASE LockRow(r)
    <3>1. /\ pc[r] = "waiting" /\ UNCHANGED <<snapLock, call, replica, view>>
          /\ rowLock' = [rowLock EXCEPT ![c.session] = r]
          /\ pc' = [pc EXCEPT ![r] = "closing"]
          /\ reply' = [reply EXCEPT ![r] = Refusal(c, "denied")]
          /\ localLock' = [localLock EXCEPT ![LocalLock(r)] = None]
      BY <1>4, <2>4 DEF LockRow, Refuse
    <3>2. /\ pc' \in [Requests -> PCs] /\ reply' \in [Requests -> Reply]
          /\ localLock' \in [Replicas \X Sessions -> Requests \cup {None}]
          /\ rowLock' \in [Sessions -> Requests \cup {None}]
      BY <1>2, <1>3, <1>4, <3>1 DEF TypeOK, PCs
    <3>3. TypeOK'
      BY <1>1, <1>2, <3>1, <3>2 DEF TypeOK, recordVars
    <3>4. /\ \A q \in Requests : q # r => pc'[q] = pc[q] /\ reply'[q] = reply[q]
          /\ reply'[r].kind = "denied"
      BY <1>2, <1>4, <3>1 DEF TypeOK
    <3>5. AnswersRecorded'
      BY <1>1, <1>2, <3>1, <3>4, AnswersStayRecorded
    <3>6. RequestsKnown'
      BY <1>2, <3>1, <3>4 DEF RequestsKnown
    <3> QED
      BY <3>3, <3>5, <3>6
  <2>5. CASE Close(r) \/ Finish(r)
    <3>1. /\ pc[r] \in {"closing", "committed"} /\ UNCHANGED <<call, replica, view, reply>>
          /\ pc' = [pc EXCEPT ![r] = "done"]
          /\ UNCHANGED localLock \/ localLock' = [localLock EXCEPT ![LocalLock(r)] = None]
          /\ ReleaseRows(r) \/ UNCHANGED <<rowLock, snapLock>>
      BY <2>5 DEF Close, Finish
    <3>2. /\ pc' \in [Requests -> PCs]
          /\ localLock' \in [Replicas \X Sessions -> Requests \cup {None}]
          /\ rowLock' \in [Sessions -> Requests \cup {None}] /\ snapLock' \in Requests \cup {None}
      BY <1>2, <1>3, <3>1 DEF TypeOK, PCs, ReleaseRows
    <3>3. TypeOK'
      BY <1>1, <1>2, <3>1, <3>2 DEF TypeOK, recordVars
    <3>4. \A q \in Requests : q # r => pc'[q] = pc[q]
      BY <3>1
    <3>5. AnswersRecorded'
      BY <1>1, <1>2, <3>1, <3>4, AnswersStayRecorded
    <3>6. RequestsKnown'
      BY <1>2, <3>1, <3>4 DEF RequestsKnown
    <3> QED
      BY <3>3, <3>5, <3>6
  <2> QED
    BY <2>1, <2>2, <2>3, <2>4, <2>5 DEF Idles
<1> QED
  BY <1>1, <1>5 DEF RecordSound, OneTurnPerKey, recordVars

LEMMA SealedCrash ==
  ASSUME RecordSound, NEW p \in Replicas, Crash(p)
  PROVE  RecordSound' /\ UNCHANGED <<turns, state>>
<1>1. UNCHANGED recordVars /\ UNCHANGED <<access, call, replica, reply>>
  BY DEF Crash
<1>2. TypeOK'
  <2>1. NoView \in View
    BY DataAssumption DEF NoView, View, OpeningState, ChallengeState, Payloads
  <2>2. /\ localLock' \in [Replicas \X Sessions -> Requests \cup {None}]
        /\ pc' \in [Requests -> PCs] /\ view' \in [Requests -> View]
        /\ rowLock' \in [Sessions -> Requests \cup {None}]
        /\ snapLock' \in Requests \cup {None}
    BY <2>1 DEF Crash, RecordSound, TypeOK, PCs
  <2> QED
    BY <1>1, <2>2 DEF RecordSound, TypeOK, recordVars
<1>3. \A q \in Requests : pc'[q] = pc[q] \/ (pc'[q] = "lost" /\ pc[q] # "idle")
  BY DEF Crash, InFlight
<1>4. RequestsKnown'
  BY <1>1, <1>3 DEF RecordSound, RequestsKnown
<1>5. AnswersRecorded'
  BY <1>1, <1>3, AnswersStayRecorded DEF RecordSound
<1> QED
  BY <1>1, <1>2, <1>4, <1>5 DEF RecordSound, OneTurnPerKey, recordVars

\* Nothing but denials happens under an archived term.
LEMMA SealedSteps ==
  ASSUME ArchiveInv, term = "archived", [ArchiveNext]_allVars
  PROVE  /\ UNCHANGED archiveVars
         /\ \/ \E r \in Requests : Idles(r)
            \/ \E p \in Replicas : Crash(p)
            \/ UNCHANGED vars
<1>1. \A r \in Requests : pc[r] # "working" /\ pc[r] # "snapWait"
  BY DEF ArchiveInv, Sealed, Checked
<1>2. \A r \in Requests : ~CommitStep(r) /\ ~LockSnapshot(r) /\ ~Abort(r)
  BY <1>1 DEF CommitStep, RespondCommit, ClarifyCommit, CoachCommit, DisputeCommit,
              DispositionCommit, PositionCommit, CompleteCommit, Working, LockSnapshot, Abort
<1>3. archive # "flushing"
  BY DEF ArchiveInv, FlushCovers
<1>4. ~ArchiveStep /\ ~ArchiveCrash /\ ~AccessStep
  BY <1>3 DEF ArchiveStep, ArchiveRead, ArchiveLock, ArchiveCommit, ArchiveCrash, AccessStep
<1> QED
  BY <1>2, <1>4 DEF ArchiveNext, RoomStep, Idles, allVars

LEMMA SealedKeepsRecord ==
  ASSUME RecordInv, ArchiveInv, term = "archived", [ArchiveNext]_allVars
  PROVE  RecordInv'
<1>1. UNCHANGED archiveVars
  BY SealedSteps
<1>2. RecordSound' /\ UNCHANGED <<turns, state>>
  <2>1. CASE UNCHANGED vars
    BY <2>1 DEF vars, recordVars, lockVars, requestVars, RecordInv, RecordSound, TypeOK,
                RequestsKnown, OneTurnPerKey, AnswersRecorded, Recorded
  <2> QED
    BY <2>1, SealedSteps, SealedRequest, SealedCrash DEF RecordInv
<1> QED
  BY <1>1, <1>2 DEF RecordInv, ReadsArePast, PrefixesReplay, archiveVars

LEMMA ArchiveKeepsRecordInv ==
  ASSUME RecordInv, ArchiveInv, [ArchiveNext]_allVars
  PROVE  RecordInv'
<1>1. CASE term = "archived"
  BY <1>1, SealedKeepsRecord
<1>2. CASE term = "active"
  <2>1. ASSUME NEW r \in Requests, Arrive(r) \/ RoomStep(r) \/ Abort(r), UNCHANGED archiveVars
        PROVE  RecordInv'
    <3>1. [Next]_vars
      BY <2>1 DEF RoomStep, Next, HandlerStep
    <3> QED
      BY <1>2, <2>1, <3>1, RoomKeepsRecord DEF archiveVars
  <2>2. ASSUME AccessStep \/ \E p \in Replicas : Crash(p), UNCHANGED archiveVars
        PROVE  RecordInv'
    <3>1. [Next]_vars
      BY <2>2 DEF AccessStep, Next
    <3> QED
      BY <1>2, <2>2, <3>1, RoomKeepsRecord DEF archiveVars
  <2>3. ASSUME NEW s \in Sessions, ArchiveLock(s) PROVE RecordInv'
    <3>1. [Next]_vars /\ UNCHANGED <<term, archived>>
      BY <2>3 DEF ArchiveLock
    <3> QED
      BY <1>2, <3>1, RoomKeepsRecord
  <2>4. ASSUME ArchiveCrash PROVE RecordInv'
    <3>1. UNCHANGED vars /\ term' = term /\ archived' = NothingRead
      BY <2>4 DEF ArchiveCrash
    <3>2. [Next]_vars
      BY <3>1
    <3>3. RoomInv' /\ ReplayInv'
      BY <1>2, <3>2, NextKeeps, NextReplays DEF RecordInv
    <3>4. RecordSound'
      BY <3>3 DEF RecordSound, RoomInv, TranscriptsSound
    <3>5. PrefixesReplay'
      BY <3>1 DEF RecordInv, PrefixesReplay, vars, recordVars
    <3>6. ReadsArePast'
      BY <3>1 DEF ReadsArePast, NothingRead
    <3> QED
      BY <3>3, <3>4, <3>5, <3>6 DEF RecordInv
  <2>5. CASE UNCHANGED allVars
    <3>1. [Next]_vars /\ UNCHANGED <<term, archived>>
      BY <2>5 DEF allVars, archiveVars
    <3> QED
      BY <1>2, <3>1, RoomKeepsRecord
  <2> QED
    BY <2>1, <2>2, <2>3, <2>4, <2>5, ReadKeepsRecord, CommitKeepsRecord DEF ArchiveNext, ArchiveStep
<1> QED
  BY <1>1, <1>2 DEF ArchiveInv, Shapes

\* Together with ArchiveInv the record keeps its invariant.
THEOREM ArchiveRecordInvariant == ArchiveSpec => [](ArchiveInv /\ RecordInv)
<1>1. ArchiveInit => RecordInv
  BY RecordInitHolds
<1>2. RecordInv /\ ArchiveInv /\ [ArchiveNext]_allVars => RecordInv'
  BY ArchiveKeepsRecordInv
<1> QED
  BY <1>1, <1>2, ArchiveInvariant, PTL DEF ArchiveSpec

\* The archiving transaction and what it has read are well formed.
THEOREM ArchiveTypeCorrect == ArchiveSpec => []ArchiveTypeOK
<1>1. ArchiveInv /\ RecordInv => ArchiveTypeOK
  BY DEF ArchiveInv, Shapes, RecordInv, ReadsArePast, ArchiveTypeOK
<1> QED
  BY <1>1, ArchiveRecordInvariant, PTL

\* A stored document is always a replay of the turns it counts: what the
\* archive may lose of it is its end.
THEOREM ArchiveLosesOnlyTheEnd == ArchiveSpec => []DocumentsReplayAPrefix
<1>1. RecordInv => DocumentsReplayAPrefix
  BY DEF RecordInv, PrefixesReplay, Upto, Replay, Counted, Count, Said, Recommended,
         DocumentsReplayAPrefix, Repeats
<1> QED
  BY <1>1, ArchiveRecordInvariant, PTL

\* Request keys stay unique and acknowledged answers stored, also when the term
\* of their review is archived.
THEOREM ArchiveKeepsAnswers == ArchiveSpec => [](OneTurnPerKey /\ AnswersAreStored)
<1>1. RecordInv => OneTurnPerKey /\ AnswersAreStored
  BY DEF RecordInv, RecordSound, AnswersRecorded, AnswersAreStored, Delivered
<1> QED
  BY <1>1, ArchiveRecordInvariant, PTL

\* A step during which the term does not end is one of AtomicReview's or leaves
\* the record alone.
AtomicUnlessArchiving == term' = term => [Abs!Next]_(Abs!recordVars)

\* The archiving transaction is invisible until it commits: apart from that one
\* step the reviews of a term change as AtomicReview allows.
THEOREM OnlyTheCommitArchives == ArchiveSpec => [][AtomicUnlessArchiving]_allVars
<1>1. ASSUME ArchiveInv, RecordInv, [ArchiveNext]_allVars PROVE [AtomicUnlessArchiving]_allVars
  <2> SUFFICES ASSUME term' = term PROVE [Abs!Next]_(Abs!recordVars)
    BY DEF AtomicUnlessArchiving
  <2>1. CASE \E r \in Requests : CommitStep(r)
    <3>1. PICK r \in Requests : CommitStep(r)
      BY <2>1
    <3>2. pc[r] \in Checked
      BY <3>1 DEF CommitStep, RespondCommit, ClarifyCommit, CoachCommit, DisputeCommit,
                  DispositionCommit, PositionCommit, CompleteCommit, Working, Checked
    <3>3. RoomInv
      BY <1>1, <3>2, CheckedHoldsRow DEF RecordInv
    <3> QED
      BY <3>1, <3>3, CommitRefines
  <2>2. CASE \A r \in Requests : ~CommitStep(r)
    <3>1. ~ArchiveCommit
      BY <1>1 DEF ArchiveCommit, ArchiveInv, FlushCovers
    <3>2. UNCHANGED recordVars
      BY <1>1, <2>2, <3>1
      DEF ArchiveNext, RoomStep, ArchiveStep, ArchiveRead, ArchiveLock, ArchiveCrash,
          AccessStep, allVars, vars, Arrive, PreCheck, TryLocal, LockRow, LockSnapshot,
          Abort, Close, Finish, Crash, ChangeAccess
    <3> QED
      BY <3>2 DEF recordVars, Abs!recordVars
  <2> QED
    BY <2>1, <2>2
<1> QED
  BY <1>1, ArchiveRecordInvariant, PTL DEF ArchiveSpec

-----------------------------------------------------------------------------
(***************************************************************************)
(* The locks under archiving.  The archive takes rows in any order and     *)
(* keeps them to its commit, but holders of a row never ask for another.   *)
(***************************************************************************)

LEMMA RecordTypesLocks ==
  ASSUME ArchiveInv, RecordInv
  PROVE  LocksTyped
BY DEF ArchiveInv, HandlersHold, RecordInv, RecordSound, LocksTyped, RowsOwned

LEMMA ArchiveKeepsLocks ==
  ASSUME ArchiveInv, RecordInv, LocksLive, [ArchiveNext]_allVars
  PROVE  LocksLive'
<1>1. CASE ArchiveCommit
  BY <1>1 DEF ArchiveCommit, lockVars, requestVars, LocksLive, RowsLive, SnapshotLive, LocalsLive,
              LocalsOwned, LocalLock
<1>2. CASE ~ArchiveCommit
  <2>1. [Next]_vars
    BY <1>2 DEF ArchiveNext, ArchiveStep, ArchiveRead, ArchiveLock, ArchiveCrash, AccessStep,
                RoomStep, Next, HandlerStep, allVars
  <2> QED
    BY <2>1, RecordTypesLocks, NextKeepsLocks
<1> QED
  BY <1>1, <1>2

\* Also while a term is archived, and after, every lock of a handler is held by
\* a live request that will give it up.
THEOREM ArchiveLeaksNoLock == ArchiveSpec => []LocksLive
<1>1. ArchiveInit => LocksLive
  BY InitLocks DEF ArchiveInit
<1>2. ArchiveInv /\ RecordInv /\ LocksLive /\ [ArchiveNext]_allVars => LocksLive'
  BY ArchiveKeepsLocks
<1> QED
  BY <1>1, <1>2, ArchiveRecordInvariant, PTL DEF ArchiveSpec

\* The archive waits for no row, or only for rows whose holder goes on.
ArchiveMoves ==
  /\ archive = "flushing"
  /\ \A s \in DOMAIN archived \ archiveLocks : rowLock[s] = None \/ RowMoves(s)

\* A handler that waits for a row of the archive waits for a transaction that
\* goes on, one that waits for another handler's for a handler that does.
ArchiveWaitsEnd ==
  /\ WaitsEnd
  /\ archive = "flushing" => ArchiveMoves
  /\ \A r \in Requests :
       pc[r] = "waiting" /\ call[r].session \in archiveLocks =>
         rowLock[call[r].session] = None /\ ArchiveMoves

\* The archiving transaction and the handlers do not deadlock over the rows of
\* the reviews, in whatever order its UPDATEs take them.
THEOREM ArchiveAndHandlersDoNotDeadlock == ArchiveSpec => []ArchiveWaitsEnd
<1>1. ASSUME ArchiveInv, RecordInv, LocksLive PROVE ArchiveWaitsEnd
  <2>1. WaitsEnd
    BY <1>1, LiveLocksMove DEF RecordInv, RecordSound
  <2>2. archive = "flushing" => ArchiveMoves
    BY <1>1, <2>1 DEF WaitsEnd, ArchiveMoves, ArchiveInv, Shapes
  <2>3. \A s \in archiveLocks : rowLock[s] = None /\ archive = "flushing"
    BY <1>1 DEF ArchiveInv, LocksExclude
  <2> QED
    BY <2>1, <2>2, <2>3 DEF ArchiveWaitsEnd
<1> QED
  BY <1>1, ArchiveRecordInvariant, ArchiveLeaksNoLock, PTL

=============================================================================
