--------------------------- MODULE ReviewRoomProofs ---------------------------
(***************************************************************************)
(* The Review Room is correct for every set of sessions, requests,         *)
(* replicas and submissions.  The invariant that carries the proofs says   *)
(* that a handler past its row lock owns the session row (RowsOwned), that *)
(* what it read is still what the database holds (ViewsCurrent), and that  *)
(* the checks it made still hold (StillPermitted).  It is then a short     *)
(* step to see that each commit is a step of AtomicReview.                 *)
(***************************************************************************)
EXTENDS ReviewRoom, TLAPS

\* A request past "idle" has content and runs in a replica.
RequestsKnown ==
  \A r \in Requests : pc[r] # "idle" => call[r] \in Submissions /\ replica[r] \in Replicas

\* A handler past LockRow holds the row lock of its session.
RowsOwned == \A r \in Requests : pc[r] \in HoldsRow => rowLock[call[r].session] = r

\* What a handler read under its locks is still there.
ViewsCurrent ==
  \A r \in Requests : pc[r] = "working" =>
    LET s == call[r].session IN
    /\ view[r].doc = state[s]
    /\ view[r].next = state[s].turnCount + 1

\* The conditions AtomicReview puts on an operation.
Permitted(c) ==
  LET s == c.session IN
  /\ status[s] = "active"
  /\ c.op \in KeyedOps => RowsWithKey(turns[s], c.key) = {}
  /\ ~Unacceptable(c)
  /\ c.op = "commit" => state[s].ready /\ state[s].position \notin {None, state[s].committed}

\* The checks a handler made under its locks still hold.
StillPermitted ==
  \A r \in Requests :
    /\ pc[r] = "working" => Permitted(call[r])
    /\ pc[r] = "snapWait" => Active(call[r]) /\ call[r].op \in SnapshotOps

OpeningTurnStored == \A s \in Sessions : state[s].turnCount >= 1

\* Request keys are on student turns, and the turn after a student turn is the
\* reviewer's answer to it: the two rows _idempotent_result pairs up.
ExchangesAdjacent ==
  \A s \in Sessions : \A t \in turns[s] :
    /\ t.key # None => t.actor = "student"
    /\ t.actor = "student" => ReviewerTurn(t.seq + 1, t.op) \in turns[s]

\* An answer that was decided on is stored, whether it was delivered or not.
AnswersRecorded ==
  \A r \in Requests :
    /\ pc[r] \in {"committed", "closing", "done"}
    /\ reply[r].kind \in {"ok", "duplicate"}
    /\ call[r].op \in KeyedOps
    => Recorded(call[r], reply[r].turn)

\* The transcript of every session is well formed.
TranscriptsSound ==
  OpeningTurnStored /\ TranscriptDense /\ OneTurnPerKey /\ ExchangesAdjacent

RoomInv ==
  /\ TypeOK /\ RequestsKnown /\ RowsOwned /\ ViewsCurrent /\ StillPermitted
  /\ AnswersRecorded /\ TranscriptsSound

-----------------------------------------------------------------------------
(***************************************************************************)
(* Lemmas about the data.                                                  *)
(***************************************************************************)

\* The largest of 1 .. n is n.
LEMMA MaxOfRange ==
  ASSUME NEW n \in Nat, n >= 1
  PROVE  Max(1 .. n) = n
<1> DEFINE Top(x) == x \in 1 .. n /\ \A y \in 1 .. n : x >= y
<1>1. Top(n)
  OBVIOUS
<1>2. \A x : Top(x) => x = n
  OBVIOUS
<1>3. Max(1 .. n) = CHOOSE x : Top(x)
  BY DEF Max
<1> HIDE DEF Top
<1> QED
  BY <1>1, <1>2, <1>3

\* Numbering continues after turn_count while the transcript is dense.
LEMMA NextIsTurnCount ==
  ASSUME RoomInv, NEW s \in Sessions
  PROVE  /\ NextSequence(turns[s]) = state[s].turnCount + 1
         /\ NextSequence(turns[s]) \in Nat
<1>1. state[s].turnCount \in Nat /\ state[s].turnCount >= 1
  BY DEF RoomInv, TypeOK, ChallengeState, TranscriptsSound, OpeningTurnStored
<1>2. {t.seq : t \in turns[s]} = 1 .. state[s].turnCount
  BY DEF RoomInv, TranscriptsSound, TranscriptDense
<1>3. Max({t.seq : t \in turns[s]}) = state[s].turnCount
  BY <1>1, <1>2, MaxOfRange
<1> QED
  BY <1>1, <1>3 DEF NextSequence

\* Two requests past LockRow work on different sessions.
LEMMA RowExclusive ==
  ASSUME RowsOwned, NEW q \in Requests, NEW r \in Requests, q # r,
         pc[q] \in HoldsRow, pc[r] \in HoldsRow
  PROVE  call[q].session # call[r].session
BY DEF RowsOwned

\* The stored record keeps its invariants while nobody writes it.
LEMMA QuietRecord ==
  ASSUME RoomInv, UNCHANGED recordVars
  PROVE  /\ TranscriptsSound'
         /\ \A c : Permitted(c)' <=> Permitted(c)
         /\ \A c : Active(c)' <=> Active(c)
         /\ \A c, n : Recorded(c, n)' <=> Recorded(c, n)
<1>1. TranscriptsSound'
  BY DEF RoomInv, recordVars, TranscriptsSound, OpeningTurnStored, TranscriptDense,
         OneTurnPerKey, ExchangesAdjacent
<1>2. \A c : Permitted(c)' <=> Permitted(c)
  BY DEF recordVars, Permitted
<1>3. \A c : Active(c)' <=> Active(c)
  BY DEF recordVars, Active
<1>4. \A c, n : Recorded(c, n)' <=> Recorded(c, n)
  BY DEF recordVars, Recorded
<1> QED
  BY <1>1, <1>2, <1>3, <1>4

\* The least of a set of turn numbers that follow n and include n + 1.
LEMMA MinAfter ==
  ASSUME NEW n \in Nat, NEW S \in SUBSET Nat, n + 1 \in S, \A x \in S : x > n
  PROVE  Min(S) = n + 1
<1> DEFINE Least(x) == x \in S /\ \A y \in S : x =< y
<1>1. Least(n + 1)
  OBVIOUS
<1>2. \A x : Least(x) => x = n + 1
  OBVIOUS
<1>3. Min(S) = CHOOSE x : Least(x)
  BY DEF Min
<1> HIDE DEF Least
<1> QED
  BY <1>1, <1>2, <1>3

\* A retry finds the reviewer turn stored with the student turn of its key.
LEMMA DuplicateIsRecorded ==
  ASSUME RoomInv, NEW c \in Submissions, c.op \in KeyedOps,
         KeyVerdict(turns[c.session], c) = "duplicate"
  PROVE  /\ AnswerSequence(turns[c.session], c.key) \in Nat
         /\ Recorded(c, AnswerSequence(turns[c.session], c.key))
<1> DEFINE rows == turns[c.session]
           later(t) == {u \in rows : u.actor = "reviewer" /\ u.seq > t.seq}
<1>1. c.session \in Sessions /\ rows \in SUBSET Turn
  BY DataAssumption DEF Submission, RoomInv, TypeOK
<1>2. PICK t \in rows : t.key = c.key /\ c.key # None /\ SameRequest(t, c)
  BY DEF KeyVerdict, RowsWithKey
<1>3. (CHOOSE u \in rows : u.key = c.key) = t
  BY <1>1, <1>2 DEF RoomInv, TranscriptsSound, OneTurnPerKey
<1>4. t \in Turn /\ t.seq \in Nat /\ t.op = c.op
  BY <1>1, <1>2 DEF Turn, SameRequest
<1>5. ReviewerTurn(t.seq + 1, c.op) \in rows
  BY <1>1, <1>2, <1>4 DEF RoomInv, TranscriptsSound, ExchangesAdjacent
<1>6. Min({u.seq : u \in later(t)}) = t.seq + 1
  <2>1. {u.seq : u \in later(t)} \in SUBSET Nat
    BY <1>1 DEF Turn
  <2>2. t.seq + 1 \in {u.seq : u \in later(t)}
    <3>1. ReviewerTurn(t.seq + 1, c.op) \in later(t)
      BY <1>4, <1>5 DEF ReviewerTurn
    <3> QED
      BY <3>1 DEF ReviewerTurn
  <2>3. \A x \in {u.seq : u \in later(t)} : x > t.seq
    OBVIOUS
  <2> HIDE DEF later
  <2> QED
    BY <1>4, <2>1, <2>2, <2>3, MinAfter
<1>7. AnswerSequence(rows, c.key) = t.seq + 1
  BY <1>3, <1>6 DEF AnswerSequence
<1> QED
  BY <1>2, <1>4, <1>5, <1>7 DEF Recorded

\* The refusals of the three check points are replies, and a duplicate among
\* them is the recorded answer.
LEMMA RefusalIsRecorded ==
  ASSUME RoomInv, NEW c \in Submissions,
         NEW v \in {EarlyVerdict(c), RowVerdict(c), SnapshotVerdict(c)}, v # "go"
  PROVE  /\ Refusal(c, v) \in Reply
         /\ Refusal(c, v).kind # "ok"
         /\ Refusal(c, v).kind = "duplicate" /\ c.op \in KeyedOps
              => Recorded(c, Refusal(c, v).turn)
<1>1. v \in {"denied", "inactive", "invalid", "duplicate", "conflict"}
  BY DEF EarlyVerdict, RowVerdict, SnapshotVerdict, CommitVerdict, KeyVerdict
<1>2. v = "duplicate" /\ c.op \in KeyedOps => KeyVerdict(turns[c.session], c) = "duplicate"
  BY DEF EarlyVerdict, RowVerdict, SnapshotVerdict, CommitVerdict, KeyVerdict, KeyedOps, TurnOps
<1>3. v = "duplicate" /\ c.op \in KeyedOps =>
        /\ AnswerSequence(turns[c.session], c.key) \in Nat
        /\ Recorded(c, AnswerSequence(turns[c.session], c.key))
  BY <1>2, DuplicateIsRecorded
<1> QED
  BY <1>1, <1>3 DEF Refusal, Reply, ReplyKinds

-----------------------------------------------------------------------------
(***************************************************************************)
(* The initial state, and one lemma per step of a handler.                 *)
(***************************************************************************)

LEMMA InitEstablishes == Init => RoomInv
<1> SUFFICES ASSUME Init PROVE RoomInv
  OBVIOUS
<1> USE DEF Init
<1>1. TypeOK
  <2>1. OpeningTurns \in SUBSET Turn
    BY DEF OpeningTurns, ReviewerTurn, Turn, Payloads
  <2>2. OpeningState \in ChallengeState
    BY DataAssumption DEF OpeningState, ChallengeState, Payloads
  <2>3. NoView \in View
    BY <2>2 DEF NoView, View
  <2>4. Answer("none") \in Reply
    BY DEF Answer, Reply, ReplyKinds
  <2> QED
    BY <2>1, <2>2, <2>3, <2>4 DEF TypeOK, ReviewStatuses, FindingStatuses, PCs
<1>2. RequestsKnown /\ RowsOwned /\ ViewsCurrent /\ StillPermitted /\ AnswersRecorded
  BY DEF AnswersRecorded, RequestsKnown, RowsOwned, ViewsCurrent, StillPermitted, HoldsRow
<1>3. OpeningTurnStored
  BY DEF OpeningTurnStored, OpeningState
<1>4. TranscriptDense
  <2>1. OpeningTurns = {ReviewerTurn(1, "start")} /\ ReviewerTurn(1, "start").seq = 1
    BY DEF OpeningTurns, ReviewerTurn
  <2>2. \A s \in Sessions : turns[s] = OpeningTurns /\ state[s].turnCount = 1
    BY DEF OpeningState
  <2>3. 1 .. 1 = {1}
    OBVIOUS
  <2> QED
    BY <2>1, <2>2, <2>3 DEF TranscriptDense
<1>5. OneTurnPerKey
  BY DEF OneTurnPerKey, OpeningTurns
<1>6. ExchangesAdjacent
  BY DEF ExchangesAdjacent, OpeningTurns, ReviewerTurn
<1> QED
  BY <1>1, <1>2, <1>3, <1>4, <1>5, <1>6 DEF RoomInv, TranscriptsSound

\* A new request touches nothing but its own record.
LEMMA ArriveKeeps ==
  ASSUME RoomInv, NEW r \in Requests, Arrive(r)
  PROVE  RoomInv'
<1>1. UNCHANGED recordVars
  BY DEF Arrive
<1>2. TypeOK'
  BY DEF Arrive, RoomInv, TypeOK, recordVars, lockVars, PCs
<1>3. RequestsKnown' /\ RowsOwned' /\ ViewsCurrent'
  BY <1>1 DEF Arrive, RoomInv, TypeOK, RequestsKnown, RowsOwned, ViewsCurrent, recordVars, lockVars, HoldsRow
<1>4. StillPermitted'
  BY <1>1, QuietRecord DEF Arrive, RoomInv, TypeOK, StillPermitted
<1>5. AnswersRecorded'
  BY <1>1, QuietRecord DEF Arrive, RoomInv, TypeOK, AnswersRecorded
<1> QED
  BY <1>1, <1>2, <1>3, <1>4, <1>5, QuietRecord DEF RoomInv

\* The first check answers retries from the stored transcript.
LEMMA PreCheckKeeps ==
  ASSUME RoomInv, NEW r \in Requests, PreCheck(r)
  PROVE  RoomInv'
<1>1. UNCHANGED recordVars
  BY DEF PreCheck
<1>2. TypeOK'
  <2>1. call[r] \in Submissions
    BY DEF PreCheck, RoomInv, RequestsKnown
  <2>2. reply' \in [Requests -> Reply]
    BY <2>1, RefusalIsRecorded DEF PreCheck, RoomInv, TypeOK
  <2> QED
    BY <2>2 DEF PreCheck, RoomInv, TypeOK, recordVars, lockVars, PCs
<1>3. RequestsKnown' /\ RowsOwned' /\ ViewsCurrent'
  BY <1>1 DEF PreCheck, RoomInv, TypeOK, RequestsKnown, RowsOwned, ViewsCurrent, recordVars, lockVars, HoldsRow
<1>4. StillPermitted'
  BY <1>1, QuietRecord DEF PreCheck, RoomInv, TypeOK, StillPermitted
<1>5. AnswersRecorded'
  <2>1. call[r] \in Submissions
    BY DEF PreCheck, RoomInv, RequestsKnown
  <2>2. pc'[r] = "done" => /\ reply'[r].kind = "duplicate" /\ call[r].op \in KeyedOps
                               => Recorded(call[r], reply'[r].turn)
                           /\ reply'[r].kind # "ok"
    BY <2>1, RefusalIsRecorded DEF PreCheck, RoomInv, TypeOK
  <2> QED
    BY <1>1, <2>2, QuietRecord DEF PreCheck, RoomInv, TypeOK, AnswersRecorded
<1> QED
  BY <1>1, <1>2, <1>3, <1>4, <1>5, QuietRecord DEF RoomInv

\* The process-local lock guards nothing the invariant speaks of.
LEMMA TryLocalKeeps ==
  ASSUME RoomInv, NEW r \in Requests, TryLocal(r)
  PROVE  RoomInv'
<1>1. UNCHANGED recordVars
  BY DEF TryLocal
<1>2. TypeOK'
  <2>1. LocalLock(r) \in Replicas \X Sessions
    BY DataAssumption DEF TryLocal, RoomInv, RequestsKnown, LocalLock, Submission
  <2>2. Answer("busy") \in Reply
    BY DEF Answer, Reply, ReplyKinds
  <2>3. /\ localLock' \in [Replicas \X Sessions -> Requests \cup {None}]
        /\ pc' \in [Requests -> PCs]
        /\ reply' \in [Requests -> Reply]
    BY <2>1, <2>2 DEF TryLocal, RoomInv, TypeOK, PCs
  <2> QED
    BY <1>1, <2>3 DEF TryLocal, RoomInv, TypeOK, recordVars
<1>3. RequestsKnown' /\ RowsOwned' /\ ViewsCurrent'
  BY <1>1 DEF TryLocal, RoomInv, TypeOK, RequestsKnown, RowsOwned, ViewsCurrent, recordVars, HoldsRow
<1>4. StillPermitted'
  BY <1>1, QuietRecord DEF TryLocal, RoomInv, TypeOK, StillPermitted
<1>5. AnswersRecorded'
  BY <1>1, QuietRecord DEF TryLocal, RoomInv, TypeOK, AnswersRecorded, Answer
<1> QED
  BY <1>1, <1>2, <1>3, <1>4, <1>5, QuietRecord DEF RoomInv

\* A refusal under the locks leaves a row lock owner that only has to close.
LEMMA RefuseTypes ==
  ASSUME RoomInv, NEW r \in Requests, pc[r] \in {"waiting", "snapWait"},
         NEW v \in {RowVerdict(call[r]), SnapshotVerdict(call[r])}, v # "go", Refuse(r, v)
  PROVE  /\ pc' \in [Requests -> PCs]
         /\ reply' \in [Requests -> Reply]
         /\ localLock' \in [Replicas \X Sessions -> Requests \cup {None}]
         /\ view' = view
         /\ reply'[r].kind # "ok"
         /\ reply'[r].kind = "duplicate" /\ call[r].op \in KeyedOps
              => Recorded(call[r], reply'[r].turn)
<1>1. call[r] \in Submissions /\ replica[r] \in Replicas
  BY DEF RoomInv, RequestsKnown
<1>2. LocalLock(r) \in Replicas \X Sessions
  BY <1>1, DataAssumption DEF LocalLock, Submission
<1>3. /\ Refusal(call[r], v) \in Reply
      /\ Refusal(call[r], v).kind # "ok"
      /\ Refusal(call[r], v).kind = "duplicate" /\ call[r].op \in KeyedOps
           => Recorded(call[r], Refusal(call[r], v).turn)
  BY <1>1, RefusalIsRecorded
<1> QED
  BY <1>2, <1>3 DEF Refuse, RoomInv, TypeOK, PCs

\* What a handler reads under its locks: a document and the next number.
LEMMA ReadTypes ==
  ASSUME RoomInv, NEW r \in Requests, call[r] \in Submissions, Read(r)
  PROVE  /\ view' \in [Requests -> View]
         /\ view'[r].doc = state[call[r].session]
         /\ view'[r].next = state[call[r].session].turnCount + 1
         /\ \A q \in Requests \ {r} : view'[q] = view[q]
<1>1. call[r].session \in Sessions
  BY DataAssumption DEF Submission
<1>2. /\ NextSequence(turns[call[r].session]) = state[call[r].session].turnCount + 1
      /\ NextSequence(turns[call[r].session]) \in Nat
  BY <1>1, NextIsTurnCount
<1> QED
  BY <1>1, <1>2 DEF Read, RoomInv, TypeOK, View

\* With the row lock granted no one else can be past it for that session.
LEMMA LockRowKeeps ==
  ASSUME RoomInv, NEW r \in Requests, LockRow(r)
  PROVE  RoomInv'
<1> DEFINE c == call[r]
           s == call[r].session
<1>1. UNCHANGED recordVars /\ UNCHANGED <<call, replica, access, snapLock>>
  BY DEF LockRow
<1>2. c \in Submissions /\ s \in Sessions /\ replica[r] \in Replicas
  BY DataAssumption DEF LockRow, RoomInv, RequestsKnown, Submission
<1>3. /\ rowLock' = [rowLock EXCEPT ![s] = r]
      /\ rowLock' \in [Sessions -> Requests \cup {None}]
      /\ rowLock'[s] = r
      /\ \A q \in Requests : q # r /\ pc[q] \in HoldsRow =>
           rowLock'[call[q].session] = q /\ call[q].session # s
  BY <1>2, RoomAssumption DEF LockRow, RoomInv, RowsOwned, TypeOK
<1>4. /\ pc' \in [Requests -> PCs]
      /\ \A q \in Requests \ {r} : pc'[q] = pc[q]
      /\ pc'[r] \in {"working", "snapWait", "closing"}
  BY DEF LockRow, Refuse, RoomInv, TypeOK, PCs
<1>5. /\ reply' \in [Requests -> Reply]
      /\ localLock' \in [Replicas \X Sessions -> Requests \cup {None}]
      /\ view' \in [Requests -> View]
      /\ \A q \in Requests \ {r} : view'[q] = view[q] /\ reply'[q] = reply[q]
  <2>1. CASE RowVerdict(c) # "go"
    BY <2>1, RefuseTypes DEF LockRow, Refuse, RoomInv, TypeOK
  <2>2. CASE RowVerdict(c) = "go"
    BY <1>2, <2>2, ReadTypes DEF LockRow, RoomInv, TypeOK
  <2> QED
    BY <2>1, <2>2
<1>6. TypeOK'
  BY <1>1, <1>3, <1>4, <1>5 DEF RoomInv, TypeOK, recordVars
<1>7. RequestsKnown' /\ RowsOwned'
  BY <1>1, <1>2, <1>3, <1>4 DEF RoomInv, RequestsKnown, RowsOwned, HoldsRow, LockRow
<1>8. ViewsCurrent'
  <2>1. pc'[r] = "working" => view'[r].doc = state[s] /\ view'[r].next = state[s].turnCount + 1
    BY <1>2, ReadTypes DEF LockRow, Refuse, RoomInv, TypeOK
  <2> QED
    BY <1>1, <1>4, <1>5, <2>1 DEF RoomInv, ViewsCurrent, recordVars
<1>9. StillPermitted'
  <2>1. pc'[r] = "working" => Permitted(c)
    <3>1. pc'[r] = "working" => RowVerdict(c) = "go" /\ c.op \notin SnapshotOps
      BY DEF LockRow, Refuse, RoomInv, TypeOK
    <3> QED
      BY <1>2, <3>1, DataAssumption
      DEF Permitted, RowVerdict, CommitVerdict, KeyVerdict, Active, Unacceptable, SnapshotOps,
          KeyedOps, TurnOps, Submission, Ops
  <2>2. pc'[r] = "snapWait" => Active(c) /\ c.op \in SnapshotOps
    BY DEF LockRow, Refuse, RoomInv, TypeOK, RowVerdict, SnapshotOps, Active
  <2> QED
    BY <1>1, <1>4, <2>1, <2>2, QuietRecord DEF RoomInv, StillPermitted
<1>10. AnswersRecorded'
  <2>1. pc'[r] = "closing" => /\ reply'[r].kind # "ok"
                              /\ reply'[r].kind = "duplicate" /\ c.op \in KeyedOps
                                   => Recorded(c, reply'[r].turn)
    BY RefuseTypes DEF LockRow, RoomInv, TypeOK
  <2> QED
    BY <1>1, <1>4, <1>5, <2>1, QuietRecord DEF RoomInv, AnswersRecorded
<1> QED
  BY <1>1, <1>6, <1>7, <1>8, <1>9, <1>10, QuietRecord DEF RoomInv

\* The session row is still held while the handler waits for the snapshot, so
\* the status it checked cannot have changed; the key is checked here.
LEMMA LockSnapshotKeeps ==
  ASSUME RoomInv, NEW r \in Requests, LockSnapshot(r)
  PROVE  RoomInv'
<1> DEFINE c == call[r]
           s == call[r].session
<1>1. UNCHANGED recordVars /\ UNCHANGED <<call, replica, access, rowLock>>
  BY DEF LockSnapshot
<1>2. c \in Submissions /\ s \in Sessions /\ replica[r] \in Replicas
  BY DataAssumption DEF LockSnapshot, RoomInv, RequestsKnown, Submission
<1>3. Active(c) /\ c.op \in SnapshotOps
  BY DEF LockSnapshot, RoomInv, StillPermitted
<1>4. /\ pc' \in [Requests -> PCs]
      /\ \A q \in Requests \ {r} : pc'[q] = pc[q]
      /\ pc'[r] \in {"working", "closing"}
  BY DEF LockSnapshot, Refuse, RoomInv, TypeOK, PCs
<1>5. /\ reply' \in [Requests -> Reply]
      /\ localLock' \in [Replicas \X Sessions -> Requests \cup {None}]
      /\ view' \in [Requests -> View]
      /\ \A q \in Requests \ {r} : view'[q] = view[q] /\ reply'[q] = reply[q]
  <2>1. CASE SnapshotVerdict(c) # "go"
    BY <2>1, RefuseTypes DEF LockSnapshot, Refuse, RoomInv, TypeOK
  <2>2. CASE SnapshotVerdict(c) = "go"
    BY <1>2, <2>2, ReadTypes DEF LockSnapshot, RoomInv, TypeOK
  <2> QED
    BY <2>1, <2>2
<1>6. TypeOK'
  BY <1>1, <1>4, <1>5 DEF LockSnapshot, RoomInv, TypeOK, recordVars
<1>7. RequestsKnown' /\ RowsOwned'
  BY <1>1, <1>2, <1>4 DEF LockSnapshot, RoomInv, RequestsKnown, RowsOwned, HoldsRow
<1>8. ViewsCurrent'
  <2>1. pc'[r] = "working" => view'[r].doc = state[s] /\ view'[r].next = state[s].turnCount + 1
    BY <1>2, ReadTypes DEF LockSnapshot, Refuse, RoomInv, TypeOK
  <2> QED
    BY <1>1, <1>4, <1>5, <2>1 DEF RoomInv, ViewsCurrent, recordVars
<1>9. StillPermitted'
  <2>1. pc'[r] = "working" => Permitted(c)
    <3>1. pc'[r] = "working" => SnapshotVerdict(c) = "go"
      BY DEF LockSnapshot, Refuse, RoomInv, TypeOK
    <3> QED
      BY <1>2, <1>3, <3>1, DataAssumption
      DEF Permitted, SnapshotVerdict, KeyVerdict, Active, SnapshotOps, KeyedOps, TurnOps,
          Submission, Ops
  <2> QED
    BY <1>1, <1>4, <2>1, QuietRecord DEF RoomInv, StillPermitted
<1>10. AnswersRecorded'
  <2>1. pc'[r] = "closing" => /\ reply'[r].kind # "ok"
                              /\ reply'[r].kind = "duplicate" /\ c.op \in KeyedOps
                                   => Recorded(c, reply'[r].turn)
    BY RefuseTypes DEF LockSnapshot, RoomInv, TypeOK
  <2> QED
    BY <1>1, <1>4, <1>5, <2>1, QuietRecord DEF RoomInv, AnswersRecorded
<1> QED
  BY <1>1, <1>6, <1>7, <1>8, <1>9, <1>10, QuietRecord DEF RoomInv

\* An aborted handler keeps its row locks until it closes.
LEMMA AbortKeeps ==
  ASSUME RoomInv, NEW r \in Requests, Abort(r)
  PROVE  RoomInv'
<1>1. UNCHANGED recordVars
  BY DEF Abort
<1>2. TypeOK'
  <2>1. LocalLock(r) \in Replicas \X Sessions
    BY DataAssumption DEF Abort, RoomInv, RequestsKnown, LocalLock, Submission
  <2>2. Answer("failed") \in Reply
    BY DEF Answer, Reply, ReplyKinds
  <2>3. NoView \in View
    BY DataAssumption DEF NoView, View, OpeningState, ChallengeState, Payloads
  <2>4. /\ localLock' \in [Replicas \X Sessions -> Requests \cup {None}]
        /\ pc' \in [Requests -> PCs]
        /\ reply' \in [Requests -> Reply]
        /\ view' \in [Requests -> View]
    BY <2>1, <2>2, <2>3 DEF Abort, RoomInv, TypeOK, PCs
  <2> QED
    BY <1>1, <2>4 DEF Abort, RoomInv, TypeOK, recordVars
<1>3. RequestsKnown' /\ RowsOwned' /\ ViewsCurrent'
  BY <1>1 DEF Abort, RoomInv, TypeOK, RequestsKnown, RowsOwned, ViewsCurrent, recordVars, HoldsRow
<1>4. StillPermitted'
  BY <1>1, QuietRecord DEF Abort, RoomInv, TypeOK, StillPermitted
<1>5. AnswersRecorded'
  BY <1>1, QuietRecord DEF Abort, RoomInv, TypeOK, AnswersRecorded, Answer
<1> QED
  BY <1>1, <1>2, <1>3, <1>4, <1>5, QuietRecord DEF RoomInv

\* Closing gives up no one else's locks.
LEMMA CloseKeeps ==
  ASSUME RoomInv, NEW r \in Requests, Close(r)
  PROVE  RoomInv'
<1>1. UNCHANGED recordVars
  BY DEF Close
<1>2. TypeOK'
  BY <1>1 DEF Close, ReleaseRows, RoomInv, TypeOK, recordVars, PCs
<1>3. RequestsKnown' /\ RowsOwned' /\ ViewsCurrent'
  BY <1>1, DataAssumption DEF Close, ReleaseRows, RoomInv, TypeOK, RequestsKnown, RowsOwned,
     ViewsCurrent, recordVars, HoldsRow, Submission
<1>4. StillPermitted'
  BY <1>1, QuietRecord DEF Close, RoomInv, TypeOK, StillPermitted
<1>5. AnswersRecorded'
  BY <1>1, QuietRecord DEF Close, RoomInv, TypeOK, AnswersRecorded
<1> QED
  BY <1>1, <1>2, <1>3, <1>4, <1>5, QuietRecord DEF RoomInv

\* Answering after the commit changes nothing that is stored.
LEMMA FinishKeeps ==
  ASSUME RoomInv, NEW r \in Requests, Finish(r)
  PROVE  RoomInv'
<1>1. UNCHANGED recordVars
  BY DEF Finish
<1>2. TypeOK'
  <2>1. LocalLock(r) \in Replicas \X Sessions
    BY DataAssumption DEF Finish, RoomInv, RequestsKnown, LocalLock, Submission
  <2> QED
    BY <1>1, <2>1 DEF Finish, RoomInv, TypeOK, recordVars, PCs
<1>3. RequestsKnown' /\ RowsOwned' /\ ViewsCurrent'
  BY <1>1 DEF Finish, RoomInv, TypeOK, RequestsKnown, RowsOwned, ViewsCurrent, recordVars, HoldsRow
<1>4. StillPermitted'
  BY <1>1, QuietRecord DEF Finish, RoomInv, TypeOK, StillPermitted
<1>5. AnswersRecorded'
  BY <1>1, QuietRecord DEF Finish, RoomInv, TypeOK, AnswersRecorded
<1> QED
  BY <1>1, <1>2, <1>3, <1>4, <1>5, QuietRecord DEF RoomInv

\* A crash frees only the locks of requests that are lost with it.
LEMMA CrashKeeps ==
  ASSUME RoomInv, NEW p \in Replicas, Crash(p)
  PROVE  RoomInv'
<1> DEFINE dead == {r \in Requests : replica[r] = p /\ pc[r] \in InFlight}
<1>1. UNCHANGED recordVars /\ UNCHANGED <<call, replica, access, reply>>
  BY DEF Crash
<1>2. TypeOK'
  <2>1. NoView \in View
    BY DataAssumption DEF NoView, View, OpeningState, ChallengeState, Payloads
  <2>2. /\ localLock' \in [Replicas \X Sessions -> Requests \cup {None}]
        /\ pc' \in [Requests -> PCs]
        /\ view' \in [Requests -> View]
        /\ rowLock' \in [Sessions -> Requests \cup {None}]
        /\ snapLock' \in Requests \cup {None}
    BY <2>1 DEF Crash, RoomInv, TypeOK, PCs
  <2> QED
    BY <1>1, <2>2 DEF RoomInv, TypeOK, recordVars
<1>3. \A r \in Requests :
        /\ pc'[r] = IF r \in dead THEN "lost" ELSE pc[r]
        /\ r \notin dead => view'[r] = view[r]
  BY DEF Crash
<1>4. RequestsKnown' /\ ViewsCurrent'
  <2> HIDE DEF dead
  <2>1. ViewsCurrent'
    BY <1>1, <1>3 DEF RoomInv, ViewsCurrent, recordVars
  <2>2. RequestsKnown'
    BY <1>1, <1>3 DEF RoomInv, RequestsKnown, dead, InFlight, PCs
  <2> QED
    BY <2>1, <2>2
<1>5. RowsOwned'
  <2> SUFFICES ASSUME NEW r \in Requests, pc'[r] \in HoldsRow
               PROVE  rowLock'[call[r].session] = r
    BY <1>1 DEF RowsOwned
  <2>1. r \notin dead /\ pc[r] \in HoldsRow
    BY <1>3 DEF HoldsRow
  <2>2. call[r].session \in Sessions /\ rowLock[call[r].session] = r
    BY <2>1, DataAssumption DEF RoomInv, RequestsKnown, RowsOwned, HoldsRow, Submission
  <2> QED
    BY <2>1, <2>2 DEF Crash
<1>6. StillPermitted'
  <2> HIDE DEF dead
  <2> QED
    BY <1>1, <1>3, QuietRecord DEF RoomInv, StillPermitted
<1>7. AnswersRecorded'
  <2> HIDE DEF dead
  <2> QED
    BY <1>1, <1>3, QuietRecord DEF RoomInv, AnswersRecorded
<1> QED
  BY <1>1, <1>2, <1>4, <1>5, <1>6, <1>7, QuietRecord DEF RoomInv

\* A change of authorization is only seen by later checks.
LEMMA ChangeAccessKeeps ==
  ASSUME RoomInv, ChangeAccess
  PROVE  RoomInv'
<1>1. UNCHANGED recordVars
  BY DEF ChangeAccess
<1>2. TypeOK'
  BY <1>1, RoomAssumption DEF ChangeAccess, RoomInv, TypeOK, recordVars, lockVars, requestVars
<1>3. RequestsKnown' /\ RowsOwned' /\ ViewsCurrent'
  BY <1>1 DEF ChangeAccess, RoomInv, RequestsKnown, RowsOwned, ViewsCurrent, recordVars, lockVars,
     requestVars
<1>4. StillPermitted'
  BY <1>1, QuietRecord DEF ChangeAccess, RoomInv, StillPermitted, requestVars
<1>5. AnswersRecorded'
  BY <1>1, QuietRecord DEF ChangeAccess, RoomInv, AnswersRecorded, requestVars
<1> QED
  BY <1>1, <1>2, <1>3, <1>4, <1>5, QuietRecord DEF RoomInv

-----------------------------------------------------------------------------
(***************************************************************************)
(* The transactions.                                                       *)
(***************************************************************************)

\* What a working request knows.
LEMMA WorkingFacts ==
  ASSUME RoomInv, NEW r \in Requests, pc[r] = "working"
  PROVE  /\ call[r] \in Submissions /\ call[r] \in Submission
         /\ call[r].session \in Sessions
         /\ replica[r] \in Replicas
         /\ Permitted(call[r])
         /\ view[r].doc = state[call[r].session]
         /\ view[r].next = NextSequence(turns[call[r].session])
         /\ view[r].next = state[call[r].session].turnCount + 1
         /\ view[r].next \in Nat
<1>1. call[r] \in Submissions /\ replica[r] \in Replicas
  BY DEF RoomInv, RequestsKnown
<1>2. call[r] \in Submission /\ call[r].session \in Sessions
  BY <1>1, DataAssumption DEF Submission
<1>3. Permitted(call[r]) /\ view[r].doc = state[call[r].session]
      /\ view[r].next = state[call[r].session].turnCount + 1
  BY DEF RoomInv, ViewsCurrent, StillPermitted
<1> QED
  BY <1>1, <1>2, <1>3, NextIsTurnCount

\* A student turn and its answer extend a sound transcript to a sound one.
LEMMA ExchangeSound ==
  ASSUME RoomInv, NEW c \in Submission, NEW ready \in BOOLEAN, NEW n \in Nat,
         c.session \in Sessions, RowsWithKey(turns[c.session], c.key) = {},
         n = state[c.session].turnCount + 1,
         turns' = [turns EXCEPT ![c.session] = @ \cup Exchange(n, c, ready)],
         state'[c.session].turnCount = state[c.session].turnCount + 2,
         \A x \in Sessions \ {c.session} : state'[x] = state[x]
  PROVE  /\ TranscriptsSound'
         /\ turns' \in [Sessions -> SUBSET Turn]
         /\ Recorded(c, n + 1)'
<1> DEFINE s == c.session
           asked == StudentTurn(n, c, ready)
           answer == ReviewerTurn(n + 1, c.op)
<1>1. s \in Sessions /\ n - 1 = state[s].turnCount /\ n >= 2
  <2>1. state[s].turnCount \in Nat /\ state[s].turnCount >= 1
    BY DEF RoomInv, TypeOK, ChallengeState, TranscriptsSound, OpeningTurnStored
  <2> QED
    BY <2>1
<1>2. /\ asked \in Turn /\ answer \in Turn
      /\ asked.seq = n /\ asked.actor = "student" /\ asked.key = c.key
      /\ asked.op = c.op /\ asked.said = c.said /\ asked.finding = c.finding
      /\ answer.seq = n + 1 /\ answer.actor = "reviewer" /\ answer.key = None
  BY <1>1 DEF StudentTurn, ReviewerTurn, Turn, Submission, Payloads
<1>3. /\ turns'[s] = turns[s] \cup {asked, answer}
      /\ \A x \in Sessions \ {s} : turns'[x] = turns[x]
      /\ turns[s] \in SUBSET Turn
  <2>1. Exchange(n, c, ready) = {asked, answer}
    BY DEF Exchange
  <2> QED
    BY <1>1, <2>1 DEF RoomInv, TypeOK
<1>4. turns' \in [Sessions -> SUBSET Turn]
  BY <1>1, <1>2, <1>3 DEF RoomInv, TypeOK, Exchange
<1>5. answer = ReviewerTurn(asked.seq + 1, asked.op)
  BY <1>2
<1> HIDE DEF asked, answer
<1>6. OpeningTurnStored'
  <2>1. \A x \in Sessions : state'[x].turnCount >= 1
    BY <1>1 DEF RoomInv, TypeOK, ChallengeState, TranscriptsSound, OpeningTurnStored
  <2> QED
    BY <2>1 DEF OpeningTurnStored
<1>7. TranscriptDense'
  <2>1. {t.seq : t \in turns[s]} = 1 .. (n - 1)
    BY <1>1 DEF RoomInv, TranscriptsSound, TranscriptDense
  <2>2. {t.seq : t \in turns'[s]} = 1 .. (n + 1)
    <3>1. {t.seq : t \in turns'[s]} = {t.seq : t \in turns[s]} \cup {n, n + 1}
      BY <1>2, <1>3
    <3> QED
      BY <1>1, <2>1, <3>1
  <2>3. \A t \in turns[s] : t.seq \in 1 .. (n - 1)
    BY <2>1
  <2>4. \A t, u \in turns'[s] : t.seq = u.seq => t = u
    BY <1>1, <1>2, <1>3, <2>3 DEF RoomInv, TranscriptsSound, TranscriptDense
  <2>5. state'[s].turnCount = n + 1
    BY <1>1
  <2> QED
    BY <1>1, <1>3, <2>2, <2>4, <2>5 DEF RoomInv, TranscriptsSound, TranscriptDense
<1>8. OneTurnPerKey'
  BY <1>1, <1>2, <1>3 DEF RoomInv, TranscriptsSound, OneTurnPerKey, RowsWithKey
<1>9. ExchangesAdjacent'
  BY <1>1, <1>2, <1>3, <1>5 DEF RoomInv, TranscriptsSound, ExchangesAdjacent
<1>10. Recorded(c, n + 1)'
  <2>1. ReviewerTurn(n + 1, c.op) \in turns'[s]
    BY <1>2, <1>3, <1>5 DEF answer
  <2>2. \E t \in turns'[s] : t.seq = (n + 1) - 1 /\ t.key = c.key /\ SameRequest(t, c)
    BY <1>1, <1>2, <1>3 DEF SameRequest
  <2> QED
    BY <2>1, <2>2 DEF Recorded
<1> QED
  BY <1>4, <1>6, <1>7, <1>8, <1>9, <1>10 DEF TranscriptsSound

\* A transaction of r that leaves the transcripts sound, writes only r's session
\* and stores what it answers preserves the invariant.
LEMMA DbCommitKeeps ==
  ASSUME RoomInv, NEW r \in Requests, pc[r] = "working", NEW n \in Nat, DbCommit(r, n),
         \A x \in Sessions \ {call[r].session} :
           status'[x] = status[x] /\ turns'[x] = turns[x] /\ state'[x] = state[x],
         \A x \in Sessions : turns[x] \subseteq turns'[x],
         status' \in [Sessions -> ReviewStatuses],
         state' \in [Sessions -> ChallengeState],
         turns' \in [Sessions -> SUBSET Turn],
         findings' \in [FrozenFindings -> FindingStatuses],
         TranscriptsSound',
         \A c \in Submissions : c = call[r] /\ c.op \in KeyedOps => Recorded(c, n)'
  PROVE  RoomInv'
<1>1. UNCHANGED <<call, replica, access, localLock>>
  BY DEF DbCommit
<1>2. /\ pc' = [pc EXCEPT ![r] = "committed"] /\ pc' \in [Requests -> PCs]
      /\ reply' = [reply EXCEPT ![r] = [kind |-> "ok", turn |-> n]]
      /\ reply' \in [Requests -> Reply]
      /\ view' = [view EXCEPT ![r] = NoView] /\ view' \in [Requests -> View]
  <2>1. NoView \in View
    BY DataAssumption DEF NoView, View, OpeningState, ChallengeState, Payloads
  <2>2. [kind |-> "ok", turn |-> n] \in Reply
    BY DEF Reply, ReplyKinds
  <2> QED
    BY <2>1, <2>2 DEF DbCommit, RoomInv, TypeOK, PCs
<1>3. rowLock' \in [Sessions -> Requests \cup {None}] /\ snapLock' \in Requests \cup {None}
  BY DEF DbCommit, ReleaseRows, RoomInv, TypeOK
<1>4. TypeOK'
  BY <1>1, <1>2, <1>3 DEF RoomInv, TypeOK
<1>5. \A q \in Requests : pc'[q] \in HoldsRow =>
        /\ q # r /\ pc[q] = pc'[q] /\ view'[q] = view[q]
        /\ call[q].session \in Sessions \ {call[r].session}
        /\ rowLock[call[q].session] = q
  <2> SUFFICES ASSUME NEW q \in Requests, pc'[q] \in HoldsRow
               PROVE  /\ q # r /\ pc[q] = pc'[q] /\ view'[q] = view[q]
                      /\ call[q].session \in Sessions \ {call[r].session}
                      /\ rowLock[call[q].session] = q
    OBVIOUS
  <2>1. q # r /\ pc[q] = pc'[q] /\ view'[q] = view[q]
    BY <1>2 DEF RoomInv, TypeOK, HoldsRow
  <2>2. call[q].session \in Sessions
    BY <2>1, DataAssumption DEF RoomInv, RequestsKnown, HoldsRow, Submission
  <2>3. call[q].session # call[r].session
    BY <2>1, RowExclusive DEF RoomInv, HoldsRow
  <2> QED
    BY <2>1, <2>2, <2>3 DEF RoomInv, RowsOwned
<1>6. RequestsKnown'
  BY <1>1, <1>2 DEF RoomInv, RequestsKnown
<1>7. RowsOwned'
  BY <1>1, <1>5 DEF DbCommit, ReleaseRows, RowsOwned
<1>8. ViewsCurrent'
  BY <1>1, <1>5 DEF RoomInv, ViewsCurrent, HoldsRow
<1>9. StillPermitted'
  <2>1. ASSUME NEW q \in Requests, NEW c, c = call[q], pc'[q] \in HoldsRow
        PROVE  /\ Permitted(c) => Permitted(c)'
               /\ Active(c) => Active(c)'
    <3>1. /\ status'[c.session] = status[c.session]
          /\ turns'[c.session] = turns[c.session]
          /\ state'[c.session] = state[c.session]
      BY <1>5, <2>1
    <3> QED
      BY <3>1 DEF Permitted, Active
  <2>2. ASSUME NEW q \in Requests, NEW c, c = call[q]
        PROVE  /\ pc'[q] = "working" => Permitted(c)'
               /\ pc'[q] = "snapWait" => Active(c)' /\ c.op \in SnapshotOps
    BY <1>5, <2>1, <2>2 DEF RoomInv, StillPermitted, HoldsRow
  <2> QED
    BY <1>1, <2>2 DEF StillPermitted, Permitted, Active
<1>10. AnswersRecorded'
  <2>1. ASSUME NEW q \in Requests, NEW c, NEW m, c = call[q], m = reply'[q].turn,
               pc'[q] \in {"committed", "closing", "done"},
               reply'[q].kind \in {"ok", "duplicate"}, c.op \in KeyedOps
        PROVE  Recorded(c, m)'
    <3>1. CASE q = r
      BY <1>2, <2>1, <3>1, WorkingFacts DEF RoomInv, TypeOK
    <3>2. CASE q # r
      <4>1. pc'[q] = pc[q] /\ reply'[q] = reply[q]
        BY <1>2, <3>2 DEF RoomInv, TypeOK
      <4>2. Recorded(c, m)
        BY <2>1, <4>1 DEF RoomInv, AnswersRecorded
      <4>3. c.session \in Sessions
        BY <2>1, <4>1, DataAssumption DEF RoomInv, RequestsKnown, Submission
      <4> QED
        BY <4>2, <4>3 DEF Recorded
    <3> QED
      BY <3>1, <3>2
  <2> QED
    BY <1>1, <2>1 DEF AnswersRecorded, Recorded
<1> QED
  BY <1>4, <1>6, <1>7, <1>8, <1>9, <1>10 DEF RoomInv

\* ReviewRoom and AtomicReview compute rows and documents alike.
LEMMA SameData ==
  /\ \A n, c, ready : Abs!Exchange(n, c, ready) = Exchange(n, c, ready)
  /\ \A n, op : Abs!ReviewerTurn(n, op) = ReviewerTurn(n, op)
  /\ \A rows : Abs!NextSequence(rows) = NextSequence(rows)
  /\ \A rows, k : Abs!RowsWithKey(rows, k) = RowsWithKey(rows, k)
  /\ \A b, c, ready : Abs!AfterRespond(b, c, ready) = AfterRespond(b, c, ready)
  /\ \A b, ready : Abs!AfterClarify(b, ready) = AfterClarify(b, ready)
  /\ \A b, ready : Abs!AfterCoach(b, ready) = AfterCoach(b, ready)
  /\ \A b : Abs!AfterDispute(b) = AfterDispute(b)
  /\ \A b : Abs!AfterCommit(b) = AfterCommit(b)
  /\ \A fs, c : Abs!AfterDisputeFindings(fs, c) = AfterDisputeFindings(fs, c)
  /\ \A fs, c : Abs!AfterDisposition(fs, c) = AfterDisposition(fs, c)
  /\ \A c : Abs!Unacceptable(c) <=> Unacceptable(c)
BY DEF Abs!Exchange, Exchange, Abs!StudentTurn, StudentTurn, Abs!ReviewerTurn, ReviewerTurn,
       Abs!NextSequence, NextSequence, Abs!Max, Max, Abs!RowsWithKey, RowsWithKey,
       Abs!AfterRespond, AfterRespond, Abs!AfterClarify, AfterClarify, Abs!AfterCoach, AfterCoach,
       Abs!CoachingLevel, CoachingLevel, Abs!AfterDispute, AfterDispute, Abs!AfterCommit,
       AfterCommit, Abs!AfterDisputeFindings, AfterDisputeFindings, Abs!DisputedFinding,
       DisputedFinding, Abs!AfterDisposition, AfterDisposition, Abs!Unacceptable, Unacceptable,
       Abs!SnapshotOps, SnapshotOps

\* The documents the handlers write are documents.
LEMMA DocumentTypes ==
  ASSUME NEW b \in ChallengeState, NEW c \in Submission, NEW ready \in BOOLEAN
  PROVE  /\ AfterRespond(b, c, ready) \in ChallengeState
         /\ AfterClarify(b, ready) \in ChallengeState
         /\ AfterCoach(b, ready) \in ChallengeState
         /\ AfterDispute(b) \in ChallengeState
         /\ AfterCommit(b) \in ChallengeState
         /\ AfterRespond(b, c, ready).turnCount = b.turnCount + 2
         /\ AfterClarify(b, ready).turnCount = b.turnCount + 2
         /\ AfterCoach(b, ready).turnCount = b.turnCount + 2
         /\ AfterDispute(b).turnCount = b.turnCount + 2
         /\ AfterCommit(b).turnCount = b.turnCount + 1
<1>1. /\ b.turnCount \in Nat /\ b.level \in 0 .. MaxCoachingLevel
      /\ b.clarifications \in Nat /\ b.disputes \in Nat /\ b.position \in Payloads
  BY DEF ChallengeState
<1>2. c.said \in Payloads /\ CoachingLevel(b.level) \in 0 .. MaxCoachingLevel
  BY <1>1, DataAssumption DEF Submission, CoachingLevel
<1>3. AfterRespond(b, c, ready) \in ChallengeState
  <2> DEFINE x == [b EXCEPT !.turnCount = b.turnCount + 2]
             y == [x EXCEPT !.position = c.said]
  <2>1. x \in ChallengeState
    BY <1>1 DEF ChallengeState
  <2>2. y \in ChallengeState
    <3> HIDE DEF x
    <3> QED
      BY <1>2, <2>1 DEF ChallengeState
  <2>3. [y EXCEPT !.ready = ready] \in ChallengeState
    <3> HIDE DEF y
    <3> QED
      BY <2>2 DEF ChallengeState
  <2> QED
    BY <2>3 DEF AfterRespond
<1>4. AfterClarify(b, ready) \in ChallengeState
  <2> DEFINE x == [b EXCEPT !.turnCount = b.turnCount + 2]
             y == [x EXCEPT !.clarifications = b.clarifications + 1]
  <2>1. x \in ChallengeState
    BY <1>1 DEF ChallengeState
  <2>2. y \in ChallengeState
    <3> HIDE DEF x
    <3> QED
      BY <1>1, <2>1 DEF ChallengeState
  <2>3. [y EXCEPT !.ready = ready] \in ChallengeState
    <3> HIDE DEF y
    <3> QED
      BY <2>2 DEF ChallengeState
  <2> QED
    BY <1>1, <2>3 DEF AfterClarify
<1>5. AfterCoach(b, ready) \in ChallengeState
  <2> DEFINE x == [b EXCEPT !.turnCount = b.turnCount + 2]
             y == [x EXCEPT !.level = CoachingLevel(b.level)]
  <2>1. x \in ChallengeState
    BY <1>1 DEF ChallengeState
  <2>2. y \in ChallengeState
    <3> HIDE DEF x
    <3> QED
      BY <1>2, <2>1 DEF ChallengeState
  <2>3. [y EXCEPT !.ready = ready] \in ChallengeState
    <3> HIDE DEF y
    <3> QED
      BY <2>2 DEF ChallengeState
  <2> QED
    BY <1>1, <2>3 DEF AfterCoach
<1>6. AfterDispute(b) \in ChallengeState
  <2> DEFINE x == [b EXCEPT !.turnCount = b.turnCount + 2]
  <2>1. x \in ChallengeState
    BY <1>1 DEF ChallengeState
  <2>2. [x EXCEPT !.disputes = b.disputes + 1] \in ChallengeState
    <3> HIDE DEF x
    <3> QED
      BY <1>1, <2>1 DEF ChallengeState
  <2> QED
    BY <1>1, <2>2 DEF AfterDispute
<1>7. AfterCommit(b) \in ChallengeState
  <2> DEFINE x == [b EXCEPT !.turnCount = b.turnCount + 1]
  <2>1. x \in ChallengeState
    BY <1>1 DEF ChallengeState
  <2>2. [x EXCEPT !.committed = b.position] \in ChallengeState
    <3> HIDE DEF x
    <3> QED
      BY <1>1, <2>1 DEF ChallengeState
  <2> QED
    BY <1>1, <2>2 DEF AfterCommit
<1>8. /\ AfterRespond(b, c, ready).turnCount = b.turnCount + 2
      /\ AfterClarify(b, ready).turnCount = b.turnCount + 2
      /\ AfterCoach(b, ready).turnCount = b.turnCount + 2
      /\ AfterDispute(b).turnCount = b.turnCount + 2
      /\ AfterCommit(b).turnCount = b.turnCount + 1
  BY DEF AfterRespond, AfterClarify, AfterCoach, AfterDispute, AfterCommit, ChallengeState
<1> QED
  BY <1>3, <1>4, <1>5, <1>6, <1>7, <1>8

\* What the four handlers that exchange a turn have in common.
LEMMA ExchangeCommitKeeps ==
  ASSUME RoomInv, NEW r \in Requests, pc[r] = "working", call[r].op \in KeyedOps,
         NEW ready \in BOOLEAN, NEW doc \in ChallengeState,
         doc.turnCount = state[call[r].session].turnCount + 2,
         Write(r, Exchange(view[r].next, call[r], ready), doc),
         UNCHANGED status, findings' \in [FrozenFindings -> FindingStatuses],
         DbCommit(r, view[r].next + 1)
  PROVE  RoomInv'
<1>1. PICK c \in Submissions : c = call[r]
  BY WorkingFacts
<1>2. PICK n \in Nat : n = view[r].next
  BY WorkingFacts
<1>3. /\ c \in Submission /\ c.session \in Sessions
      /\ RowsWithKey(turns[c.session], c.key) = {}
      /\ n = state[c.session].turnCount + 1
  BY <1>1, <1>2, WorkingFacts DEF Permitted
<1>4. /\ turns' = [turns EXCEPT ![c.session] = @ \cup Exchange(n, c, ready)]
      /\ state' = [state EXCEPT ![c.session] = doc]
  BY <1>1, <1>2 DEF Write
<1>5. /\ state'[c.session].turnCount = state[c.session].turnCount + 2
      /\ \A x \in Sessions \ {c.session} : state'[x] = state[x] /\ turns'[x] = turns[x]
      /\ \A x \in Sessions : turns[x] \subseteq turns'[x]
      /\ state' \in [Sessions -> ChallengeState]
      /\ status' \in [Sessions -> ReviewStatuses] /\ \A x \in Sessions : status'[x] = status[x]
  BY <1>1, <1>3, <1>4 DEF RoomInv, TypeOK
<1>6. TranscriptsSound' /\ turns' \in [Sessions -> SUBSET Turn] /\ Recorded(c, n + 1)'
  BY <1>3, <1>4, <1>5, ExchangeSound
<1>7. n + 1 \in Nat /\ DbCommit(r, n + 1)
  BY <1>2
<1> QED
  BY <1>1, <1>5, <1>6, <1>7, DbCommitKeeps

LEMMA RespondCommitKeeps ==
  ASSUME RoomInv, NEW r \in Requests, RespondCommit(r)
  PROVE  RoomInv'
<1>1. PICK ready \in BOOLEAN :
        Write(r, Exchange(view[r].next, call[r], ready), AfterRespond(view[r].doc, call[r], ready))
  BY DEF RespondCommit
<1>2. pc[r] = "working" /\ call[r].op \in KeyedOps
  BY DEF RespondCommit, Working, KeyedOps, TurnOps
<1>3. /\ view[r].doc \in ChallengeState /\ view[r].doc = state[call[r].session]
      /\ call[r] \in Submission
  BY <1>2, WorkingFacts DEF RoomInv, TypeOK
<1>4. /\ UNCHANGED status /\ findings' \in [FrozenFindings -> FindingStatuses]
      /\ DbCommit(r, view[r].next + 1)
  BY DEF RespondCommit, RoomInv, TypeOK
<1> QED
  BY <1>1, <1>2, <1>3, <1>4, DocumentTypes, ExchangeCommitKeeps

LEMMA ClarifyCommitKeeps ==
  ASSUME RoomInv, NEW r \in Requests, ClarifyCommit(r)
  PROVE  RoomInv'
<1>1. PICK ready \in BOOLEAN :
        Write(r, Exchange(view[r].next, call[r], ready), AfterClarify(view[r].doc, ready))
  BY DEF ClarifyCommit
<1>2. pc[r] = "working" /\ call[r].op \in KeyedOps
  BY DEF ClarifyCommit, Working, KeyedOps, TurnOps
<1>3. /\ view[r].doc \in ChallengeState /\ view[r].doc = state[call[r].session]
      /\ call[r] \in Submission
  BY <1>2, WorkingFacts DEF RoomInv, TypeOK
<1>4. /\ UNCHANGED status /\ findings' \in [FrozenFindings -> FindingStatuses]
      /\ DbCommit(r, view[r].next + 1)
  BY DEF ClarifyCommit, RoomInv, TypeOK
<1> QED
  BY <1>1, <1>2, <1>3, <1>4, DocumentTypes, ExchangeCommitKeeps

LEMMA CoachCommitKeeps ==
  ASSUME RoomInv, NEW r \in Requests, CoachCommit(r)
  PROVE  RoomInv'
<1>1. PICK ready \in BOOLEAN :
        Write(r, Exchange(view[r].next, call[r], ready), AfterCoach(view[r].doc, ready))
  BY DEF CoachCommit
<1>2. pc[r] = "working" /\ call[r].op \in KeyedOps
  BY DEF CoachCommit, Working, KeyedOps, TurnOps
<1>3. /\ view[r].doc \in ChallengeState /\ view[r].doc = state[call[r].session]
      /\ call[r] \in Submission
  BY <1>2, WorkingFacts DEF RoomInv, TypeOK
<1>4. /\ UNCHANGED status /\ findings' \in [FrozenFindings -> FindingStatuses]
      /\ DbCommit(r, view[r].next + 1)
  BY DEF CoachCommit, RoomInv, TypeOK
<1> QED
  BY <1>1, <1>2, <1>3, <1>4, DocumentTypes, ExchangeCommitKeeps

LEMMA DisputeCommitKeeps ==
  ASSUME RoomInv, NEW r \in Requests, DisputeCommit(r)
  PROVE  RoomInv'
<1>1. Write(r, Exchange(view[r].next, call[r], FALSE), AfterDispute(view[r].doc))
  BY DEF DisputeCommit
<1>2. pc[r] = "working" /\ call[r].op \in KeyedOps
  BY DEF DisputeCommit, Working, KeyedOps
<1>3. /\ view[r].doc \in ChallengeState /\ view[r].doc = state[call[r].session]
      /\ call[r] \in Submission
  BY <1>2, WorkingFacts DEF RoomInv, TypeOK
<1>4. /\ UNCHANGED status /\ findings' \in [FrozenFindings -> FindingStatuses]
      /\ DbCommit(r, view[r].next + 1)
  BY DEF DisputeCommit, RoomInv, TypeOK, AfterDisputeFindings, FindingStatuses
<1> QED
  BY <1>1, <1>2, <1>3, <1>4, DocumentTypes, ExchangeCommitKeeps

\* A disposition writes the finding's row and nothing of the session.
LEMMA DispositionCommitKeeps ==
  ASSUME RoomInv, NEW r \in Requests, DispositionCommit(r)
  PROVE  RoomInv'
<1>1. pc[r] = "working" /\ call[r].op = "disposition" /\ call[r] \in Submissions
  BY WorkingFacts DEF DispositionCommit, Working
<1>2. findings' \in [FrozenFindings -> FindingStatuses]
  BY <1>1, DataAssumption DEF DispositionCommit, AfterDisposition, RoomInv, TypeOK
<1>3. UNCHANGED <<status, turns, state>> /\ DbCommit(r, 0)
  BY DEF DispositionCommit
<1>4. TranscriptsSound'
  BY <1>3 DEF RoomInv, TranscriptsSound, OpeningTurnStored, TranscriptDense, OneTurnPerKey,
              ExchangesAdjacent
<1> QED
  BY <1>1, <1>2, <1>3, <1>4, DbCommitKeeps DEF RoomInv, TypeOK, KeyedOps, TurnOps

\* A recommendation adds one reviewer turn.
LEMMA PositionCommitKeeps ==
  ASSUME RoomInv, NEW r \in Requests, PositionCommit(r)
  PROVE  RoomInv'
<1> DEFINE s == call[r].session
           n == view[r].next
           mark == ReviewerTurn(n, "commit")
<1>1. /\ pc[r] = "working" /\ call[r].op = "commit" /\ s \in Sessions
      /\ n \in Nat /\ n = state[s].turnCount + 1 /\ view[r].doc = state[s]
      /\ call[r] \in Submission
  BY WorkingFacts DEF PositionCommit, Working
<1>2. /\ turns' = [turns EXCEPT ![s] = @ \cup {mark}]
      /\ state' = [state EXCEPT ![s] = AfterCommit(state[s])]
      /\ UNCHANGED <<status, findings>> /\ DbCommit(r, n)
  BY <1>1 DEF PositionCommit, Write
<1>3. /\ mark \in Turn /\ mark.seq = n /\ mark.key = None /\ mark.actor = "reviewer"
  BY <1>1 DEF ReviewerTurn, Turn, Ops, Payloads
<1>4. state[s] \in ChallengeState /\ state[s].turnCount \in Nat /\ state[s].turnCount >= 1
  BY <1>1 DEF RoomInv, TypeOK, ChallengeState, TranscriptsSound, OpeningTurnStored
<1>5. AfterCommit(state[s]) \in ChallengeState /\ AfterCommit(state[s]).turnCount = n
  BY <1>1, <1>4, DocumentTypes
<1> HIDE DEF mark
<1>6. /\ turns' \in [Sessions -> SUBSET Turn] /\ turns'[s] = turns[s] \cup {mark}
      /\ state' \in [Sessions -> ChallengeState] /\ state'[s].turnCount = n
      /\ \A x \in Sessions \ {s} : turns'[x] = turns[x] /\ state'[x] = state[x]
  BY <1>1, <1>2, <1>3, <1>5 DEF RoomInv, TypeOK
<1>7. OpeningTurnStored'
  <2>1. \A x \in Sessions : state'[x].turnCount >= 1
    BY <1>1, <1>4, <1>6 DEF RoomInv, TranscriptsSound, OpeningTurnStored
  <2> QED
    BY <2>1 DEF OpeningTurnStored
<1>8. TranscriptDense'
  <2>1. {t.seq : t \in turns[s]} = 1 .. (n - 1)
    BY <1>1, <1>4 DEF RoomInv, TranscriptsSound, TranscriptDense
  <2>2. {t.seq : t \in turns'[s]} = {t.seq : t \in turns[s]} \cup {n}
    BY <1>3, <1>6
  <2>3. {t.seq : t \in turns'[s]} = 1 .. n
    BY <1>1, <1>4, <2>1, <2>2
  <2>4. \A t \in turns[s] : t.seq \in 1 .. (n - 1)
    BY <2>1
  <2>5. \A t, u \in turns'[s] : t.seq = u.seq => t = u
    BY <1>1, <1>3, <1>6, <2>4 DEF RoomInv, TranscriptsSound, TranscriptDense
  <2> QED
    BY <1>1, <1>6, <2>3, <2>5 DEF RoomInv, TranscriptsSound, TranscriptDense
<1>9. OneTurnPerKey' /\ ExchangesAdjacent'
  BY <1>1, <1>3, <1>6 DEF RoomInv, TranscriptsSound, OneTurnPerKey, ExchangesAdjacent
<1>10. TranscriptsSound'
  BY <1>7, <1>8, <1>9 DEF TranscriptsSound
<1> QED
  BY <1>1, <1>2, <1>6, <1>10, DbCommitKeeps DEF RoomInv, TypeOK, KeyedOps, TurnOps

\* The end of a review leaves its transcript and document alone.
LEMMA CompleteCommitKeeps ==
  ASSUME RoomInv, NEW r \in Requests, CompleteCommit(r)
  PROVE  RoomInv'
<1>1. pc[r] = "working" /\ call[r].op = "complete" /\ call[r].session \in Sessions
  BY WorkingFacts DEF CompleteCommit, Working
<1>2. /\ status' = [status EXCEPT ![call[r].session] = "completed"]
      /\ UNCHANGED <<turns, state, findings>> /\ DbCommit(r, 0)
  BY DEF CompleteCommit
<1>3. TranscriptsSound'
  BY <1>2 DEF RoomInv, TranscriptsSound, OpeningTurnStored, TranscriptDense, OneTurnPerKey,
              ExchangesAdjacent
<1>4. status' \in [Sessions -> ReviewStatuses]
      /\ \A x \in Sessions \ {call[r].session} : status'[x] = status[x]
  BY <1>1, <1>2 DEF RoomInv, TypeOK, ReviewStatuses
<1> QED
  BY <1>1, <1>2, <1>3, <1>4, DbCommitKeeps DEF RoomInv, TypeOK, KeyedOps, TurnOps

-----------------------------------------------------------------------------
(***************************************************************************)
(* The theorems.                                                           *)
(***************************************************************************)

\* Every step preserves the invariant.
LEMMA NextKeeps ==
  ASSUME RoomInv, [Next]_vars
  PROVE  RoomInv'
<1>1. ASSUME NEW r \in Requests, Arrive(r) PROVE RoomInv'
  BY <1>1, ArriveKeeps
<1>2. ASSUME NEW r \in Requests, PreCheck(r) PROVE RoomInv'
  BY <1>2, PreCheckKeeps
<1>3. ASSUME NEW r \in Requests, TryLocal(r) PROVE RoomInv'
  BY <1>3, TryLocalKeeps
<1>4. ASSUME NEW r \in Requests, LockRow(r) PROVE RoomInv'
  BY <1>4, LockRowKeeps
<1>5. ASSUME NEW r \in Requests, LockSnapshot(r) PROVE RoomInv'
  BY <1>5, LockSnapshotKeeps
<1>6. ASSUME NEW r \in Requests, CommitStep(r) PROVE RoomInv'
  BY <1>6, RespondCommitKeeps, ClarifyCommitKeeps, CoachCommitKeeps, DisputeCommitKeeps,
     DispositionCommitKeeps, PositionCommitKeeps, CompleteCommitKeeps DEF CommitStep
<1>7. ASSUME NEW r \in Requests, Finish(r) \/ Close(r) \/ Abort(r) PROVE RoomInv'
  BY <1>7, FinishKeeps, CloseKeeps, AbortKeeps
<1>8. ASSUME NEW p \in Replicas, Crash(p) PROVE RoomInv'
  BY <1>8, CrashKeeps
<1>9. ASSUME ChangeAccess PROVE RoomInv'
  BY <1>9, ChangeAccessKeeps
<1>10. CASE UNCHANGED vars
  <2>1. UNCHANGED recordVars
    BY <1>10 DEF vars
  <2> QED
    BY <1>10, <2>1, QuietRecord
    DEF vars, recordVars, lockVars, requestVars, RoomInv, TypeOK, RequestsKnown, RowsOwned,
        ViewsCurrent, StillPermitted, AnswersRecorded
<1> QED
  BY <1>1, <1>2, <1>3, <1>4, <1>5, <1>6, <1>7, <1>8, <1>9, <1>10 DEF Next, HandlerStep

\* RoomInv holds in every reachable state.
THEOREM RoomInvariant == Spec => []RoomInv
<1>1. Init => RoomInv
  BY InitEstablishes
<1>2. RoomInv /\ [Next]_vars => RoomInv'
  BY NextKeeps
<1> QED
  BY <1>1, <1>2, PTL DEF Spec

\* Every variable always has its type.
THEOREM TypeCorrect == Spec => []TypeOK
<1>1. RoomInv => TypeOK
  BY DEF RoomInv
<1> QED
  BY <1>1, RoomInvariant, PTL

\* The turns of every session are numbered 1 .. turn_count, however many
\* replicas handle turns of the session at the same time.
THEOREM TranscriptIsDense == Spec => []TranscriptDense
<1>1. RoomInv => TranscriptDense
  BY DEF RoomInv, TranscriptsSound
<1> QED
  BY <1>1, RoomInvariant, PTL

\* A request key is recorded at most once, through whichever replica the
\* browser retries.
THEOREM KeysAreUnique == Spec => []OneTurnPerKey
<1>1. RoomInv => OneTurnPerKey
  BY DEF RoomInv, TranscriptsSound
<1> QED
  BY <1>1, RoomInvariant, PTL

\* A delivered answer, to a first try or to a retry, is the stored exchange of
\* its request.
THEOREM AnswersStored == Spec => []AnswersAreStored
<1>1. RoomInv => AnswersAreStored
  BY DEF RoomInv, AnswersRecorded, AnswersAreStored, Delivered
<1> QED
  BY <1>1, RoomInvariant, PTL

-----------------------------------------------------------------------------
(***************************************************************************)
(* The locks.  Each is held by a request on its way to giving it up, and   *)
(* the two row locks are always taken in the same order: so whoever waits  *)
(* waits for a request that goes on.                                       *)
(***************************************************************************)

RowsLive ==
  \A s \in Sessions : rowLock[s] # None =>
    pc[rowLock[s]] \in HoldsRow /\ call[rowLock[s]].session = s

\* The snapshot is the last lock: its holder waits for nothing.
SnapshotLive == snapLock # None => pc[snapLock] \in {"working", "closing"}

\* A replica's lock of a session is held by the one request of that replica
\* which is past TryLocal for that session: nobody gives up another's lock.
LocalsLive ==
  \A l \in Replicas \X Sessions : localLock[l] # None =>
    pc[localLock[l]] \in HoldsLocal /\ LocalLock(localLock[l]) = l

LocalsOwned == \A r \in Requests : pc[r] \in HoldsLocal => localLock[LocalLock(r)] = r

LocksLive == RowsLive /\ SnapshotLive /\ LocalsLive /\ LocalsOwned

\* What the locks' invariant rests on; it holds under an archived term as well.
LocksTyped == TypeOK /\ RequestsKnown /\ RowsOwned

LEMMA LocalLockTyped ==
  ASSUME LocksTyped, NEW r \in Requests, pc[r] # "idle"
  PROVE  /\ LocalLock(r) \in Replicas \X Sessions /\ call[r].session \in Sessions
         /\ r # None
BY DataAssumption, RoomAssumption DEF LocksTyped, RequestsKnown, LocalLock, Submission

\* A request that is not yet past TryLocal holds no lock.
LEMMA EarlyHoldsNothing ==
  ASSUME LocksTyped, LocksLive, NEW r \in Requests, pc[r] \in {"idle", "arrived", "checked"}
  PROVE  /\ \A s \in Sessions : rowLock[s] # r
         /\ snapLock # r
         /\ \A l \in Replicas \X Sessions : localLock[l] # r
BY RoomAssumption
DEF LocksLive, RowsLive, SnapshotLive, LocalsLive, HoldsRow, HoldsLocal

LEMMA ArriveKeepsLocks ==
  ASSUME LocksTyped, LocksLive, NEW r \in Requests, Arrive(r)
  PROVE  LocksLive'
<1>1. /\ pc[r] = "idle" /\ UNCHANGED lockVars /\ pc'[r] = "arrived"
      /\ \A q \in Requests : q # r => pc'[q] = pc[q] /\ call'[q] = call[q] /\ replica'[q] = replica[q]
  BY DEF Arrive, LocksTyped, TypeOK
<1>2. /\ \A s \in Sessions : rowLock[s] # r
      /\ snapLock # r
      /\ \A l \in Replicas \X Sessions : localLock[l] # r
  BY <1>1, EarlyHoldsNothing
<1>3. RowsLive' /\ SnapshotLive'
  BY <1>1, <1>2 DEF LocksTyped, TypeOK, LocksLive, RowsLive, SnapshotLive, lockVars
<1>4. LocalsLive' /\ LocalsOwned'
  BY <1>1, <1>2 DEF LocksTyped, TypeOK, LocksLive, LocalsLive, LocalsOwned, LocalLock, HoldsLocal,
                    lockVars
<1> QED
  BY <1>3, <1>4 DEF LocksLive

\* The steps of a request after its arrival leave what it is about.
LEMMA PreCheckKeepsLocks ==
  ASSUME LocksTyped, LocksLive, NEW r \in Requests, PreCheck(r)
  PROVE  LocksLive'
<1>1. /\ pc[r] = "arrived" /\ UNCHANGED <<lockVars, call, replica>>
      /\ pc'[r] \in {"checked", "done"}
      /\ \A q \in Requests : q # r => pc'[q] = pc[q]
  BY DEF PreCheck, LocksTyped, TypeOK
<1>2. /\ \A s \in Sessions : rowLock[s] # r
      /\ snapLock # r
      /\ \A l \in Replicas \X Sessions : localLock[l] # r
  BY <1>1, EarlyHoldsNothing
<1>3. RowsLive' /\ SnapshotLive'
  BY <1>1, <1>2 DEF LocksTyped, TypeOK, LocksLive, RowsLive, SnapshotLive, lockVars
<1>4. LocalsLive' /\ LocalsOwned'
  BY <1>1, <1>2 DEF LocksTyped, TypeOK, LocksLive, LocalsLive, LocalsOwned, LocalLock, HoldsLocal,
                    lockVars
<1> QED
  BY <1>3, <1>4 DEF LocksLive

LEMMA TryLocalKeepsLocks ==
  ASSUME LocksTyped, LocksLive, NEW r \in Requests, TryLocal(r)
  PROVE  LocksLive'
<1>1. /\ pc[r] = "checked" /\ UNCHANGED <<rowLock, snapLock, call, replica>>
      /\ \A q \in Requests : q # r => pc'[q] = pc[q]
      /\ \/ /\ pc'[r] = "waiting" /\ localLock[LocalLock(r)] = None
            /\ localLock' = [localLock EXCEPT ![LocalLock(r)] = r]
         \/ pc'[r] = "done" /\ localLock' = localLock
  BY DEF TryLocal, LocksTyped, TypeOK
<1>2. /\ \A s \in Sessions : rowLock[s] # r
      /\ snapLock # r
      /\ \A l \in Replicas \X Sessions : localLock[l] # r
  BY <1>1, EarlyHoldsNothing
<1>3. RowsLive' /\ SnapshotLive'
  BY <1>1, <1>2 DEF LocksTyped, TypeOK, LocksLive, RowsLive, SnapshotLive
<1>4. LocalLock(r) \in Replicas \X Sessions /\ r # None
  BY <1>1, LocalLockTyped
<1>5. \A q \in Requests : LocalLock(q)' = LocalLock(q)
  BY <1>1 DEF LocalLock
<1>6. LocalsLive' /\ LocalsOwned'
  <2>1. CASE pc'[r] = "done" /\ localLock' = localLock
    BY <1>1, <1>2, <1>5, <2>1
    DEF LocksTyped, TypeOK, LocksLive, LocalsLive, LocalsOwned, HoldsLocal
  <2>2. CASE /\ pc'[r] = "waiting" /\ localLock[LocalLock(r)] = None
             /\ localLock' = [localLock EXCEPT ![LocalLock(r)] = r]
    <3>1. /\ localLock'[LocalLock(r)] = r
          /\ \A l \in Replicas \X Sessions : l # LocalLock(r) => localLock'[l] = localLock[l]
      BY <1>4, <2>2 DEF LocksTyped, TypeOK
    <3>2. LocalsLive'
      BY <1>1, <1>2, <1>5, <2>2, <3>1 DEF LocksTyped, TypeOK, LocksLive, LocalsLive, HoldsLocal
    <3>3. \A q \in Requests : q # r /\ pc[q] \in HoldsLocal =>
            LocalLock(q) \in Replicas \X Sessions /\ LocalLock(q) # LocalLock(r)
      BY <1>4, <2>2, LocalLockTyped DEF LocksLive, LocalsOwned, HoldsLocal
    <3>4. LocalsOwned'
      BY <1>1, <1>5, <2>2, <3>1, <3>3 DEF LocksLive, LocalsOwned
    <3> QED
      BY <3>2, <3>4
  <2> QED
    BY <1>1, <2>1, <2>2
<1> QED
  BY <1>3, <1>6 DEF LocksLive

\* A request that gives up the local lock, as it is refused, fails or ends, gives
\* up its own.
LEMMA LocalReleased ==
  ASSUME LocksTyped, LocksLive, NEW r \in Requests, pc[r] \in HoldsLocal, pc'[r] \notin HoldsLocal,
         \A q \in Requests : q # r => pc'[q] = pc[q],
         UNCHANGED <<call, replica>>,
         localLock' = [localLock EXCEPT ![LocalLock(r)] = None]
  PROVE  LocalsLive' /\ LocalsOwned'
<1>1. LocalLock(r) \in Replicas \X Sessions /\ r # None /\ localLock[LocalLock(r)] = r
  BY LocalLockTyped DEF LocksLive, LocalsOwned, HoldsLocal
<1>2. \A q \in Requests : LocalLock(q)' = LocalLock(q)
  BY DEF LocalLock
<1>3. /\ localLock'[LocalLock(r)] = None
      /\ \A l \in Replicas \X Sessions : l # LocalLock(r) => localLock'[l] = localLock[l]
  BY <1>1 DEF LocksTyped, TypeOK
<1>4. LocalsLive'
  <2>1. ASSUME NEW l \in Replicas \X Sessions, localLock'[l] # None
        PROVE  pc'[localLock'[l]] \in HoldsLocal /\ LocalLock(localLock'[l]) = l
    <3>1. l # LocalLock(r) /\ localLock'[l] = localLock[l] /\ localLock[l] \in Requests
      BY <1>3, <2>1 DEF LocksTyped, TypeOK
    <3>2. pc[localLock[l]] \in HoldsLocal /\ LocalLock(localLock[l]) = l
      BY <2>1, <3>1 DEF LocksLive, LocalsLive
    <3>3. localLock[l] # r
      BY <3>1, <3>2
    <3> QED
      BY <3>1, <3>2, <3>3
  <2> QED
    BY <2>1 DEF LocalsLive, LocalLock
<1>5. LocalsOwned'
  <2>1. ASSUME NEW q \in Requests, pc'[q] \in HoldsLocal
        PROVE  localLock'[LocalLock(q)] = q
    <3>1. q # r /\ pc[q] \in HoldsLocal /\ pc[q] # "idle"
      BY <2>1 DEF HoldsLocal
    <3>2. localLock[LocalLock(q)] = q /\ LocalLock(q) \in Replicas \X Sessions
      BY <3>1, LocalLockTyped DEF LocksLive, LocalsOwned
    <3> QED
      BY <1>1, <1>3, <3>1, <3>2
  <2> QED
    BY <1>2, <2>1 DEF LocalsOwned
<1> QED
  BY <1>4, <1>5

\* A request that keeps the local lock.
LEMMA LocalKept ==
  ASSUME LocksTyped, LocksLive, NEW r \in Requests, pc[r] \in HoldsLocal <=> pc'[r] \in HoldsLocal,
         \A q \in Requests : q # r => pc'[q] = pc[q],
         UNCHANGED <<call, replica, localLock>>
  PROVE  LocalsLive' /\ LocalsOwned'
<1>1. \A q \in Requests : pc'[q] \in HoldsLocal <=> pc[q] \in HoldsLocal
  OBVIOUS
<1>2. LocalsLive'
  <2>1. ASSUME NEW l \in Replicas \X Sessions, localLock[l] # None
        PROVE  pc'[localLock[l]] \in HoldsLocal /\ LocalLock(localLock[l]) = l
    <3>1. localLock[l] \in Requests
      BY <2>1 DEF LocksTyped, TypeOK
    <3> QED
      BY <1>1, <2>1, <3>1 DEF LocksLive, LocalsLive
  <2> QED
    BY <2>1 DEF LocalsLive, LocalLock
<1>3. LocalsOwned'
  BY <1>1 DEF LocksLive, LocalsOwned, LocalLock
<1> QED
  BY <1>2, <1>3

\* A request that moves on among the steps that keep its row locks.
LEMMA RowsKeptLive ==
  ASSUME LocksTyped, LocksLive, NEW r \in Requests,
         pc[r] \in HoldsRow => pc'[r] \in HoldsRow,
         snapLock = r => pc'[r] \in {"working", "closing"},
         \A q \in Requests : q # r => pc'[q] = pc[q],
         UNCHANGED <<call, rowLock, snapLock>>
  PROVE  RowsLive' /\ SnapshotLive'
<1>1. RowsLive'
  <2>1. ASSUME NEW s \in Sessions, rowLock[s] # None
        PROVE  pc'[rowLock[s]] \in HoldsRow /\ call[rowLock[s]].session = s
    <3>1. rowLock[s] \in Requests
      BY <2>1 DEF LocksTyped, TypeOK
    <3> QED
      BY <2>1, <3>1 DEF LocksLive, RowsLive
  <2> QED
    BY <2>1 DEF RowsLive
<1>2. SnapshotLive'
  BY DEF LocksTyped, TypeOK, LocksLive, SnapshotLive
<1> QED
  BY <1>1, <1>2

\* The end of a transaction gives up what its request holds and nothing else.
LEMMA RowsReleased ==
  ASSUME LocksTyped, LocksLive, NEW r \in Requests, ReleaseRows(r),
         \A q \in Requests : q # r => pc'[q] = pc[q],
         UNCHANGED call
  PROVE  RowsLive' /\ SnapshotLive'
<1>1. RowsLive'
  <2>1. ASSUME NEW s \in Sessions, rowLock'[s] # None
        PROVE  pc'[rowLock'[s]] \in HoldsRow /\ call[rowLock'[s]].session = s
    <3>1. rowLock[s] \in Requests /\ rowLock[s] # r /\ rowLock'[s] = rowLock[s] /\ rowLock[s] # None
      BY <2>1 DEF ReleaseRows, LocksTyped, TypeOK
    <3>2. pc[rowLock[s]] \in HoldsRow /\ call[rowLock[s]].session = s
      BY <3>1 DEF LocksLive, RowsLive
    <3> QED
      BY <3>1, <3>2
  <2> QED
    BY <2>1 DEF RowsLive
<1>2. SnapshotLive'
  BY RoomAssumption DEF ReleaseRows, LocksTyped, TypeOK, LocksLive, SnapshotLive
<1> QED
  BY <1>1, <1>2

LEMMA LockRowKeepsLocks ==
  ASSUME LocksTyped, LocksLive, NEW r \in Requests, LockRow(r)
  PROVE  LocksLive'
<1> DEFINE s == call[r].session
<1>1. /\ pc[r] = "waiting" /\ rowLock[s] = None /\ rowLock' = [rowLock EXCEPT ![s] = r]
      /\ UNCHANGED <<snapLock, call, replica>>
      /\ \A q \in Requests : q # r => pc'[q] = pc[q]
      /\ \/ pc'[r] \in {"working", "snapWait"} /\ UNCHANGED localLock
         \/ pc'[r] = "closing" /\ localLock' = [localLock EXCEPT ![LocalLock(r)] = None]
  BY DEF LockRow, Refuse, LocksTyped, TypeOK
<1>2. s \in Sessions /\ r # None
  BY <1>1, LocalLockTyped
<1>3. /\ rowLock'[s] = r /\ pc'[r] \in HoldsRow
      /\ \A x \in Sessions : x # s => rowLock'[x] = rowLock[x]
      /\ \A x \in Sessions : rowLock[x] # r
      /\ snapLock # r
  BY <1>1, <1>2 DEF LocksTyped, TypeOK, LocksLive, RowsLive, SnapshotLive, HoldsRow
<1>4. RowsLive'
  <2>1. ASSUME NEW x \in Sessions, x # s, rowLock[x] # None
        PROVE  pc'[rowLock[x]] \in HoldsRow /\ call[rowLock[x]].session = x
    <3>1. rowLock[x] \in Requests /\ rowLock[x] # r
      BY <1>3, <2>1 DEF LocksTyped, TypeOK
    <3>2. pc[rowLock[x]] \in HoldsRow /\ call[rowLock[x]].session = x
      BY <2>1 DEF LocksLive, RowsLive
    <3> QED
      BY <1>1, <3>1, <3>2
  <2> QED
    BY <1>1, <1>3, <2>1 DEF RowsLive
<1>5. SnapshotLive'
  BY <1>1, <1>3 DEF LocksTyped, TypeOK, LocksLive, SnapshotLive
<1>6. LocalsLive' /\ LocalsOwned'
  BY <1>1, LocalReleased, LocalKept DEF HoldsLocal
<1> QED
  BY <1>4, <1>5, <1>6 DEF LocksLive

LEMMA LockSnapshotKeepsLocks ==
  ASSUME LocksTyped, LocksLive, NEW r \in Requests, LockSnapshot(r)
  PROVE  LocksLive'
<1>1. /\ pc[r] = "snapWait" /\ snapLock' = r /\ UNCHANGED <<rowLock, call, replica>>
      /\ \A q \in Requests : q # r => pc'[q] = pc[q]
      /\ \/ pc'[r] = "working" /\ UNCHANGED localLock
         \/ pc'[r] = "closing" /\ localLock' = [localLock EXCEPT ![LocalLock(r)] = None]
  BY DEF LockSnapshot, Refuse, LocksTyped, TypeOK
<1>2. RowsLive'
  <2>1. ASSUME NEW s \in Sessions, rowLock[s] # None
        PROVE  pc'[rowLock[s]] \in HoldsRow /\ call[rowLock[s]].session = s
    <3>1. rowLock[s] \in Requests
      BY <2>1 DEF LocksTyped, TypeOK
    <3>2. pc[rowLock[s]] \in HoldsRow /\ call[rowLock[s]].session = s
      BY <2>1 DEF LocksLive, RowsLive
    <3> QED
      BY <1>1, <3>1, <3>2 DEF HoldsRow
  <2> QED
    BY <1>1, <2>1 DEF RowsLive
<1>3. SnapshotLive'
  BY <1>1 DEF SnapshotLive
<1>4. LocalsLive' /\ LocalsOwned'
  BY <1>1, LocalReleased, LocalKept DEF HoldsLocal
<1> QED
  BY <1>2, <1>3, <1>4 DEF LocksLive

LEMMA EndKeepsLocks ==
  ASSUME LocksTyped, LocksLive, NEW r \in Requests,
         CommitStep(r) \/ Finish(r) \/ Close(r) \/ Abort(r)
  PROVE  LocksLive'
<1>1. CASE CommitStep(r)
  <2>1. pc[r] = "working" /\ \E n : DbCommit(r, n)
    BY <1>1 DEF CommitStep, RespondCommit, ClarifyCommit, CoachCommit, DisputeCommit,
                DispositionCommit, PositionCommit, CompleteCommit, Working
  <2>2. /\ ReleaseRows(r) /\ pc'[r] = "committed" /\ UNCHANGED <<call, replica, localLock>>
        /\ \A q \in Requests : q # r => pc'[q] = pc[q]
    BY <2>1 DEF DbCommit, LocksTyped, TypeOK
  <2>3. RowsLive' /\ SnapshotLive'
    BY <2>2, RowsReleased
  <2>4. LocalsLive' /\ LocalsOwned'
    BY <2>1, <2>2, LocalKept DEF HoldsLocal
  <2> QED
    BY <2>3, <2>4 DEF LocksLive
<1>2. CASE Close(r)
  <2>1. /\ pc[r] = "closing" /\ pc'[r] = "done" /\ ReleaseRows(r)
        /\ UNCHANGED <<call, replica, localLock>>
        /\ \A q \in Requests : q # r => pc'[q] = pc[q]
    BY <1>2 DEF Close, LocksTyped, TypeOK
  <2>2. RowsLive' /\ SnapshotLive'
    BY <2>1, RowsReleased
  <2>3. LocalsLive' /\ LocalsOwned'
    BY <2>1, LocalKept DEF HoldsLocal
  <2> QED
    BY <2>2, <2>3 DEF LocksLive
<1>3. CASE Finish(r) \/ Abort(r)
  <2>1. /\ \/ pc[r] = "committed" /\ pc'[r] = "done"
           \/ pc[r] \in {"snapWait", "working"} /\ pc'[r] = "closing"
        /\ localLock' = [localLock EXCEPT ![LocalLock(r)] = None]
        /\ UNCHANGED <<call, replica, rowLock, snapLock>>
        /\ \A q \in Requests : q # r => pc'[q] = pc[q]
    BY <1>3 DEF Finish, Abort, LocksTyped, TypeOK
  <2>2. snapLock = r => pc'[r] \in {"working", "closing"}
    BY <2>1, RoomAssumption DEF LocksLive, SnapshotLive
  <2>3. RowsLive' /\ SnapshotLive'
    BY <2>1, <2>2, RowsKeptLive DEF HoldsRow
  <2>4. LocalsLive' /\ LocalsOwned'
    BY <2>1, LocalReleased DEF HoldsLocal
  <2> QED
    BY <2>3, <2>4 DEF LocksLive
<1> QED
  BY <1>1, <1>2, <1>3

\* A crash frees the locks of the requests that die with the replica, in the
\* database and in its memory, and no others.
LEMMA CrashKeepsLocks ==
  ASSUME LocksTyped, LocksLive, NEW p \in Replicas, Crash(p)
  PROVE  LocksLive'
<1>1. PICK dead \in SUBSET Requests :
        /\ \A q \in Requests : q \in dead <=> replica[q] = p /\ pc[q] \in InFlight
        /\ \A q \in Requests : pc'[q] = IF q \in dead THEN "lost" ELSE pc[q]
        /\ \A s \in Sessions : rowLock'[s] = IF rowLock[s] \in dead THEN None ELSE rowLock[s]
        /\ snapLock' = IF snapLock \in dead THEN None ELSE snapLock
        /\ \A l \in Replicas \X Sessions : localLock'[l] = IF l[1] = p THEN None ELSE localLock[l]
        /\ UNCHANGED <<call, replica>>
  BY DEF Crash
<1>2. RowsLive'
  <2>1. ASSUME NEW s \in Sessions, rowLock'[s] # None
        PROVE  pc'[rowLock'[s]] \in HoldsRow /\ call[rowLock'[s]].session = s
    <3>1. rowLock'[s] = rowLock[s] /\ rowLock[s] \notin dead /\ rowLock[s] \in Requests
      BY <1>1, <2>1 DEF LocksTyped, TypeOK
    <3>2. pc[rowLock[s]] \in HoldsRow /\ call[rowLock[s]].session = s
      BY <2>1, <3>1 DEF LocksLive, RowsLive
    <3> QED
      BY <1>1, <3>1, <3>2
  <2> QED
    BY <1>1, <2>1 DEF RowsLive
<1>3. SnapshotLive'
  BY <1>1 DEF LocksTyped, TypeOK, LocksLive, SnapshotLive
<1>4. LocalsLive'
  <2>1. ASSUME NEW l \in Replicas \X Sessions, localLock'[l] # None
        PROVE  pc'[localLock'[l]] \in HoldsLocal /\ LocalLock(localLock'[l]) = l
    <3>1. l[1] # p /\ localLock'[l] = localLock[l] /\ localLock[l] \in Requests
      BY <1>1, <2>1 DEF LocksTyped, TypeOK
    <3>2. pc[localLock[l]] \in HoldsLocal /\ LocalLock(localLock[l]) = l
      BY <2>1, <3>1 DEF LocksLive, LocalsLive
    <3>3. replica[localLock[l]] # p
      BY <3>1, <3>2 DEF LocalLock
    <3> QED
      BY <1>1, <3>1, <3>2, <3>3
  <2> QED
    BY <1>1, <2>1 DEF LocalsLive, LocalLock
<1>5. LocalsOwned'
  <2>1. ASSUME NEW q \in Requests, pc'[q] \in HoldsLocal
        PROVE  localLock'[LocalLock(q)] = q
    <3>1. q \notin dead /\ pc[q] \in HoldsLocal /\ pc[q] # "idle" /\ pc[q] \in InFlight
      BY <1>1, <2>1 DEF HoldsLocal, InFlight, PCs
    <3>2. localLock[LocalLock(q)] = q /\ LocalLock(q) \in Replicas \X Sessions
      BY <3>1, LocalLockTyped DEF LocksLive, LocalsOwned
    <3>3. LocalLock(q)[1] # p
      BY <1>1, <3>1 DEF LocalLock
    <3> QED
      BY <1>1, <3>2, <3>3
  <2> QED
    BY <1>1, <2>1 DEF LocalsOwned, LocalLock
<1> QED
  BY <1>2, <1>3, <1>4, <1>5 DEF LocksLive

LEMMA NextKeepsLocks ==
  ASSUME LocksTyped, LocksLive, [Next]_vars
  PROVE  LocksLive'
<1>1. ASSUME UNCHANGED <<lockVars, pc, call, replica>> PROVE LocksLive'
  BY <1>1 DEF lockVars, LocksLive, RowsLive, SnapshotLive, LocalsLive, LocalsOwned, LocalLock
<1>2. CASE ChangeAccess \/ UNCHANGED vars
  BY <1>1, <1>2 DEF ChangeAccess, vars, requestVars
<1> QED
  BY <1>2, ArriveKeepsLocks, PreCheckKeepsLocks, TryLocalKeepsLocks, LockRowKeepsLocks,
     LockSnapshotKeepsLocks, EndKeepsLocks, CrashKeepsLocks DEF Next, HandlerStep

LEMMA InitLocks == Init => LocksLive
BY DEF Init, LocksLive, RowsLive, SnapshotLive, LocalsLive, LocalsOwned, HoldsLocal

\* Every lock is held by a live request that will give it up, and the local lock
\* by the one request that took it: no crash, refusal or failure leaks a lock.
THEOREM LocksAreLive == Spec => []LocksLive
<1>1. Init => LocksLive
  BY InitLocks
<1>2. RoomInv => LocksTyped
  BY DEF RoomInv, LocksTyped
<1>3. LocksTyped /\ LocksLive /\ [Next]_vars => LocksLive'
  BY NextKeepsLocks
<1> QED
  BY <1>1, <1>2, <1>3, RoomInvariant, PTL DEF Spec

\* A holder of locks that waits for none.
Runs(q) ==
  /\ q \in Requests
  /\ pc[q] \in {"working", "closing"} \/ (pc[q] = "snapWait" /\ snapLock = None)

\* It runs, or it waits for the one that holds the snapshot, and that one runs.
RowMoves(s) ==
  Runs(rowLock[s]) \/ (pc[rowLock[s]] = "snapWait" /\ Runs(snapLock) /\ snapLock # rowLock[s])

\* Nobody waits in a circle: whoever waits for a row waits for a request that
\* runs, at most one lock further on.
WaitsEnd ==
  /\ \A s \in Sessions : rowLock[s] # None => RowMoves(s)
  /\ snapLock # None => Runs(snapLock)

LEMMA LiveLocksMove ==
  ASSUME TypeOK, LocksLive
  PROVE  WaitsEnd
<1>1. snapLock # None => Runs(snapLock)
  BY DEF TypeOK, LocksLive, SnapshotLive, Runs
<1>2. ASSUME NEW s \in Sessions, rowLock[s] # None PROVE RowMoves(s)
  <2>1. rowLock[s] \in Requests /\ pc[rowLock[s]] \in {"snapWait", "working", "closing"}
    BY <1>2 DEF TypeOK, LocksLive, RowsLive, HoldsRow
  <2>2. pc[rowLock[s]] = "snapWait" /\ snapLock # None => snapLock # rowLock[s]
    BY DEF LocksLive, SnapshotLive
  <2> QED
    BY <1>1, <2>1, <2>2 DEF RowMoves, Runs
<1> QED
  BY <1>1, <1>2 DEF WaitsEnd

\* The Review Room does not deadlock: every chain of waits for session rows and
\* the snapshot ends in a request that runs.
THEOREM NobodyWaitsInACircle == Spec => []WaitsEnd
<1>1. RoomInv /\ LocksLive => WaitsEnd
  BY LiveLocksMove DEF RoomInv
<1> QED
  BY <1>1, RoomInvariant, LocksAreLive, PTL

-----------------------------------------------------------------------------
(***************************************************************************)
(* Refinement.  The transactions are the steps of AtomicReview; nothing    *)
(* else writes the record.                                                 *)
(***************************************************************************)

\* The steps that take, wait for or give up locks leave the record alone.
LEMMA OthersStutter ==
  ASSUME [Next]_vars, \A r \in Requests : ~CommitStep(r)
  PROVE  UNCHANGED recordVars
BY DEF Next, HandlerStep, vars, Arrive, PreCheck, TryLocal, LockRow, LockSnapshot, Abort, Close,
       Finish, Crash, ChangeAccess

\* A keyed operation that works on what it read is acceptable now.
LEMMA KeyedAccepted ==
  ASSUME RoomInv, NEW r \in Requests, pc[r] = "working", call[r].op \in KeyedOps
  PROVE  /\ Abs!Accepts(call[r])
         /\ ~Abs!Unacceptable(call[r])
BY WorkingFacts, SameData DEF Abs!Accepts, Permitted

\* Writing from what was read is writing from what is there.
LEMMA WriteIsCurrent ==
  ASSUME RoomInv, NEW r \in Requests, pc[r] = "working", NEW rows, NEW doc, Write(r, rows, doc)
  PROVE  Abs!Write(call[r].session, rows, doc)
BY DEF Write, Abs!Write

LEMMA CommitRefines ==
  ASSUME RoomInv, NEW r \in Requests, CommitStep(r)
  PROVE  /\ Abs!Next
         /\ status[call[r].session] = "active"
         /\ \A s \in Sessions \ {call[r].session} :
              status'[s] = status[s] /\ turns'[s] = turns[s] /\ state'[s] = state[s]
<1> DEFINE c == call[r]
           s == call[r].session
<1>1. pc[r] = "working"
  BY DEF CommitStep, RespondCommit, ClarifyCommit, CoachCommit, DisputeCommit,
         DispositionCommit, PositionCommit, CompleteCommit, Working
<1>2. /\ c \in Submissions /\ s \in Sessions /\ Permitted(c)
      /\ view[r].doc = state[s] /\ view[r].next = Abs!NextSequence(turns[s])
  BY <1>1, WorkingFacts, SameData
<1>3. ASSUME RespondCommit(r) PROVE \E ready \in BOOLEAN : Abs!Respond(c, ready)
  <2>1. c.op = "respond" /\ Abs!Accepts(c)
    BY <1>1, <1>3, KeyedAccepted DEF RespondCommit, Working, KeyedOps, TurnOps
  <2>2. PICK ready \in BOOLEAN :
          Write(r, Exchange(view[r].next, c, ready), AfterRespond(view[r].doc, c, ready))
    BY <1>3 DEF RespondCommit
  <2>3. Abs!Write(s, Abs!Exchange(Abs!NextSequence(turns[s]), c, ready),
                  Abs!AfterRespond(state[s], c, ready))
    BY <1>1, <1>2, <2>2, WriteIsCurrent, SameData
  <2> QED
    BY <1>3, <2>1, <2>3 DEF Abs!Respond, RespondCommit
<1>4. ASSUME ClarifyCommit(r) PROVE \E ready \in BOOLEAN : Abs!Clarify(c, ready)
  <2>1. c.op = "clarify" /\ Abs!Accepts(c)
    BY <1>1, <1>4, KeyedAccepted DEF ClarifyCommit, Working, KeyedOps, TurnOps
  <2>2. PICK ready \in BOOLEAN :
          Write(r, Exchange(view[r].next, c, ready), AfterClarify(view[r].doc, ready))
    BY <1>4 DEF ClarifyCommit
  <2>3. Abs!Write(s, Abs!Exchange(Abs!NextSequence(turns[s]), c, ready),
                  Abs!AfterClarify(state[s], ready))
    BY <1>1, <1>2, <2>2, WriteIsCurrent, SameData
  <2> QED
    BY <1>4, <2>1, <2>3 DEF Abs!Clarify, ClarifyCommit
<1>5. ASSUME CoachCommit(r) PROVE \E ready \in BOOLEAN : Abs!Coach(c, ready)
  <2>1. c.op = "coach" /\ Abs!Accepts(c)
    BY <1>1, <1>5, KeyedAccepted DEF CoachCommit, Working, KeyedOps, TurnOps
  <2>2. PICK ready \in BOOLEAN :
          Write(r, Exchange(view[r].next, c, ready), AfterCoach(view[r].doc, ready))
    BY <1>5 DEF CoachCommit
  <2>3. Abs!Write(s, Abs!Exchange(Abs!NextSequence(turns[s]), c, ready),
                  Abs!AfterCoach(state[s], ready))
    BY <1>1, <1>2, <2>2, WriteIsCurrent, SameData
  <2> QED
    BY <1>5, <2>1, <2>3 DEF Abs!Coach, CoachCommit
<1>6. ASSUME DisputeCommit(r) PROVE Abs!Dispute(c)
  <2>1. c.op = "evidence_dispute" /\ Abs!Accepts(c) /\ ~Abs!Unacceptable(c)
    BY <1>1, <1>6, KeyedAccepted DEF DisputeCommit, Working, KeyedOps
  <2>2. Abs!Write(s, Abs!Exchange(Abs!NextSequence(turns[s]), c, FALSE), Abs!AfterDispute(state[s]))
    BY <1>1, <1>2, <1>6, WriteIsCurrent, SameData DEF DisputeCommit
  <2>3. findings' = Abs!AfterDisputeFindings(findings, c) /\ UNCHANGED status
    BY <1>6, SameData DEF DisputeCommit
  <2> QED
    BY <2>1, <2>2, <2>3 DEF Abs!Dispute
<1>7. ASSUME DispositionCommit(r) PROVE Abs!Dispose(c)
  BY <1>2, <1>7, SameData DEF DispositionCommit, Working, Abs!Dispose, Permitted
<1>8. ASSUME PositionCommit(r) PROVE Abs!Commit(c)
  <2>1. /\ c.op = "commit" /\ status[s] = "active" /\ state[s].ready
        /\ state[s].position \notin {None, state[s].committed}
    BY <1>2, <1>8 DEF PositionCommit, Working, Permitted
  <2>2. Abs!Write(s, {Abs!ReviewerTurn(Abs!NextSequence(turns[s]), "commit")},
                  Abs!AfterCommit(state[s]))
    BY <1>1, <1>2, <1>8, WriteIsCurrent, SameData DEF PositionCommit
  <2> QED
    BY <1>8, <2>1, <2>2 DEF Abs!Commit, PositionCommit
<1>9. ASSUME CompleteCommit(r) PROVE Abs!Complete(c)
  BY <1>2, <1>9 DEF CompleteCommit, Working, Abs!Complete, Permitted
<1>10. Abs!Next
  BY <1>2, <1>3, <1>4, <1>5, <1>6, <1>7, <1>8, <1>9 DEF CommitStep, Abs!Next
<1>11. \A x \in Sessions \ {s} :
         status'[x] = status[x] /\ turns'[x] = turns[x] /\ state'[x] = state[x]
  <2>1. /\ status' = status \/ status' = [status EXCEPT ![s] = "completed"]
        /\ \/ UNCHANGED <<turns, state>>
           \/ \E rows, doc : Write(r, rows, doc)
    BY DEF CommitStep, RespondCommit, ClarifyCommit, CoachCommit, DisputeCommit,
           DispositionCommit, PositionCommit, CompleteCommit
  <2> QED
    BY <1>2, <2>1 DEF Write, RoomInv, TypeOK
<1> QED
  BY <1>2, <1>10, <1>11 DEF Permitted

\* A review that has ended is never written again nor reopened.
THEOREM EndIsFinal == Spec => EndedIsFinal
<1>1. ASSUME RoomInv, [Next]_vars PROVE [EndedStays]_vars
  <2>1. CASE \E r \in Requests : CommitStep(r)
    <3>1. PICK r \in Requests : CommitStep(r)
      BY <2>1
    <3> QED
      BY <1>1, <3>1, CommitRefines DEF EndedStays
  <2>2. CASE \A r \in Requests : ~CommitStep(r)
    BY <1>1, <2>2, OthersStutter DEF recordVars, EndedStays
  <2> QED
    BY <2>1, <2>2
<1> QED
  BY <1>1, RoomInvariant, PTL DEF Spec, EndedIsFinal

\* The Review Room implements AtomicReview: seen from the database every
\* operation happens at once and on the current record.
THEOREM RoomImplementsAtomicReview == Spec => ImplementsAtomicReview
<1>1. Init => Abs!Init
  BY SameData DEF Init, Abs!Init, OpeningTurns, Abs!OpeningTurns, OpeningState, Abs!OpeningState
<1>2. ASSUME RoomInv, [Next]_vars PROVE [Abs!Next]_(Abs!recordVars)
  <2>1. CASE \E r \in Requests : CommitStep(r)
    <3>1. PICK r \in Requests : CommitStep(r)
      BY <2>1
    <3> QED
      BY <1>2, <3>1, CommitRefines
  <2>2. CASE \A r \in Requests : ~CommitStep(r)
    BY <1>2, <2>2, OthersStutter DEF recordVars, Abs!recordVars
  <2> QED
    BY <2>1, <2>2
<1>3. Spec => Abs!Spec
  BY <1>1, <1>2, RoomInvariant, PTL DEF Spec, Abs!Spec
<1> QED
  BY <1>3 DEF ImplementsAtomicReview

=============================================================================
