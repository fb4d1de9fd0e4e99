-------------------------- MODULE ReviewStartProofs --------------------------
(***************************************************************************)
(* Starting a review, for every set of start requests, handlers, keys,     *)
(* findings, commits and phases: types, one session per request key,       *)
(* evidence frozen at a commit that was HEAD meanwhile, and decisions that *)
(* survive the selection of a finding.                                     *)
(***************************************************************************)
EXTENDS ReviewStart, SequenceTheorems, WellFoundedInduction, TLAPS

\* Between the grant of the Team row and the answer.
Held == {"locked", "chosen", "prepared", "read", "flushed"}

\* A start x that has inserted the row of its finding in an existing snapshot.
Inserted(x) == x.pc = "flushed" /\ x.snap # 0 /\ x.request.finding # None /\ x.seen = "none"

\* What a start x of request r knows about HEAD hd, the snapshots, the
\* sessions and the handlers.
Sound(r, x, hd, snaps, sess, dec) ==
  /\ x.pc # "idle" => x.request \in StartRequests
  /\ x.pc \in {"idle", "waiting"} =>
       x.reply = None /\ x.snap = 0 /\ x.draft = None /\ x.commit = None
  /\ x.reply \in Starts => \E s \in sess : s.id = x.reply /\ s.request = x.request
  /\ x.pc # "done" => \A s \in sess : s.id # r
  /\ x.pc \in Held =>
       \A s \in sess : s.request.key # None => s.request.key # x.request.key
  /\ x.pc \in {"locked", "chosen"} =>
       /\ hd \in x.heads /\ x.snap = 0
       /\ x.commit # None => x.commit \in x.heads
  /\ x.pc \in {"prepared", "read", "flushed"} =>
       IF x.snap = 0
       THEN x.draft \in Snapshot /\ x.draft.phase = x.request.phase /\ x.draft.commit \in x.heads
       ELSE /\ x.snap \in DOMAIN snaps
            /\ snaps[x.snap].phase = x.request.phase /\ snaps[x.snap].commit \in x.heads
  /\ Inserted(x) =>
       /\ snaps[x.snap].found[x.request.finding] = "none"
       /\ \A h \in Handlers : dec[h].pc \in {"holding", "written"} => dec[h].snap # x.snap

\* A session discusses evidence of its phase, at a commit its start has seen.
Discusses(s, snaps, st) ==
  /\ s.snapshot \in DOMAIN snaps
  /\ st[s.id].pc = "done"
  /\ snaps[s.snapshot].phase = s.request.phase
  /\ snaps[s.snapshot].commit \in st[s.id].heads

\* Sessions are told apart by the start that made them and by its key.
Distinct(sess) ==
  \A s, t \in sess :
    \/ s.id = t.id
    \/ s.request.key = t.request.key /\ s.request.key # None
    => s = t

Handles(y, snaps) == y.pc # "idle" => y.snap \in DOMAIN snaps /\ y.decision \in Decisions

Typed ==
  /\ repo \in BOOLEAN /\ head \in Commits /\ contract \in 1 .. MaxContract + 1
  /\ analysed \subseteq Phases \X Shas
  /\ term \in {"active", "closing", "archived"}
  /\ snapshots \in Seq(Snapshot) /\ sessions \subseteq Session /\ closing \subseteq sessions
  /\ teamLock \in Starts \cup {None}
  /\ start \in [Starts -> Start] /\ decide \in [Handlers -> Decide]

\* The Team row is held by the one start that works.
LockOwned ==
  /\ \A r \in Starts : start[r].pc \in Held => teamLock = r
  /\ \A r \in Starts : teamLock = r => start[r].pc \in Held

StartInv ==
  /\ Typed /\ LockOwned
  /\ \A r \in Starts : Sound(r, start[r], HeadSha, snapshots, sessions, decide)
  /\ \A s \in sessions : Discusses(s, snapshots, start)
  /\ Distinct(sessions)
  /\ \A h \in Handlers : Handles(decide[h], snapshots)

-----------------------------------------------------------------------------
LEMMA HeadShaType ==
  ASSUME StartInv
  PROVE  HeadSha \in Shas
BY DEF HeadSha, Shas, StartInv, Typed

LEMMA WorldStays ==
  ASSUME UNCHANGED world
  PROVE  UNCHANGED <<HeadSha, repo, head, contract, term, closing>>
BY DEF world, HeadSha

LEMMA InitHolds == Init => StartInv
<1> SUFFICES ASSUME Init PROVE StartInv
  OBVIOUS
<1>1. IdleStart \in Start
  BY StartAssumption DEF IdleStart, Start, RowStatus
<1>2. \A r \in Starts : Sound(r, IdleStart, HeadSha, snapshots, {}, decide)
  BY StartAssumption DEF Sound, IdleStart, Held, Inserted
<1>3. Typed
  <2>1. [pc |-> "idle", snap |-> 0, decision |-> None, bills |-> FALSE] \in Decide
    BY DEF Decide
  <2>2. snapshots \in Seq(Snapshot)
    BY DEF Init
  <2>3. start \in [Starts -> Start] /\ decide \in [Handlers -> Decide]
    BY <1>1, <2>1 DEF Init
  <2>4. head \in Commits /\ contract \in 1 .. MaxContract + 1
    BY StartAssumption DEF Init
  <2>5. /\ repo \in BOOLEAN /\ analysed = {} /\ term = "active"
        /\ closing = {} /\ sessions = {} /\ teamLock = None
    BY DEF Init
  <2> QED
    BY <2>2, <2>3, <2>4, <2>5 DEF Typed
<1>4. LockOwned
  BY StartAssumption DEF Init, LockOwned, IdleStart, Held
<1>5. \A h \in Handlers : Handles(decide[h], snapshots)
  BY DEF Init, Handles
<1> QED
  BY <1>2, <1>3, <1>4, <1>5 DEF Init, StartInv, Distinct

-----------------------------------------------------------------------------
(***************************************************************************)
(* Steps of one start that write no row.                                   *)
(***************************************************************************)
\* x is what start r becomes; tl is who holds the Team row then.
Permissible(r, x, tl) ==
  /\ x \in Start /\ Sound(r, x, HeadSha, snapshots, sessions, decide)
  /\ x.pc = "done" \/ start[r].pc # "done"
  /\ start[r].pc = "done" => FALSE
  /\ \/ x.pc \in Held /\ teamLock \in {r, None} /\ tl = r
     \/ x.pc \notin Held /\ tl = IF teamLock = r THEN None ELSE teamLock

LEMMA StartMoves ==
  ASSUME StartInv, NEW r \in Starts, NEW x, Permissible(r, x, teamLock'),
         start' = [start EXCEPT ![r] = x],
         UNCHANGED <<world, snapshots, sessions, decide>>,
         analysed' \subseteq Phases \X Shas
  PROVE  StartInv'
<1>1. Typed' /\ UNCHANGED <<HeadSha, head, contract, term, closing>>
  BY StartAssumption, WorldStays DEF StartInv, Typed, Permissible, world
<1>2. LockOwned'
  BY StartAssumption DEF StartInv, Typed, Permissible, LockOwned
<1>3. start'[r] = x /\ \A q \in Starts \ {r} : start'[q] = start[q]
  BY DEF StartInv, Typed
<1>4. \A q \in Starts : Sound(q, start'[q], HeadSha, snapshots, sessions, decide)
  BY <1>3 DEF StartInv, Permissible
<1>5. \A s \in sessions : Discusses(s, snapshots, start')
  <2> SUFFICES ASSUME NEW s \in sessions PROVE Discusses(s, snapshots, start')
    OBVIOUS
  <2>1. Discusses(s, snapshots, start) /\ s.id \in Starts
    BY DEF StartInv, Typed, Session
  <2>2. s.id # r
    BY <2>1 DEF Discusses, Permissible
  <2> QED
    BY <1>3, <2>1, <2>2 DEF Discusses
<1> QED
  BY <1>1, <1>2, <1>4, <1>5 DEF StartInv

-----------------------------------------------------------------------------
(***************************************************************************)
(* The fields of a start, one at a time.                                   *)
(***************************************************************************)
Pcs == {"idle", "waiting", "locked", "chosen", "prepared", "read", "flushed", "done"}

LEMMA SetPc ==
  ASSUME NEW x \in Start, NEW p \in Pcs, NEW y, y = [x EXCEPT !.pc = p]
  PROVE  /\ y \in Start /\ y.pc = p
         /\ y.request = x.request /\ y.snap = x.snap /\ y.draft = x.draft /\ y.commit = x.commit
         /\ y.seen = x.seen /\ y.heads = x.heads /\ y.reply = x.reply
BY DEF Start, Pcs

LEMMA SetReply ==
  ASSUME NEW x \in Start, NEW a \in Starts \cup Refusals \cup {None}, NEW y, y = [x EXCEPT !.reply = a]
  PROVE  /\ y \in Start /\ y.reply = a
         /\ y.pc = x.pc /\ y.request = x.request /\ y.snap = x.snap /\ y.draft = x.draft
         /\ y.commit = x.commit /\ y.seen = x.seen /\ y.heads = x.heads
BY DEF Start

LEMMA SetRequest ==
  ASSUME NEW x \in Start, NEW c \in StartRequests, NEW y, y = [x EXCEPT !.request = c]
  PROVE  /\ y \in Start /\ y.request = c
         /\ y.pc = x.pc /\ y.snap = x.snap /\ y.draft = x.draft /\ y.commit = x.commit
         /\ y.seen = x.seen /\ y.heads = x.heads /\ y.reply = x.reply
BY DEF Start

LEMMA SetHeads ==
  ASSUME NEW x \in Start, NEW S \in SUBSET Shas, NEW y, y = [x EXCEPT !.heads = S]
  PROVE  /\ y \in Start /\ y.heads = S
         /\ y.pc = x.pc /\ y.request = x.request /\ y.snap = x.snap /\ y.draft = x.draft
         /\ y.commit = x.commit /\ y.seen = x.seen /\ y.reply = x.reply
BY DEF Start

LEMMA SetSnap ==
  ASSUME NEW x \in Start, NEW n \in Nat, NEW y, y = [x EXCEPT !.snap = n]
  PROVE  /\ y \in Start /\ y.snap = n
         /\ y.pc = x.pc /\ y.request = x.request /\ y.draft = x.draft /\ y.commit = x.commit
         /\ y.seen = x.seen /\ y.heads = x.heads /\ y.reply = x.reply
BY DEF Start

LEMMA SetCommit ==
  ASSUME NEW x \in Start, NEW c \in Shas \cup {None}, NEW y, y = [x EXCEPT !.commit = c]
  PROVE  /\ y \in Start /\ y.commit = c
         /\ y.pc = x.pc /\ y.request = x.request /\ y.snap = x.snap /\ y.draft = x.draft
         /\ y.seen = x.seen /\ y.heads = x.heads /\ y.reply = x.reply
BY DEF Start

LEMMA SetDraft ==
  ASSUME NEW x \in Start, NEW d \in Snapshot, NEW y, y = [x EXCEPT !.draft = d]
  PROVE  /\ y \in Start /\ y.draft = d
         /\ y.pc = x.pc /\ y.request = x.request /\ y.snap = x.snap /\ y.commit = x.commit
         /\ y.seen = x.seen /\ y.heads = x.heads /\ y.reply = x.reply
BY DEF Start

LEMMA SetSeen ==
  ASSUME NEW x \in Start, NEW v \in RowStatus, NEW y, y = [x EXCEPT !.seen = v]
  PROVE  /\ y \in Start /\ y.seen = v
         /\ y.pc = x.pc /\ y.request = x.request /\ y.snap = x.snap /\ y.draft = x.draft
         /\ y.commit = x.commit /\ y.heads = x.heads /\ y.reply = x.reply
BY DEF Start

-----------------------------------------------------------------------------
\* Ending with answer a.
LEMMA AnswerKeeps ==
  ASSUME StartInv, NEW r \in Starts, NEW a \in Starts \cup Refusals \cup {None},
         start[r].pc \notin {"idle", "done"}, Answer(r, a),
         a \in Starts => \E s \in sessions : s.id = a /\ s.request = start[r].request,
         UNCHANGED <<world, snapshots, sessions, decide>>,
         analysed' \subseteq Phases \X Shas
  PROVE  StartInv'
<1>1. start[r] \in Start /\ Sound(r, start[r], HeadSha, snapshots, sessions, decide)
  BY DEF StartInv, Typed
<1> DEFINE one == [start[r] EXCEPT !.pc = "done"]
           two == [one EXCEPT !.reply = a]
<1>2. one \in Start /\ one.pc = "done" /\ one.request = start[r].request
  BY <1>1, SetPc DEF Pcs
<1>3. start' = [start EXCEPT ![r] = two] /\ teamLock' = IF teamLock = r THEN None ELSE teamLock
  BY DEF Answer, StartInv, Typed
<1> HIDE DEF one
<1>4. two \in Start /\ two.pc = "done" /\ two.request = one.request /\ two.reply = a
  BY <1>2, SetReply
<1> HIDE DEF two
<1>5. Sound(r, two, HeadSha, snapshots, sessions, decide)
  BY <1>1, <1>2, <1>4 DEF Sound, Held, Inserted
<1>6. Permissible(r, two, teamLock')
  BY <1>3, <1>4, <1>5 DEF Permissible, Held
<1> QED
  BY <1>3, <1>6, StartMoves

LEMMA RefusedKeeps ==
  ASSUME StartInv, NEW r \in Starts, NEW a \in Refusals,
         start[r].pc \notin {"idle", "done"}, Answer(r, a),
         UNCHANGED <<world, snapshots, sessions, decide>>,
         analysed' \subseteq Phases \X Shas
  PROVE  StartInv'
BY AnswerKeeps, StartAssumption

LEMMA ArriveKeeps ==
  ASSUME StartInv, NEW r \in Starts, NEW c \in StartRequests, Arrive(r, c)
  PROVE  StartInv'
<1>1. start[r] \in Start /\ Sound(r, start[r], HeadSha, snapshots, sessions, decide)
  BY DEF StartInv, Typed
<1>2. PICK p \in {"done", "waiting"}, a \in {"refused", None} :
        /\ p = "waiting" => a = None
        /\ start' = [start EXCEPT ![r].pc = p, ![r].reply = a, ![r].request = c]
  BY DEF Arrive
<1> DEFINE one == [start[r] EXCEPT !.pc = p]
           two == [one EXCEPT !.reply = a]
           three == [two EXCEPT !.request = c]
<1>3. /\ one \in Start /\ one.pc = p
      /\ one.snap = start[r].snap /\ one.draft = start[r].draft /\ one.commit = start[r].commit
  BY <1>1, SetPc DEF Pcs
<1>4. start' = [start EXCEPT ![r] = three]
  BY <1>2 DEF StartInv, Typed
<1> HIDE DEF one
<1>5. /\ two \in Start /\ two.pc = p /\ two.reply = a
      /\ two.snap = one.snap /\ two.draft = one.draft /\ two.commit = one.commit
  BY <1>3, SetReply DEF Refusals
<1> HIDE DEF two
<1>6. /\ three \in Start /\ three.pc = p /\ three.reply = a /\ three.request = c
      /\ three.snap = two.snap /\ three.draft = two.draft /\ three.commit = two.commit
  BY <1>5, SetRequest
<1> HIDE DEF three
<1>7. start[r].pc = "idle"
  BY DEF Arrive
<1>8. a \notin Starts
  BY StartAssumption DEF Refusals
<1>9. Sound(r, three, HeadSha, snapshots, sessions, decide)
  BY <1>1, <1>2, <1>3, <1>5, <1>6, <1>7, <1>8 DEF Sound, Held, Inserted
<1>10. teamLock' = teamLock /\ teamLock # r
  BY <1>7 DEF Arrive, StartInv, LockOwned, Held
<1>11. Permissible(r, three, teamLock')
  BY <1>6, <1>7, <1>9, <1>10 DEF Permissible, Held
<1> QED
  BY <1>4, <1>11, StartMoves DEF Arrive, StartInv, Typed

\* The row is granted and the key settled.
LEMMA LockTeamKeeps ==
  ASSUME StartInv, NEW r \in Starts, LockTeam(r)
  PROVE  StartInv'
<1>1. start[r] \in Start /\ Sound(r, start[r], HeadSha, snapshots, sessions, decide)
  BY DEF StartInv, Typed
<1>2. start[r].pc = "waiting" /\ teamLock = None
  BY DEF LockTeam
<1>3. UNCHANGED <<world, snapshots, sessions, decide>> /\ analysed' \subseteq Phases \X Shas
  BY DEF LockTeam, StartInv, Typed
<1> DEFINE used == SessionsWithKey(Req(r).key)
<1>4. CASE term = "archived"
  <2>1. Answer(r, "refused")
    BY <1>4 DEF LockTeam, Settle
  <2> QED
    BY <1>2, <1>3, <2>1, RefusedKeeps DEF Refusals
<1>5. CASE term # "archived" /\ used = {}
  <2>1. teamLock' = r /\ start' = [start EXCEPT ![r].pc = "locked", ![r].heads = {HeadSha}]
    BY <1>5 DEF LockTeam, Settle
  <2> DEFINE one == [start[r] EXCEPT !.pc = "locked"]
             two == [one EXCEPT !.heads = {HeadSha}]
  <2>2. one \in Start /\ one.pc = "locked" /\ one.request = start[r].request /\ one.reply = None
        /\ one.snap = start[r].snap /\ one.commit = start[r].commit
    BY <1>1, <1>2, SetPc DEF Pcs, Sound
  <2>3. start' = [start EXCEPT ![r] = two]
    BY <2>1 DEF StartInv, Typed
  <2> HIDE DEF one
  <2>4. two \in Start /\ two.pc = "locked" /\ two.request = one.request /\ two.reply = None
        /\ two.snap = one.snap /\ two.commit = one.commit /\ two.heads = {HeadSha}
    <3>1. {HeadSha} \in SUBSET Shas
      BY HeadShaType
    <3> QED
      BY <2>2, <3>1, SetHeads
  <2> HIDE DEF two
  <2>5. \A s \in sessions : s.request.key # None => s.request.key # start[r].request.key
    BY <1>5 DEF SessionsWithKey, Req
  <2>6. start[r].snap = 0 /\ start[r].commit = None
    BY <1>1, <1>2 DEF Sound
  <2>7. Sound(r, two, HeadSha, snapshots, sessions, decide)
    BY <1>1, <1>2, <2>2, <2>4, <2>5, <2>6, StartAssumption DEF Sound, Held, Inserted
  <2>8. Permissible(r, two, teamLock')
    BY <1>2, <2>1, <2>4, <2>7 DEF Permissible, Held
  <2> QED
    BY <1>3, <2>3, <2>8, StartMoves
<1>6. CASE term # "archived" /\ used # {}
  <2>1. CASE \E s \in used : SameStart(s, r)
    <3>1. PICK s \in used : s.request = Req(r)
      BY <2>1 DEF SameStart
    <3>2. \A t \in used : t = s
      BY DEF SessionsWithKey, StartInv, Distinct
    <3>3. (CHOOSE t \in used : TRUE) = s
      BY <1>6, <3>2
    <3>4. Answer(r, s.id)
      BY <1>6, <2>1, <3>3 DEF LockTeam, Settle
    <3>5. s \in sessions /\ s.id \in Starts
      BY DEF SessionsWithKey, StartInv, Typed, Session
    <3> QED
      BY <1>2, <1>3, <3>1, <3>4, <3>5, AnswerKeeps DEF Req
  <2>2. CASE ~\E s \in used : SameStart(s, r)
    <3>1. Answer(r, "conflict")
      BY <1>6, <2>2 DEF LockTeam, Settle
    <3> QED
      BY <1>2, <1>3, <3>1, RefusedKeeps DEF Refusals
  <2> QED
    BY <2>1, <2>2
<1> QED
  BY <1>4, <1>5, <1>6

-----------------------------------------------------------------------------
\* A non-empty set of numbers has a least one ...
LEMMA LeastOf ==
  ASSUME NEW T, T \subseteq Nat, T # {}
  PROVE  \E x \in T : \A y \in T : x =< y
<1> DEFINE R == {p \in Nat \X Nat : p[1] < p[2]}
<1>1. IsWellFoundedOn(R, Nat)
  BY NatLessThanWellFounded DEF OpToRel
<1>2. \E x \in T : \A y \in T : ~ (<<y, x>> \in R)
  <2> HIDE DEF R
  <2> QED
    BY <1>1, WFMin
<1>3. PICK x \in T : \A y \in T : ~ (<<y, x>> \in R)
  BY <1>2
<1>4. \A y \in T : x =< y
  <2> TAKE y \in T
  <2>1. <<y, x>> \in Nat \X Nat /\ ~(<<y, x>> \in R)
    BY <1>3
  <2>2. ~(y < x)
    BY <2>1
  <2> QED
    BY <2>2
<1> QED
  BY <1>4

\* ... and, if it is bounded, a greatest one, which Max names.
LEMMA MaxOf ==
  ASSUME NEW k \in Nat, NEW S, S \subseteq 1 .. k, S # {}
  PROVE  Max(S) \in S /\ \A y \in S : y =< Max(S)
<1> DEFINE T == {n \in Nat : \E y \in S : n = k - y}
<1>1. T \subseteq Nat /\ T # {}
  <2>1. PICK y \in S : y \in 1 .. k
    OBVIOUS
  <2>2. k - y \in T
    BY <2>1
  <2> QED
    BY <2>2
<1>2. PICK m \in T : \A n \in T : m =< n
  <2> HIDE DEF T
  <2> QED
    BY <1>1, LeastOf
<1>3. PICK x \in S : m = k - x
  OBVIOUS
<1>4. \A y \in S : x >= y
  <2> TAKE y \in S
  <2>1. k - y \in T
    OBVIOUS
  <2>2. m =< k - y
    BY <1>2, <2>1
  <2> QED
    BY <1>3, <2>2
<1>5. Max(S) \in S /\ \A y \in S : Max(S) >= y
  BY <1>4 DEF Max
<1> QED
  BY <1>5

\* A snapshot that is reused froze the same phase and commit.
LEMMA ReusableIsSame ==
  ASSUME StartInv, NEW p, NEW n, n = Reusable(SameEvidence(p, HeadSha))
  PROVE  /\ n \in Nat
         /\ n # 0 => n \in DOMAIN snapshots /\ snapshots[n].phase = p /\ snapshots[n].commit = HeadSha
<1> DEFINE same == SameEvidence(p, HeadSha)
<1>1. Len(snapshots) \in Nat /\ same \subseteq 1 .. Len(snapshots)
  BY DEF SameEvidence, StartInv, Typed
<1>2. CASE same # {} /\ snapshots[Max(same)].contract = contract
  <2>1. n = Max(same)
    BY <1>2 DEF Reusable
  <2>2. Max(same) \in same
    <3> HIDE DEF same
    <3> QED
      BY <1>1, <1>2, MaxOf
  <2> QED
    BY <1>1, <2>1, <2>2 DEF SameEvidence
<1>3. CASE ~(same # {} /\ snapshots[Max(same)].contract = contract)
  BY <1>3 DEF Reusable
<1> QED
  BY <1>2, <1>3

\* A step of a start that works, and goes on working, as x.
LEMMA WorkingMoves ==
  ASSUME StartInv, NEW r \in Starts, NEW x, x \in Start, start[r].pc \in Held, x.pc \in Held,
         Sound(r, x, HeadSha, snapshots, sessions, decide),
         start' = [start EXCEPT ![r] = x],
         UNCHANGED <<world, snapshots, sessions, decide, teamLock>>,
         analysed' \subseteq Phases \X Shas
  PROVE  StartInv'
<1>1. teamLock = r
  BY DEF StartInv, LockOwned
<1>2. Permissible(r, x, teamLock')
  BY <1>1 DEF Permissible, Held
<1> QED
  BY <1>2, StartMoves

LEMMA ChooseCommitKeeps ==
  ASSUME StartInv, NEW r \in Starts, ChooseCommit(r)
  PROVE  StartInv'
<1>1. start[r] \in Start /\ Sound(r, start[r], HeadSha, snapshots, sessions, decide)
  BY DEF StartInv, Typed
<1>2. start[r].pc = "locked"
  BY DEF ChooseCommit
<1> DEFINE n == IF Unpinned(Req(r), HeadSha) THEN 0 ELSE Reusable(SameEvidence(Req(r).phase, HeadSha))
           p == IF n = 0 THEN "chosen" ELSE "prepared"
           c == IF n = 0 THEN None ELSE HeadSha
           one == [start[r] EXCEPT !.pc = p]
           two == [one EXCEPT !.snap = n]
           three == [two EXCEPT !.commit = c]
<1>3. /\ n \in Nat
      /\ n # 0 => /\ n \in DOMAIN snapshots
                  /\ snapshots[n].phase = start[r].request.phase /\ snapshots[n].commit = HeadSha
  BY ReusableIsSame DEF Req
<1>4. start' = [start EXCEPT ![r] = three]
  BY DEF ChooseCommit, StartInv, Typed
<1> HIDE DEF n
<1>5. p \in Pcs /\ c \in Shas \cup {None}
  BY HeadShaType DEF Pcs
<1>6. /\ p = (IF n = 0 THEN "chosen" ELSE "prepared")
      /\ c = (IF n = 0 THEN None ELSE HeadSha)
  OBVIOUS
<1> HIDE DEF p, c
<1>7. /\ one \in Start /\ one.pc = p /\ one.reply = start[r].reply /\ one.request = start[r].request
      /\ one.heads = start[r].heads
  BY <1>1, <1>5, SetPc
<1> HIDE DEF one
<1>8. /\ two \in Start /\ two.pc = p /\ two.reply = one.reply /\ two.request = one.request
      /\ two.heads = one.heads /\ two.snap = n
  BY <1>3, <1>7, SetSnap
<1> HIDE DEF two
<1>9. /\ three \in Start /\ three.pc = p /\ three.reply = two.reply /\ three.request = two.request
      /\ three.heads = two.heads /\ three.snap = n /\ three.commit = c
  BY <1>5, <1>8, SetCommit
<1> HIDE DEF three
<1>10. Sound(r, three, HeadSha, snapshots, sessions, decide) /\ three.pc \in Held
  BY <1>1, <1>2, <1>3, <1>6, <1>7, <1>8, <1>9 DEF Sound, Held, Inserted
<1> QED
  BY <1>2, <1>4, <1>9, <1>10, WorkingMoves DEF Held, ChooseCommit, StartInv, Typed

LEMMA RereadHeadKeeps ==
  ASSUME StartInv, NEW r \in Starts, RereadHead(r)
  PROVE  StartInv'
<1>1. start[r] \in Start /\ Sound(r, start[r], HeadSha, snapshots, sessions, decide)
  BY DEF StartInv, Typed
<1> DEFINE x == [start[r] EXCEPT !.commit = HeadSha]
<1>2. start' = [start EXCEPT ![r] = x] /\ start[r].pc = "chosen"
  BY DEF RereadHead, StartInv, Typed
<1>3. /\ x \in Start /\ x.pc = "chosen" /\ x.reply = start[r].reply /\ x.request = start[r].request
      /\ x.heads = start[r].heads /\ x.snap = start[r].snap /\ x.commit = HeadSha
  BY <1>1, <1>2, HeadShaType, SetCommit
<1> HIDE DEF x
<1>4. Sound(r, x, HeadSha, snapshots, sessions, decide)
  BY <1>1, <1>2, <1>3 DEF Sound, Held, Inserted
<1> QED
  BY <1>2, <1>3, <1>4, WorkingMoves DEF Held, RereadHead, StartInv, Typed

\* The states a new snapshot starts with are states.
LEMMA CarriedIsRows ==
  ASSUME StartInv, NEW p, NEW c
  PROVE  Carried(p, c) \in [Findings -> RowStatus]
<1> DEFINE n == Len(snapshots)
<1>1. CASE n # 0
  <2>1. snapshots[n] \in Snapshot
    BY <1>1 DEF StartInv, Typed
  <2>2. snapshots[n].found \in [Findings -> RowStatus]
    BY <2>1 DEF Snapshot
  <2> QED
    BY <2>2 DEF Carried, NoRows, RowStatus
<1>2. CASE n = 0
  BY <1>2 DEF Carried, NoRows, RowStatus
<1> QED
  BY <1>1, <1>2

LEMMA AnalyseKeeps ==
  ASSUME StartInv, NEW r \in Starts, Analyse(r)
  PROVE  StartInv'
<1>1. start[r] \in Start /\ Sound(r, start[r], HeadSha, snapshots, sessions, decide)
  BY DEF StartInv, Typed
<1>2. start[r].pc = "chosen" /\ (start[r].commit # None \/ ~repo)
  BY DEF Analyse
<1>3. CASE Evidence(r) = {}
  BY <1>2, <1>3, RefusedKeeps DEF Analyse, Refusals, StartInv, Typed
<1>4. CASE Evidence(r) # {}
  <2>1. PICK c \in Evidence(r) :
          /\ start' = [start EXCEPT
               ![r].pc = "prepared", ![r].commit = c,
               ![r].draft = [phase |-> Req(r).phase, commit |-> c, contract |-> contract,
                             found |-> Carried(Req(r).phase, c)]]
          /\ analysed' \in {analysed, analysed \cup {<<Req(r).phase, c>>}}
          /\ UNCHANGED <<teamLock, world, snapshots, sessions, decide>>
    BY <1>4 DEF Analyse
  <2>2. c \in start[r].heads
    BY <1>1, <1>2 DEF Evidence, Unpinned, HeadSha, Sound
  <2>3. c \in Shas
    BY <1>1, <2>2 DEF Start
  <2>4. Req(r).phase \in Phases
    BY <1>1, <1>2, StartAssumption DEF Req, Sound, StartRequest
  <2> DEFINE d == [phase |-> Req(r).phase, commit |-> c, contract |-> contract,
                   found |-> Carried(Req(r).phase, c)]
             one == [start[r] EXCEPT !.pc = "prepared"]
             two == [one EXCEPT !.commit = c]
             three == [two EXCEPT !.draft = d]
  <2>5. d \in Snapshot
    BY <2>3, <2>4, CarriedIsRows DEF Snapshot, StartInv, Typed
  <2>6. start' = [start EXCEPT ![r] = three] /\ d.phase = start[r].request.phase /\ d.commit = c
    BY <2>1 DEF StartInv, Typed, Req
  <2> HIDE DEF d
  <2>7. /\ one \in Start /\ one.pc = "prepared" /\ one.reply = start[r].reply
        /\ one.request = start[r].request /\ one.heads = start[r].heads /\ one.snap = start[r].snap
    BY <1>1, SetPc DEF Pcs
  <2> HIDE DEF one
  <2>8. /\ two \in Start /\ two.pc = "prepared" /\ two.reply = one.reply
        /\ two.request = one.request /\ two.heads = one.heads /\ two.snap = one.snap
    BY <2>3, <2>7, SetCommit
  <2> HIDE DEF two
  <2>9. /\ three \in Start /\ three.pc = "prepared" /\ three.reply = two.reply
        /\ three.request = two.request /\ three.heads = two.heads /\ three.snap = two.snap
        /\ three.draft = d
    BY <2>5, <2>8, SetDraft
  <2> HIDE DEF three
  <2>10. Sound(r, three, HeadSha, snapshots, sessions, decide)
    BY <1>1, <1>2, <2>2, <2>5, <2>6, <2>7, <2>8, <2>9 DEF Sound, Held, Inserted
  <2>11. analysed' \subseteq Phases \X Shas
    BY <2>1, <2>3, <2>4 DEF StartInv, Typed
  <2> QED
    BY <1>2, <2>1, <2>6, <2>9, <2>10, <2>11, WorkingMoves DEF Held
<1> QED
  BY <1>3, <1>4

\* Rows of snapshots hold states.
LEMMA RowsAreStatuses ==
  ASSUME StartInv, NEW n \in DOMAIN snapshots
  PROVE  /\ n \in Nat \ {0} /\ snapshots[n] \in Snapshot
         /\ snapshots[n].found \in [Findings -> RowStatus]
<1>1. n \in Nat \ {0} /\ snapshots[n] \in Snapshot
  BY DEF StartInv, Typed
<1> QED
  BY <1>1 DEF Snapshot

LEMMA ReadFindingKeeps ==
  ASSUME StartInv, NEW r \in Starts, ReadFinding(r)
  PROVE  StartInv'
<1>1. start[r] \in Start /\ Sound(r, start[r], HeadSha, snapshots, sessions, decide)
  BY DEF StartInv, Typed
<1>2. start[r].pc = "prepared"
  BY DEF ReadFinding
<1> DEFINE n == start[r].snap
           f == Req(r).finding
           v == IF f = None \/ n = 0 THEN "none" ELSE snapshots[n].found[f]
           one == [start[r] EXCEPT !.pc = "read"]
           two == [one EXCEPT !.seen = v]
<1>3. f \in Findings \cup {None}
  BY <1>1, <1>2, StartAssumption DEF Sound, Req, StartRequest
<1>4. v \in RowStatus
  BY <1>1, <1>2, <1>3, RowsAreStatuses DEF Sound, RowStatus
<1>5. start' = [start EXCEPT ![r] = two]
  BY DEF ReadFinding, StartInv, Typed
<1> HIDE DEF v
<1>6. /\ one \in Start /\ one.pc = "read" /\ one.reply = start[r].reply
      /\ one.request = start[r].request /\ one.heads = start[r].heads /\ one.snap = start[r].snap
      /\ one.draft = start[r].draft
  BY <1>1, SetPc DEF Pcs
<1> HIDE DEF one
<1>7. /\ two \in Start /\ two.pc = "read" /\ two.reply = one.reply
      /\ two.request = one.request /\ two.heads = one.heads /\ two.snap = one.snap
      /\ two.draft = one.draft
  BY <1>4, <1>6, SetSeen
<1> HIDE DEF two
<1>8. Sound(r, two, HeadSha, snapshots, sessions, decide)
  BY <1>1, <1>2, <1>6, <1>7 DEF Sound, Held, Inserted
<1> QED
  BY <1>2, <1>5, <1>7, <1>8, WorkingMoves DEF Held, ReadFinding, StartInv, Typed

LEMMA FlushStartKeeps ==
  ASSUME StartInv, NEW r \in Starts, FlushStart(r)
  PROVE  StartInv'
<1>1. start[r] \in Start /\ Sound(r, start[r], HeadSha, snapshots, sessions, decide)
  BY DEF StartInv, Typed
<1>2. start[r].pc = "read"
  BY DEF FlushStart
<1>3. CASE Inserts(r) /\ RowExists(r)
  BY <1>2, <1>3, RefusedKeeps DEF FlushStart, Refusals, StartInv, Typed
<1>4. CASE ~(Inserts(r) /\ RowExists(r))
  <2> DEFINE x == [start[r] EXCEPT !.pc = "flushed"]
  <2>1. start' = [start EXCEPT ![r] = x] /\ UNCHANGED <<teamLock, world, analysed, snapshots, sessions, decide>>
    BY <1>4 DEF FlushStart, Goes, StartInv, Typed
  <2>2. /\ x \in Start /\ x.pc = "flushed" /\ x.reply = start[r].reply
        /\ x.request = start[r].request /\ x.heads = start[r].heads /\ x.snap = start[r].snap
        /\ x.draft = start[r].draft /\ x.seen = start[r].seen
    BY <1>1, SetPc DEF Pcs
  <2> HIDE DEF x
  <2>3. ASSUME Inserted(x)
        PROVE  /\ snapshots[x.snap].found[x.request.finding] = "none"
               /\ \A h \in Handlers : decide[h].pc \in {"holding", "written"} => decide[h].snap # x.snap
    <3>1. Inserts(r) /\ Marks(r) /\ start[r].snap # 0
      BY <2>2, <2>3 DEF Inserted, Inserts, Marks, Req
    <3>2. ~RowExists(r)
      BY <1>4, <3>1
    <3>3. \A h \in Handlers : ~BlockedBy(r, h)
      BY DEF FlushStart
    <3> QED
      BY <1>2, <2>2, <3>1, <3>2, <3>3 DEF RowExists, BlockedBy, Req
  <2>4. Sound(r, x, HeadSha, snapshots, sessions, decide)
    BY <1>1, <1>2, <2>2, <2>3 DEF Sound, Held
  <2> QED
    BY <1>2, <2>1, <2>2, <2>4, WorkingMoves DEF Held, StartInv, Typed
<1> QED
  BY <1>3, <1>4

LEMMA LeavingKeeps ==
  ASSUME StartInv, NEW r \in Starts, RefuseStart(r) \/ Abort(r)
  PROVE  StartInv'
BY RefusedKeeps DEF RefuseStart, Abort, Refusals, StartInv, Typed

-----------------------------------------------------------------------------
(***************************************************************************)
(* Steps that write snapshots or handlers.                                 *)
(***************************************************************************)
\* No evidence is lost or rewritten; only states of findings are.
Kept(new) ==
  /\ new \in Seq(Snapshot)
  /\ \A m \in DOMAIN snapshots :
       /\ m \in DOMAIN new
       /\ new[m].phase = snapshots[m].phase /\ new[m].commit = snapshots[m].commit
       /\ new[m].contract = snapshots[m].contract

LEMMA WritingKeepsEvidence ==
  ASSUME StartInv, NEW n \in DOMAIN snapshots, NEW rows \in [Findings -> RowStatus],
         NEW new, new = [snapshots EXCEPT ![n].found = rows]
  PROVE  /\ Kept(new) /\ DOMAIN new = DOMAIN snapshots
         /\ new[n].found = rows /\ \A m \in DOMAIN snapshots \ {n} : new[m] = snapshots[m]
<1> DEFINE one == [snapshots[n] EXCEPT !.found = rows]
<1>1. new = [snapshots EXCEPT ![n] = one]
  BY DEF StartInv, Typed
<1>2. /\ one \in Snapshot /\ one.phase = snapshots[n].phase /\ one.commit = snapshots[n].commit
      /\ one.contract = snapshots[n].contract /\ one.found = rows
  BY RowsAreStatuses DEF Snapshot
<1> HIDE DEF one
<1>3. new \in Seq(Snapshot)
  <2>1. snapshots \in Seq(Snapshot) /\ n \in 1 .. Len(snapshots)
    BY DEF StartInv, Typed
  <2> QED
    BY <1>1, <1>2, <2>1, ExceptSeq
<1>4. /\ DOMAIN new = DOMAIN snapshots
      /\ new[n] = one /\ \A m \in DOMAIN snapshots \ {n} : new[m] = snapshots[m]
  BY <1>1 DEF StartInv, Typed
<1> QED
  BY <1>2, <1>3, <1>4 DEF Kept

LEMMA AppendingKeepsEvidence ==
  ASSUME StartInv, NEW d \in Snapshot, NEW new, new = Append(snapshots, d)
  PROVE  /\ Kept(new) /\ DOMAIN new = DOMAIN snapshots \cup {Len(snapshots) + 1}
         /\ new[Len(snapshots) + 1] = d
         /\ \A m \in DOMAIN snapshots : new[m] = snapshots[m]
BY DEF StartInv, Typed, Kept

LEMMA DiscussionsStay ==
  ASSUME StartInv, NEW new, Kept(new)
  PROVE  \A s \in sessions : Discusses(s, new, start)
BY DEF StartInv, Discusses, Kept

\* A handler that moves to y and may write one finding of its snapshot.
LEMMA HandlerMoves ==
  ASSUME StartInv, NEW h \in Handlers, NEW y \in Decide,
         decide' = [decide EXCEPT ![h] = y], Handles(y, snapshots),
         Kept(snapshots'), UNCHANGED <<world, analysed, sessions, teamLock, start>>,
         \A r \in Starts :
           Inserted(start[r]) =>
             /\ snapshots'[start[r].snap].found[start[r].request.finding] = "none"
             /\ y.pc \in {"holding", "written"} => y.snap # start[r].snap
  PROVE  StartInv'
<1>1. Typed' /\ LockOwned'
  BY DEF StartInv, Typed, LockOwned, world, Kept
<1>2. decide'[h] = y /\ \A g \in Handlers \ {h} : decide'[g] = decide[g]
  BY DEF StartInv, Typed
<1>3. ASSUME NEW r \in Starts
      PROVE  Sound(r, start[r], HeadSha, snapshots', sessions, decide')
  BY <1>2 DEF StartInv, Sound, Kept
<1>4. \A g \in Handlers : Handles(decide'[g], snapshots')
  BY <1>2 DEF StartInv, Handles, Kept
<1>5. \A s \in sessions : Discusses(s, snapshots', start)
  BY DiscussionsStay
<1>6. UNCHANGED <<HeadSha, sessions, start>>
  BY WorldStays
<1> QED
  BY <1>1, <1>3, <1>4, <1>5, <1>6 DEF StartInv

LEMMA SnapshotsStay ==
  ASSUME StartInv, UNCHANGED snapshots
  PROVE  Kept(snapshots')
BY DEF StartInv, Typed, Kept

LEMMA HoldSnapshotKeeps ==
  ASSUME StartInv, NEW h \in Handlers, NEW n \in DOMAIN snapshots, NEW d \in Decisions,
         NEW bills \in BOOLEAN, HoldSnapshot(h, n, d, bills)
  PROVE  StartInv'
<1> DEFINE y == [pc |-> "holding", snap |-> n, decision |-> d, bills |-> bills]
<1>1. y \in Decide /\ y.snap = n /\ y.decision = d
  BY RowsAreStatuses DEF Decide
<1>2. decide' = [decide EXCEPT ![h] = y]
  BY DEF HoldSnapshot
<1> HIDE DEF y
<1>3. Handles(y, snapshots)
  BY <1>1 DEF Handles
<1>4. ASSUME NEW r \in Starts, Inserted(start[r])
      PROVE  /\ snapshots'[start[r].snap].found[start[r].request.finding] = "none"
             /\ y.snap # start[r].snap
  <2>1. start[r].pc = "flushed" /\ Inserts(r)
    BY <1>4 DEF Inserted, Inserts, Marks, Req
  <2> QED
    BY <1>1, <1>4, <2>1 DEF HoldSnapshot, StartInv, Sound
<1>5. \A r \in Starts :
        Inserted(start[r]) =>
          /\ snapshots'[start[r].snap].found[start[r].request.finding] = "none"
          /\ y.pc \in {"holding", "written"} => y.snap # start[r].snap
  BY <1>4
<1>6. Kept(snapshots')
  BY SnapshotsStay DEF HoldSnapshot
<1>7. UNCHANGED <<world, analysed, sessions, teamLock, start>>
  BY DEF HoldSnapshot
<1> QED
  BY <1>1, <1>2, <1>3, <1>5, <1>6, <1>7, HandlerMoves

\* A handler that only changes its place.
LEMMA PlaceMoves ==
  ASSUME StartInv, NEW h \in Handlers, NEW p \in {"written", "done"},
         decide' = [decide EXCEPT ![h].pc = p],
         decide[h].pc \in {"holding", "written"},
         UNCHANGED <<world, analysed, snapshots, sessions, teamLock, start>>
  PROVE  StartInv'
<1> DEFINE y == [decide[h] EXCEPT !.pc = p]
<1>1. decide[h] \in Decide /\ Handles(decide[h], snapshots)
  BY DEF StartInv, Typed
<1>2. y \in Decide /\ y.snap = decide[h].snap /\ y.decision = decide[h].decision
  BY <1>1 DEF Decide
<1>3. decide' = [decide EXCEPT ![h] = y]
  BY DEF StartInv, Typed
<1> HIDE DEF y
<1>4. Handles(y, snapshots)
  BY <1>1, <1>2 DEF Handles
<1>5. ASSUME NEW r \in Starts, Inserted(start[r])
      PROVE  /\ snapshots'[start[r].snap].found[start[r].request.finding] = "none"
             /\ y.pc \in {"holding", "written"} => y.snap # start[r].snap
  <2>1. /\ snapshots[start[r].snap].found[start[r].request.finding] = "none"
        /\ decide[h].snap # start[r].snap
    BY <1>5 DEF StartInv, Sound
  <2>2. snapshots' = snapshots
    OBVIOUS
  <2> QED
    BY <1>2, <2>1, <2>2
<1>6. UNCHANGED <<world, analysed, sessions, teamLock, start>>
  OBVIOUS
<1>7. Kept(snapshots')
  BY SnapshotsStay
<1> QED
  BY <1>2, <1>3, <1>4, <1>5, <1>6, <1>7, HandlerMoves, ZenonT(60)

LEMMA CommitRowKeeps ==
  ASSUME StartInv, NEW h \in Handlers, CommitRow(h)
  PROVE  StartInv'
<1> DEFINE y == [decide[h] EXCEPT !.pc = "done"]
           n == decide[h].snap
           d == decide[h].decision
           rows == [snapshots[n].found EXCEPT ![d.finding] = d.status]
<1>1. decide[h] \in Decide /\ n \in DOMAIN snapshots /\ d \in Decisions /\ decide[h].pc = "written"
  BY DEF StartInv, Typed, CommitRow, Handles
<1>2. y \in Decide /\ y.pc = "done" /\ y.snap = n /\ y.decision = d
  BY <1>1 DEF Decide
<1>3. decide' = [decide EXCEPT ![h] = y]
  BY DEF CommitRow, StartInv, Typed
<1>4. rows \in [Findings -> RowStatus]
  BY <1>1, StartAssumption, RowsAreStatuses DEF RowStatus
<1>5. snapshots' = [snapshots EXCEPT ![n].found = rows]
  BY <1>1 DEF CommitRow, StartInv, Typed
<1> HIDE DEF y, rows
<1>6. /\ Kept(snapshots')
      /\ \A m \in DOMAIN snapshots \ {n} : snapshots'[m] = snapshots[m]
  BY <1>1, <1>4, <1>5, WritingKeepsEvidence
<1>7. Handles(y, snapshots)
  BY <1>1, <1>2 DEF Handles
<1>8. ASSUME NEW r \in Starts, Inserted(start[r])
      PROVE  snapshots'[start[r].snap].found[start[r].request.finding] = "none"
  <2>1. /\ start[r].snap # n /\ start[r].snap \in DOMAIN snapshots
        /\ snapshots[start[r].snap].found[start[r].request.finding] = "none"
    BY <1>1, <1>8 DEF StartInv, Sound, Inserted
  <2> QED
    BY <1>6, <2>1
<1>9. UNCHANGED <<world, analysed, sessions, teamLock, start>>
  BY DEF CommitRow
<1>10. y.pc \notin {"holding", "written"}
  BY <1>2
<1> QED
  BY <1>2, <1>3, <1>6, <1>7, <1>8, <1>9, <1>10, HandlerMoves

LEMMA HandlerStepKeeps ==
  ASSUME StartInv, NEW h \in Handlers, HandlerStep(h)
  PROVE  StartInv'
<1>1. CASE WriteRow(h)
  BY <1>1, PlaceMoves DEF WriteRow
<1> QED
  BY <1>1, CommitRowKeeps DEF HandlerStep

LEMMA BreakDeadlockKeeps ==
  ASSUME StartInv, NEW r \in Starts, NEW h \in Handlers, BreakDeadlock(r, h)
  PROVE  StartInv'
<1>1. CASE Answer(r, "error") /\ UNCHANGED decide
  BY <1>1, RefusedKeeps DEF BreakDeadlock, BlockedBy, Refusals, StartInv, Typed
<1>2. CASE decide' = [decide EXCEPT ![h].pc = "done"] /\ UNCHANGED <<start, teamLock>>
  BY <1>2, PlaceMoves DEF BreakDeadlock, HandlerWaits
<1> QED
  BY <1>1, <1>2 DEF BreakDeadlock

-----------------------------------------------------------------------------
(***************************************************************************)
(* The commit of a start.                                                  *)
(***************************************************************************)
\* The states of the snapshot that start r will discuss, marked.
LEMMA MarkedIsRows ==
  ASSUME StartInv, NEW r \in Starts, start[r].pc \in Held,
         NEW rows \in [Findings -> RowStatus]
  PROVE  Marked(rows, r) \in [Findings -> RowStatus]
BY StartAssumption DEF Marked, Marks, RowStatus, Statuses

\* What a start commits: one more session, on evidence it found or froze.
LEMMA CommitsOneSession ==
  ASSUME StartInv, NEW r \in Starts, CommitStart(r)
  PROVE  \E n \in Nat \ {0} :
           /\ Kept(snapshots') /\ n \in DOMAIN snapshots'
           /\ snapshots'[n].phase = start[r].request.phase /\ snapshots'[n].commit \in start[r].heads
           /\ \A m \in DOMAIN snapshots \ {n} : snapshots'[m] = snapshots[m]
           /\ sessions' = sessions \cup
                {[id |-> r, request |-> start[r].request, repo |-> repo, snapshot |-> n, status |-> "active"]}
           /\ n \in DOMAIN snapshots =>
                n = start[r].snap /\ snapshots'[n].found = Marked(snapshots[n].found, r)
<1>1. start[r] \in Start /\ Sound(r, start[r], HeadSha, snapshots, sessions, decide) /\ start[r].pc = "flushed"
  BY DEF StartInv, Typed, CommitStart
<1>2. CASE start[r].snap = 0
  <2> DEFINE n == Len(snapshots) + 1
             d == start[r].draft
             rows == Marked(d.found, r)
             one == [d EXCEPT !.found = rows]
  <2>1. d \in Snapshot /\ d.phase = start[r].request.phase /\ d.commit \in start[r].heads
    BY <1>1, <1>2 DEF Sound
  <2>2. rows \in [Findings -> RowStatus]
    BY <1>1, <2>1, MarkedIsRows DEF Held, Snapshot
  <2>3. /\ snapshots' = Append(snapshots, one)
        /\ sessions' = sessions \cup
             {[id |-> r, request |-> start[r].request, repo |-> repo, snapshot |-> n, status |-> "active"]}
    BY <1>2, <2>1 DEF CommitStart, Req, Snapshot
  <2> HIDE DEF d, rows
  <2>4. one \in Snapshot /\ one.phase = d.phase /\ one.commit = d.commit
    BY <2>1, <2>2 DEF Snapshot
  <2> HIDE DEF one
  <2>5. /\ Kept(snapshots') /\ n \in DOMAIN snapshots' /\ snapshots'[n] = one
        /\ \A m \in DOMAIN snapshots : snapshots'[m] = snapshots[m]
    BY <2>3, <2>4, AppendingKeepsEvidence
  <2>6. n \in Nat \ {0} /\ n \notin DOMAIN snapshots
    BY DEF StartInv, Typed
  <2> HIDE DEF n
  <2> QED
    BY <2>1, <2>3, <2>4, <2>5, <2>6
<1>3. CASE start[r].snap # 0
  <2> DEFINE n == start[r].snap
             rows == Marked(snapshots[n].found, r)
  <2>1. /\ n \in DOMAIN snapshots /\ snapshots[n].phase = start[r].request.phase
        /\ snapshots[n].commit \in start[r].heads
    BY <1>1, <1>3 DEF Sound
  <2>2. rows \in [Findings -> RowStatus] /\ n \in Nat \ {0}
    BY <1>1, <2>1, MarkedIsRows, RowsAreStatuses DEF Held
  <2>3. /\ snapshots' = [snapshots EXCEPT ![n].found = rows]
        /\ sessions' = sessions \cup
             {[id |-> r, request |-> start[r].request, repo |-> repo, snapshot |-> n, status |-> "active"]}
    BY <1>3, <2>1 DEF CommitStart, Req, StartInv, Typed
  <2> HIDE DEF rows
  <2>4. /\ Kept(snapshots') /\ DOMAIN snapshots' = DOMAIN snapshots /\ snapshots'[n].found = rows
        /\ \A m \in DOMAIN snapshots \ {n} : snapshots'[m] = snapshots[m]
    <3>1. n \in DOMAIN snapshots /\ rows \in [Findings -> RowStatus]
      BY <2>1, <2>2
    <3>2. snapshots' = [snapshots EXCEPT ![n].found = rows]
      BY <2>3
    <3>3. PICK k \in DOMAIN snapshots, v \in [Findings -> RowStatus] : k = n /\ v = rows
      BY <3>1
    <3> HIDE DEF n
    <3>4. snapshots' = [snapshots EXCEPT ![k].found = v]
      BY <3>2, <3>3
    <3>5. Kept(snapshots')
      BY <3>4, WritingKeepsEvidence
    <3>6. DOMAIN snapshots' = DOMAIN snapshots
      BY <3>4, WritingKeepsEvidence
    <3>7. snapshots'[k].found = v
      BY <3>4, WritingKeepsEvidence
    <3>8. \A m \in DOMAIN snapshots \ {k} : snapshots'[m] = snapshots[m]
      BY <3>4, WritingKeepsEvidence
    <3> QED
      BY <3>3, <3>5, <3>6, <3>7, <3>8
  <2>5. snapshots'[n].phase = snapshots[n].phase /\ snapshots'[n].commit = snapshots[n].commit
    BY <2>1, <2>4 DEF Kept
  <2>6. n = start[r].snap /\ rows = Marked(snapshots[n].found, r)
    BY DEF rows
  <2> QED
    BY <2>1, <2>2, <2>3, <2>4, <2>5, <2>6
<1> QED
  BY <1>2, <1>3

\* Starts that do not work see a session more as little as a state more.
LEMMA CommitStartKeeps ==
  ASSUME StartInv, NEW r \in Starts, CommitStart(r)
  PROVE  StartInv'
<1>1. start[r] \in Start /\ Sound(r, start[r], HeadSha, snapshots, sessions, decide) /\ start[r].pc = "flushed"
  BY DEF StartInv, Typed, CommitStart
<1>2. PICK n \in Nat \ {0} :
        /\ Kept(snapshots') /\ n \in DOMAIN snapshots'
        /\ snapshots'[n].phase = start[r].request.phase /\ snapshots'[n].commit \in start[r].heads
        /\ sessions' = sessions \cup
             {[id |-> r, request |-> start[r].request, repo |-> repo, snapshot |-> n, status |-> "active"]}
  BY CommitsOneSession
<1> DEFINE new == [id |-> r, request |-> start[r].request, repo |-> repo, snapshot |-> n, status |-> "active"]
<1>3. start[r].request \in StartRequests
  BY <1>1 DEF Sound
<1>4. /\ new \in Session /\ new.id = r /\ new.request = start[r].request /\ new.snapshot = n
      /\ sessions' = sessions \cup {new}
  BY <1>2, <1>3 DEF Session, StartInv, Typed
<1> HIDE DEF new
<1> DEFINE one == [start[r] EXCEPT !.pc = "done"]
           two == [one EXCEPT !.reply = r]
<1>5. one \in Start /\ one.pc = "done" /\ one.request = start[r].request /\ one.heads = start[r].heads
  BY <1>1, SetPc DEF Pcs
<1>6. start' = [start EXCEPT ![r] = two] /\ teamLock' = (IF teamLock = r THEN None ELSE teamLock)
  BY DEF CommitStart, Answer, StartInv, Typed
<1> HIDE DEF one
<1>7. /\ two \in Start /\ two.pc = "done" /\ two.request = start[r].request /\ two.reply = r
      /\ two.heads = start[r].heads
  BY <1>5, SetReply
<1> HIDE DEF two
<1>8. teamLock = r /\ \A q \in Starts \ {r} : start[q].pc \notin Held
  BY <1>1 DEF StartInv, LockOwned, Held
<1>9. UNCHANGED <<HeadSha, repo, head, contract, analysed, term, closing, decide>>
  BY WorldStays DEF CommitStart
<1>10. start'[r] = two /\ \A q \in Starts \ {r} : start'[q] = start[q]
  BY <1>6 DEF StartInv, Typed
<1>11. Typed'
  BY <1>2, <1>4, <1>6, <1>7, <1>9 DEF StartInv, Typed, Kept
<1>12. LockOwned'
  BY <1>6, <1>7, <1>8, <1>10, StartAssumption DEF LockOwned, Held
<1>13. ASSUME NEW q \in Starts PROVE Sound(q, start'[q], HeadSha, snapshots', sessions', decide)
  <2>1. CASE q = r
    <3>1. start'[q] = two /\ new \in sessions'
      BY <1>4, <1>10, <2>1
    <3> QED
      BY <1>3, <1>4, <1>7, <2>1, <3>1 DEF Sound, Held, Inserted
  <2>2. CASE q # r
    <3>1. Sound(q, start[q], HeadSha, snapshots, sessions, decide) /\ start[q].pc \notin Held
      BY <1>8, <2>2 DEF StartInv
    <3>2. start'[q] = start[q] /\ sessions' = sessions \cup {new} /\ new.id # q
      BY <1>4, <1>10, <2>2
    <3> QED
      BY <3>1, <3>2 DEF Sound, Held, Inserted
  <2> QED
    BY <2>1, <2>2
<1>14. ASSUME NEW s \in sessions' PROVE Discusses(s, snapshots', start')
  <2>1. CASE s = new
    BY <1>2, <1>4, <1>7, <1>10, <2>1 DEF Discusses
  <2>2. CASE s \in sessions
    <3>1. Discusses(s, snapshots', start)
      BY <1>2, <2>2, DiscussionsStay
    <3>2. s.id # r /\ s.id \in Starts
      BY <1>1, <2>2 DEF Sound, StartInv, Typed, Session
    <3> QED
      BY <1>10, <3>1, <3>2 DEF Discusses
  <2> QED
    BY <1>4, <2>1, <2>2
<1>15. Distinct(sessions')
  <2>1. \A s \in sessions :
          s.id # r /\ (s.request.key # None => s.request.key # start[r].request.key)
    BY <1>1 DEF Sound, Held
  <2>2. Distinct(sessions)
    BY DEF StartInv
  <2> SUFFICES ASSUME NEW s \in sessions', NEW t \in sessions',
                      s.id = t.id \/ (s.request.key = t.request.key /\ s.request.key # None)
               PROVE  s = t
    BY DEF Distinct
  <2>3. CASE s \in sessions /\ t \in sessions
    BY <2>2, <2>3 DEF Distinct
  <2>4. CASE s = new /\ t \in sessions
    BY <1>4, <2>1, <2>4
  <2>5. CASE s \in sessions /\ t = new
    BY <1>4, <2>1, <2>5
  <2> QED
    BY <1>4, <2>3, <2>4, <2>5
<1>16. \A h \in Handlers : Handles(decide[h], snapshots')
  BY <1>2 DEF StartInv, Handles, Kept
<1> QED
  BY <1>9, <1>11, <1>12, <1>13, <1>14, <1>15, <1>16 DEF StartInv

-----------------------------------------------------------------------------
(***************************************************************************)
(* The surroundings.                                                       *)
(***************************************************************************)
LEMMA PushKeeps ==
  ASSUME StartInv, NEW c \in Commits, Push(c)
  PROVE  StartInv'
<1>1. /\ head' = c
      /\ UNCHANGED <<repo, contract, analysed, term, closing, snapshots, sessions, teamLock, decide>>
      /\ DOMAIN start' = Starts
  BY DEF Push
<1>2. HeadSha' = IF repo THEN c ELSE HeadSha
  BY <1>1 DEF HeadSha
<1>3. ASSUME NEW r \in Starts
      PROVE  /\ start'[r] \in Start /\ start'[r].pc = start[r].pc
             /\ start[r].heads \subseteq start'[r].heads
             /\ Sound(r, start'[r], HeadSha', snapshots, sessions, decide)
  <2>1. start[r] \in Start /\ Sound(r, start[r], HeadSha, snapshots, sessions, decide)
    BY DEF StartInv, Typed
  <2>2. CASE repo /\ start[r].pc \in {"locked", "chosen"}
    <3> DEFINE S == start[r].heads \cup {c}
               x == [start[r] EXCEPT !.heads = S]
    <3>1. start'[r] = x
      BY <2>2 DEF Push
    <3>2. S \in SUBSET Shas
      BY <2>1 DEF Start, Shas
    <3>3. start[r].heads \subseteq S /\ c \in S
      OBVIOUS
    <3> HIDE DEF S
    <3>4. /\ x \in Start /\ x.heads = S /\ x.pc = start[r].pc /\ x.request = start[r].request
          /\ x.snap = start[r].snap /\ x.commit = start[r].commit /\ x.reply = start[r].reply
      BY <2>1, <3>2 DEF Start
    <3> HIDE DEF x
    <3>5. Sound(r, x, c, snapshots, sessions, decide)
      BY <2>1, <2>2, <3>3, <3>4 DEF Sound, Held, Inserted
    <3>6. HeadSha' = c
      BY <1>2, <2>2
    <3> QED
      BY <3>1, <3>3, <3>4, <3>5, <3>6
  <2>3. CASE repo /\ start[r].pc \notin {"locked", "chosen"}
    <3>1. start'[r] = start[r]
      BY <2>3 DEF Push
    <3> QED
      BY <2>1, <2>3, <3>1 DEF Sound
  <2>4. CASE ~repo
    <3>1. start'[r] = start[r] /\ HeadSha' = HeadSha
      BY <1>2, <2>4 DEF Push
    <3> QED
      BY <2>1, <3>1
  <2> QED
    BY <2>2, <2>3, <2>4 DEF StartInv, Typed
<1>4. start' \in [Starts -> Start]
  <2>1. \A r \in Starts : start'[r] \in Start
    BY <1>3
  <2>2. start' = [r \in Starts |-> start'[r]]
    BY DEF Push
  <2> QED
    BY <2>1, <2>2
<1>5. Typed'
  BY <1>1, <1>4 DEF StartInv, Typed
<1>6. LockOwned'
  BY <1>1, <1>3 DEF StartInv, LockOwned
<1>7. \A s \in sessions : Discusses(s, snapshots, start')
  <2>1. \A s \in sessions : s.id \in Starts /\ Discusses(s, snapshots, start)
    BY DEF StartInv, Typed, Session
  <2> QED
    BY <1>3, <2>1 DEF Discusses
<1> QED
  BY <1>1, <1>3, <1>5, <1>6, <1>7 DEF StartInv

\* No start works while the team's repository changes.
LEMMA OnboardKeeps ==
  ASSUME StartInv, Onboard
  PROVE  StartInv' /\ \A r \in Starts : start[r].pc \notin Held
<1>1. /\ repo' \in BOOLEAN /\ teamLock = None
      /\ UNCHANGED <<head, contract, analysed, term, closing, snapshots, sessions, teamLock, start, decide>>
  BY StartAssumption DEF Onboard
<1>2. \A r \in Starts : start[r].pc \notin Held
  BY <1>1, StartAssumption DEF StartInv, LockOwned
<1>3. ASSUME NEW r \in Starts PROVE Sound(r, start[r], HeadSha', snapshots, sessions, decide)
  BY <1>2 DEF StartInv, Sound, Held, Inserted
<1>4. Typed' /\ LockOwned'
  BY <1>1 DEF StartInv, Typed, LockOwned
<1> QED
  BY <1>1, <1>2, <1>3, <1>4 DEF StartInv

LEMMA DeployKeeps ==
  ASSUME StartInv, Deploy
  PROVE  StartInv'
<1>1. contract' \in 1 .. MaxContract + 1 /\ analysed' = {}
  BY StartAssumption DEF Deploy, StartInv, Typed
<1>2. UNCHANGED <<HeadSha, repo, head, term, closing, snapshots, sessions, teamLock, start, decide>>
  BY DEF Deploy, HeadSha
<1> QED
  BY <1>1, <1>2 DEF StartInv, Typed, LockOwned

LEMMA ArchiveQueryKeeps ==
  ASSUME StartInv, ArchiveQuery
  PROVE  StartInv'
<1>1. term' = "closing" /\ closing' \subseteq sessions
  BY DEF ArchiveQuery
<1>2. UNCHANGED <<HeadSha, repo, head, contract, analysed, snapshots, sessions, teamLock, start, decide>>
  BY DEF ArchiveQuery, HeadSha
<1> QED
  BY <1>1, <1>2 DEF StartInv, Typed, LockOwned

\* Sessions that the archive closes keep all but their status.
Closed(s) == IF s \in closing THEN [s EXCEPT !.status = "archived_incomplete"] ELSE s

LEMMA ArchiveCommitKeeps ==
  ASSUME StartInv, ArchiveCommit
  PROVE  StartInv'
<1>1. ASSUME NEW s \in sessions
      PROVE  /\ Closed(s) \in Session /\ Closed(s).id = s.id
             /\ Closed(s).request = s.request /\ Closed(s).snapshot = s.snapshot
  <2>1. s \in Session
    BY DEF StartInv, Typed
  <2> QED
    BY <2>1 DEF Closed, Session
<1>2. /\ \A t \in sessions' : \E s \in sessions : t = Closed(s)
      /\ \A s \in sessions : Closed(s) \in sessions'
  BY DEF ArchiveCommit, Closed
<1>3. term' = "archived" /\ closing' = {}
  BY DEF ArchiveCommit
<1>4. UNCHANGED <<HeadSha, repo, head, contract, analysed, snapshots, teamLock, start, decide>>
  BY DEF ArchiveCommit, HeadSha
<1>5. Typed'
  BY <1>1, <1>2, <1>3, <1>4 DEF StartInv, Typed
<1>6. ASSUME NEW r \in Starts PROVE Sound(r, start[r], HeadSha, snapshots, sessions', decide)
  BY <1>1, <1>2 DEF StartInv, Sound
<1>7. \A s \in sessions' : Discusses(s, snapshots, start)
  BY <1>1, <1>2 DEF StartInv, Discusses
<1>8. Distinct(sessions')
  BY <1>1, <1>2 DEF StartInv, Distinct
<1> QED
  BY <1>4, <1>5, <1>6, <1>7, <1>8 DEF StartInv, LockOwned

-----------------------------------------------------------------------------
(***************************************************************************)
(* The theorems.                                                           *)
(***************************************************************************)
LEMMA NextKeeps ==
  ASSUME StartInv, [Next]_vars
  PROVE  StartInv'
<1>1. CASE UNCHANGED vars
  BY <1>1 DEF vars, StartInv, Typed, LockOwned, HeadSha
<1>2. CASE Next
  BY <1>2, ArriveKeeps, LockTeamKeeps, LeavingKeeps, ChooseCommitKeeps, RereadHeadKeeps, AnalyseKeeps,
     ReadFindingKeeps, FlushStartKeeps, CommitStartKeeps, HoldSnapshotKeeps, HandlerStepKeeps,
     BreakDeadlockKeeps, PushKeeps, OnboardKeeps, DeployKeeps, ArchiveQueryKeeps, ArchiveCommitKeeps
  DEF Next, StartStep
<1> QED
  BY <1>1, <1>2

\* StartInv holds in every reachable state.
THEOREM StartInvariant == Spec => []StartInv
<1>1. Init => StartInv
  BY InitHolds
<1>2. StartInv /\ [Next]_vars => StartInv'
  BY NextKeeps
<1> QED
  BY <1>1, <1>2, PTL DEF Spec

\* Types are right, and every session discusses a snapshot that exists.
THEOREM StartTypeCorrect == Spec => []StartTypeOK
<1>1. StartInv => StartTypeOK
  BY DEF StartInv, Typed, StartTypeOK, Discusses
<1> QED
  BY <1>1, StartInvariant, PTL

\* A retry of a start names the session of the first one.
THEOREM RetriesShareTheSession == Spec => []RetryReturnsOriginal
<1>1. StartInv => RetryReturnsOriginal
  <2> SUFFICES ASSUME StartInv, NEW r \in Starts, NEW q \in Starts,
                      start[r].reply \in Starts, start[q].reply \in Starts,
                      Req(r).key = Req(q).key, Req(r).key # None
               PROVE  start[r].reply = start[q].reply /\ Req(r) = Req(q)
    BY DEF RetryReturnsOriginal
  <2>1. PICK s \in sessions : s.id = start[r].reply /\ s.request = Req(r)
    BY DEF StartInv, Sound, Req
  <2>2. PICK t \in sessions : t.id = start[q].reply /\ t.request = Req(q)
    BY DEF StartInv, Sound, Req
  <2>3. s = t
    BY <2>1, <2>2 DEF StartInv, Distinct
  <2> QED
    BY <2>1, <2>2, <2>3
<1> QED
  BY <1>1, StartInvariant, PTL

\* Whatever is pushed meanwhile, a review discusses a commit that was HEAD
\* while it was being started (the demonstration, if there was no repository
\* then), in its own phase.
THEOREM FrozenWhereReviewed == Spec => []FrozenAtReviewedCommit
<1>1. StartInv => FrozenAtReviewedCommit
  BY DEF StartInv, Discusses, FrozenAtReviewedCommit
<1> QED
  BY <1>1, StartInvariant, PTL

\* A commit that selects a finding changes no decision but on a stale "open".
MarksOnlyTheUndecided ==
  \A r \in Starts, n \in DOMAIN snapshots, f \in Findings :
    start[r].pc = "flushed" /\ start'[r].pc = "done" /\ snapshots'[n].found[f] # snapshots[n].found[f]
      => snapshots[n].found[f] \in {"none", "open"} \/ start[r].seen = "open"

\* Only the commit of a start changes both the starts and the rows.
LEMMA OnlyCommitsWriteBoth ==
  ASSUME Next, start' # start, snapshots' # snapshots
  PROVE  \E q \in Starts : CommitStart(q)
BY ZenonT(60)
DEF Next, Arrive, StartStep, LockTeam, RefuseStart, ChooseCommit, RereadHead, Analyse, ReadFinding,
    FlushStart, Abort, HoldSnapshot, HandlerStep, WriteRow, CommitRow, BreakDeadlock, Push, Onboard,
    Deploy, ArchiveQuery, ArchiveCommit

\* Selecting a finding overwrites no decision the team took meanwhile.
THEOREM DecisionsAreKept == Spec => DecisionsSurviveStart
<1>1. ASSUME StartInv, [Next]_vars PROVE [MarksOnlyTheUndecided]_vars
  <2> SUFFICES ASSUME NEW r \in Starts, NEW n \in DOMAIN snapshots, NEW f \in Findings,
                      start[r].pc = "flushed", start'[r].pc = "done",
                      snapshots'[n].found[f] # snapshots[n].found[f]
               PROVE  snapshots[n].found[f] \in {"none", "open"} \/ start[r].seen = "open"
    BY ZenonT(60) DEF MarksOnlyTheUndecided
  <2>1. \E q \in Starts : CommitStart(q)
    <3>1. start' # start /\ snapshots' # snapshots
      OBVIOUS
    <3>2. Next
      BY <1>1, <3>1 DEF vars
    <3> QED
      BY <3>1, <3>2, OnlyCommitsWriteBoth
  <2>2. CommitStart(r)
    <3>1. PICK q \in Starts : CommitStart(q)
      BY <2>1
    <3>2. teamLock = q /\ teamLock = r
      BY <1>1, <3>1 DEF StartInv, LockOwned, Held, CommitStart
    <3> QED
      BY <3>1, <3>2
  <2>3. n = start[r].snap /\ snapshots'[n].found = Marked(snapshots[n].found, r)
    BY <1>1, <2>2, CommitsOneSession
  <2>4. Marks(r) /\ f = Req(r).finding
    BY <1>1, <2>3, RowsAreStatuses, SMTT(30) DEF Marked
  <2>5. CASE start[r].seen = "none"
    <3>1. Inserted(start[r])
      BY <1>1, <2>3, <2>4, <2>5, RowsAreStatuses DEF Inserted, Marks, Req
    <3> QED
      BY <1>1, <2>3, <2>4, <3>1, ZenonT(60) DEF StartInv, Sound, Req
  <2> QED
    BY <2>4, <2>5 DEF Marks
<1> QED
  BY <1>1, StartInvariant, PTL DEF Spec, DecisionsSurviveStart, MarksOnlyTheUndecided

-----------------------------------------------------------------------------
\* The Team row is not taken once the term is archived, and nobody else inserts.
AdmitsNoStart ==
  term = "archived" =>
    /\ teamLock' \in {teamLock, None}
    /\ teamLock = None => UNCHANGED sessions

\* Starts that waited for the Team row while the term was archived are refused;
\* at most the one that held it opens a review.
THEOREM ArchivedTermsOpenNothing == Spec => ArchivedAdmitsNoStart
<1>1. ASSUME StartInv, [Next]_vars PROVE [AdmitsNoStart]_vars
  <2> SUFFICES ASSUME term = "archived"
               PROVE  teamLock' \in {teamLock, None} /\ (teamLock = None => UNCHANGED sessions)
    BY DEF AdmitsNoStart
  <2>1. ASSUME NEW r, NEW a, Answer(r, a) PROVE teamLock' \in {teamLock, None}
    BY <2>1 DEF Answer
  <2>2. ASSUME NEW r \in Starts, LockTeam(r)
        PROVE  teamLock' \in {teamLock, None} /\ UNCHANGED sessions
    BY <2>1, <2>2 DEF LockTeam, Settle
  <2>3. ASSUME NEW r \in Starts, CommitStart(r)
        PROVE  teamLock' \in {teamLock, None} /\ teamLock # None
    BY <1>1, <2>1, <2>3, StartAssumption DEF CommitStart, StartInv, LockOwned, Held
  <2>4. \/ \E r \in Starts : LockTeam(r) \/ CommitStart(r)
        \/ UNCHANGED sessions /\ (UNCHANGED teamLock \/ \E r, a : Answer(r, a))
        \/ ArchiveCommit
    BY <1>1, ZenonT(60)
    DEF Next, vars, StartStep, HandlerStep, Arrive, RefuseStart, ChooseCommit, RereadHead, Analyse,
        ReadFinding, FlushStart, Abort, HoldSnapshot, WriteRow, CommitRow, BreakDeadlock, Push, Onboard,
        Deploy, ArchiveQuery
  <2> QED
    BY <2>1, <2>2, <2>3, <2>4 DEF ArchiveCommit
<1> QED
  BY <1>1, StartInvariant, PTL DEF Spec, ArchivedAdmitsNoStart, AdmitsNoStart

-----------------------------------------------------------------------------
(***************************************************************************)
(* Waiting.  A start keeps the Team row and asks for rows of a snapshot; a *)
(* handler keeps a snapshot and asks for the Team row: they may wait for   *)
(* each other, which is what the deadlock detector is for.  The theorem is *)
(* that it suffices: the detector need not look at more than two.          *)
(***************************************************************************)

\* The handler has all it waits for.
HandlerRuns(h) ==
  \/ /\ decide[h].pc = "holding"
     /\ InsertsRow(h) => teamLock = None
     /\ \A r \in Starts :
          start[r].pc = "flushed" /\ Marks(r) /\ start[r].snap = decide[h].snap
            => Req(r).finding # decide[h].decision.finding
  \/ /\ decide[h].pc = "written"
     /\ decide[h].bills => teamLock = None

\* What BreakDeadlock breaks.
Circle(r, h) == teamLock = r /\ HandlerWaits(h) /\ BlockedBy(r, h)

\* The start that holds the Team row waits for no handler.
StartRuns(r) == teamLock = r /\ start[r].pc \in Held /\ \A h \in Handlers : ~BlockedBy(r, h)

\* Whoever stops the holder of the Team row runs, or stands in a circle of two
\* with it; a handler that does not run waits for that holder, which runs, or
\* waits for one that runs, or is in such a circle.
WaitsAreBroken ==
  /\ \A r \in Starts, h \in Handlers : BlockedBy(r, h) => HandlerRuns(h) \/ Circle(r, h)
  /\ \A h \in Handlers :
       decide[h].pc \in {"holding", "written"} /\ ~HandlerRuns(h) =>
         \E r \in Starts : teamLock = r /\
           \/ StartRuns(r)
           \/ \E g \in Handlers : BlockedBy(r, g) /\ (HandlerRuns(g) \/ Circle(r, g))

\* A blocked start is the one that holds the Team row, and no other has flushed.
LEMMA BlockedHoldsTeam ==
  ASSUME StartInv, NEW r \in Starts, NEW h \in Handlers, BlockedBy(r, h)
  PROVE  /\ teamLock = r /\ start[r].pc = "read"
         /\ \A q \in Starts : start[q].pc # "flushed"
BY DEF StartInv, LockOwned, Held, BlockedBy

\* Starts and decisions never wait in a circle that the deadlock detector does
\* not break, however many of them there are.
THEOREM TheDetectorSuffices == Spec => []WaitsAreBroken
<1>1. ASSUME StartInv PROVE WaitsAreBroken
  <2>1. ASSUME NEW r \in Starts, NEW h \in Handlers, BlockedBy(r, h)
        PROVE  HandlerRuns(h) \/ Circle(r, h)
    <3>1. /\ teamLock = r /\ r # None /\ decide[h].pc \in {"holding", "written"}
          /\ \A q \in Starts : start[q].pc # "flushed"
      BY <1>1, <2>1, BlockedHoldsTeam, StartAssumption DEF BlockedBy
    <3> QED
      BY <2>1, <3>1 DEF HandlerRuns, Circle, HandlerWaits
  <2>2. ASSUME NEW h \in Handlers, decide[h].pc \in {"holding", "written"}, ~HandlerRuns(h)
        PROVE  \E r \in Starts : teamLock = r /\
                 \/ StartRuns(r)
                 \/ \E g \in Handlers : BlockedBy(r, g) /\ (HandlerRuns(g) \/ Circle(r, g))
    <3>1. teamLock # None \/ \E r \in Starts : start[r].pc = "flushed"
      BY <2>2 DEF HandlerRuns
    <3>2. PICK r \in Starts : teamLock = r /\ start[r].pc \in Held
      BY <1>1, <3>1 DEF StartInv, Typed, LockOwned, Held
    <3> QED
      BY <2>1, <3>2 DEF StartRuns
  <2> QED
    BY <2>1, <2>2 DEF WaitsAreBroken
<1> QED
  BY <1>1, StartInvariant, PTL

-----------------------------------------------------------------------------
(***************************************************************************)
(* Evidence is frozen once by starts that pin a commit (not for a scenario *)
(* and not without a repository), if the default branch never returns to a *)
(* commit it has left: then a start that finds no snapshot of HEAD, and    *)
(* reads HEAD again, freezes nothing that was frozen before.               *)
(***************************************************************************)
Older == TransitiveClosureOn(Pushes, Commits)
NeverReturns == \A c \in Commits : <<c, c>> \notin Older

\* The demonstration evidence, frozen without a repository, is never in the way.
Before(c, d) == c = Demo \/ <<c, d>> \in Older
AtOrBefore(c, d) == c = d \/ Before(c, d)

LEMMA OlderIsOrder ==
  ASSUME NEW c \in Commits, NEW d \in Commits, NEW e \in Commits
  PROVE  /\ <<c, d>> \in Pushes => <<c, d>> \in Older
         /\ <<c, d>> \in Older /\ <<d, e>> \in Older => <<c, e>> \in Older
<1>1. Pushes \cap Commits \X Commits \subseteq Older
  BY TransitiveClosureThm DEF Older
<1>2. <<c, d>> \in Pushes => <<c, d>> \in Older
  BY <1>1
<1>3. <<c, d>> \in Older /\ <<d, e>> \in Older => <<c, e>> \in Older
  BY TCTCTC DEF Older
<1> QED
  BY <1>2, <1>3

\* What a start x that froze evidence, or is about to, knows to be new.
Fresh(x, hd, con, snaps) ==
  /\ x.pc = "chosen" /\ ~Unpinned(x.request, hd) =>
       \A n \in DOMAIN snaps :
         snaps[n].phase = x.request.phase /\ snaps[n].contract = con =>
           Before(snaps[n].commit, IF x.commit = None THEN hd ELSE x.commit)
  /\ x.pc = "chosen" /\ hd # Demo => x.commit = None \/ x.commit # Demo
  /\ x.pc \in {"prepared", "read", "flushed"} /\ x.snap = 0 =>
       /\ x.draft.contract = con
       /\ hd = Demo => x.draft.commit = Demo
       /\ ~Unpinned(x.request, hd) =>
            \A n \in DOMAIN snaps :
              snaps[n].phase = x.draft.phase /\ snaps[n].contract = con =>
                snaps[n].commit # x.draft.commit

Dated(snaps, hd, con) ==
  /\ \A n \in DOMAIN snaps : snaps[n].contract <= con /\ AtOrBefore(snaps[n].commit, hd)
  /\ \A m, n \in DOMAIN snaps : m <= n => snaps[m].contract <= snaps[n].contract

OnceInv ==
  /\ Dated(snapshots, head, contract)
  /\ \A r \in Starts : \A c \in start[r].heads : AtOrBefore(c, head)
  /\ \A r \in Starts : Fresh(start[r], HeadSha, contract, snapshots)
  /\ EvidenceFrozenOnce

FrozenInv == StartInv /\ OnceInv

\* HEAD is a commit, the demonstration stands for it when there is no repository.
LEMMA HeadOrDemo ==
  ASSUME StartInv
  PROVE  /\ HeadSha # Demo => repo /\ HeadSha = head
         /\ HeadSha = Demo => ~repo
         /\ head \in Commits /\ head # Demo /\ AtOrBefore(HeadSha, head)
BY StartAssumption DEF HeadSha, StartInv, Typed, AtOrBefore, Before

\* A start that moves to x and writes no row.
LEMMA FreshMoves ==
  ASSUME FrozenInv, NEW r \in Starts, NEW x, start' = [start EXCEPT ![r] = x],
         \A c \in x.heads : c \in start[r].heads \/ c = HeadSha,
         Fresh(x, HeadSha, contract, snapshots),
         UNCHANGED <<world, snapshots, sessions>>
  PROVE  OnceInv'
<1>1. UNCHANGED <<HeadSha, head, contract, snapshots, sessions>>
  BY WorldStays
<1>2. start'[r] = x /\ \A q \in Starts \ {r} : start'[q] = start[q]
  BY DEF FrozenInv, StartInv, Typed
<1>3. \A q \in Starts : Fresh(start'[q], HeadSha, contract, snapshots)
  BY <1>2 DEF FrozenInv, OnceInv
<1>4. \A q \in Starts : \A c \in start'[q].heads : AtOrBefore(c, head)
  BY <1>2, HeadOrDemo DEF FrozenInv, OnceInv
<1> QED
  BY <1>1, <1>3, <1>4 DEF FrozenInv, OnceInv, EvidenceFrozenOnce

\* Steps that end a start, or begin one.
LEMMA EdgesKeepOnce ==
  ASSUME FrozenInv, NEW r \in Starts,
         \/ \E c \in StartRequests : Arrive(r, c)
         \/ LockTeam(r) \/ RefuseStart(r) \/ Abort(r)
         \/ \E h \in Handlers : BreakDeadlock(r, h)
  PROVE  OnceInv'
<1>1. start[r] \in Start
  BY DEF FrozenInv, StartInv, Typed
<1>2. UNCHANGED <<world, snapshots, sessions>>
  BY DEF Arrive, LockTeam, RefuseStart, Abort, BreakDeadlock
<1>3. CASE start' = start
  <2>1. start' = [start EXCEPT ![r] = start[r]] /\ Fresh(start[r], HeadSha, contract, snapshots)
    BY <1>3 DEF FrozenInv, OnceInv, StartInv, Typed
  <2> QED
    BY <1>2, <2>1, FreshMoves
<1>4. ASSUME NEW x, start' = [start EXCEPT ![r] = x],
             x.pc \in {"waiting", "locked", "done"}, x.heads \subseteq start[r].heads \cup {HeadSha}
      PROVE  OnceInv'
  <2>1. Fresh(x, HeadSha, contract, snapshots)
    BY <1>4 DEF Fresh
  <2>2. \A c \in x.heads : c \in start[r].heads \/ c = HeadSha
    BY <1>4
  <2> QED
    BY <1>2, <1>4, <2>1, <2>2, FreshMoves
<1>5. ASSUME NEW a, Answer(r, a) PROVE OnceInv'
  <2> DEFINE x == [start[r] EXCEPT !.pc = "done", !.reply = a]
  <2>1. start' = [start EXCEPT ![r] = x]
    BY <1>5 DEF Answer, FrozenInv, StartInv, Typed
  <2>2. x.pc = "done" /\ x.heads = start[r].heads
    BY <1>1 DEF Start
  <2> HIDE DEF x
  <2> QED
    BY <1>4, <2>1, <2>2
<1>6. ASSUME NEW c \in StartRequests, Arrive(r, c) PROVE OnceInv'
  <2>1. PICK p \in {"done", "waiting"}, a \in {"refused", None} :
          start' = [start EXCEPT ![r].pc = p, ![r].reply = a, ![r].request = c]
    BY <1>6 DEF Arrive
  <2> DEFINE x == [start[r] EXCEPT !.pc = p, !.reply = a, !.request = c]
  <2>2. start' = [start EXCEPT ![r] = x]
    BY <2>1 DEF FrozenInv, StartInv, Typed
  <2>3. x.pc = p /\ x.heads = start[r].heads
    BY <1>1 DEF Start
  <2> HIDE DEF x
  <2> QED
    BY <1>4, <2>2, <2>3
<1>7. ASSUME start' = [start EXCEPT ![r].pc = "locked", ![r].heads = {HeadSha}] PROVE OnceInv'
  <2> DEFINE x == [start[r] EXCEPT !.pc = "locked", !.heads = {HeadSha}]
  <2>1. start' = [start EXCEPT ![r] = x]
    BY <1>7 DEF FrozenInv, StartInv, Typed
  <2>2. x.pc = "locked" /\ x.heads = {HeadSha}
    BY <1>1 DEF Start
  <2> HIDE DEF x
  <2> QED
    BY <1>4, <2>1, <2>2
<1>8. ASSUME LockTeam(r) PROVE OnceInv'
  BY <1>5, <1>7, <1>8 DEF LockTeam, Settle
<1>9. ASSUME NEW h \in Handlers, BreakDeadlock(r, h) PROVE OnceInv'
  BY <1>3, <1>5, <1>9 DEF BreakDeadlock
<1> QED
  BY <1>5, <1>6, <1>8, <1>9 DEF RefuseStart, Abort

\* Finding no reusable snapshot of HEAD, a start knows that there is none.
LEMMA NoneReusable ==
  ASSUME FrozenInv, NEW p, Reusable(SameEvidence(p, head)) = 0, NEW n \in DOMAIN snapshots,
         snapshots[n].phase = p, snapshots[n].contract = contract
  PROVE  Before(snapshots[n].commit, head)
<1> DEFINE same == SameEvidence(p, head)
<1>1. Len(snapshots) \in Nat /\ same \subseteq 1 .. Len(snapshots) /\ DOMAIN snapshots = 1 .. Len(snapshots)
  BY DEF SameEvidence, FrozenInv, StartInv, Typed
<1>2. n \notin same
  <2> SUFFICES ASSUME n \in same PROVE FALSE
    OBVIOUS
  <2> DEFINE m == Max(same)
  <2>1. m \in same /\ n <= m
    <3> HIDE DEF same
    <3> QED
      BY <1>1, MaxOf
  <2>2. m # 0 /\ m \in DOMAIN snapshots /\ n \in DOMAIN snapshots
    BY <1>1, <2>1
  <2>3. snapshots[m].contract # contract
    <3>1. same # {}
      BY <2>1
    <3> QED
      BY <2>2, <3>1 DEF Reusable
  <2>4. snapshots[n].contract <= snapshots[m].contract /\ snapshots[m].contract <= contract
    BY <2>1, <2>2 DEF FrozenInv, OnceInv, Dated
  <2>5. contract \in Int /\ snapshots[m].contract \in Int
    <3>1. snapshots[m] \in Snapshot
      BY <2>2, RowsAreStatuses DEF FrozenInv
    <3> QED
      BY <3>1 DEF Snapshot, FrozenInv, StartInv, Typed
  <2> HIDE DEF m
  <2> QED
    BY <2>3, <2>4, <2>5
<1>3. snapshots[n].commit # head
  BY <1>2 DEF SameEvidence
<1> QED
  BY <1>3 DEF FrozenInv, OnceInv, Dated, AtOrBefore

LEMMA ChooseKeepsOnce ==
  ASSUME FrozenInv, NEW r \in Starts, ChooseCommit(r)
  PROVE  OnceInv'
<1>1. start[r] \in Start /\ Sound(r, start[r], HeadSha, snapshots, sessions, decide)
  BY DEF FrozenInv, StartInv, Typed
<1> DEFINE n == IF Unpinned(Req(r), HeadSha) THEN 0 ELSE Reusable(SameEvidence(Req(r).phase, HeadSha))
           p == IF n = 0 THEN "chosen" ELSE "prepared"
           c == IF n = 0 THEN None ELSE HeadSha
           x == [start[r] EXCEPT !.pc = p, !.snap = n, !.commit = c]
<1>2. start' = [start EXCEPT ![r] = x]
  BY DEF ChooseCommit, FrozenInv, StartInv, Typed
<1>3. /\ x.pc = p /\ x.snap = n /\ x.commit = c
      /\ x.request = start[r].request /\ x.heads = start[r].heads
  BY <1>1 DEF Start
<1>4. n = 0 /\ ~Unpinned(Req(r), HeadSha) => Reusable(SameEvidence(Req(r).phase, HeadSha)) = 0
  OBVIOUS
<1>5. n = 0 => p = "chosen" /\ c = None
  OBVIOUS
<1>6. n # 0 => p = "prepared"
  OBVIOUS
<1>0. ~Unpinned(Req(r), HeadSha) => HeadSha = head
  BY HeadOrDemo DEF Unpinned, FrozenInv
<1> HIDE DEF x, n, p, c
<1>7. Fresh(x, HeadSha, contract, snapshots)
  <2>1. CASE n # 0
    BY <1>3, <1>6, <2>1 DEF Fresh
  <2>2. CASE n = 0
    <3>1. ~Unpinned(Req(r), HeadSha) =>
            \A m \in DOMAIN snapshots :
              snapshots[m].phase = Req(r).phase /\ snapshots[m].contract = contract =>
                Before(snapshots[m].commit, HeadSha)
      BY <1>0, <1>4, <2>2, NoneReusable
    <3> QED
      BY <1>3, <1>5, <2>2, <3>1 DEF Fresh, Req
  <2> QED
    BY <2>1, <2>2
<1>8. UNCHANGED <<world, snapshots, sessions>> /\ \A d \in x.heads : d \in start[r].heads
  BY <1>3 DEF ChooseCommit
<1> QED
  BY <1>2, <1>7, <1>8, FreshMoves

LEMMA RereadKeepsOnce ==
  ASSUME FrozenInv, NEW r \in Starts, RereadHead(r)
  PROVE  OnceInv'
<1>1. start[r] \in Start /\ Fresh(start[r], HeadSha, contract, snapshots)
  BY DEF FrozenInv, StartInv, Typed, OnceInv
<1> DEFINE x == [start[r] EXCEPT !.commit = HeadSha]
<1>2. start' = [start EXCEPT ![r] = x] /\ start[r].pc = "chosen" /\ start[r].commit = None
  BY DEF RereadHead, FrozenInv, StartInv, Typed
<1>3. /\ x.pc = "chosen" /\ x.commit = HeadSha
      /\ x.request = start[r].request /\ x.heads = start[r].heads
  BY <1>1, <1>2 DEF Start
<1> HIDE DEF x
<1>4. Fresh(x, HeadSha, contract, snapshots)
  BY <1>1, <1>2, <1>3 DEF Fresh
<1>5. UNCHANGED <<world, snapshots, sessions>> /\ \A d \in x.heads : d \in start[r].heads
  BY <1>3 DEF RereadHead
<1> QED
  BY <1>2, <1>4, <1>5, FreshMoves

LEMMA AnalyseKeepsOnce ==
  ASSUME FrozenInv, NeverReturns, NEW r \in Starts, Analyse(r)
  PROVE  OnceInv'
<1>1. /\ start[r] \in Start /\ Fresh(start[r], HeadSha, contract, snapshots)
      /\ Sound(r, start[r], HeadSha, snapshots, sessions, decide)
  BY DEF FrozenInv, StartInv, Typed, OnceInv
<1>2. /\ start[r].pc = "chosen" /\ (start[r].commit # None \/ HeadSha = Demo)
      /\ UNCHANGED <<world, snapshots, sessions>>
  BY DEF Analyse, HeadSha
<1>3. CASE Evidence(r) = {}
  <2>1. Answer(r, "moved")
    BY <1>3 DEF Analyse
  <2> DEFINE x == [start[r] EXCEPT !.pc = "done", !.reply = "moved"]
  <2>2. start' = [start EXCEPT ![r] = x]
    BY <2>1 DEF Answer, FrozenInv, StartInv, Typed
  <2>3. x.pc = "done" /\ x.heads = start[r].heads
    BY <1>1 DEF Start
  <2> HIDE DEF x
  <2>4. Fresh(x, HeadSha, contract, snapshots)
    BY <2>3 DEF Fresh
  <2> QED
    BY <1>2, <2>2, <2>3, <2>4, FreshMoves
<1>4. CASE Evidence(r) # {}
  <2>1. PICK c \in Evidence(r) : start' = [start EXCEPT
          ![r].pc = "prepared", ![r].commit = c,
          ![r].draft = [phase |-> Req(r).phase, commit |-> c, contract |-> contract,
                        found |-> Carried(Req(r).phase, c)]]
    BY <1>4 DEF Analyse
  <2> DEFINE d == [phase |-> Req(r).phase, commit |-> c, contract |-> contract,
                   found |-> Carried(Req(r).phase, c)]
             x == [start[r] EXCEPT !.pc = "prepared", !.commit = c, !.draft = d]
  <2>2. start' = [start EXCEPT ![r] = x]
    BY <2>1 DEF FrozenInv, StartInv, Typed
  <2>3. d.phase = start[r].request.phase /\ d.commit = c /\ d.contract = contract
    BY DEF Req
  <2> HIDE DEF d
  <2>4. /\ x.pc = "prepared" /\ x.draft = d /\ x.snap = start[r].snap
        /\ x.request = start[r].request /\ x.heads = start[r].heads
    BY <1>1 DEF Start
  <2> HIDE DEF x
  <2>5. /\ ~Unpinned(start[r].request, HeadSha) => c = start[r].commit /\ HeadSha # Demo
        /\ HeadSha = Demo => c = Demo
    BY DEF Evidence, Req, Unpinned
  <2>6. ~Unpinned(start[r].request, HeadSha) => c \in Commits /\ c # Demo
    <3> SUFFICES ASSUME ~Unpinned(start[r].request, HeadSha) PROVE c \in Commits /\ c # Demo
      OBVIOUS
    <3>1. c \in start[r].heads /\ HeadSha # Demo
      BY <1>1, <1>2, <2>5 DEF Sound
    <3>2. c # Demo
      BY <1>1, <1>2, <2>5, <3>1 DEF Fresh
    <3>3. c \in Shas
      BY <1>1, <3>1 DEF Start
    <3> QED
      BY <3>2, <3>3 DEF Shas
  <2>7. Fresh(x, HeadSha, contract, snapshots)
    BY <1>1, <1>2, <2>3, <2>4, <2>5, <2>6 DEF Fresh, NeverReturns, Before
  <2> QED
    BY <1>2, <2>2, <2>4, <2>7, FreshMoves
<1> QED
  BY <1>3, <1>4

\* Reading the finding and flushing its row leave the evidence alone.
LEMMA MarkingKeepsOnce ==
  ASSUME FrozenInv, NEW r \in Starts, ReadFinding(r) \/ FlushStart(r)
  PROVE  OnceInv'
<1>1. start[r] \in Start /\ Fresh(start[r], HeadSha, contract, snapshots)
  BY DEF FrozenInv, StartInv, Typed, OnceInv
<1>2. start[r].pc \in {"prepared", "read"} /\ UNCHANGED <<world, snapshots, sessions>>
  BY DEF ReadFinding, FlushStart
<1>3. ASSUME NEW x, start' = [start EXCEPT ![r] = x], x.pc \in {"read", "flushed", "done"},
             x.snap = start[r].snap, x.draft = start[r].draft, x.request = start[r].request,
             x.heads = start[r].heads
      PROVE  OnceInv'
  <2>1. Fresh(x, HeadSha, contract, snapshots)
    BY <1>1, <1>2, <1>3 DEF Fresh
  <2> QED
    BY <1>2, <1>3, <2>1, FreshMoves
<1>4. CASE ReadFinding(r)
  <2>1. PICK v : start' = [start EXCEPT ![r].pc = "read", ![r].seen = v]
    BY <1>4 DEF ReadFinding
  <2> DEFINE x == [start[r] EXCEPT !.pc = "read", !.seen = v]
  <2>2. start' = [start EXCEPT ![r] = x]
    BY <2>1 DEF FrozenInv, StartInv, Typed
  <2>3. /\ x.pc = "read" /\ x.snap = start[r].snap /\ x.draft = start[r].draft
        /\ x.request = start[r].request /\ x.heads = start[r].heads
    BY <1>1 DEF Start
  <2> HIDE DEF x
  <2> QED
    BY <1>3, <2>2, <2>3
<1>5. CASE FlushStart(r)
  <2>1. PICK y \in {[start[r] EXCEPT !.pc = "done", !.reply = "error"], [start[r] EXCEPT !.pc = "flushed"]} :
          start' = [start EXCEPT ![r] = y]
    BY <1>5 DEF FlushStart, Answer, Goes, FrozenInv, StartInv, Typed
  <2>2. /\ y.pc \in {"flushed", "done"} /\ y.snap = start[r].snap /\ y.draft = start[r].draft
        /\ y.request = start[r].request /\ y.heads = start[r].heads
    BY <1>1, <2>1 DEF Start
  <2> QED
    BY <1>3, <2>1, <2>2
<1> QED
  BY <1>4, <1>5

\* The session that start r opens.
Opened(s, r) == s.request = start[r].request /\ s.repo = repo

\* A start that reuses evidence adds none; another adds what it drafted.
LEMMA CommitsEvidence ==
  ASSUME StartInv, NEW r \in Starts, CommitStart(r)
  PROVE  /\ start[r].snap # 0 => DOMAIN snapshots' = DOMAIN snapshots
         /\ start[r].snap = 0 =>
              /\ DOMAIN snapshots' = DOMAIN snapshots \cup {Len(snapshots) + 1}
              /\ snapshots'[Len(snapshots) + 1].phase = start[r].draft.phase
              /\ snapshots'[Len(snapshots) + 1].commit = start[r].draft.commit
              /\ snapshots'[Len(snapshots) + 1].contract = start[r].draft.contract
              /\ \E s \in sessions' : s.snapshot = Len(snapshots) + 1 /\ Opened(s, r)
<1>1. Sound(r, start[r], HeadSha, snapshots, sessions, decide) /\ start[r].pc = "flushed"
  BY DEF StartInv, Typed, CommitStart
<1>2. ASSUME start[r].snap # 0 PROVE DOMAIN snapshots' = DOMAIN snapshots
  BY <1>1, <1>2 DEF CommitStart, StartInv, Typed, Sound
<1>3. ASSUME start[r].snap = 0
      PROVE  /\ DOMAIN snapshots' = DOMAIN snapshots \cup {Len(snapshots) + 1}
             /\ snapshots'[Len(snapshots) + 1].phase = start[r].draft.phase
             /\ snapshots'[Len(snapshots) + 1].commit = start[r].draft.commit
             /\ snapshots'[Len(snapshots) + 1].contract = start[r].draft.contract
             /\ \E s \in sessions' : s.snapshot = Len(snapshots) + 1 /\ Opened(s, r)
  <2> DEFINE d == start[r].draft
             rows == Marked(d.found, r)
             one == [d EXCEPT !.found = rows]
  <2>1. d \in Snapshot
    BY <1>1, <1>3 DEF Sound
  <2>2. rows \in [Findings -> RowStatus]
    BY <1>1, <2>1, MarkedIsRows DEF Held, Snapshot
  <2>3. snapshots' = Append(snapshots, one)
    BY <1>3, <2>1 DEF CommitStart, Req, Snapshot
  <2>4. \E s \in sessions' : s.snapshot = Len(snapshots) + 1 /\ Opened(s, r)
    <3> DEFINE new == [id |-> r, request |-> start[r].request, repo |-> repo, snapshot |-> Len(snapshots) + 1,
                       status |-> "active"]
    <3>1. new.snapshot = Len(snapshots) + 1 /\ Opened(new, r)
      BY DEF Opened
    <3>2. sessions' = sessions \cup {new}
      BY <1>3 DEF CommitStart, Req
    <3> HIDE DEF new
    <3> QED
      BY <3>1, <3>2
  <2> HIDE DEF d, rows
  <2>5. one \in Snapshot /\ one.phase = d.phase /\ one.commit = d.commit /\ one.contract = d.contract
    BY <2>1, <2>2 DEF Snapshot
  <2> HIDE DEF one
  <2>6. DOMAIN snapshots' = DOMAIN snapshots \cup {Len(snapshots) + 1} /\ snapshots'[Len(snapshots) + 1] = one
    BY <2>3, <2>5, AppendingKeepsEvidence
  <2> QED
    BY <2>4, <2>5, <2>6 DEF d
<1> QED
  BY <1>2, <1>3

\* Steps that add no evidence.
LEMMA EvidenceStays ==
  ASSUME FrozenInv, NEW new, Kept(new), DOMAIN new = DOMAIN snapshots
  PROVE  /\ Dated(new, head, contract)
         /\ \A r \in Starts : Fresh(start[r], HeadSha, contract, new)
<1>1. \A m \in DOMAIN new :
        /\ m \in DOMAIN snapshots /\ new[m].phase = snapshots[m].phase
        /\ new[m].commit = snapshots[m].commit /\ new[m].contract = snapshots[m].contract
  BY DEF Kept
<1>2. Dated(new, head, contract)
  BY <1>1 DEF FrozenInv, OnceInv, Dated
<1>3. ASSUME NEW r \in Starts PROVE Fresh(start[r], HeadSha, contract, new)
  <2>1. Fresh(start[r], HeadSha, contract, snapshots)
    BY DEF FrozenInv, OnceInv
  <2> QED
    BY <1>1, <2>1 DEF Fresh
<1> QED
  BY <1>2, <1>3

\* Sessions that differ in their status only.
SameReview(s, t) == t.snapshot = s.snapshot /\ t.request = s.request /\ t.repo = s.repo

LEMMA FrozenOnceStays ==
  ASSUME FrozenInv, Kept(snapshots'), DOMAIN snapshots' = DOMAIN snapshots,
         \A s \in sessions : \E t \in sessions' : SameReview(s, t)
  PROVE  EvidenceFrozenOnce'
<1>1. \A m \in DOMAIN snapshots' :
        /\ m \in DOMAIN snapshots /\ snapshots'[m].phase = snapshots[m].phase
        /\ snapshots'[m].commit = snapshots[m].commit /\ snapshots'[m].contract = snapshots[m].contract
  BY DEF Kept
<1> SUFFICES ASSUME NEW m \in DOMAIN snapshots', NEW n \in DOMAIN snapshots',
                    snapshots'[m].phase = snapshots'[n].phase,
                    snapshots'[m].commit = snapshots'[n].commit,
                    snapshots'[m].contract = snapshots'[n].contract, m # n
             PROVE  \E s \in sessions' : s.snapshot \in {m, n} /\ (s.request.scenario \/ ~s.repo)
  BY DEF EvidenceFrozenOnce
<1>2. PICK s \in sessions : s.snapshot \in {m, n} /\ (s.request.scenario \/ ~s.repo)
  BY <1>1 DEF FrozenInv, OnceInv, EvidenceFrozenOnce
<1> QED
  BY <1>2 DEF SameReview

LEMMA CommitKeepsOnce ==
  ASSUME FrozenInv, NEW r \in Starts, CommitStart(r)
  PROVE  OnceInv'
<1> DEFINE k == Len(snapshots) + 1
           d == start[r].draft
<1>1. /\ Sound(r, start[r], HeadSha, snapshots, sessions, decide) /\ start[r].pc = "flushed"
      /\ Fresh(start[r], HeadSha, contract, snapshots) /\ start[r] \in Start
  <2>1. Sound(r, start[r], HeadSha, snapshots, sessions, decide) /\ start[r] \in Start
    BY DEF FrozenInv, StartInv, Typed
  <2>2. Fresh(start[r], HeadSha, contract, snapshots)
    BY DEF FrozenInv, OnceInv
  <2>3. start[r].pc = "flushed"
    BY SMTT(30) DEF CommitStart
  <2> QED
    BY <2>1, <2>2, <2>3
<1>2. Kept(snapshots') /\ sessions \subseteq sessions' /\ UNCHANGED <<HeadSha, head, contract>>
  BY CommitsOneSession, WorldStays DEF CommitStart, FrozenInv
<1>3. \A q \in Starts : start'[q].pc \notin Held /\ start'[q].heads = start[q].heads
  <2>1. start'[r].pc = "done" /\ start'[r].heads = start[r].heads
    BY <1>1 DEF CommitStart, Answer, Start, FrozenInv, StartInv, Typed
  <2>2. \A q \in Starts \ {r} : start'[q] = start[q]
    BY DEF CommitStart, Answer, FrozenInv, StartInv, Typed
  <2>3. \A q \in Starts \ {r} : start[q].pc \notin Held
    BY <1>1 DEF FrozenInv, StartInv, LockOwned, Held
  <2> QED
    BY <2>1, <2>2, <2>3 DEF Held
<1>4. \A q \in Starts : Fresh(start'[q], HeadSha, contract, snapshots')
  BY <1>3 DEF Fresh, Held
<1>5. \A q \in Starts : \A c \in start'[q].heads : AtOrBefore(c, head)
  BY <1>3 DEF FrozenInv, OnceInv
<1>6. Dated(snapshots', head, contract) /\ EvidenceFrozenOnce'
  <2>1. CASE start[r].snap # 0
    <3>1. DOMAIN snapshots' = DOMAIN snapshots
      BY <2>1, CommitsEvidence DEF FrozenInv
    <3>2. \A s \in sessions : \E t \in sessions' : SameReview(s, t)
      BY <1>2 DEF SameReview
    <3> QED
      BY <1>2, <3>1, <3>2, EvidenceStays, FrozenOnceStays
  <2>2. CASE start[r].snap = 0
    <3>1. /\ DOMAIN snapshots' = DOMAIN snapshots \cup {k}
          /\ snapshots'[k].phase = d.phase /\ snapshots'[k].commit = d.commit
          /\ snapshots'[k].contract = d.contract
          /\ \E s \in sessions' : s.snapshot = k /\ Opened(s, r)
      BY <2>2, CommitsEvidence DEF FrozenInv
    <3>2. /\ DOMAIN snapshots = 1 .. Len(snapshots) /\ Len(snapshots) \in Nat
          /\ \A m \in DOMAIN snapshots : snapshots[m].contract <= contract
      BY DEF FrozenInv, OnceInv, Dated, StartInv, Typed
    <3>3. d.contract = contract /\ d.commit \in start[r].heads /\ contract \in Nat
      BY <1>1, <2>2 DEF Fresh, Sound, FrozenInv, StartInv, Typed
    <3>4. AtOrBefore(d.commit, head)
      BY <3>3 DEF FrozenInv, OnceInv
    <3>5. \A m \in DOMAIN snapshots :
            /\ m # k /\ m <= k /\ ~(k <= m)
            /\ snapshots'[m].phase = snapshots[m].phase /\ snapshots'[m].commit = snapshots[m].commit
            /\ snapshots'[m].contract = snapshots[m].contract
      BY <1>2, <3>2 DEF Kept
    <3> HIDE DEF k, d
    <3>6. Dated(snapshots', head, contract)
      <4>1. Dated(snapshots, head, contract)
        BY DEF FrozenInv, OnceInv
      <4>2. \A m \in DOMAIN snapshots' :
              snapshots'[m].contract <= contract /\ AtOrBefore(snapshots'[m].commit, head)
        BY <3>1, <3>3, <3>4, <3>5, <4>1 DEF Dated
      <4>3. \A m, n \in DOMAIN snapshots' : m <= n => snapshots'[m].contract <= snapshots'[n].contract
        BY <3>1, <3>3, <3>5, <4>1, <4>2 DEF Dated
      <4> QED
        BY <4>2, <4>3 DEF Dated
    <3>7. EvidenceFrozenOnce'
      <4> SUFFICES ASSUME NEW m \in DOMAIN snapshots', NEW n \in DOMAIN snapshots',
                          snapshots'[m].phase = snapshots'[n].phase,
                          snapshots'[m].commit = snapshots'[n].commit,
                          snapshots'[m].contract = snapshots'[n].contract, m # n
                   PROVE  \E s \in sessions' : s.snapshot \in {m, n} /\ (s.request.scenario \/ ~s.repo)
        BY DEF EvidenceFrozenOnce
      <4>1. CASE m = k \/ n = k
        <5>1. Unpinned(start[r].request, HeadSha)
          BY <1>1, <2>2, <3>1, <3>3, <3>5, <4>1 DEF Fresh, d
        <5>2. start[r].request.scenario \/ ~repo
          BY <5>1, HeadOrDemo DEF Unpinned, FrozenInv
        <5> QED
          BY <3>1, <4>1, <5>2 DEF Opened
      <4>2. CASE m # k /\ n # k
        <5>1. PICK s \in sessions : s.snapshot \in {m, n} /\ (s.request.scenario \/ ~s.repo)
          BY <3>1, <3>5, <4>2 DEF FrozenInv, OnceInv, EvidenceFrozenOnce
        <5> QED
          BY <1>2, <5>1
      <4> QED
        BY <4>1, <4>2
    <3> QED
      BY <3>6, <3>7
  <2> QED
    BY <2>1, <2>2
<1> QED
  BY <1>2, <1>4, <1>5, <1>6 DEF OnceInv

\* Handlers and the archive add no evidence.
LEMMA OthersKeepOnce ==
  ASSUME FrozenInv,
         \/ \E h \in Handlers, n \in DOMAIN snapshots, d \in Decisions, bills \in BOOLEAN :
              HoldSnapshot(h, n, d, bills)
         \/ \E h \in Handlers : HandlerStep(h)
         \/ ArchiveQuery \/ ArchiveCommit \/ UNCHANGED vars
  PROVE  OnceInv'
<1>1. UNCHANGED <<HeadSha, head, contract, start>>
  <2>1. UNCHANGED <<repo, head, contract, start>>
    BY DEF HoldSnapshot, HandlerStep, WriteRow, CommitRow, ArchiveQuery, ArchiveCommit, vars, world
  <2> QED
    BY <2>1 DEF HeadSha
<1>2. Kept(snapshots') /\ DOMAIN snapshots' = DOMAIN snapshots
  <2>1. CASE UNCHANGED snapshots
    BY <2>1, SnapshotsStay DEF FrozenInv
  <2>2. CASE \E h \in Handlers : CommitRow(h)
    <3>1. PICK h \in Handlers : CommitRow(h)
      BY <2>2
    <3> DEFINE n == decide[h].snap
               d == decide[h].decision
               rows == [snapshots[n].found EXCEPT ![d.finding] = d.status]
    <3>2. n \in DOMAIN snapshots /\ d \in Decisions
      BY <3>1 DEF FrozenInv, StartInv, CommitRow, Handles
    <3>3. rows \in [Findings -> RowStatus]
      BY <3>2, StartAssumption, RowsAreStatuses DEF RowStatus, FrozenInv
    <3>4. snapshots' = [snapshots EXCEPT ![n].found = rows]
      BY <3>1, <3>2 DEF CommitRow, FrozenInv, StartInv, Typed
    <3> HIDE DEF rows, n
    <3>5. Kept(snapshots')
      BY <3>2, <3>3, <3>4, WritingKeepsEvidence DEF FrozenInv
    <3>6. DOMAIN snapshots' = DOMAIN snapshots
      BY <3>2, <3>3, <3>4, WritingKeepsEvidence DEF FrozenInv
    <3> QED
      BY <3>5, <3>6
  <2> QED
    BY <2>1, <2>2 DEF HoldSnapshot, HandlerStep, WriteRow, ArchiveQuery, ArchiveCommit, vars
<1>3. \A s \in sessions : \E t \in sessions' : SameReview(s, t)
  <2>1. CASE UNCHANGED sessions
    BY <2>1 DEF SameReview
  <2>2. CASE ArchiveCommit
    <3> SUFFICES ASSUME NEW s \in sessions
                 PROVE  \E t \in sessions' : SameReview(s, t)
      OBVIOUS
    <3>1. Closed(s) \in sessions'
      BY <2>2 DEF ArchiveCommit, Closed
    <3>2. s \in Session
      BY DEF FrozenInv, StartInv, Typed
    <3>3. SameReview(s, Closed(s))
      BY <3>2 DEF Closed, Session, SameReview
    <3> QED
      BY <3>1, <3>3
  <2> QED
    BY <2>1, <2>2 DEF HoldSnapshot, HandlerStep, WriteRow, CommitRow, ArchiveQuery, vars
<1>4. Dated(snapshots', head, contract) /\ \A r \in Starts : Fresh(start[r], HeadSha, contract, snapshots')
  BY <1>2, EvidenceStays
<1>5. EvidenceFrozenOnce'
  BY <1>2, <1>3, FrozenOnceStays
<1> QED
  BY <1>1, <1>4, <1>5 DEF FrozenInv, OnceInv

LEMMA DeployKeepsOnce ==
  ASSUME FrozenInv, Deploy
  PROVE  OnceInv'
<1>1. /\ contract' = contract + 1 /\ contract \in Nat
      /\ UNCHANGED <<HeadSha, head, snapshots, sessions, start>>
  BY DEF Deploy, FrozenInv, StartInv, Typed, HeadSha
<1>2. \A r \in Starts : Fresh(start[r], HeadSha, contract', snapshots)
  BY DEF Deploy, Fresh
<1>3. Dated(snapshots, head, contract')
  <2>1. \A n \in DOMAIN snapshots : snapshots[n].contract \in Nat
    <3> SUFFICES ASSUME NEW n \in DOMAIN snapshots PROVE snapshots[n].contract \in Nat
      OBVIOUS
    <3>1. snapshots[n] \in Snapshot
      BY RowsAreStatuses DEF FrozenInv
    <3> QED
      BY <3>1 DEF Snapshot
  <2> QED
    BY <1>1, <2>1 DEF FrozenInv, OnceInv, Dated
<1> QED
  BY <1>1, <1>2, <1>3 DEF FrozenInv, OnceInv, EvidenceFrozenOnce

LEMMA PushKeepsOnce ==
  ASSUME FrozenInv, NEW c \in Commits, Push(c)
  PROVE  OnceInv'
<1>1. /\ head' = c /\ head \in Commits /\ <<head, c>> \in Older
      /\ UNCHANGED <<repo, contract, snapshots, sessions>>
  BY OlderIsOrder DEF Push, FrozenInv, StartInv, Typed
<1>2. \A d \in Shas : AtOrBefore(d, head) => AtOrBefore(d, c)
  BY <1>1, OlderIsOrder DEF AtOrBefore, Before, Shas
<1>3. \A n \in DOMAIN snapshots : snapshots[n].commit \in Shas
  <2> SUFFICES ASSUME NEW n \in DOMAIN snapshots PROVE snapshots[n].commit \in Shas
    OBVIOUS
  <2>1. snapshots[n] \in Snapshot
    BY RowsAreStatuses DEF FrozenInv
  <2> QED
    BY <2>1 DEF Snapshot
<1>4. Dated(snapshots, c, contract)
  BY <1>2, <1>3 DEF FrozenInv, OnceInv, Dated
<1>5. IF repo THEN HeadSha = head /\ HeadSha' = c /\ HeadSha # Demo /\ c # Demo ELSE HeadSha' = HeadSha
  BY <1>1, StartAssumption DEF HeadSha
<1>6. ASSUME NEW r \in Starts
      PROVE  /\ \A d \in start'[r].heads : AtOrBefore(d, c)
             /\ Fresh(start'[r], HeadSha', contract, snapshots)
  <2>1. start[r] \in Start /\ Fresh(start[r], HeadSha, contract, snapshots)
    BY DEF FrozenInv, StartInv, Typed, OnceInv
  <2>2. /\ start'[r].pc = start[r].pc /\ start'[r].request = start[r].request
        /\ start'[r].snap = start[r].snap /\ start'[r].commit = start[r].commit
        /\ start'[r].draft = start[r].draft
        /\ start'[r].heads \subseteq start[r].heads \cup {c}
    BY <2>1 DEF Push, Start
  <2>3. \A d \in start[r].heads : d \in Shas /\ AtOrBefore(d, head)
    BY <2>1 DEF Start, FrozenInv, OnceInv
  <2>4. \A d \in start'[r].heads : AtOrBefore(d, c)
    BY <1>2, <2>2, <2>3 DEF AtOrBefore
  <2>5. \A n \in DOMAIN snapshots : Before(snapshots[n].commit, head) => Before(snapshots[n].commit, c)
    BY <1>1, <1>3, OlderIsOrder DEF Before, Shas
  <2>6. Fresh(start'[r], HeadSha', contract, snapshots)
    BY <1>5, <2>1, <2>2, <2>5 DEF Fresh, Unpinned
  <2> QED
    BY <2>4, <2>6
<1>7. EvidenceFrozenOnce'
  BY <1>1 DEF FrozenInv, OnceInv, EvidenceFrozenOnce
<1> QED
  BY <1>1, <1>4, <1>6, <1>7 DEF OnceInv

LEMMA OnboardKeepsOnce ==
  ASSUME FrozenInv, Onboard
  PROVE  OnceInv'
<1>1. /\ UNCHANGED <<head, contract, snapshots, sessions, start>>
      /\ \A r \in Starts : start[r].pc \notin Held
  BY OnboardKeeps DEF Onboard, FrozenInv
<1>2. \A r \in Starts : Fresh(start[r], HeadSha', contract, snapshots)
  BY <1>1 DEF Fresh, Held
<1> QED
  BY <1>1, <1>2 DEF FrozenInv, OnceInv, EvidenceFrozenOnce

LEMMA OnceInvariant == Spec => [](NeverReturns => OnceInv)
<1>1. Init => (NeverReturns => OnceInv)
  BY DEF Init, OnceInv, Dated, Fresh, IdleStart, EvidenceFrozenOnce
<1>2. StartInv /\ (NeverReturns => OnceInv) /\ [Next]_vars => (NeverReturns => OnceInv)'
  <2> SUFFICES ASSUME FrozenInv, NeverReturns, [Next]_vars PROVE OnceInv'
    BY DEF FrozenInv, NeverReturns, Older
  <2> QED
    BY EdgesKeepOnce, ChooseKeepsOnce, RereadKeepsOnce, AnalyseKeepsOnce, MarkingKeepsOnce,
       CommitKeepsOnce, OthersKeepOnce, DeployKeepsOnce, PushKeepsOnce, OnboardKeepsOnce DEF Next, StartStep
<1> QED
  BY <1>1, <1>2, StartInvariant, PTL DEF Spec

\* Evidence is frozen once per phase, commit and contract, whatever starts do
\* at the same time and whenever the team gains or loses its repository, if the
\* default branch never returns to a commit; starts that pin no commit, with a
\* scenario or without a repository, are exempt.
THEOREM EvidenceIsFrozenOnce == Spec => [](NeverReturns => EvidenceFrozenOnce)
<1>1. (NeverReturns => OnceInv) => (NeverReturns => EvidenceFrozenOnce)
  BY DEF OnceInv
<1> QED
  BY <1>1, OnceInvariant, PTL

-----------------------------------------------------------------------------
(***************************************************************************)
(* The start transaction is atomic: what it does to the frozen evidence    *)
(* and to the request keys is one step of AtomicStart.  AtomicStart speaks *)
(* of reviews of HEAD, or of the demonstration while there is no           *)
(* repository; so a start by scenario, which freezes evidence of its own,  *)
(* and a decision that sets a finding back to "open", which a start may    *)
(* overwrite, are not among the requests; and HEAD never returns to a      *)
(* commit it left, for the reason given above.                             *)
(***************************************************************************)
NoScenarios == \A c \in StartRequests : ~c.scenario
NoReopening == \A d \in Decisions : d.status # "open"

\* A start x whose draft is the evidence it will freeze.
Drafted(x) == x.pc \in {"prepared", "read", "flushed"} /\ x.snap = 0

\* Without such a decision no row, draft or reading says "open".
NothingReopened ==
  /\ \A n \in DOMAIN snapshots : \A f \in Findings : snapshots[n].found[f] # "open"
  /\ \A r \in Starts :
       /\ start[r].seen # "open"
       /\ Drafted(start[r]) => \A f \in Findings : start[r].draft.found[f] # "open"

\* What a start keeps in memory of finding states.
SameMemory ==
  \A r \in Starts :
    /\ start'[r].seen = start[r].seen /\ start'[r].draft = start[r].draft
    /\ Drafted(start'[r]) => Drafted(start[r])

LEMMA InheritsNothingOpen ==
  ASSUME NEW p, NEW c, NEW f \in Findings
  PROVE  Carried(p, c)[f] # "open"
BY DEF Carried, CarriedStatuses, NoRows

LEMMA MemoryStays ==
  ASSUME StartInv,
         \/ \E r \in Starts :
              \/ \E c \in StartRequests : Arrive(r, c)
              \/ LockTeam(r) \/ RefuseStart(r) \/ ChooseCommit(r) \/ RereadHead(r) \/ FlushStart(r)
              \/ CommitStart(r) \/ Abort(r) \/ \E h \in Handlers : BreakDeadlock(r, h)
         \/ \E c \in Commits : Push(c)
         \/ UNCHANGED start
  PROVE  SameMemory
<1>1. \A q \in Starts : start[q] \in Start
  BY DEF StartInv, Typed
<1>2. CASE UNCHANGED start
  BY <1>2 DEF SameMemory
<1>3. ASSUME NEW r \in Starts, NEW a, Answer(r, a) PROVE SameMemory
  BY <1>1, <1>3 DEF Answer, SameMemory, Drafted, Start, StartInv, Typed
<1>4. ASSUME NEW r \in Starts, NEW c \in StartRequests, Arrive(r, c) PROVE SameMemory
  <2> DEFINE p == IF term = "archived" THEN "done" ELSE "waiting"
             a == IF term = "archived" THEN "refused" ELSE None
  <2>1. start' = [start EXCEPT ![r].pc = p, ![r].reply = a, ![r].request = c]
    BY <1>4 DEF Arrive
  <2>0. p \in {"done", "waiting"}
    OBVIOUS
  <2> HIDE DEF p, a
  <2>2. ASSUME NEW q \in Starts
        PROVE  /\ start'[q].seen = start[q].seen /\ start'[q].draft = start[q].draft
               /\ start'[q].snap = start[q].snap /\ start'[q].pc \in {start[q].pc, p}
    BY <1>1, <2>1 DEF Start, StartInv, Typed
  <2> QED
    BY <2>0, <2>2 DEF SameMemory, Drafted
<1>5. ASSUME NEW r \in Starts, LockTeam(r) PROVE SameMemory
  <2>1. CASE start' = [start EXCEPT ![r].pc = "locked", ![r].heads = {HeadSha}]
    BY <1>1, <2>1 DEF SameMemory, Drafted, Start, StartInv, Typed
  <2> QED
    BY <1>3, <1>5, <2>1 DEF LockTeam, Settle
<1>6. ASSUME NEW r \in Starts, ChooseCommit(r) \/ RereadHead(r) PROVE SameMemory
  <2>1. CASE ChooseCommit(r)
    <3> DEFINE n == IF Unpinned(Req(r), HeadSha) THEN 0 ELSE Reusable(SameEvidence(Req(r).phase, HeadSha))
               p == IF n = 0 THEN "chosen" ELSE "prepared"
               c == IF n = 0 THEN None ELSE HeadSha
               x == [start[r] EXCEPT !.pc = p, !.snap = n, !.commit = c]
    <3>1. start' = [start EXCEPT ![r] = x]
      BY <2>1 DEF ChooseCommit, StartInv, Typed
    <3>2. x.pc = p /\ x.snap = n /\ x.seen = start[r].seen /\ x.draft = start[r].draft
      BY <1>1 DEF Start
    <3>3. p = "chosen" \/ n # 0
      OBVIOUS
    <3> HIDE DEF n, p, c, x
    <3>4. ~Drafted(x)
      BY <3>2, <3>3 DEF Drafted
    <3>5. start'[r] = x /\ \A q \in Starts \ {r} : start'[q] = start[q]
      BY <3>1 DEF StartInv, Typed
    <3> QED
      BY <3>2, <3>4, <3>5 DEF SameMemory
  <2>2. CASE RereadHead(r)
    BY <1>1, <2>2 DEF RereadHead, SameMemory, Drafted, Start, StartInv, Typed
  <2> QED
    BY <1>6, <2>1, <2>2
<1>7. ASSUME NEW r \in Starts, FlushStart(r) PROVE SameMemory
  <2>1. CASE start' = [start EXCEPT ![r].pc = "flushed"]
    BY <1>1, <1>7, <2>1 DEF FlushStart, SameMemory, Drafted, Start, StartInv, Typed
  <2> QED
    BY <1>3, <1>7, <2>1 DEF FlushStart, Goes
<1>8. ASSUME NEW c \in Commits, Push(c) PROVE SameMemory
  BY <1>1, <1>8 DEF Push, SameMemory, Drafted, Start
<1> QED
  BY <1>2, <1>3, <1>4, <1>5, <1>6, <1>7, <1>8 DEF RefuseStart, CommitStart, Abort, BreakDeadlock

\* Steps after which every row says what it said, or what was not "open".
LEMMA RowsWritten ==
  ASSUME StartInv, NothingReopened, SameMemory,
         \A n \in DOMAIN snapshots' : \A f \in Findings : snapshots'[n].found[f] # "open"
  PROVE  NothingReopened'
BY DEF NothingReopened, SameMemory

LEMMA NothingReopens ==
  ASSUME NoReopening, StartInv, NothingReopened, [Next]_vars
  PROVE  NothingReopened'
<1>1. \A n \in DOMAIN snapshots :
        snapshots[n].found \in [Findings -> RowStatus]
        /\ \A f \in Findings : snapshots[n].found[f] # "open"
  BY RowsAreStatuses DEF NothingReopened
<1>2. ASSUME NEW r \in Starts, Analyse(r) PROVE NothingReopened'
  <2>1. UNCHANGED snapshots
    BY <1>2 DEF Analyse
  <2>2. CASE Answer(r, "moved")
    <3>1. SameMemory
      BY <2>2 DEF Answer, SameMemory, Drafted, Start, StartInv, Typed
    <3> QED
      BY <2>1, <3>1, <1>1, RowsWritten
  <2>3. ASSUME NEW c, start' = [start EXCEPT
                 ![r].pc = "prepared", ![r].commit = c,
                 ![r].draft = [phase |-> Req(r).phase, commit |-> c, contract |-> contract,
                               found |-> Carried(Req(r).phase, c)]]
        PROVE  NothingReopened'
    <3> DEFINE d == [phase |-> Req(r).phase, commit |-> c, contract |-> contract,
                     found |-> Carried(Req(r).phase, c)]
    <3>1. d.found = Carried(Req(r).phase, c)
      OBVIOUS
    <3> HIDE DEF d
    <3>2. /\ start'[r].seen = start[r].seen /\ start'[r].draft = d
          /\ \A q \in Starts \ {r} : start'[q] = start[q]
      BY <2>3 DEF Start, StartInv, Typed, d
    <3>3. \A f \in Findings : d.found[f] # "open"
      BY <3>1, InheritsNothingOpen
    <3> QED
      BY <2>1, <3>2, <3>3 DEF NothingReopened
  <2> QED
    BY <1>2, <2>2, <2>3 DEF Analyse
<1>3. ASSUME NEW r \in Starts, ReadFinding(r) PROVE NothingReopened'
  <2> DEFINE n == start[r].snap
             f == Req(r).finding
             v == IF f = None \/ n = 0 THEN "none" ELSE snapshots[n].found[f]
  <2>1. start' = [start EXCEPT ![r].pc = "read", ![r].seen = v] /\ UNCHANGED snapshots
    BY <1>3 DEF ReadFinding
  <2>2. v # "open"
    <3>1. Sound(r, start[r], HeadSha, snapshots, sessions, decide) /\ start[r].pc = "prepared"
      BY <1>3 DEF StartInv, ReadFinding
    <3>2. n # 0 => n \in DOMAIN snapshots
      BY <3>1 DEF Sound
    <3>3. f # None => f \in Findings
      BY <3>1, StartAssumption DEF Sound, Req, StartRequest
    <3> QED
      BY <1>1, <3>2, <3>3
  <2> HIDE DEF v
  <2>3. /\ start'[r].seen = v /\ start'[r].draft = start[r].draft
        /\ Drafted(start'[r]) => Drafted(start[r])
        /\ \A q \in Starts \ {r} : start'[q] = start[q]
    BY <1>3, <2>1 DEF ReadFinding, Drafted, Start, StartInv, Typed
  <2>4. \A q \in Starts :
          /\ start'[q].seen # "open"
          /\ Drafted(start'[q]) => \A g \in Findings : start'[q].draft.found[g] # "open"
    BY <2>2, <2>3 DEF NothingReopened
  <2> QED
    BY <1>1, <2>1, <2>4 DEF NothingReopened
<1>4. ASSUME NEW r \in Starts, CommitStart(r) PROVE NothingReopened'
  <2> DEFINE k == Len(snapshots) + 1
  <2>1. /\ start[r] \in Start /\ Sound(r, start[r], HeadSha, snapshots, sessions, decide)
        /\ start[r].pc = "flushed"
    BY <1>4 DEF StartInv, Typed, CommitStart
  <2>2. ASSUME NEW rows \in [Findings -> RowStatus], \A f \in Findings : rows[f] # "open"
        PROVE  \A f \in Findings : Marked(rows, r)[f] # "open"
    BY <2>2 DEF Marked
  <2>3. CASE start[r].snap # 0
    <3>1. /\ start[r].snap \in DOMAIN snapshots
          /\ snapshots' = [snapshots EXCEPT ![start[r].snap].found = Marked(@, r)]
      BY <1>4, <2>1, <2>3 DEF Sound, CommitStart
    <3> DEFINE n == start[r].snap
               rows == Marked(snapshots[n].found, r)
    <3>2. rows \in [Findings -> RowStatus] /\ \A f \in Findings : rows[f] # "open"
      BY <1>1, <2>1, <2>2, <3>1, MarkedIsRows DEF Held
    <3>3. snapshots' = [snapshots EXCEPT ![n].found = rows]
      BY <3>1
    <3> HIDE DEF rows, n
    <3>4. /\ DOMAIN snapshots' = DOMAIN snapshots /\ snapshots'[n].found = rows
          /\ \A m \in DOMAIN snapshots \ {n} : snapshots'[m] = snapshots[m]
      BY <3>1, <3>2, <3>3, WritingKeepsEvidence DEF n
    <3> QED
      BY <1>1, <1>4, <3>2, <3>4, MemoryStays, RowsWritten
  <2>4. CASE start[r].snap = 0
    <3> DEFINE d == start[r].draft
               rows == Marked(d.found, r)
               one == [d EXCEPT !.found = rows]
    <3>1. d \in Snapshot
      BY <2>1, <2>4 DEF Sound
    <3>2. rows \in [Findings -> RowStatus] /\ \A f \in Findings : rows[f] # "open"
      BY <2>1, <2>2, <2>4, <3>1, MarkedIsRows DEF Held, Snapshot, NothingReopened, Drafted
    <3>3. snapshots' = Append(snapshots, one)
      BY <1>4, <2>4 DEF CommitStart
    <3> HIDE DEF rows
    <3>4. one \in Snapshot /\ one.found = rows
      BY <3>1, <3>2 DEF Snapshot
    <3> HIDE DEF one
    <3>5. /\ DOMAIN snapshots' = DOMAIN snapshots \cup {k} /\ snapshots'[k] = one
          /\ \A m \in DOMAIN snapshots : snapshots'[m] = snapshots[m]
      BY <3>3, <3>4, AppendingKeepsEvidence
    <3> QED
      BY <1>1, <1>4, <3>2, <3>4, <3>5, MemoryStays, RowsWritten
  <2> QED
    BY <2>3, <2>4
<1>5. ASSUME NEW h \in Handlers, CommitRow(h) PROVE NothingReopened'
  <2> DEFINE n == decide[h].snap
             d == decide[h].decision
             rows == [snapshots[n].found EXCEPT ![d.finding] = d.status]
  <2>1. n \in DOMAIN snapshots /\ d \in Decisions /\ UNCHANGED start
    BY <1>5 DEF StartInv, CommitRow, Handles
  <2>2. d.finding \in Findings /\ d.status \in Statuses /\ d.status # "open"
    BY <2>1, StartAssumption DEF NoReopening
  <2>3. rows \in [Findings -> RowStatus] /\ \A f \in Findings : rows[f] # "open"
    BY <1>1, <2>1, <2>2 DEF RowStatus
  <2>4. snapshots' = [snapshots EXCEPT ![n].found = rows]
    BY <1>5, <2>1 DEF CommitRow, StartInv, Typed
  <2> HIDE DEF rows, n, d
  <2>5. /\ DOMAIN snapshots' = DOMAIN snapshots /\ snapshots'[n].found = rows
        /\ \A m \in DOMAIN snapshots \ {n} : snapshots'[m] = snapshots[m]
    BY <2>1, <2>3, <2>4, WritingKeepsEvidence
  <2> QED
    BY <1>1, <2>1, <2>3, <2>5, MemoryStays, RowsWritten
<1>6. CASE SameMemory /\ UNCHANGED snapshots
  <2>1. \A n \in DOMAIN snapshots' : \A f \in Findings : snapshots'[n].found[f] # "open"
    BY ONLY <1>1, <1>6
  <2> QED
    BY <1>6, <2>1, RowsWritten
<1>7. \/ \E r \in Starts : Analyse(r) \/ ReadFinding(r) \/ CommitStart(r)
      \/ \E h \in Handlers : CommitRow(h)
      \/ SameMemory /\ UNCHANGED snapshots
  BY MemoryStays, ZenonT(40)
  DEF Next, StartStep, HandlerStep, vars, Arrive, LockTeam, RefuseStart, ChooseCommit, RereadHead,
      FlushStart, Abort, HoldSnapshot, WriteRow, BreakDeadlock, Push, Onboard, Deploy, ArchiveQuery,
      ArchiveCommit
<1> QED
  BY <1>2, <1>3, <1>4, <1>5, <1>6, <1>7

-----------------------------------------------------------------------------
\* The session that used a key is the one the abstraction sees.
LEMMA OpenedBySession ==
  ASSUME StartInv, NEW s \in sessions, s.request.key # None
  PROVE  OpenedSnapshot(s.request.key) = s.snapshot
<1> DEFINE used == SessionsWithKey(s.request.key)
<1>1. s \in used /\ \A t \in used : t = s
  BY DEF SessionsWithKey, StartInv, Distinct
<1>2. (CHOOSE t \in used : TRUE) = s
  BY <1>1
<1> QED
  BY <1>1, <1>2 DEF OpenedSnapshot

LEMMA UnusedIsUnopened ==
  ASSUME NEW k, \A s \in sessions : s.request.key # k
  PROVE  OpenedSnapshot(k) = 0
BY DEF OpenedSnapshot, SessionsWithKey

\* Sessions that keep key and snapshot look the same from there.
LEMMA OpenedStays ==
  ASSUME StartInv, StartInv', NEW k \in Keys,
         \A s \in sessions : \E t \in sessions' : t.request = s.request /\ t.snapshot = s.snapshot,
         \A t \in sessions' : \E s \in sessions : t.request = s.request /\ t.snapshot = s.snapshot
  PROVE  OpenedSnapshot(k)' = OpenedSnapshot(k)
<1>0. k # None
  BY StartAssumption
<1>1. CASE \E s \in sessions : s.request.key = k
  <2>1. PICK s \in sessions : s.request.key = k
    BY <1>1
  <2>2. PICK t \in sessions' : t.request = s.request /\ t.snapshot = s.snapshot
    OBVIOUS
  <2>3. OpenedSnapshot(k) = s.snapshot
    BY <1>0, <2>1, OpenedBySession
  <2>4. OpenedSnapshot(k)' = t.snapshot
    <3>1. t \in SessionsWithKey(k)' /\ \A u \in SessionsWithKey(k)' : u = t
      BY <1>0, <2>1, <2>2 DEF SessionsWithKey, StartInv, Distinct
    <3>2. (CHOOSE u \in SessionsWithKey(k)' : TRUE) = t
      BY <3>1
    <3> QED
      BY <3>1, <3>2 DEF OpenedSnapshot
  <2> QED
    BY <2>2, <2>3, <2>4
<1>2. CASE \A s \in sessions : s.request.key # k
  <2>1. \A t \in sessions' : t.request.key # k
    BY <1>2
  <2>2. SessionsWithKey(k)' = {}
    BY <2>1 DEF SessionsWithKey
  <2> QED
    BY <1>2, <2>2, UnusedIsUnopened DEF OpenedSnapshot
<1> QED
  BY <1>1, <1>2

\* The key of a committed session, which no session had, becomes that session's.
LEMMA CommitOpens ==
  ASSUME StartInv, StartInv', NEW r \in Starts, start[r].pc \in Held, NEW new \in sessions',
         new.request = start[r].request, sessions' = sessions \cup {new}
  PROVE  /\ \A k \in Keys : k # new.request.key => OpenedSnapshot(k)' = OpenedSnapshot(k)
         /\ new.request.key # None =>
              OpenedSnapshot(new.request.key) = 0 /\ OpenedSnapshot(new.request.key)' = new.snapshot
<1>1. Sound(r, start[r], HeadSha, snapshots, sessions, decide)
  BY DEF StartInv
<1>2. ASSUME NEW k \in Keys, k # new.request.key PROVE OpenedSnapshot(k)' = OpenedSnapshot(k)
  <2>1. SessionsWithKey(k)' = SessionsWithKey(k)
    BY <1>2 DEF SessionsWithKey
  <2> QED
    BY <2>1 DEF OpenedSnapshot
<1>3. ASSUME new.request.key # None
      PROVE  OpenedSnapshot(new.request.key) = 0 /\ OpenedSnapshot(new.request.key)' = new.snapshot
  <2>1. \A s \in sessions : s.request.key # new.request.key
    BY <1>1, <1>3 DEF Sound
  <2>2. SessionsWithKey(new.request.key) = {}
    BY <2>1 DEF SessionsWithKey
  <2> DEFINE k == new.request.key
  <2>3. {s \in sessions' : k # None /\ s.request.key = k} = {new}
    BY <1>3, <2>1
  <2>4. (CHOOSE s \in {new} : TRUE) = new
    OBVIOUS
  <2> QED
    BY <2>2, <2>3, <2>4 DEF OpenedSnapshot, SessionsWithKey
<1> QED
  BY <1>2, <1>3

-----------------------------------------------------------------------------
\* What a start changes of frozen evidence had not been decided.
LEMMA MarksTheUndecided ==
  ASSUME StartInv, NothingReopened, NEW r \in Starts, CommitStart(r),
         NEW n \in DOMAIN snapshots, NEW f \in Findings,
         snapshots'[n].found[f] # snapshots[n].found[f]
  PROVE  snapshots[n].found[f] \in {"none", "open"}
<1>1. n = start[r].snap /\ snapshots'[n].found = Marked(snapshots[n].found, r)
  BY CommitsOneSession
<1>2. Marks(r) /\ f = Req(r).finding
  BY <1>1, RowsAreStatuses, SMTT(30) DEF Marked
<1>3. start[r].seen = "none"
  BY <1>2 DEF Marks, NothingReopened
<1>4. Inserted(start[r])
  BY <1>1, <1>2, <1>3, RowsAreStatuses DEF Inserted, Marks, Req, CommitStart
<1> QED
  BY <1>1, <1>2, <1>4, ZenonT(60) DEF StartInv, Sound, Req

\* New evidence is committed as it was drafted, under a number of its own.
LEMMA CommitsTheDraft ==
  ASSUME StartInv, NEW r \in Starts, CommitStart(r), start[r].snap = 0,
         NEW n, n = Len(snapshots) + 1
  PROVE  snapshots' = Append(snapshots, snapshots'[n])
<1>1. PICK one : snapshots' = Append(snapshots, one)
  BY DEF CommitStart
<1>2. snapshots'[n] = one
  BY <1>1 DEF StartInv, Typed
<1> QED
  BY <1>1, <1>2

\* The commit of a start is one Begin.
LEMMA StartBegins ==
  ASSUME FrozenInv, StartInv', NothingReopened, NoScenarios, NEW r \in Starts, CommitStart(r)
  PROVE  Promise!Next
<1>1. /\ Sound(r, start[r], HeadSha, snapshots, sessions, decide) /\ start[r].pc = "flushed"
      /\ Fresh(start[r], HeadSha, contract, snapshots)
  BY SMTT(30) DEF FrozenInv, OnceInv, StartInv, CommitStart
<1>2. PICK n \in Nat \ {0} :
        /\ Kept(snapshots') /\ n \in DOMAIN snapshots'
        /\ \A m \in DOMAIN snapshots \ {n} : snapshots'[m] = snapshots[m]
        /\ sessions' = sessions \cup
             {[id |-> r, request |-> start[r].request, repo |-> repo, snapshot |-> n, status |-> "active"]}
        /\ n \in DOMAIN snapshots => n = start[r].snap
  BY CommitsOneSession DEF FrozenInv
<1> DEFINE was == [k \in Keys |-> OpenedSnapshot(k)]
           is == [k \in Keys |-> OpenedSnapshot(k)']
<1>3. PICK new \in sessions' :
        new.request = start[r].request /\ new.snapshot = n /\ sessions' = sessions \cup {new}
  BY <1>2
<1> HIDE DEF was, is
<1>4. /\ \A k \in Keys : k # new.request.key => OpenedSnapshot(k)' = OpenedSnapshot(k)
      /\ new.request.key # None =>
           OpenedSnapshot(new.request.key) = 0 /\ OpenedSnapshot(new.request.key)' = new.snapshot
  <2>1. start[r].pc \in Held /\ StartInv
    BY <1>1 DEF Held, FrozenInv
  <2> QED
    BY <1>3, <2>1, CommitOpens
<1>5. (\E k \in Keys : was[k] = 0 /\ is = [was EXCEPT ![k] = n]) \/ is = was
  <2>1. start[r].request.key \in Keys \cup {None}
    BY <1>1, StartAssumption DEF Sound, StartRequest
  <2>2. CASE start[r].request.key = None
    <3>1. \A k \in Keys : OpenedSnapshot(k)' = OpenedSnapshot(k)
      BY <1>3, <1>4, <2>2, StartAssumption
    <3> QED
      BY <3>1 DEF was, is
  <2>3. CASE start[r].request.key # None
    <3>0. PICK j \in Keys : j = new.request.key
      BY <1>3, <2>1, <2>3
    <3>1. OpenedSnapshot(j) = 0 /\ OpenedSnapshot(j)' = n
      BY <1>3, <1>4, <2>3, <3>0
    <3>2. \A k \in Keys : k # j => OpenedSnapshot(k)' = OpenedSnapshot(k)
      BY <1>4, <3>0
    <3>3. was[j] = 0 /\ is = [was EXCEPT ![j] = n]
      BY <3>1, <3>2 DEF was, is
    <3> QED
      BY <3>1, <3>3
  <2> QED
    BY <2>2, <2>3
<1>6. \/ /\ DOMAIN snapshots' = DOMAIN snapshots
         /\ Promise!SameEvidence(snapshots'[n], snapshots[n])
         /\ \A f \in Findings :
              snapshots'[n].found[f] # snapshots[n].found[f] => snapshots[n].found[f] \in {"none", "open"}
      \/ /\ n = Len(snapshots) + 1 /\ snapshots' = Append(snapshots, snapshots'[n])
         /\ snapshots'[n].commit = Demo
            \/ \A m \in DOMAIN snapshots : ~Promise!SameEvidence(snapshots[m], snapshots'[n])
  <2>1. CASE start[r].snap # 0
    <3>1. DOMAIN snapshots' = DOMAIN snapshots
      BY <2>1, CommitsEvidence DEF FrozenInv
    <3>2. n \in DOMAIN snapshots /\ Promise!SameEvidence(snapshots'[n], snapshots[n])
      BY <1>2, <3>1 DEF Kept, Promise!SameEvidence
    <3>3. \A f \in Findings :
            snapshots'[n].found[f] # snapshots[n].found[f] => snapshots[n].found[f] \in {"none", "open"}
      BY <3>2, MarksTheUndecided DEF FrozenInv
    <3> QED
      BY <3>1, <3>2, <3>3
  <2>2. CASE start[r].snap = 0
    <3> DEFINE k == Len(snapshots) + 1
    <3>1. /\ DOMAIN snapshots' = DOMAIN snapshots \cup {k}
          /\ snapshots'[k].phase = start[r].draft.phase
          /\ snapshots'[k].commit = start[r].draft.commit
          /\ snapshots'[k].contract = start[r].draft.contract
      BY <2>2, CommitsEvidence DEF FrozenInv
    <3>2. n = k
      BY <1>2, <2>2, <3>1
    <3>3. snapshots' = Append(snapshots, snapshots'[k])
      BY <2>2, CommitsTheDraft DEF FrozenInv
    <3>4. ~start[r].request.scenario
      BY <1>1 DEF Sound, NoScenarios
    <3>5. /\ start[r].draft.contract = contract
          /\ start[r].draft.commit = Demo \/ \A m \in DOMAIN snapshots :
               snapshots[m].phase = start[r].draft.phase /\ snapshots[m].contract = contract =>
                 snapshots[m].commit # start[r].draft.commit
      BY <1>1, <2>2, <3>4 DEF Fresh, Unpinned
    <3> HIDE DEF k
    <3>6. \/ snapshots'[k].commit = Demo
          \/ \A m \in DOMAIN snapshots : ~Promise!SameEvidence(snapshots[m], snapshots'[k])
      BY <3>1, <3>5 DEF Promise!SameEvidence
    <3> QED
      BY <3>2, <3>3, <3>6 DEF k
  <2> QED
    BY <2>1, <2>2
<1>7. n \in 1 .. Len(snapshots')
  BY <1>2 DEF Kept
<1>8. /\ \A m \in DOMAIN snapshots \ {n} : snapshots'[m] = snapshots[m]
      /\ n \in DOMAIN snapshots'
  BY <1>2
<1>9. Promise!Begin(n, snapshots')
  BY <1>5, <1>6, <1>8 DEF Promise!Begin, was, is
<1> QED
  BY <1>7, <1>9 DEF Promise!Next

\* The commit of a handler is one Decide; the other steps are none.
LEMMA HandlerDecides ==
  ASSUME StartInv, NEW h \in Handlers, CommitRow(h)
  PROVE  Promise!Next
<1> DEFINE n == decide[h].snap
           d == decide[h].decision
<1>1. n \in DOMAIN snapshots /\ d.finding \in Findings /\ d.status \in Statuses
  BY StartAssumption DEF StartInv, CommitRow, Handles
<1>2. snapshots' = [snapshots EXCEPT ![n].found[d.finding] = d.status]
  BY DEF CommitRow
<1>3. \A k \in Keys : OpenedSnapshot(k)' = OpenedSnapshot(k)
  BY DEF CommitRow, OpenedSnapshot, SessionsWithKey
<1>4. Promise!Decide(n, d.finding, d.status)
  BY <1>2, <1>3 DEF Promise!Decide
<1> HIDE DEF n, d
<1> QED
  BY <1>1, <1>4 DEF Promise!Next

LEMMA OthersPromiseNothing ==
  ASSUME StartInv, StartInv', [Next]_vars,
         \A r \in Starts : ~CommitStart(r), \A h \in Handlers : ~CommitRow(h)
  PROVE  UNCHANGED snapshots /\ \A k \in Keys : OpenedSnapshot(k)' = OpenedSnapshot(k)
<1>1. UNCHANGED snapshots /\ (UNCHANGED sessions \/ ArchiveCommit)
  BY ZenonT(60)
  DEF Next, vars, StartStep, HandlerStep, Arrive, LockTeam, RefuseStart, ChooseCommit, RereadHead, Analyse,
      ReadFinding, FlushStart, Abort, HoldSnapshot, WriteRow, BreakDeadlock, Push, Onboard, Deploy,
      ArchiveQuery, ArchiveCommit
<1>2. CASE UNCHANGED sessions
  BY <1>1, <1>2 DEF OpenedSnapshot, SessionsWithKey
<1>3. CASE ArchiveCommit
  <2>1. ASSUME NEW s \in sessions
        PROVE  /\ Closed(s) \in sessions'
               /\ Closed(s).request = s.request /\ Closed(s).snapshot = s.snapshot
    BY <1>3 DEF StartInv, Typed, Session, Closed, ArchiveCommit
  <2>2. \A t \in sessions' : \E s \in sessions : t = Closed(s)
    BY <1>3 DEF ArchiveCommit, Closed
  <2>3. \A t \in sessions' : \E s \in sessions : t.request = s.request /\ t.snapshot = s.snapshot
    BY <2>1, <2>2
  <2>4. \A s \in sessions : \E t \in sessions' : t.request = s.request /\ t.snapshot = s.snapshot
    BY <2>1
  <2> QED
    BY <1>1, <2>3, <2>4, OpenedStays
<1> QED
  BY <1>1, <1>2, <1>3

\* Locks, GitHub calls, retries, aborted starts, releases and the archive of
\* the term do not show: the frozen evidence and the keys change as if every
\* start and every decision happened at once.
THEOREM StartImplementsAtomicStart ==
  ASSUME NeverReturns, NoScenarios, NoReopening
  PROVE  Spec => ImplementsAtomicStart
<1>1. Init => Promise!Init /\ NothingReopened
  <2> SUFFICES ASSUME Init PROVE Promise!Init /\ NothingReopened
    OBVIOUS
  <2>1. \A k \in Keys : OpenedSnapshot(k) = 0
    BY UnusedIsUnopened DEF Init
  <2>2. NothingReopened
    BY DEF Init, NothingReopened, IdleStart, Drafted
  <2> QED
    BY <2>1, <2>2 DEF Init, Promise!Init
<1>2. ASSUME StartInv, NothingReopened, [Next]_vars PROVE NothingReopened'
  BY <1>2, NothingReopens
<1>3. ASSUME StartInv, StartInv', NeverReturns => OnceInv, NothingReopened, [Next]_vars
      PROVE  [Promise!Next]_<<snapshots, [k \in Keys |-> OpenedSnapshot(k)]>>
  <2>1. CASE \E r \in Starts : CommitStart(r)
    BY <1>3, <2>1, StartBegins DEF FrozenInv
  <2>2. CASE \E h \in Handlers : CommitRow(h)
    BY <1>3, <2>2, HandlerDecides
  <2>3. CASE (\A r \in Starts : ~CommitStart(r)) /\ \A h \in Handlers : ~CommitRow(h)
    BY <1>3, <2>3, OthersPromiseNothing
  <2> QED
    BY <2>1, <2>2, <2>3
<1>4. Spec => Promise!Spec
  BY <1>1, <1>2, <1>3, StartInvariant, OnceInvariant, PTL DEF Spec, Promise!Spec
<1> QED
  BY <1>4 DEF ImplementsAtomicStart

=============================================================================
