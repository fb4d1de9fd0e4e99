-------------------------- MODULE ReviewReplayProofs --------------------------
(***************************************************************************)
(* The document of a review is a replay of its transcript, for every set   *)
(* of sessions, requests, replicas and submissions.  ReviewRoomProofs      *)
(* shows that a commit works on what the database holds; here it is shown  *)
(* that the rows and the document it writes then fit each other.           *)
(***************************************************************************)
EXTENDS ReviewRoomProofs, FiniteSetTheorems

Marks(rows) == {t \in rows : t.op = "commit"}
Earlier(rows, m) == {t \in rows : t.seq < m}
Count(rows, op) == Cardinality(StudentTurns(rows, {op}))

\* Among the recommendations of a transcript one is the latest.
HasLatestMark(rows) ==
  Marks(rows) # {} => \E t \in Marks(rows) : \A u \in Marks(rows) : u.seq =< t.seq

Counted(rows, doc) ==
  /\ doc.clarifications = Count(rows, "clarify")
  /\ doc.disputes = Count(rows, "evidence_dispute")
  /\ doc.level = Min({Count(rows, "coach"), MaxCoachingLevel})

Said(rows, doc) == doc.position = PositionIn(rows) /\ doc.ready = ReadyIn(rows)

\* The recommendation is the position that was ready when it was recorded.
Recommended(rows, doc) ==
  /\ doc.committed = PositionIn(BeforeRecommendation(rows))
  /\ doc.committed # None => ReadyIn(BeforeRecommendation(rows))

Replay(rows, doc) ==
  /\ IsFiniteSet(rows) /\ HasLatestMark(rows) /\ Revised(rows)
  /\ Counted(rows, doc) /\ Said(rows, doc) /\ Recommended(rows, doc)

ReplayInv == \A s \in Sessions : Replay(turns[s], state[s])

\* No two rows have one number (TranscriptDense).
Numbered(rows) == \A t, u \in rows : t.seq = u.seq => t = u

-----------------------------------------------------------------------------
(***************************************************************************)
(* Lemmas about transcripts.                                               *)
(***************************************************************************)

\* A turn numbered after all others is the latest.
LEMMA LatestIsNew ==
  ASSUME NEW S, NEW a, a.seq \in Nat, \A u \in S : u.seq \in Nat /\ u.seq < a.seq
  PROVE  Latest(S \cup {a}) = a
<1> DEFINE Top(x) == x \in S \cup {a} /\ \A u \in S \cup {a} : u.seq =< x.seq
<1>1. Top(a)
  OBVIOUS
<1>2. \A x : Top(x) => x = a
  OBVIOUS
<1>3. Latest(S \cup {a}) = CHOOSE x : Top(x)
  BY DEF Latest
<1> HIDE DEF Top
<1> QED
  BY <1>1, <1>2, <1>3

\* The smaller of two numbers.
LEMMA MinOfTwo ==
  ASSUME NEW a \in Nat, NEW b \in Nat
  PROVE  Min({a, b}) = IF a =< b THEN a ELSE b
<1> DEFINE Least(x) == x \in {a, b} /\ \A y \in {a, b} : x =< y
           low == IF a =< b THEN a ELSE b
<1>1. Least(low)
  OBVIOUS
<1>2. \A x : Least(x) => x = low
  OBVIOUS
<1>3. Min({a, b}) = CHOOSE x : Least(x)
  BY DEF Min
<1> HIDE DEF Least, low
<1>4. Min({a, b}) = low
  BY <1>1, <1>2, <1>3
<1> QED
  BY <1>4 DEF low

\* A request for coaching raises the level up to its cap.
LEMMA LevelIsCapped ==
  ASSUME NEW k \in Nat
  PROVE  CoachingLevel(Min({k, MaxCoachingLevel})) = Min({k + 1, MaxCoachingLevel})
BY MinOfTwo, DataAssumption DEF CoachingLevel

\* `new` is a transcript with the exchange of c, numbered from n, added to it.
Extension(rows, n, c, ready, new) ==
  /\ rows \in SUBSET Turn /\ n \in Nat /\ \A t \in rows : t.seq < n
  /\ c \in Submission /\ c.op \in KeyedOps /\ ready \in BOOLEAN
  /\ new = rows \cup Exchange(n, c, ready)

\* What an exchange adds: one student turn, after all others, and no mark.
LEMMA ExchangeRows ==
  ASSUME NEW rows, NEW n, NEW c, NEW ready, NEW new, Extension(rows, n, c, ready, new)
  PROVE  \E asked :
           /\ asked.seq = n /\ asked.said = c.said /\ asked.ready = ready /\ asked \notin rows
           /\ new = (rows \cup {asked}) \cup {ReviewerTurn(n + 1, c.op)}
           /\ \A ops : StudentTurns(new, ops) =
                IF c.op \in ops THEN StudentTurns(rows, ops) \cup {asked}
                ELSE StudentTurns(rows, ops)
<1> DEFINE asked == StudentTurn(n, c, ready)
           answer == ReviewerTurn(n + 1, c.op)
<1> USE DEF Extension
<1>1. /\ asked.seq = n /\ asked.said = c.said /\ asked.ready = ready /\ asked.op = c.op
      /\ asked.actor = "student"
      /\ answer.seq = n + 1 /\ answer.op = c.op /\ answer.actor = "reviewer"
  BY DEF StudentTurn, ReviewerTurn
<1>2. new = (rows \cup {asked}) \cup {answer}
  BY DEF Exchange
<1> HIDE DEF asked
<1>3. asked \notin rows
  BY <1>1
<1>4. \A ops : StudentTurns(new, ops) =
        IF c.op \in ops THEN StudentTurns(rows, ops) \cup {asked} ELSE StudentTurns(rows, ops)
  <2> HIDE DEF answer
  <2> QED
    BY <1>1, <1>2 DEF StudentTurns
<1> QED
  BY <1>1, <1>2, <1>3, <1>4

\* An exchange adds no recommendation, and nothing before its own number.
LEMMA ExchangeMarks ==
  ASSUME NEW rows, NEW n, NEW c, NEW ready, NEW new, Extension(rows, n, c, ready, new)
  PROVE  /\ Marks(new) = Marks(rows)
         /\ \A m \in Nat : m < n => Earlier(new, m) = Earlier(rows, m)
<1> DEFINE asked == StudentTurn(n, c, ready)
           answer == ReviewerTurn(n + 1, c.op)
<1> USE DEF Extension
<1>1. /\ asked.seq = n /\ asked.op = c.op /\ answer.seq = n + 1 /\ answer.op = c.op
      /\ c.op # "commit"
  BY DEF StudentTurn, ReviewerTurn, KeyedOps, TurnOps
<1>2. new = rows \cup {asked, answer}
  BY DEF Exchange
<1>3. \A t \in rows : t.seq \in Nat
  BY DEF Turn
<1> HIDE DEF asked, answer
<1>4. Marks(new) = Marks(rows)
  BY <1>1, <1>2 DEF Marks
<1>5. \A m \in Nat : m < n => Earlier(new, m) = Earlier(rows, m)
  BY <1>1, <1>2, <1>3 DEF Earlier
<1> QED
  BY <1>4, <1>5

\* The latest recommendation is one of them.
LEMMA LatestMark ==
  ASSUME NEW rows, HasLatestMark(rows), Marks(rows) # {}
  PROVE  Latest(Marks(rows)) \in Marks(rows)
BY DEF HasLatestMark, Latest

\* What a recommendation rests on: the rows before its mark.
LEMMA RecommendationIn ==
  ASSUME NEW rows
  PROVE  BeforeRecommendation(rows) =
           IF Marks(rows) = {} THEN {} ELSE Earlier(rows, Latest(Marks(rows)).seq)
BY DEF BeforeRecommendation, Marks, Earlier

\* An exchange does not touch what was recommended.
LEMMA ExchangeKeepsRecommendation ==
  ASSUME NEW rows, NEW n, NEW c, NEW ready, NEW new, Extension(rows, n, c, ready, new),
         HasLatestMark(rows)
  PROVE  BeforeRecommendation(new) = BeforeRecommendation(rows) /\ HasLatestMark(new)
<1>1. /\ Marks(new) = Marks(rows)
      /\ \A m \in Nat : m < n => Earlier(new, m) = Earlier(rows, m)
  BY ExchangeMarks
<1>2. HasLatestMark(new)
  BY <1>1 DEF HasLatestMark
<1>3. CASE Marks(rows) = {}
  BY <1>1, <1>2, <1>3, RecommendationIn
<1>4. CASE Marks(rows) # {}
  <2> DEFINE m == Latest(Marks(rows)).seq
  <2>1. m < n /\ m \in Nat
    <3>1. Latest(Marks(rows)) \in rows
      BY <1>4, LatestMark DEF Marks
    <3> QED
      BY <3>1 DEF Extension, Turn
  <2>2. /\ BeforeRecommendation(rows) = Earlier(rows, m)
        /\ BeforeRecommendation(new) = Earlier(new, m)
    BY <1>1, <1>4, RecommendationIn
  <2> HIDE DEF m
  <2> QED
    BY <1>1, <1>2, <2>1, <2>2
<1> QED
  BY <1>3, <1>4

\* Nor whether each recommendation revises the one before it.
LEMMA ExchangeKeepsRevised ==
  ASSUME NEW rows, NEW n, NEW c, NEW ready, NEW new, Extension(rows, n, c, ready, new),
         Revised(rows)
  PROVE  Revised(new)
<1>1. Marks(new) = Marks(rows)
  BY ExchangeMarks
<1>2. StudentTurns(rows, {"respond"}) \subseteq StudentTurns(new, {"respond"})
  BY ExchangeRows
<1> QED
  BY <1>1, <1>2 DEF Revised, Marks

\* A position that is not the recommended one was stated after it.
LEMMA NewPositionIsLater ==
  ASSUME NEW rows \in SUBSET Turn, HasLatestMark(rows), Marks(rows) # {},
         Numbered(rows), PositionIn(rows) # PositionIn(BeforeRecommendation(rows))
  PROVE  \E t \in StudentTurns(rows, {"respond"}) : Latest(Marks(rows)).seq < t.seq
<1> DEFINE m == Latest(Marks(rows))
<1>1. m \in rows /\ m.op = "commit"
  BY LatestMark DEF Marks
<1>2. BeforeRecommendation(rows) = Earlier(rows, m.seq)
  BY RecommendationIn
<1> HIDE DEF m
<1>3. ASSUME \A t \in StudentTurns(rows, {"respond"}) : ~(m.seq < t.seq)
      PROVE  FALSE
  <2>1. \A t \in StudentTurns(rows, {"respond"}) : t \in rows /\ t.seq # m.seq
    BY <1>1 DEF StudentTurns, Numbered
  <2>2. \A t \in rows : t.seq \in Nat
    BY DEF Turn
  <2>3. \A t \in StudentTurns(rows, {"respond"}) : t.seq < m.seq
    BY <1>1, <1>3, <2>1, <2>2
  <2>4. StudentTurns(Earlier(rows, m.seq), {"respond"}) = StudentTurns(rows, {"respond"})
    BY <2>3 DEF StudentTurns, Earlier
  <2> QED
    BY <1>2, <2>4 DEF PositionIn
<1> QED
  BY <1>3 DEF m

\* An exchange adds one to the count of its operation.
LEMMA ExchangeCounts ==
  ASSUME NEW rows, NEW n, NEW c, NEW ready, NEW new, Extension(rows, n, c, ready, new),
         IsFiniteSet(rows)
  PROVE  /\ IsFiniteSet(new)
         /\ \A op : /\ Count(rows, op) \in Nat
                    /\ Count(new, op) = IF c.op = op THEN Count(rows, op) + 1 ELSE Count(rows, op)
<1>1. PICK asked :
        /\ asked \notin rows
        /\ new = (rows \cup {asked}) \cup {ReviewerTurn(n + 1, c.op)}
        /\ \A ops : StudentTurns(new, ops) =
             IF c.op \in ops THEN StudentTurns(rows, ops) \cup {asked} ELSE StudentTurns(rows, ops)
  BY ExchangeRows
<1>2. IsFiniteSet(new)
  <2>1. IsFiniteSet(rows \cup {asked})
    BY FS_AddElement
  <2> QED
    BY <1>1, <2>1, FS_AddElement
<1>3. ASSUME NEW op
      PROVE  /\ Count(rows, op) \in Nat
             /\ Count(new, op) = IF c.op = op THEN Count(rows, op) + 1 ELSE Count(rows, op)
  <2> DEFINE old == StudentTurns(rows, {op})
  <2>1. StudentTurns(new, {op}) = IF c.op = op THEN old \cup {asked} ELSE old
    BY <1>1
  <2>2. old \subseteq rows
    BY DEF StudentTurns
  <2> HIDE DEF old
  <2>3. IsFiniteSet(old) /\ asked \notin old
    BY <1>1, <2>2, FS_Subset
  <2>4. Cardinality(old) \in Nat /\ Cardinality(old \cup {asked}) = Cardinality(old) + 1
    BY <2>3, FS_AddElement, FS_CardinalityType
  <2> QED
    BY <2>1, <2>4 DEF Count, old
<1> QED
  BY <1>2, <1>3

\* The position and its evaluation after an exchange: a response says it anew,
\* and every turn is evaluated.
LEMMA ExchangeSays ==
  ASSUME NEW rows, NEW n, NEW c, NEW ready, NEW new, Extension(rows, n, c, ready, new)
  PROVE  /\ PositionIn(new) = IF c.op = "respond" THEN c.said ELSE PositionIn(rows)
         /\ c.op \in TurnOps => ReadyIn(new) = ready
         /\ c.op \notin TurnOps => ReadyIn(new) = ReadyIn(rows)
<1>1. PICK asked :
        /\ asked.seq = n /\ asked.said = c.said /\ asked.ready = ready
        /\ \A ops : StudentTurns(new, ops) =
             IF c.op \in ops THEN StudentTurns(rows, ops) \cup {asked} ELSE StudentTurns(rows, ops)
  BY ExchangeRows
<1>2. ASSUME NEW ops, c.op \in ops
      PROVE  StudentTurns(new, ops) # {} /\ Latest(StudentTurns(new, ops)) = asked
  <2>1. \A u \in StudentTurns(rows, ops) : u.seq \in Nat /\ u.seq < asked.seq
    BY <1>1 DEF StudentTurns, Turn, Extension
  <2>2. asked.seq \in Nat
    BY <1>1 DEF Extension
  <2>3. StudentTurns(new, ops) = StudentTurns(rows, ops) \cup {asked}
    BY <1>1, <1>2
  <2> QED
    BY <2>1, <2>2, <2>3, LatestIsNew
<1>3. PositionIn(new) = IF c.op = "respond" THEN c.said ELSE PositionIn(rows)
  <2>1. CASE c.op = "respond"
    BY <1>1, <1>2, <2>1 DEF PositionIn
  <2>2. CASE c.op # "respond"
    BY <1>1, <2>2 DEF PositionIn
  <2> QED
    BY <2>1, <2>2
<1>4. ASSUME c.op \in TurnOps PROVE ReadyIn(new) = ready
  <2>1. ready \in BOOLEAN
    BY DEF Extension
  <2> QED
    BY <1>1, <1>2, <1>4, <2>1 DEF ReadyIn
<1>5. ASSUME c.op \notin TurnOps PROVE ReadyIn(new) = ReadyIn(rows)
  BY <1>1, <1>5 DEF ReadyIn
<1> QED
  BY <1>3, <1>4, <1>5

-----------------------------------------------------------------------------
(***************************************************************************)
(* The transactions, as changes of one transcript and its document.        *)
(***************************************************************************)

\* The fields of the documents that the handlers write.
LEMMA WrittenFields ==
  ASSUME NEW b \in ChallengeState, NEW c, NEW ready
  PROVE  /\ LET d == AfterRespond(b, c, ready)
            IN /\ d.clarifications = b.clarifications /\ d.disputes = b.disputes /\ d.level = b.level
               /\ d.position = c.said /\ d.ready = ready /\ d.committed = b.committed
         /\ LET d == AfterClarify(b, ready)
            IN /\ d.clarifications = b.clarifications + 1 /\ d.disputes = b.disputes
               /\ d.level = b.level
               /\ d.position = b.position /\ d.ready = ready /\ d.committed = b.committed
         /\ LET d == AfterCoach(b, ready)
            IN /\ d.clarifications = b.clarifications /\ d.disputes = b.disputes
               /\ d.level = CoachingLevel(b.level)
               /\ d.position = b.position /\ d.ready = ready /\ d.committed = b.committed
         /\ LET d == AfterDispute(b)
            IN /\ d.clarifications = b.clarifications /\ d.disputes = b.disputes + 1
               /\ d.level = b.level
               /\ d.position = b.position /\ d.ready = b.ready /\ d.committed = b.committed
         /\ LET d == AfterCommit(b)
            IN /\ d.clarifications = b.clarifications /\ d.disputes = b.disputes
               /\ d.level = b.level
               /\ d.position = b.position /\ d.ready = b.ready /\ d.committed = b.position
<1> USE DEF ChallengeState
<1>1. LET d == AfterRespond(b, c, ready)
      IN /\ d.clarifications = b.clarifications /\ d.disputes = b.disputes /\ d.level = b.level
         /\ d.position = c.said /\ d.ready = ready /\ d.committed = b.committed
  BY DEF AfterRespond
<1>2. LET d == AfterClarify(b, ready)
      IN /\ d.clarifications = b.clarifications + 1 /\ d.disputes = b.disputes /\ d.level = b.level
         /\ d.position = b.position /\ d.ready = ready /\ d.committed = b.committed
  BY DEF AfterClarify
<1>3. LET d == AfterCoach(b, ready)
      IN /\ d.clarifications = b.clarifications /\ d.disputes = b.disputes
         /\ d.level = CoachingLevel(b.level)
         /\ d.position = b.position /\ d.ready = ready /\ d.committed = b.committed
  BY DEF AfterCoach
<1>4. LET d == AfterDispute(b)
      IN /\ d.clarifications = b.clarifications /\ d.disputes = b.disputes + 1 /\ d.level = b.level
         /\ d.position = b.position /\ d.ready = b.ready /\ d.committed = b.committed
  BY DEF AfterDispute
<1>5. LET d == AfterCommit(b)
      IN /\ d.clarifications = b.clarifications /\ d.disputes = b.disputes /\ d.level = b.level
         /\ d.position = b.position /\ d.ready = b.ready /\ d.committed = b.position
  BY DEF AfterCommit
<1> QED
  BY <1>1, <1>2, <1>3, <1>4, <1>5

\* An exchange keeps the replay if its document adds what the exchange adds.
LEMMA ExchangeReplays ==
  ASSUME NEW rows, NEW b, Replay(rows, b),
         NEW n, NEW c, NEW ready, NEW new, Extension(rows, n, c, ready, new),
         NEW d, d.committed = b.committed,
         d.clarifications = IF c.op = "clarify" THEN b.clarifications + 1 ELSE b.clarifications,
         d.disputes = IF c.op = "evidence_dispute" THEN b.disputes + 1 ELSE b.disputes,
         d.level = IF c.op = "coach" THEN CoachingLevel(b.level) ELSE b.level,
         d.position = IF c.op = "respond" THEN c.said ELSE b.position,
         d.ready = IF c.op \in TurnOps THEN ready ELSE b.ready
  PROVE  Replay(new, d)
<1>1. /\ IsFiniteSet(new)
      /\ \A op : /\ Count(rows, op) \in Nat
                 /\ Count(new, op) = IF c.op = op THEN Count(rows, op) + 1 ELSE Count(rows, op)
  BY ExchangeCounts DEF Replay
<1>2. BeforeRecommendation(new) = BeforeRecommendation(rows) /\ HasLatestMark(new)
  BY ExchangeKeepsRecommendation DEF Replay
<1>3. Said(new, d)
  BY ExchangeSays DEF Replay, Said
<1>4. Counted(new, d)
  <2>1. d.clarifications = Count(new, "clarify") /\ d.disputes = Count(new, "evidence_dispute")
    BY <1>1 DEF Replay, Counted
  <2>2. d.level = Min({Count(new, "coach"), MaxCoachingLevel})
    BY <1>1, LevelIsCapped DEF Replay, Counted
  <2> QED
    BY <2>1, <2>2 DEF Counted
<1>5. Recommended(new, d)
  BY <1>2 DEF Replay, Recommended
<1>6. Revised(new)
  BY ExchangeKeepsRevised DEF Replay
<1> QED
  BY <1>1, <1>2, <1>3, <1>4, <1>5, <1>6 DEF Replay

\* A recommendation keeps the replay: what it records is the position that all
\* turns before it led to, it was ready, and it is not the recommended one.
LEMMA RecommendationReplays ==
  ASSUME NEW rows \in SUBSET Turn, NEW b \in ChallengeState, Replay(rows, b), b.ready,
         b.position # b.committed, Numbered(rows),
         NEW n \in Nat, \A t \in rows : t.seq < n,
         NEW new, new = rows \cup {ReviewerTurn(n, "commit")}
  PROVE  Replay(new, AfterCommit(b))
<1> DEFINE mark == ReviewerTurn(n, "commit")
<1>1. mark.seq = n /\ mark.op = "commit" /\ mark.actor = "reviewer"
  BY DEF ReviewerTurn
<1>2. \A t \in rows : t.seq \in Nat
  BY DEF Turn
<1> HIDE DEF mark
<1>3. new = rows \cup {mark}
  BY DEF mark
<1>4. IsFiniteSet(new)
  BY <1>3, FS_AddElement DEF Replay
<1>5. \A ops : StudentTurns(new, ops) = StudentTurns(rows, ops)
  BY <1>1, <1>3 DEF StudentTurns
<1>6. Marks(new) = Marks(rows) \cup {mark}
  BY <1>1, <1>3 DEF Marks
<1>7. \A u \in Marks(rows) : u.seq \in Nat /\ u.seq < n
  BY <1>2 DEF Marks
<1>8. HasLatestMark(new)
  <2>1. mark \in Marks(new)
    BY <1>6
  <2>2. \A u \in Marks(new) : u.seq =< mark.seq
    BY <1>1, <1>6, <1>7
  <2> QED
    BY <2>1, <2>2 DEF HasLatestMark
<1>9. BeforeRecommendation(new) = rows
  <2>1. Latest(Marks(new)) = mark
    BY <1>1, <1>6, <1>7, LatestIsNew
  <2>2. BeforeRecommendation(new) = Earlier(new, n)
    BY <1>1, <1>6, <2>1, RecommendationIn
  <2>3. Earlier(new, n) = rows
    BY <1>1, <1>3 DEF Earlier
  <2> QED
    BY <2>2, <2>3
<1> DEFINE d == AfterCommit(b)
<1>10. /\ d.clarifications = b.clarifications /\ d.disputes = b.disputes /\ d.level = b.level
       /\ d.position = b.position /\ d.ready = b.ready /\ d.committed = b.position
  BY WrittenFields
<1> HIDE DEF d
<1>11. Counted(new, d)
  BY <1>5, <1>10 DEF Replay, Counted, Count
<1>12. Said(new, d)
  BY <1>5, <1>10 DEF Replay, Said, PositionIn, ReadyIn
<1>13. Recommended(new, d)
  BY <1>9, <1>10 DEF Replay, Said, Recommended
<1>14. Revised(new)
  <2>1. ASSUME NEW a \in Marks(new), NEW e \in Marks(new), a.seq < e.seq
        PROVE  \E t \in StudentTurns(rows, {"respond"}) : a.seq < t.seq /\ t.seq < e.seq
    <3>0. e.seq =< n /\ e.seq \in Nat
      BY <1>1, <1>6, <1>7
    <3>1. a \in Marks(rows) /\ a.seq \in Nat /\ a.seq < n
      <4>1. a # mark
        BY <1>1, <2>1, <3>0
      <4> QED
        BY <1>6, <1>7, <4>1
    <3>2. CASE e \in Marks(rows)
      BY <2>1, <3>1, <3>2 DEF Replay, Revised, Marks
    <3>3. CASE e = mark
      <4> DEFINE m == Latest(Marks(rows))
      <4>1. PICK t \in StudentTurns(rows, {"respond"}) : m.seq < t.seq
        BY <3>1, NewPositionIsLater DEF Replay, Said, Recommended
      <4>2. m \in rows /\ a.seq =< m.seq
        BY <3>1 DEF Replay, HasLatestMark, Latest, Marks
      <4>3. t \in rows
        BY <4>1 DEF StudentTurns
      <4> HIDE DEF m
      <4>4. m.seq \in Nat /\ t.seq \in Nat /\ t.seq < n
        BY <1>2, <4>2, <4>3
      <4> QED
        BY <1>1, <3>1, <3>3, <4>1, <4>2, <4>4
    <3> QED
      BY <1>6, <3>2, <3>3
  <2>2. \A a, e \in Marks(new) : a.seq < e.seq =>
          \E t \in StudentTurns(new, {"respond"}) : a.seq < t.seq /\ t.seq < e.seq
    BY ONLY <1>5, <2>1
  <2> QED
    BY <2>2, Zenon DEF Revised, Marks
<1> QED
  BY <1>4, <1>8, <1>11, <1>12, <1>13, <1>14 DEF Replay, d

-----------------------------------------------------------------------------
(***************************************************************************)
(* The invariant.                                                          *)
(***************************************************************************)

\* An opened review has said, asked and recommended nothing.
LEMMA OpeningReplays == Init => ReplayInv
<1> DEFINE opening == ReviewerTurn(1, "start")
<1>1. opening.actor = "reviewer" /\ opening.op = "start"
  BY DEF ReviewerTurn
<1> HIDE DEF opening
<1>2. OpeningTurns = {opening}
  BY DEF OpeningTurns, opening
<1>3. \A ops : StudentTurns(OpeningTurns, ops) = {}
  BY <1>1, <1>2 DEF StudentTurns
<1>4. Marks(OpeningTurns) = {}
  BY <1>1, <1>2 DEF Marks
<1>5. IsFiniteSet(OpeningTurns)
  BY <1>2, FS_Singleton
<1>6. \A op : Count(OpeningTurns, op) = 0
  BY <1>3, FS_EmptySet DEF Count
<1>7. Counted(OpeningTurns, OpeningState)
  <2>1. Min({0, MaxCoachingLevel}) = 0
    BY MinOfTwo, DataAssumption
  <2> QED
    BY <1>6, <2>1 DEF Counted, OpeningState
<1>8. PositionIn({}) = None /\ PositionIn(OpeningTurns) = None /\ ReadyIn(OpeningTurns) = FALSE
  <2>1. StudentTurns({}, {"respond"}) = {}
    BY DEF StudentTurns
  <2> QED
    BY <1>3, <2>1 DEF PositionIn, ReadyIn
<1>9. Said(OpeningTurns, OpeningState)
  BY <1>8 DEF Said, OpeningState
<1>10. BeforeRecommendation(OpeningTurns) = {}
  BY <1>4, RecommendationIn
<1>11. Recommended(OpeningTurns, OpeningState)
  BY <1>8, <1>10 DEF Recommended, OpeningState
<1>12. Replay(OpeningTurns, OpeningState)
  BY <1>4, <1>5, <1>7, <1>9, <1>11 DEF Replay, HasLatestMark, Revised, Marks
<1> QED
  BY <1>12 DEF Init, ReplayInv

\* Every row of the transcript a handler works on precedes the number it gives.
LEMMA RowsPrecede ==
  ASSUME RoomInv, NEW r \in Requests, pc[r] = "working"
  PROVE  /\ turns[call[r].session] \in SUBSET Turn
         /\ \A t \in turns[call[r].session] : t.seq < view[r].next
<1> DEFINE s == call[r].session
<1>1. s \in Sessions /\ view[r].next = state[s].turnCount + 1 /\ view[r].next \in Nat
  BY WorkingFacts
<1>2. turns[s] \in SUBSET Turn /\ state[s].turnCount \in Nat
  BY <1>1 DEF RoomInv, TypeOK, ChallengeState
<1>3. {t.seq : t \in turns[s]} = 1 .. state[s].turnCount
  BY <1>1 DEF RoomInv, TranscriptsSound, TranscriptDense
<1>4. \A t \in turns[s] : t.seq \in 1 .. state[s].turnCount
  BY <1>3
<1> QED
  BY <1>1, <1>2, <1>4

\* A handler that writes an exchange extends the transcript of its session.
LEMMA WritesExtension ==
  ASSUME RoomInv, NEW r \in Requests, pc[r] = "working", call[r].op \in KeyedOps,
         NEW ready \in BOOLEAN, NEW doc,
         Write(r, Exchange(view[r].next, call[r], ready), doc)
  PROVE  /\ Extension(turns[call[r].session], view[r].next, call[r], ready,
                      turns'[call[r].session])
         /\ state'[call[r].session] = doc
<1>1. call[r].session \in Sessions /\ call[r] \in Submission /\ view[r].next \in Nat
  BY WorkingFacts
<1>2. /\ turns'[call[r].session] = turns[call[r].session] \cup Exchange(view[r].next, call[r], ready)
      /\ state'[call[r].session] = doc
  BY <1>1 DEF Write, RoomInv, TypeOK
<1> QED
  BY <1>1, <1>2, RowsPrecede DEF Extension

\* Each transaction keeps the replay of the session it works on.
LEMMA CommitReplays ==
  ASSUME RoomInv, ReplayInv, NEW r \in Requests, CommitStep(r)
  PROVE  Replay(turns'[call[r].session], state'[call[r].session])
<1> DEFINE s == call[r].session
           n == view[r].next
<1>1. pc[r] = "working"
  BY DEF CommitStep, RespondCommit, ClarifyCommit, CoachCommit, DisputeCommit,
         DispositionCommit, PositionCommit, CompleteCommit, Working
<1>2. /\ s \in Sessions /\ view[r].doc = state[s] /\ n \in Nat /\ Permitted(call[r])
      /\ state[s] \in ChallengeState
  BY <1>1, WorkingFacts DEF RoomInv, TypeOK
<1>3. Replay(turns[s], state[s])
  BY <1>2 DEF ReplayInv
<1>4. ASSUME RespondCommit(r) PROVE Replay(turns'[s], state'[s])
  <2>1. call[r].op = "respond" /\ call[r].op \in KeyedOps /\ call[r].op \in TurnOps
    BY <1>4 DEF RespondCommit, Working, KeyedOps, TurnOps
  <2>2. PICK ready \in BOOLEAN :
          Write(r, Exchange(n, call[r], ready), AfterRespond(view[r].doc, call[r], ready))
    BY <1>4 DEF RespondCommit
  <2>3. /\ Extension(turns[s], n, call[r], ready, turns'[s])
        /\ state'[s] = AfterRespond(state[s], call[r], ready)
    BY <1>1, <1>2, <2>1, <2>2, WritesExtension
  <2> QED
    BY <1>2, <1>3, <2>1, <2>3, WrittenFields, ExchangeReplays
<1>5. ASSUME ClarifyCommit(r) PROVE Replay(turns'[s], state'[s])
  <2>1. call[r].op = "clarify" /\ call[r].op \in KeyedOps /\ call[r].op \in TurnOps
    BY <1>5 DEF ClarifyCommit, Working, KeyedOps, TurnOps
  <2>2. PICK ready \in BOOLEAN :
          Write(r, Exchange(n, call[r], ready), AfterClarify(view[r].doc, ready))
    BY <1>5 DEF ClarifyCommit
  <2>3. /\ Extension(turns[s], n, call[r], ready, turns'[s])
        /\ state'[s] = AfterClarify(state[s], ready)
    BY <1>1, <1>2, <2>1, <2>2, WritesExtension
  <2> QED
    BY <1>2, <1>3, <2>1, <2>3, WrittenFields, ExchangeReplays
<1>6. ASSUME CoachCommit(r) PROVE Replay(turns'[s], state'[s])
  <2>1. call[r].op = "coach" /\ call[r].op \in KeyedOps /\ call[r].op \in TurnOps
    BY <1>6 DEF CoachCommit, Working, KeyedOps, TurnOps
  <2>2. PICK ready \in BOOLEAN :
          Write(r, Exchange(n, call[r], ready), AfterCoach(view[r].doc, ready))
    BY <1>6 DEF CoachCommit
  <2>3. /\ Extension(turns[s], n, call[r], ready, turns'[s])
        /\ state'[s] = AfterCoach(state[s], ready)
    BY <1>1, <1>2, <2>1, <2>2, WritesExtension
  <2> QED
    BY <1>2, <1>3, <2>1, <2>3, WrittenFields, ExchangeReplays
<1>7. ASSUME DisputeCommit(r) PROVE Replay(turns'[s], state'[s])
  <2>1. call[r].op = "evidence_dispute" /\ call[r].op \in KeyedOps /\ call[r].op \notin TurnOps
    BY <1>7 DEF DisputeCommit, Working, KeyedOps, TurnOps
  <2>2. PICK ready \in BOOLEAN : Write(r, Exchange(n, call[r], ready), AfterDispute(view[r].doc))
    BY <1>7 DEF DisputeCommit
  <2>3. /\ Extension(turns[s], n, call[r], ready, turns'[s])
        /\ state'[s] = AfterDispute(view[r].doc)
    <3> DEFINE doc == AfterDispute(view[r].doc)
    <3>1. Write(r, Exchange(n, call[r], ready), doc)
      BY <2>2
    <3> HIDE DEF doc
    <3>2. Extension(turns[s], n, call[r], ready, turns'[s]) /\ state'[s] = doc
      BY <1>1, <2>1, <3>1, WritesExtension
    <3> QED
      BY <3>2 DEF doc
  <2> DEFINE b == state[s]
             d == AfterDispute(b)
  <2>4. /\ d.clarifications = b.clarifications /\ d.disputes = b.disputes + 1 /\ d.level = b.level
        /\ d.position = b.position /\ d.ready = b.ready /\ d.committed = b.committed
    BY <1>2, WrittenFields
  <2> HIDE DEF d
  <2>5. Replay(turns'[s], d)
    BY <1>3, <2>1, <2>3, <2>4, ExchangeReplays
  <2> QED
    BY <1>2, <2>3, <2>5 DEF d
<1>8. ASSUME PositionCommit(r) PROVE Replay(turns'[s], state'[s])
  <2>1. /\ state[s].ready /\ state[s].position # state[s].committed
        /\ Write(r, {ReviewerTurn(n, "commit")}, AfterCommit(state[s]))
    BY <1>2, <1>8 DEF PositionCommit, Working, Permitted
  <2>2. /\ turns'[s] = turns[s] \cup {ReviewerTurn(n, "commit")}
        /\ state'[s] = AfterCommit(state[s])
    BY <1>2, <2>1 DEF Write, RoomInv, TypeOK
  <2>3. /\ turns[s] \in SUBSET Turn
        /\ \A t \in turns[s] : t.seq < n
    BY <1>1, RowsPrecede
  <2>4. Numbered(turns[s])
    BY <1>2 DEF RoomInv, TranscriptsSound, TranscriptDense, Numbered
  <2> QED
    BY <1>2, <1>3, <2>1, <2>2, <2>3, <2>4, RecommendationReplays
<1>9. ASSUME DispositionCommit(r) \/ CompleteCommit(r) PROVE Replay(turns'[s], state'[s])
  BY <1>3, <1>9 DEF DispositionCommit, CompleteCommit
<1> QED
  BY <1>4, <1>5, <1>6, <1>7, <1>8, <1>9 DEF CommitStep

LEMMA NextReplays ==
  ASSUME RoomInv, ReplayInv, [Next]_vars
  PROVE  ReplayInv'
<1>1. CASE \E r \in Requests : CommitStep(r)
  <2>1. PICK r \in Requests : CommitStep(r)
    BY <1>1
  <2>2. \A s \in Sessions \ {call[r].session} : turns'[s] = turns[s] /\ state'[s] = state[s]
    BY <2>1, CommitRefines
  <2>3. Replay(turns'[call[r].session], state'[call[r].session])
    BY <2>1, CommitReplays
  <2>4. \A s \in Sessions : Replay(turns'[s], state'[s])
    BY <2>2, <2>3 DEF ReplayInv
  <2> QED
    BY <2>4 DEF ReplayInv
<1>2. CASE \A r \in Requests : ~CommitStep(r)
  BY <1>2, OthersStutter DEF recordVars, ReplayInv
<1> QED
  BY <1>1, <1>2

\* The invariant of the Review Room together with the replay.
THEOREM ReplayInvariant == Spec => [](RoomInv /\ ReplayInv)
<1>1. Init => RoomInv /\ ReplayInv
  BY InitEstablishes, OpeningReplays
<1>2. RoomInv /\ ReplayInv /\ [Next]_vars => RoomInv' /\ ReplayInv'
  BY NextKeeps, NextReplays
<1> QED
  BY <1>1, <1>2, PTL DEF Spec

\* The document of every review is what its transcript says: no contribution
\* of a handler is lost when another one writes the whole document back.
THEOREM DocumentReplays == Spec => []DocumentReplaysTranscript
<1>1. ReplayInv => DocumentReplaysTranscript
  BY DEF ReplayInv, Replay, Counted, Count, Said, Recommended, DocumentReplaysTranscript, Repeats
<1> QED
  BY <1>1, ReplayInvariant, PTL

\* A recommendation on record was ready when it was recorded, and no retry of
\* commit records one again: between any two the student stated a position.
THEOREM RecommendationsEarned == Spec => []RecommendationsAreEarned
<1>1. ReplayInv => RecommendationsAreEarned
  BY DEF ReplayInv, Replay, Recommended, RecommendationWasReady, RecommendationsAreEarned
<1> QED
  BY <1>1, ReplayInvariant, PTL

=============================================================================
