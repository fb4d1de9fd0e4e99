---------------------- MODULE RepositoryOnboardingProofs ----------------------
(***************************************************************************)
(* The onboarding of a team's repository is correct for every set of       *)
(* requests, users and repositories.  The connection is written under the  *)
(* Team row's lock only, so what a request found when it took the row is   *)
(* still true when it commits (LocksFound).                                *)
(***************************************************************************)
EXTENDS RepositoryOnboarding, TLAPS

\* Who holds the Team row has what it looked for when it took it, and only a
\* request that has ended has an answer.
LocksFound ==
  \A r \in Requests :
    /\ req[r].pc # "idle" => req[r].what \in Asked
    /\ req[r].reply # None => req[r].pc = "done"
    /\ req[r].pc = "locked" =>
         /\ Op(r) = "connect" => ~Verified(conn)
         /\ Op(r) = "reset" => User(r) \in Staff
         /\ Op(r) = "verify" => req[r].candidate # None

\* Only GitHub's word makes a candidate wait for its owner.
OwnerNamed ==
  conn # None /\ conn.status = "owner_authorization_required" => conn.owner = Owner[conn.repo]

OnboardingInv ==
  OnboardingTypeOK /\ LocksFound /\ OwnerNamed /\ EvidenceIsVerified /\ AttemptIsForCandidate

-----------------------------------------------------------------------------
(***************************************************************************)
(* What the steps have in common.                                          *)
(***************************************************************************)

\* Request r goes on, or ends, with these fields; the others stay.
Becomes(r, pc, what, candidate, stale, reply) ==
  /\ req' \in [Requests -> Request]
  /\ req'[r].pc = pc /\ req'[r].what = what /\ req'[r].candidate = candidate
  /\ req'[r].stale = stale /\ req'[r].reply = reply
  /\ \A q \in Requests \ {r} : req'[q] = req[q]

\* An answer ends a request and changes nothing else of it.
LEMMA ReplyBecomes ==
  ASSUME OnboardingTypeOK, NEW r \in Requests, NEW answer \in Answers, Reply(r, answer)
  PROVE  Becomes(r, "done", req[r].what, req[r].candidate, req[r].stale, answer)
<1> DEFINE one == [req EXCEPT ![r].pc = "done"]
           two == [one EXCEPT ![r].reply = answer]
<1>1. req' = two
  BY DEF Reply
<1>2. /\ one \in [Requests -> Request] /\ one[r].pc = "done" /\ one[r].what = req[r].what
      /\ one[r].candidate = req[r].candidate /\ one[r].stale = req[r].stale
      /\ \A q \in Requests \ {r} : one[q] = req[q]
  BY DEF OnboardingTypeOK, Request
<1> HIDE DEF one
<1>3. /\ two \in [Requests -> Request] /\ two[r].pc = one[r].pc /\ two[r].what = one[r].what
      /\ two[r].candidate = one[r].candidate /\ two[r].stale = one[r].stale
      /\ two[r].reply = answer
      /\ \A q \in Requests \ {r} : two[q] = one[q]
  BY <1>2 DEF Request, Answers
<1> HIDE DEF two
<1> QED
  BY <1>1, <1>2, <1>3 DEF Becomes

LEMMA ArriveBecomes ==
  ASSUME OnboardingTypeOK, NEW r \in Requests, NEW a \in Asked, Arrive(r, a)
  PROVE  Becomes(r, "waiting", a, req[r].candidate, repo, req[r].reply)
<1> DEFINE one == [req EXCEPT ![r].pc = "waiting"]
           two == [one EXCEPT ![r].what = a]
           three == [two EXCEPT ![r].stale = repo]
<1>1. req' = three
  BY DEF Arrive
<1>2. /\ one \in [Requests -> Request] /\ one[r].pc = "waiting"
      /\ one[r].candidate = req[r].candidate /\ one[r].reply = req[r].reply
      /\ \A q \in Requests \ {r} : one[q] = req[q]
  BY DEF OnboardingTypeOK, Request
<1> HIDE DEF one
<1>3. /\ two \in [Requests -> Request] /\ two[r].pc = one[r].pc /\ two[r].what = a
      /\ two[r].candidate = one[r].candidate /\ two[r].reply = one[r].reply
      /\ \A q \in Requests \ {r} : two[q] = one[q]
  BY <1>2 DEF Request
<1> HIDE DEF two
<1>4. /\ three \in [Requests -> Request] /\ three[r].pc = two[r].pc /\ three[r].what = two[r].what
      /\ three[r].candidate = two[r].candidate /\ three[r].reply = two[r].reply
      /\ three[r].stale = repo
      /\ \A q \in Requests \ {r} : three[q] = two[q]
  BY <1>3 DEF OnboardingTypeOK, Request
<1> HIDE DEF three
<1> QED
  BY <1>1, <1>2, <1>3, <1>4 DEF Becomes

LEMMA CaptureBecomes ==
  ASSUME OnboardingTypeOK, NEW r \in Requests, Capture(r)
  PROVE  Becomes(r, "asking", req[r].what, conn, req[r].stale, req[r].reply)
<1> DEFINE one == [req EXCEPT ![r].pc = "asking"]
           two == [one EXCEPT ![r].candidate = conn]
<1>1. req' = two
  BY DEF Capture
<1>2. /\ one \in [Requests -> Request] /\ one[r].pc = "asking" /\ one[r].what = req[r].what
      /\ one[r].stale = req[r].stale /\ one[r].reply = req[r].reply
      /\ \A q \in Requests \ {r} : one[q] = req[q]
  BY DEF OnboardingTypeOK, Request
<1> HIDE DEF one
<1>3. /\ two \in [Requests -> Request] /\ two[r].pc = one[r].pc /\ two[r].what = one[r].what
      /\ two[r].candidate = conn /\ two[r].stale = one[r].stale /\ two[r].reply = one[r].reply
      /\ \A q \in Requests \ {r} : two[q] = one[q]
  BY <1>2 DEF OnboardingTypeOK, Request
<1> HIDE DEF two
<1> QED
  BY <1>1, <1>2, <1>3 DEF Becomes

\* Taking the row, and GitHub's good answer, change the progress only.
LEMMA ProgressBecomes ==
  ASSUME OnboardingTypeOK, NEW r \in Requests, NEW pc \in {"locked", "waiting"},
         req' = [req EXCEPT ![r].pc = pc]
  PROVE  Becomes(r, pc, req[r].what, req[r].candidate, req[r].stale, req[r].reply)
BY DEF OnboardingTypeOK, Request, Becomes

-----------------------------------------------------------------------------
(***************************************************************************)
(* The invariant.                                                          *)
(***************************************************************************)

\* Somebody reset the team over an older view of it.
StaleReset ==
  \E r \in Requests : req[r].reply = "ok" /\ Op(r) = "reset" /\ req[r].stale = None

LEMMA OnboardingInit == Init => OnboardingInv
<1> SUFFICES ASSUME Init PROVE OnboardingInv
  OBVIOUS
<1>1. OnboardingTypeOK
  <2>1. [pc |-> "idle", what |-> None, candidate |-> None, stale |-> None, reply |-> None] \in Request
    BY DEF Request
  <2> QED
    BY <2>1, OnboardingAssumption DEF Init, OnboardingTypeOK
<1> QED
  BY <1>1 DEF Init, OnboardingInv, LocksFound, OwnerNamed, EvidenceIsVerified,
              AttemptIsForCandidate

\* An answered reset stays an answered reset.
LEMMA ResetStays ==
  ASSUME OnboardingInv, StaleReset, NEW r \in Requests, req[r].pc # "done",
         \A q \in Requests \ {r} : req'[q] = req[q]
  PROVE  StaleReset'
<1>1. PICK q \in Requests : req[q].reply = "ok" /\ Op(q) = "reset" /\ req[q].stale = None
  BY DEF StaleReset
<1>2. req[q].pc = "done"
  <2>1. "ok" # None
    BY OnboardingAssumption DEF Answers
  <2> QED
    BY <1>1, <2>1 DEF OnboardingInv, LocksFound
<1>3. req'[q] = req[q]
  BY <1>2
<1> QED
  BY <1>1, <1>3 DEF StaleReset, Op

\* Steps of a request that does not hold the Team row and does not take it.
LEMMA WaitingKeeps ==
  ASSUME OnboardingInv, UNCHANGED <<team, teamLock, world>>, NEW r \in Requests,
         req[r].pc \notin {"locked", "done"},
         NEW pc, NEW what, NEW candidate, NEW stale, NEW reply,
         Becomes(r, pc, what, candidate, stale, reply),
         pc # "locked", pc # "idle" => what \in Asked, reply # None => pc = "done"
  PROVE  OnboardingInv'
<1>1. /\ UNCHANGED <<repo, project, conn, lastId, teamLock, term, entitled, readable>>
      /\ \A q \in Requests \ {r} : req'[q] = req[q]
      /\ req' \in [Requests -> Request]
      /\ req'[r].pc = pc /\ req'[r].what = what /\ req'[r].reply = reply
  BY DEF team, world, Becomes
<1>2. OnboardingTypeOK'
  BY <1>1 DEF OnboardingInv, OnboardingTypeOK
<1>3. LocksFound'
  BY <1>1 DEF OnboardingInv, LocksFound, Op, User, Verified
<1>4. EvidenceIsVerified'
  <2>1. CASE conn # None
    BY <1>1, <2>1 DEF OnboardingInv, EvidenceIsVerified, Verified
  <2>2. CASE conn = None /\ repo # None
    <3>1. StaleReset
      BY <2>2 DEF OnboardingInv, EvidenceIsVerified, StaleReset
    <3>2. StaleReset'
      BY <1>1, <3>1, ResetStays
    <3> QED
      BY <1>1, <2>2, <3>2 DEF EvidenceIsVerified, StaleReset
  <2>3. CASE conn = None /\ repo = None
    BY <1>1, <2>3 DEF EvidenceIsVerified
  <2> QED
    BY <2>1, <2>2, <2>3
<1>5. OwnerNamed' /\ AttemptIsForCandidate'
  BY <1>1 DEF OnboardingInv, OwnerNamed, AttemptIsForCandidate
<1> QED
  BY <1>2, <1>3, <1>4, <1>5 DEF OnboardingInv

\* Requests arrive, are refused or answered before the lock, and ask GitHub.
WaitingStep(r) ==
  \/ \E a \in Asked : Arrive(r, a)
  \/ Refuse(r) \/ KeepVerified(r) \/ RefuseStarterKit(r) \/ VerifyEarly(r)
  \/ Capture(r) \/ Proven(r) \/ Unproven(r)

LEMMA WaitingStepKeeps ==
  ASSUME OnboardingInv, NEW r \in Requests, WaitingStep(r)
  PROVE  OnboardingInv'
<1>1. /\ UNCHANGED <<team, teamLock, world>> /\ req[r].pc \in {"idle", "waiting", "asking"}
      /\ req[r].reply = None
      /\ req[r].pc # "idle" => req[r].what \in Asked
  BY DEF WaitingStep, Arrive, Refuse, KeepVerified, RefuseStarterKit, VerifyEarly, Capture,
         Proven, Unproven, Free, OnboardingInv, LocksFound
<1>2. ASSUME NEW a \in Asked, Arrive(r, a) PROVE OnboardingInv'
  <2>1. Becomes(r, "waiting", a, req[r].candidate, repo, req[r].reply)
    BY <1>2, ArriveBecomes DEF OnboardingInv
  <2> QED
    BY <1>1, <1>2, <2>1, WaitingKeeps
<1>3. ASSUME req[r].pc # "idle", NEW answer \in Answers, Reply(r, answer) PROVE OnboardingInv'
  <2>1. Becomes(r, "done", req[r].what, req[r].candidate, req[r].stale, answer)
    BY <1>3, ReplyBecomes DEF OnboardingInv
  <2> QED
    BY <1>1, <1>3, <2>1, WaitingKeeps
<1>4. ASSUME Capture(r) PROVE OnboardingInv'
  <2>1. Becomes(r, "asking", req[r].what, conn, req[r].stale, req[r].reply)
    BY <1>4, CaptureBecomes DEF OnboardingInv
  <2>2. req[r].pc # "idle"
    BY <1>4 DEF Capture
  <2> QED
    BY <1>1, <2>1, <2>2, WaitingKeeps
<1>5. ASSUME Proven(r) PROVE OnboardingInv'
  <2>1. Becomes(r, "waiting", req[r].what, req[r].candidate, req[r].stale, req[r].reply)
    BY <1>5, ProgressBecomes DEF Proven, OnboardingInv
  <2>2. req[r].pc # "idle"
    BY <1>5 DEF Proven
  <2> QED
    BY <1>1, <2>1, <2>2, WaitingKeeps
<1>6. ASSUME \/ Refuse(r) \/ KeepVerified(r) \/ RefuseStarterKit(r) \/ VerifyEarly(r) \/ Unproven(r)
      PROVE  req[r].pc # "idle" /\ \E answer \in Answers : Reply(r, answer)
  BY <1>6 DEF Refuse, KeepVerified, RefuseStarterKit, VerifyEarly, Unproven, Free, Answers
<1> QED
  BY <1>2, <1>3, <1>4, <1>5, <1>6 DEF WaitingStep

\* Taking the row: what the request looks for then, it finds.
LEMMA TakeTeamKeeps ==
  ASSUME OnboardingInv, NEW r \in Requests, TakeTeam(r)
  PROVE  OnboardingInv'
<1>1. /\ UNCHANGED <<repo, project, conn, lastId, term, entitled, readable>> /\ teamLock' = r
      /\ req[r].pc = "waiting" /\ teamLock = None
      /\ MayConfigure(r) /\ MayTake(r)
      /\ Op(r) = "verify" => req[r].candidate # None
  BY DEF TakeTeam, Free, team, world
<1>2. Becomes(r, "locked", req[r].what, req[r].candidate, req[r].stale, req[r].reply)
  BY ProgressBecomes DEF OnboardingInv, TakeTeam
<1>3. OnboardingTypeOK'
  <2>1. \A q \in Requests : req'[q].pc = "locked" <=> teamLock' = q
    BY <1>1, <1>2, OnboardingAssumption DEF Becomes, OnboardingInv, OnboardingTypeOK
  <2> QED
    BY <1>1, <1>2, <2>1 DEF Becomes, OnboardingInv, OnboardingTypeOK
<1>4. LocksFound'
  <2>1. \A q \in Requests \ {r} : req'[q] = req[q] /\ req[q].pc # "locked"
    BY <1>1, <1>2, OnboardingAssumption DEF Becomes, OnboardingInv, OnboardingTypeOK
  <2>2. /\ req'[r].pc = "locked" /\ req'[r].what = req[r].what /\ req[r].what \in Asked
        /\ req'[r].candidate = req[r].candidate /\ req'[r].reply = None
    BY <1>1, <1>2 DEF Becomes, OnboardingInv, LocksFound
  <2>3. /\ req[r].what.op = "connect" => ~Verified(conn)
        /\ req[r].what.op = "reset" => req[r].what.user \in Staff
        /\ req[r].what.op = "verify" => req[r].candidate # None
    BY <1>1 DEF MayConfigure, MayTake, Op, User
  <2>4. conn' = conn
    BY <1>1
  <2> QED
    BY <2>1, <2>2, <2>3, <2>4 DEF OnboardingInv, LocksFound, Op, User, Verified
<1>5. EvidenceIsVerified'
  <2>1. CASE conn # None
    BY <1>1, <2>1 DEF OnboardingInv, EvidenceIsVerified, Verified
  <2>2. CASE conn = None /\ repo # None
    <3>1. StaleReset
      BY <2>2 DEF OnboardingInv, EvidenceIsVerified, StaleReset
    <3>2. StaleReset'
      BY <1>1, <1>2, <3>1, ResetStays DEF Becomes
    <3> QED
      BY <1>1, <2>2, <3>2 DEF EvidenceIsVerified, StaleReset
  <2>3. CASE conn = None /\ repo = None
    BY <1>1, <2>3 DEF EvidenceIsVerified
  <2> QED
    BY <2>1, <2>2, <2>3
<1>6. OwnerNamed' /\ AttemptIsForCandidate'
  BY <1>1 DEF OnboardingInv, OwnerNamed, AttemptIsForCandidate
<1> QED
  BY <1>3, <1>4, <1>5, <1>6 DEF OnboardingInv

\* What every request that ends under the lock leaves behind.
LEMMA EndKeeps ==
  ASSUME OnboardingInv, NEW r \in Requests, req[r].pc = "locked", UNCHANGED world,
         NEW answer \in Answers, End(r, answer)
  PROVE  /\ OnboardingTypeOK' <=> /\ repo' \in Repos \cup {None} /\ conn' \in Connection \cup {None}
                        /\ project' \in {"none", "suggested", "confirmed"} /\ lastId' \in Nat
         /\ LocksFound'
         /\ StaleReset => StaleReset'
         /\ req'[r].reply = answer /\ req'[r].what = req[r].what /\ req'[r].stale = req[r].stale
<1>1. /\ teamLock' = None /\ UNCHANGED <<term, entitled, readable>>
      /\ teamLock = r
  BY DEF End, world, OnboardingInv, OnboardingTypeOK
<1>2. Becomes(r, "done", req[r].what, req[r].candidate, req[r].stale, answer)
  BY ReplyBecomes DEF End, OnboardingInv
<1>3. \A q \in Requests : req'[q].pc # "locked"
  BY <1>1, <1>2 DEF Becomes, OnboardingInv, OnboardingTypeOK
<1>4. OnboardingTypeOK' <=> /\ repo' \in Repos \cup {None} /\ conn' \in Connection \cup {None}
                 /\ project' \in {"none", "suggested", "confirmed"} /\ lastId' \in Nat
  BY <1>1, <1>2, <1>3, OnboardingAssumption DEF Becomes, OnboardingInv, OnboardingTypeOK
<1>5. LocksFound'
  BY <1>2, <1>3 DEF Becomes, OnboardingInv, LocksFound
<1>6. StaleReset => StaleReset'
  BY <1>2, ResetStays DEF Becomes
<1> QED
  BY <1>2, <1>4, <1>5, <1>6 DEF Becomes

\* A request that ends without writing the binding.
LEMMA UnwrittenKeeps ==
  ASSUME OnboardingInv, NEW r \in Requests, req[r].pc = "locked", UNCHANGED world,
         NEW answer \in Answers, End(r, answer),
         UNCHANGED <<repo, conn, lastId>>, project' \in {"none", "suggested", "confirmed"}
  PROVE  OnboardingInv'
<1>1. OnboardingTypeOK' /\ LocksFound' /\ (StaleReset => StaleReset')
  BY EndKeeps DEF OnboardingInv, OnboardingTypeOK
<1>2. EvidenceIsVerified'
  BY <1>1 DEF OnboardingInv, EvidenceIsVerified, Verified, StaleReset
<1> QED
  BY <1>1, <1>2 DEF OnboardingInv, OwnerNamed, AttemptIsForCandidate

\* A new candidate: not evidence, no attempt, and its owner as GitHub names it.
LEMMA NominateKeeps ==
  ASSUME OnboardingInv, NEW r \in Requests, Nominate(r)
  PROVE  OnboardingInv'
<1> DEFINE to == req[r].what.repo
<1>1. /\ req[r].pc = "locked" /\ UNCHANGED world /\ End(r, "ok") /\ "ok" \in Answers
      /\ Op(r) = "connect"
  BY DEF Nominate, Holds, Answers
<1>2. to \in Repos
  BY <1>1, OnboardingAssumption DEF OnboardingInv, LocksFound, Op
<1>3. PICK row \in Nominated(to) : WriteRow(row)
  BY DEF Nominate
<1>4. /\ row \in Connection /\ row.attempt = None /\ row.status # "verified"
      /\ row.status = "owner_authorization_required" => row.owner = Owner[row.repo]
  <2>1. NewId \in Nat
    BY DEF NewId, OnboardingInv, OnboardingTypeOK, Connection
  <2> QED
    BY <1>2, <2>1 DEF Nominated, Row, AttemptAfter, Connection, Statuses, Accounts
<1>5. /\ conn' = row /\ repo' = None /\ project' = project /\ lastId' \in Nat
  BY <1>3 DEF Nominate, WriteRow, OnboardingInv, OnboardingTypeOK
<1>6. OnboardingTypeOK' /\ LocksFound'
  BY <1>1, <1>4, <1>5, EndKeeps DEF OnboardingInv, OnboardingTypeOK
<1>7. OwnerNamed' /\ EvidenceIsVerified' /\ AttemptIsForCandidate'
  BY <1>4, <1>5 DEF OwnerNamed, EvidenceIsVerified, AttemptIsForCandidate, Verified
<1> QED
  BY <1>6, <1>7 DEF OnboardingInv

LEMMA StarterKitKeeps ==
  ASSUME OnboardingInv, NEW r \in Requests, BindStarterKit(r)
  PROVE  OnboardingInv'
<1>1. /\ req[r].pc = "locked" /\ UNCHANGED world /\ End(r, "ok") /\ "ok" \in Answers
      /\ Op(r) = "connect" /\ StarterKit = req[r].what.repo
  BY DEF BindStarterKit, Holds, Answers
<1>2. StarterKit \in Repos
  BY <1>1, OnboardingAssumption DEF OnboardingInv, LocksFound, Op
<1> DEFINE row == Row(StarterKit, "verified", None)
<1>3. /\ row \in Connection /\ row.attempt = None /\ row.status = "verified"
      /\ row.repo = StarterKit
  <2>1. NewId \in Nat
    BY DEF NewId, OnboardingInv, OnboardingTypeOK, Connection
  <2> QED
    BY <1>2, <2>1 DEF Row, AttemptAfter, Connection, Statuses, Accounts
<1>4. /\ conn' = row /\ repo' = StarterKit /\ lastId' \in Nat
      /\ project' \in {"none", "suggested", "confirmed"}
  BY DEF BindStarterKit, WriteRow, ProjectAfter, OnboardingInv, OnboardingTypeOK
<1> HIDE DEF row
<1>5. OnboardingTypeOK' /\ LocksFound'
  BY <1>1, <1>2, <1>3, <1>4, EndKeeps
<1>6. OwnerNamed' /\ EvidenceIsVerified' /\ AttemptIsForCandidate'
  BY <1>3, <1>4, OnboardingAssumption
  DEF OwnerNamed, EvidenceIsVerified, AttemptIsForCandidate, Verified
<1> QED
  BY <1>5, <1>6 DEF OnboardingInv

\* An attempt is recorded for the candidate whose owner is named.
LEMMA AttemptKeeps ==
  ASSUME OnboardingInv, NEW r \in Requests, BeginAuthorization(r)
  PROVE  OnboardingInv'
<1>1. req[r].pc = "locked" /\ UNCHANGED world /\ UNCHANGED <<repo, project, lastId>>
  BY DEF BeginAuthorization, Holds
<1>2. CASE ~AwaitsOwner(User(r), conn)
  <2>1. End(r, "conflict") /\ "conflict" \in Answers /\ UNCHANGED conn
    BY <1>2 DEF BeginAuthorization, Answers
  <2> QED
    BY <1>1, <2>1, UnwrittenKeeps DEF OnboardingInv, OnboardingTypeOK
<1>3. CASE AwaitsOwner(User(r), conn)
  <2>1. /\ End(r, "ok") /\ "ok" \in Answers /\ conn' = [conn EXCEPT !.attempt = conn.repo]
        /\ conn \in Connection /\ conn # None /\ conn.status = "owner_authorization_required"
    BY <1>3 DEF BeginAuthorization, AwaitsOwner, Answers, OnboardingInv, OnboardingTypeOK
  <2>2. /\ conn' \in Connection /\ conn'.attempt = conn.repo /\ conn'.status = conn.status
        /\ conn'.repo = conn.repo /\ conn'.owner = conn.owner
    BY <2>1 DEF Connection
  <2>3. OnboardingTypeOK' /\ LocksFound'
    BY <1>1, <2>1, <2>2, EndKeeps DEF OnboardingInv, OnboardingTypeOK
  <2>4. conn' # None
    BY <2>2, OnboardingAssumption
  <2>5. OwnerNamed' /\ EvidenceIsVerified' /\ AttemptIsForCandidate'
    BY <1>1, <2>1, <2>2, <2>4
    DEF OnboardingInv, OwnerNamed, EvidenceIsVerified, AttemptIsForCandidate, Verified
  <2> QED
    BY <2>3, <2>5 DEF OnboardingInv
<1> QED
  BY <1>2, <1>3

\* A reset leaves nothing, or, over an older view of the team, its repository.
LEMMA ResetKeeps ==
  ASSUME OnboardingInv, NEW r \in Requests, Reset(r)
  PROVE  OnboardingInv'
<1>1. /\ req[r].pc = "locked" /\ UNCHANGED world /\ End(r, "ok") /\ "ok" \in Answers
      /\ Op(r) = "reset" /\ conn' = None /\ UNCHANGED <<project, lastId>>
      /\ repo' = IF req[r].stale = None THEN repo ELSE None
  BY DEF Reset, Holds, Answers
<1>2. /\ OnboardingTypeOK' /\ LocksFound' /\ req'[r].reply = "ok" /\ req'[r].what = req[r].what
      /\ req'[r].stale = req[r].stale
  BY <1>1, EndKeeps DEF OnboardingInv, OnboardingTypeOK
<1>3. req[r].stale = None => StaleReset'
  BY <1>1, <1>2 DEF StaleReset, Op
<1>4. EvidenceIsVerified'
  BY <1>1, <1>3 DEF EvidenceIsVerified, StaleReset
<1> QED
  BY <1>1, <1>2, <1>4 DEF OnboardingInv, OwnerNamed, AttemptIsForCandidate

\* The candidate that was proven is verified and becomes the source of evidence.
LEMMA PromoteKeeps ==
  ASSUME OnboardingInv, NEW r \in Requests, Promote(r)
  PROVE  OnboardingInv'
<1>1. req[r].pc = "locked" /\ UNCHANGED world /\ UNCHANGED <<project, lastId>>
  BY DEF Promote, Holds
<1>2. CASE ~SameCandidate(r)
  <2>1. End(r, "conflict") /\ "conflict" \in Answers /\ UNCHANGED <<conn, repo>>
    BY <1>2 DEF Promote, Answers
  <2> QED
    BY <1>1, <2>1, UnwrittenKeeps DEF OnboardingInv, OnboardingTypeOK
<1>3. CASE SameCandidate(r)
  <2>1. /\ End(r, "ok") /\ "ok" \in Answers /\ conn' = [conn EXCEPT !.status = "verified"]
        /\ repo' = conn.repo /\ conn \in Connection
    BY <1>3 DEF Promote, SameCandidate, Answers, OnboardingInv, OnboardingTypeOK
  <2>2. /\ conn' \in Connection /\ conn'.attempt = conn.attempt /\ conn'.status = "verified"
        /\ conn'.repo = conn.repo /\ conn'.owner = conn.owner /\ repo' \in Repos
    BY <2>1 DEF Connection, Statuses
  <2>3. OnboardingTypeOK' /\ LocksFound'
    BY <1>1, <2>1, <2>2, EndKeeps DEF OnboardingInv, OnboardingTypeOK
  <2>4. conn # None /\ conn' # None
    BY <2>1, <2>2, OnboardingAssumption
  <2>5. OwnerNamed' /\ EvidenceIsVerified' /\ AttemptIsForCandidate'
    BY <2>1, <2>2, <2>4
    DEF OnboardingInv, OwnerNamed, EvidenceIsVerified, AttemptIsForCandidate, Verified
  <2> QED
    BY <2>3, <2>5 DEF OnboardingInv
<1> QED
  BY <1>2, <1>3

\* The world may change while requests wait: none of it is in the invariant.
WorldStep ==
  \/ \E to \in Selectable : Authorize(to) \/ Withdraw(to)
  \/ \E u \in Leavers : Leave(u)
  \/ ArchiveTerm

LEMMA WorldKeeps ==
  ASSUME OnboardingInv, WorldStep \/ UNCHANGED vars
  PROVE  OnboardingInv'
<1>1. /\ UNCHANGED <<repo, project, conn, lastId, teamLock, req>>
      /\ term' \in {"active", "archived"} /\ entitled' \subseteq Users /\ readable' \subseteq Repos
  BY OnboardingAssumption
  DEF WorldStep, Authorize, Withdraw, Leave, ArchiveTerm, vars, team, OnboardingInv, OnboardingTypeOK
<1>2. OnboardingTypeOK'
  BY <1>1 DEF OnboardingInv, OnboardingTypeOK
<1>3. LocksFound'
  BY <1>1 DEF OnboardingInv, LocksFound, Op, User, Verified
<1> QED
  BY <1>1, <1>2, <1>3
  DEF OnboardingInv, OwnerNamed, EvidenceIsVerified, AttemptIsForCandidate, Verified, Op

\* The requests that hold the Team row and end.
LockedStep(r) ==
  \/ Nominate(r) \/ BindStarterKit(r) \/ StarterKitUnreadable(r)
  \/ BeginAuthorization(r) \/ ConfirmProject(r) \/ Reset(r) \/ Promote(r)

LEMMA LockedStepKeeps ==
  ASSUME OnboardingInv, NEW r \in Requests, LockedStep(r)
  PROVE  OnboardingInv'
<1>1. ASSUME StarterKitUnreadable(r) PROVE OnboardingInv'
  BY <1>1, UnwrittenKeeps
  DEF StarterKitUnreadable, Holds, Answers, team, OnboardingInv, OnboardingTypeOK
<1>2. ASSUME ConfirmProject(r) PROVE OnboardingInv'
  BY <1>2, UnwrittenKeeps DEF ConfirmProject, Holds, Answers
<1> QED
  BY <1>1, <1>2, NominateKeeps, StarterKitKeeps, AttemptKeeps, ResetKeeps, PromoteKeeps
  DEF LockedStep

\* Every step is one of those above.
LEMMA StepKinds ==
  ASSUME [Next]_vars
  PROVE  \/ \E r \in Requests : WaitingStep(r) \/ TakeTeam(r) \/ LockedStep(r)
         \/ WorldStep \/ UNCHANGED vars
BY DEF Next, RequestStep, WaitingStep, LockedStep, WorldStep

-----------------------------------------------------------------------------
(***************************************************************************)
(* The theorems.                                                           *)
(***************************************************************************)

\* OnboardingInv holds in every reachable state.
THEOREM OnboardingInvariant == Spec => []OnboardingInv
<1>1. Init => OnboardingInv
  BY OnboardingInit
<1>2. OnboardingInv /\ [Next]_vars => OnboardingInv'
  BY StepKinds, WaitingStepKeeps, TakeTeamKeeps, LockedStepKeeps, WorldKeeps
<1> QED
  BY <1>1, <1>2, PTL DEF Spec

\* The team, its connection and every request always have their type, and the
\* Team row is locked exactly by the request that says so.
THEOREM OnboardingTypeCorrect == Spec => []OnboardingTypeOK
<1>1. OnboardingInv => OnboardingTypeOK
  BY DEF OnboardingInv
<1> QED
  BY <1>1, OnboardingInvariant, PTL

\* A candidate is never evidence: a connected team has a repository exactly
\* when the connection is verified, whoever connects, resets and verifies.
THEOREM CandidatesAreNoEvidence == Spec => []EvidenceIsVerified
<1>1. OnboardingInv => EvidenceIsVerified
  BY DEF OnboardingInv
<1> QED
  BY <1>1, OnboardingInvariant, PTL

\* An attempt on record is for the repository that is nominated now.
THEOREM AttemptsAreCurrent == Spec => []AttemptIsForCandidate
<1>1. OnboardingInv => AttemptIsForCandidate
  BY DEF OnboardingInv
<1> QED
  BY <1>1, OnboardingInvariant, PTL

\* A step that changes a verified binding is a reset by staff.
VerifiedStays ==
  Verified(conn) /\ conn' # conn =>
    \E r \in Requests :
      /\ teamLock = r /\ req'[r].reply = "ok"
      /\ Op(r) = "reset" /\ User(r) \in Staff

\* Once verified, the binding changes only when staff resets it.
THEOREM BindingIsKept == Spec => VerifiedUntilReset
<1>1. ASSUME OnboardingInv, [Next]_vars PROVE [VerifiedStays]_vars
  <2> SUFFICES ASSUME Verified(conn), conn' # conn
               PROVE  \E r \in Requests :
                        /\ teamLock = r /\ req'[r].reply = "ok"
                        /\ Op(r) = "reset" /\ User(r) \in Staff
    BY DEF VerifiedStays
  <2>1. PICK r \in Requests : LockedStep(r)
    BY <1>1, StepKinds
    DEF WaitingStep, Arrive, Refuse, KeepVerified, RefuseStarterKit, VerifyEarly, Capture, Proven,
        Unproven, TakeTeam, WorldStep, Authorize, Withdraw, Leave, ArchiveTerm, vars, team
  <2>2. /\ req[r].pc = "locked" /\ teamLock = r /\ Op(r) # "connect"
        /\ Op(r) = "reset" => User(r) \in Staff
    <3>1. req[r].pc = "locked"
      BY <2>1 DEF LockedStep, Nominate, BindStarterKit, StarterKitUnreadable, BeginAuthorization,
                  ConfirmProject, Reset, Promote, Holds
    <3> QED
      BY <1>1, <3>1 DEF OnboardingInv, OnboardingTypeOK, LocksFound
  <2>3. Reset(r)
    <3>1. ~Nominate(r) /\ ~BindStarterKit(r)
      BY <2>2 DEF Nominate, BindStarterKit, Holds
    <3>2. ~BeginAuthorization(r)
      BY DEF BeginAuthorization, AwaitsOwner, Verified
    <3>3. ~Promote(r)
      <4>1. conn \in Connection /\ conn.status = "verified"
        BY <1>1 DEF OnboardingInv, OnboardingTypeOK, Verified
      <4>2. [conn EXCEPT !.status = "verified"] = conn
        BY <4>1 DEF Connection
      <4> QED
        BY <4>2 DEF Promote
    <3> QED
      BY <2>1, <3>1, <3>2, <3>3 DEF LockedStep, StarterKitUnreadable, ConfirmProject, team
  <2>4. Op(r) = "reset" /\ End(r, "ok") /\ UNCHANGED world
    BY <2>3 DEF Reset, Holds
  <2>5. req'[r].reply = "ok"
    BY <1>1, <2>2, <2>4, EndKeeps DEF Answers
  <2> QED
    BY <2>2, <2>4, <2>5
<1> QED
  BY <1>1, OnboardingInvariant, PTL DEF Spec, VerifiedUntilReset, VerifiedStays

\* After the archive only the holder of the Team row writes, once.
ArchivedConfigurationStays ==
  term = "archived" /\ teamLock = None => teamLock' = None /\ UNCHANGED <<repo, conn, project>>

\* Requests that wait for the row when the term ends configure nothing.
THEOREM ArchiveEnds == Spec => ArchiveEndsConfiguration
<1>1. ASSUME OnboardingInv, [Next]_vars PROVE [ArchivedConfigurationStays]_vars
  <2> SUFFICES ASSUME term = "archived", teamLock = None
               PROVE  teamLock' = None /\ UNCHANGED <<repo, conn, project>>
    BY DEF ArchivedConfigurationStays
  <2>1. \A r \in Requests : ~LockedStep(r)
    <3>1. \A r \in Requests : req[r].pc # "locked"
      BY <1>1, OnboardingAssumption DEF OnboardingInv, OnboardingTypeOK
    <3> QED
      BY <3>1 DEF LockedStep, Nominate, BindStarterKit, StarterKitUnreadable, BeginAuthorization,
                  ConfirmProject, Reset, Promote, Holds
  <2>2. \A r \in Requests : ~TakeTeam(r)
    BY DEF TakeTeam, MayConfigure
  <2> QED
    BY <1>1, <2>1, <2>2, StepKinds
    DEF WaitingStep, Arrive, Refuse, KeepVerified, RefuseStarterKit, VerifyEarly, Capture, Proven,
        Unproven, WorldStep, Authorize, Withdraw, Leave, ArchiveTerm, vars, team
<1> QED
  BY <1>1, OnboardingInvariant, PTL DEF Spec, ArchiveEndsConfiguration, ArchivedConfigurationStays

\* A step that gives the team a repository has proved it.
RepositoryIsProven ==
  repo' # repo /\ repo' # None =>
    \E r \in Requests :
      /\ req[r].pc \notin {"idle", "done"} /\ req'[r].reply = "ok"
      /\ \/ Op(r) = "verify" /\ req[r].candidate.repo = repo' /\ req[r].candidate.id = conn.id
         \/ repo' = StarterKit /\ StarterKit \in readable

\* A repository becomes the team's only for the candidate it was proven for.
THEOREM RepositoriesAreProven == Spec => OnlyProvenRepositories
<1>1. ASSUME OnboardingInv, [Next]_vars PROVE [RepositoryIsProven]_vars
  <2> SUFFICES ASSUME repo' # repo, repo' # None
               PROVE  \E r \in Requests :
                        /\ req[r].pc \notin {"idle", "done"} /\ req'[r].reply = "ok"
                        /\ \/ Op(r) = "verify" /\ req[r].candidate.repo = repo'
                              /\ req[r].candidate.id = conn.id
                           \/ repo' = StarterKit /\ StarterKit \in readable
    BY DEF RepositoryIsProven
  <2>1. PICK r \in Requests : LockedStep(r)
    BY <1>1, StepKinds
    DEF WaitingStep, Arrive, Refuse, KeepVerified, RefuseStarterKit, VerifyEarly, Capture, Proven,
        Unproven, TakeTeam, WorldStep, Authorize, Withdraw, Leave, ArchiveTerm, vars, team
  <2>2. BindStarterKit(r) \/ (Promote(r) /\ SameCandidate(r))
    BY <2>1 DEF LockedStep, Nominate, StarterKitUnreadable, BeginAuthorization, ConfirmProject,
                Reset, Promote, team
  <2>3. req[r].pc = "locked" /\ End(r, "ok") /\ UNCHANGED world
    BY <2>2 DEF BindStarterKit, Promote, Holds
  <2>4. req'[r].reply = "ok"
    BY <1>1, <2>3, EndKeeps DEF Answers
  <2>5. CASE BindStarterKit(r)
    BY <2>3, <2>4, <2>5 DEF BindStarterKit
  <2>6. CASE Promote(r) /\ SameCandidate(r)
    <3>1. /\ Op(r) = "verify" /\ repo' = conn.repo
          /\ [conn EXCEPT !.attempt = None] = [req[r].candidate EXCEPT !.attempt = None]
      BY <2>6 DEF Promote, Holds, SameCandidate
    <3>2. conn \in Connection /\ req[r].candidate \in Connection
      <4>1. conn # None /\ req[r].candidate # None
        BY <1>1, <2>3, <2>6, <3>1 DEF SameCandidate, OnboardingInv, LocksFound
      <4> QED
        BY <1>1, <4>1 DEF OnboardingInv, OnboardingTypeOK, Request
    <3>3. conn.repo = req[r].candidate.repo /\ conn.id = req[r].candidate.id
      BY <3>1, <3>2 DEF Connection
    <3> QED
      BY <2>3, <2>4, <3>1, <3>3
  <2> QED
    BY <2>2, <2>5, <2>6
<1> QED
  BY <1>1, OnboardingInvariant, PTL DEF Spec, OnlyProvenRepositories, RepositoryIsProven

-----------------------------------------------------------------------------
(***************************************************************************)
(* A row that was reset never comes back.  verify compares the candidate   *)
(* it captured with the team's, and both may name the same repository      *)
(* although the row was deleted and nominated anew in between: only the id *)
(* tells them apart, and an id is given once.                              *)
(***************************************************************************)

\* Every row that exists, or that a verify has captured, has an id of the past.
IdsPast ==
  /\ conn # None => conn.id =< lastId
  /\ \A r \in Requests : req[r].candidate # None => req[r].candidate.id =< lastId

\* Only capturing changes what a request has captured.
LEMMA CandidatesKept ==
  ASSUME OnboardingInv, NEW r \in Requests, WaitingStep(r) \/ TakeTeam(r) \/ LockedStep(r)
  PROVE  \/ \A q \in Requests : req'[q].candidate = req[q].candidate
         \/ /\ \A q \in Requests \ {r} : req'[q].candidate = req[q].candidate
            /\ req'[r].candidate = conn /\ conn # None /\ UNCHANGED lastId
<1>1. OnboardingTypeOK
  BY DEF OnboardingInv
<1>2. ASSUME NEW answer \in Answers, Reply(r, answer)
      PROVE  \A q \in Requests : req'[q].candidate = req[q].candidate
  BY <1>1, <1>2, ReplyBecomes DEF Becomes
<1>3. ASSUME NEW a \in Asked, Arrive(r, a)
      PROVE  \A q \in Requests : req'[q].candidate = req[q].candidate
  BY <1>1, <1>3, ArriveBecomes DEF Becomes
<1>4. ASSUME Capture(r)
      PROVE  /\ \A q \in Requests \ {r} : req'[q].candidate = req[q].candidate
             /\ req'[r].candidate = conn /\ conn # None /\ UNCHANGED lastId
  BY <1>1, <1>4, CaptureBecomes DEF Becomes, Capture, AwaitsOwner, team
<1>5. ASSUME Proven(r) \/ TakeTeam(r)
      PROVE  \A q \in Requests : req'[q].candidate = req[q].candidate
  BY <1>1, <1>5, ProgressBecomes DEF Becomes, Proven, TakeTeam
<1>6. WaitingStep(r) =>
        \/ \E a \in Asked : Arrive(r, a)
        \/ Capture(r) \/ Proven(r) \/ \E answer \in Answers : Reply(r, answer)
  BY DEF WaitingStep, Refuse, KeepVerified, RefuseStarterKit, VerifyEarly, Unproven, Answers
<1>7. LockedStep(r) => \E answer \in Answers : Reply(r, answer)
  BY DEF LockedStep, Nominate, BindStarterKit, StarterKitUnreadable, BeginAuthorization,
         ConfirmProject, Reset, Promote, End, Answers
<1> QED
  BY <1>2, <1>3, <1>4, <1>5, <1>6, <1>7

\* The team's row keeps its id, or it is deleted, or it gets the next one.
RowFollows ==
  \/ UNCHANGED lastId /\ (conn' = None \/ conn' = conn \/ (conn # None /\ conn'.id = conn.id))
  \/ conn = None /\ lastId' = lastId + 1 /\ conn'.id = lastId + 1

LEMMA RowsFollow ==
  ASSUME OnboardingInv, NEW r \in Requests, WaitingStep(r) \/ TakeTeam(r) \/ LockedStep(r)
  PROVE  RowFollows
<1>1. CASE UNCHANGED <<conn, lastId>>
  BY <1>1 DEF RowFollows
<1>2. ASSUME NEW to, NEW status, NEW owner, WriteRow(Row(to, status, owner))
      PROVE  RowFollows
  <2>1. conn'.id = NewId
    BY <1>2 DEF WriteRow, Row
  <2> QED
    BY <1>2, <2>1 DEF WriteRow, NewId, RowFollows
<1>3. ASSUME Nominate(r) PROVE RowFollows
  BY <1>2, <1>3 DEF Nominate, Nominated
<1>4. ASSUME BindStarterKit(r) PROVE RowFollows
  BY <1>2, <1>4 DEF BindStarterKit
<1>5. ASSUME BeginAuthorization(r) \/ Promote(r) PROVE RowFollows
  <2>1. (conn \in Connection /\ conn # None /\ conn'.id = conn.id) \/ UNCHANGED conn
    BY <1>5 DEF BeginAuthorization, Promote, AwaitsOwner, SameCandidate, OnboardingInv, OnboardingTypeOK,
                Connection
  <2>2. UNCHANGED lastId
    BY <1>5 DEF BeginAuthorization, Promote
  <2> QED
    BY <2>1, <2>2 DEF RowFollows
<1>6. ASSUME Reset(r) PROVE RowFollows
  BY <1>6 DEF Reset, RowFollows
<1>7. ASSUME WaitingStep(r) \/ TakeTeam(r) \/ StarterKitUnreadable(r) \/ ConfirmProject(r)
      PROVE  UNCHANGED <<conn, lastId>>
  BY <1>7 DEF WaitingStep, Arrive, Refuse, KeepVerified, RefuseStarterKit, VerifyEarly, Capture,
              Proven, Unproven, TakeTeam, StarterKitUnreadable, ConfirmProject, team
<1> QED
  BY <1>1, <1>3, <1>4, <1>5, <1>6, <1>7 DEF LockedStep

\* A row that appears is none that a verify has captured.
NewRowIsNew ==
  conn' # None /\ (conn = None \/ conn'.id # conn.id) =>
    \A r \in Requests : req[r].candidate # None => req[r].candidate.id # conn'.id

LEMMA IdsStayPast ==
  ASSUME OnboardingInv, IdsPast, [Next]_vars
  PROVE  IdsPast' /\ NewRowIsNew
<1>1. /\ lastId \in Nat
      /\ conn # None => conn.id \in Nat
      /\ \A q \in Requests : req[q].candidate # None => req[q].candidate.id \in Nat
  BY DEF OnboardingInv, OnboardingTypeOK, Request, Connection
<1>2. CASE \E r \in Requests : WaitingStep(r) \/ TakeTeam(r) \/ LockedStep(r)
  <2>1. PICK r \in Requests : WaitingStep(r) \/ TakeTeam(r) \/ LockedStep(r)
    BY <1>2
  <2>2. RowFollows
    BY <2>1, RowsFollow
  <2>3. lastId =< lastId' /\ lastId' \in Nat /\ (conn' # None => conn'.id =< lastId')
    BY <1>1, <2>2 DEF RowFollows, IdsPast
  <2>4. NewRowIsNew
    BY <1>1, <2>2 DEF RowFollows, IdsPast, NewRowIsNew
  <2>5. \A q \in Requests : req'[q].candidate # None => req'[q].candidate.id =< lastId'
    <3>1. CASE \A q \in Requests : req'[q].candidate = req[q].candidate
      BY <1>1, <2>3, <3>1 DEF IdsPast
    <3>2. CASE /\ \A q \in Requests \ {r} : req'[q].candidate = req[q].candidate
               /\ req'[r].candidate = conn /\ conn # None /\ UNCHANGED lastId
      BY <1>1, <3>2 DEF IdsPast
    <3> QED
      BY <2>1, <3>1, <3>2, CandidatesKept
  <2> QED
    BY <2>3, <2>4, <2>5 DEF IdsPast
<1>3. CASE WorldStep \/ UNCHANGED vars
  <2>1. UNCHANGED <<conn, lastId, req>>
    BY <1>3 DEF WorldStep, Authorize, Withdraw, Leave, ArchiveTerm, vars, team
  <2> QED
    BY <2>1 DEF IdsPast, NewRowIsNew
<1> QED
  BY <1>2, <1>3, StepKinds

\* A verify whose candidate was reset while it asked GitHub never finds it
\* again, though the team may have nominated the same repository in between.
THEOREM ResetCandidatesNeverReturn == Spec => [][NewRowIsNew]_vars
<1>1. Init => IdsPast
  BY DEF Init, IdsPast
<1>2. OnboardingInv /\ IdsPast /\ [Next]_vars => IdsPast' /\ NewRowIsNew
  BY IdsStayPast
<1> QED
  BY <1>1, <1>2, OnboardingInvariant, PTL DEF Spec

=============================================================================
