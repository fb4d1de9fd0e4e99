-------------------------- MODULE StudioAccessProofs --------------------------
(***************************************************************************)
(* Access to the Studio, for every set of users, terms, accounts, sessions *)
(* and handlers: a session that was refused stays refused, a GitHub        *)
(* account belongs to one user, and ownership of archived terms alone      *)
(* never becomes authority over another term again.                        *)
(***************************************************************************)
EXTENDS StudioAccess, TLAPS

Fields == {"pc", "op", "session", "term", "user", "value", "seen", "locked"}

\* What a handler in progress x may be working on, with sessions s.
Known(x, s) ==
  /\ DOMAIN x = Fields
  /\ x.pc \in {"idle", "bound", "issuing", "exchanging", "checked", "revoked"}
  /\ x.locked \subseteq Sessions /\ \A k \in x.locked : s[k].status # "free"
  /\ x.pc \in {"bound", "issuing"} => x.user \in Users
  /\ x.pc \in {"exchanging", "checked", "revoked"} =>
       x.session \in Sessions /\ s[x.session].status # "free"
  /\ x.op = "link" => x.value \in Accounts
  /\ x.pc \in {"bound", "issuing"} => x.op = "signin"
  /\ x.pc = "exchanging" => x.op = "link"
  /\ x.pc = "checked" => x.op = "link" \/ Acceptable(x.op, x.term, x.user, x.value)
  /\ x.pc = "checked" /\ x.op = "status" => AllowedChange(x.seen, x.value)
  /\ x.pc = "revoked" => x.op = "status" /\ x.term \in Terms

Handling == DOMAIN handler = Handlers /\ \A h \in Handlers : Known(handler[h], session)

AccessIInv == AccessInv /\ Handling

-----------------------------------------------------------------------------
(***************************************************************************)
(* Sessions age: a live one ends, a free one is issued, none is freed.     *)
(***************************************************************************)
SessionsAge ==
  /\ session' \in [Sessions -> Session]
  /\ \A k \in Sessions :
       /\ session[k].status # "free" =>
            session'[k].status # "free" /\ session'[k].user = session[k].user
       /\ session'[k].refused => session'[k].status = "ended"
       /\ session'[k].status # "free" => session'[k].user \in Users

LEMMA KnownAges ==
  ASSUME NEW x, Known(x, session), SessionsAge
  PROVE  Known(x, session')
BY DEF Known, SessionsAge

LEMMA IdleKnown == ASSUME NEW s PROVE Known(Idle, s)
BY AccessAssumption DEF Known, Idle, Fields

\* A step of one handler h, seen from the others.
LEMMA HandlingKeeps ==
  ASSUME AccessIInv, SessionsAge, NEW h \in Handlers, NEW x, Known(x, session'),
         handler' = [handler EXCEPT ![h] = x]
  PROVE  Handling'
<1>1. /\ DOMAIN handler' = Handlers /\ handler'[h] = x
      /\ \A g \in Handlers \ {h} : handler'[g] = handler[g]
  BY DEF AccessIInv, Handling
<1>2. \A g \in Handlers \ {h} : Known(handler'[g], session')
  BY <1>1, KnownAges DEF AccessIInv, Handling
<1> QED
  BY <1>1, <1>2 DEF Handling

\* What the invariant is made of.
Tabled ==
  /\ term \in [Terms -> Statuses] /\ section \subseteq Terms
  /\ enrolled \in [Terms -> [Users -> Enrollments]]
  /\ staff \in [Terms -> [Users -> SUBSET Roles]]
  /\ identity \in [Users -> {"none", "student", "staff"}]
  /\ github \in [Users -> Accounts \cup {None}]

LEMMA Assembled ==
  ASSUME AccessIInv, Tabled', SessionsAge, Handling'
  PROVE  AccessIInv'
BY DEF AccessIInv, Tabled, SessionsAge, Handling, AccessInv, TypeOK, SessionInv, Known

LEMMA SessionsStay ==
  ASSUME AccessIInv, UNCHANGED session
  PROVE  SessionsAge
BY DEF AccessIInv, AccessInv, TypeOK, SessionInv, SessionsAge

LEMMA TablesStay ==
  ASSUME AccessIInv, UNCHANGED <<tables, github>>
  PROVE  Tabled'
BY DEF AccessIInv, AccessInv, TypeOK, Tabled, tables

LEMMA InitHolds == Init => AccessIInv
<1> SUFFICES ASSUME Init PROVE AccessIInv
  OBVIOUS
<1>1. TypeOK
  BY DEF Init, TypeOK, Session, Statuses, Enrollments
<1>2. Handling
  <2>1. \A h \in Handlers : handler[h] = Idle
    BY DEF Init
  <2>2. Known(Idle, session)
    BY IdleKnown
  <2>3. DOMAIN handler = Handlers
    BY DEF Init
  <2> QED
    BY <2>1, <2>2, <2>3 DEF Handling
<1>3. SessionInv
  <2>1. \A k \in Sessions : session[k].status = "free" /\ session[k].refused = FALSE
    BY DEF Init
  <2> QED
    BY <1>2, <2>1 DEF SessionInv, Handling, Known
<1> QED
  BY <1>1, <1>2, <1>3 DEF AccessIInv, AccessInv

-----------------------------------------------------------------------------
(***************************************************************************)
(* The steps.                                                              *)
(***************************************************************************)

\* Sessions that end: refused, logged out, expired, or revoked by an archive.
LEMMA EndingAges ==
  ASSUME AccessIInv, session' \in [Sessions -> Session],
         \A k \in Sessions :
           session'[k] = session[k] \/
             /\ session[k].status # "free" /\ session'[k].status = "ended"
             /\ session'[k].user = session[k].user
  PROVE  SessionsAge
BY DEF AccessIInv, AccessInv, SessionInv, SessionsAge

\* One session is written, the others stay.
LEMMA OneSessionWritten ==
  ASSUME session \in [Sessions -> Session], NEW k \in Sessions, NEW x \in Session,
         session' = [session EXCEPT ![k] = x]
  PROVE  /\ session' \in [Sessions -> Session] /\ session'[k] = x
         /\ \A j \in Sessions \ {k} : session'[j] = session[j]
OBVIOUS

LEMMA SessionStepKeeps ==
  ASSUME AccessIInv, NEW k \in Sessions, Refuse(k) \/ Logout(k) \/ Expire(k)
  PROVE  AccessIInv'
<1>1. /\ session' \in [Sessions -> Session]
      /\ session[k].status # "free" /\ session'[k].status = "ended"
      /\ session'[k].user = session[k].user
      /\ \A j \in Sessions \ {k} : session'[j] = session[j]
  <2>1. CASE Refuse(k)
    <3> DEFINE one == [session[k] EXCEPT !.refused = TRUE]
               two == [one EXCEPT !.status = "ended"]
    <3>1. session' = [session EXCEPT ![k] = two] /\ session[k].status # "free"
      BY <2>1 DEF Refuse, Refused
    <3>2. one \in Session /\ one.user = session[k].user
      BY DEF AccessIInv, AccessInv, TypeOK, Session
    <3> HIDE DEF one
    <3>3. two \in Session /\ two.status = "ended" /\ two.user = one.user
      BY <3>2 DEF Session
    <3> HIDE DEF two
    <3>4. session \in [Sessions -> Session]
      BY DEF AccessIInv, AccessInv, TypeOK
    <3>5. /\ session' \in [Sessions -> Session] /\ session'[k] = two
          /\ \A j \in Sessions \ {k} : session'[j] = session[j]
      BY <3>1, <3>3, <3>4, OneSessionWritten
    <3> QED
      BY <3>1, <3>2, <3>3, <3>5
  <2>2. CASE Logout(k) \/ Expire(k)
    <3> DEFINE ended == [session[k] EXCEPT !.status = "ended"]
    <3>1. session' = [session EXCEPT ![k] = ended] /\ session[k].status # "free"
      BY <2>2 DEF Logout, Expire
    <3>2. session \in [Sessions -> Session]
      BY DEF AccessIInv, AccessInv, TypeOK
    <3>3. ended \in Session /\ ended.status = "ended" /\ ended.user = session[k].user
      BY <3>2 DEF Session
    <3> HIDE DEF ended
    <3>4. /\ session' \in [Sessions -> Session] /\ session'[k] = ended
          /\ \A j \in Sessions \ {k} : session'[j] = session[j]
      BY <3>1, <3>2, <3>3, OneSessionWritten
    <3> QED
      BY <3>1, <3>3, <3>4
  <2> QED
    BY <2>1, <2>2
<1>2. SessionsAge
  BY <1>1, EndingAges
<1>3. UNCHANGED <<tables, github, handler>>
  BY DEF Refuse, Logout, Expire
<1>4. Handling'
  BY <1>2, <1>3, KnownAges DEF AccessIInv, Handling
<1> QED
  BY <1>2, <1>3, <1>4, TablesStay, Assembled

\* A step that moves one handler to x, writing tables but no session.
LEMMA HandlerMoves ==
  ASSUME AccessIInv, NEW h \in Handlers, NEW x, Known(x, session),
         handler' = [handler EXCEPT ![h] = x], UNCHANGED session, Tabled'
  PROVE  AccessIInv'
<1>1. SessionsAge
  BY SessionsStay
<1>2. Known(x, session')
  OBVIOUS
<1> QED
  BY <1>1, <1>2, HandlingKeeps, Assembled

\* A handler that ends.
LEMMA HandlerEnds ==
  ASSUME AccessIInv, NEW h \in Handlers, End(h), UNCHANGED session, Tabled'
  PROVE  AccessIInv'
BY IdleKnown, HandlerMoves DEF End

LEMMA HonouredIsIssued ==
  ASSUME AccessIInv, NEW k \in Sessions, Honoured(k)
  PROVE  session[k].status # "free" /\ session[k].user \in Users
BY DEF Honoured, AccessIInv, AccessInv, SessionInv

\* Handlers that only read.
LEMMA ReadingKeeps ==
  ASSUME AccessIInv, NEW h \in Handlers,
         \/ \E u \in Users : SignIn(h, u)
         \/ \E k \in Sessions : \/ \E a \in Accounts : Link(h, k, a)
                               \/ \E q \in Requests : Ask(h, k, q)
         \/ CheckAuthority(h) \/ ReadLinks(h)
  PROVE  AccessIInv'
<1>1. UNCHANGED session /\ Tabled'
  BY TablesStay DEF SignIn, Link, Ask, CheckAuthority, ReadLinks
<1>2. Known(handler[h], session)
  BY DEF AccessIInv, Handling
<1>3. ASSUME NEW u \in Users, SignIn(h, u) PROVE AccessIInv'
  <2> DEFINE x == [Idle EXCEPT !.pc = "bound", !.op = "signin", !.user = u]
  <2>1. Known(x, session)
    BY DEF Known, Idle, Fields
  <2>2. handler' = [handler EXCEPT ![h] = x]
    BY <1>3 DEF SignIn
  <2> QED
    BY <1>1, <2>1, <2>2, HandlerMoves
<1>4. ASSUME NEW k \in Sessions, NEW a \in Accounts, Link(h, k, a) PROVE AccessIInv'
  <2> DEFINE x == [Idle EXCEPT !.pc = "exchanging", !.op = "link", !.session = k, !.value = a]
  <2>1. Known(x, session)
    BY <1>4, HonouredIsIssued DEF Link, Known, Idle, Fields
  <2>2. handler' = [handler EXCEPT ![h] = x]
    BY <1>4 DEF Link
  <2> QED
    BY <1>1, <2>1, <2>2, HandlerMoves
<1>5. ASSUME NEW k \in Sessions, NEW q \in Requests, Ask(h, k, q) PROVE AccessIInv'
  <2> DEFINE x == [Idle EXCEPT !.pc = "checked", !.op = q.op, !.session = k, !.term = q.term,
                               !.user = q.user, !.value = q.value, !.seen = ReadFor(q)]
  <2>1. /\ DOMAIN x = Fields /\ x.pc = "checked" /\ x.op = q.op /\ x.session = k
        /\ x.term = q.term /\ x.user = q.user /\ x.value = q.value /\ x.locked = {}
        /\ x.seen = ReadFor(q)
    BY DEF Idle, Fields
  <2>2. handler' = [handler EXCEPT ![h] = x]
    BY <1>5 DEF Ask
  <2> HIDE DEF x
  <2>3. Acceptable(q.op, q.term, q.user, q.value)
    BY AccessAssumption
  <2>4. q.op # "link"
    BY <2>3 DEF Acceptable, AdminOps
  <2>6. q.op = "status" => AllowedChange(x.seen, x.value)
    BY <1>5, <2>1 DEF Ask, Permitted, ReadFor
  <2>5. Known(x, session)
    BY <1>5, <2>1, <2>3, <2>4, <2>6, HonouredIsIssued DEF Ask, Known
  <2> QED
    BY <1>1, <2>2, <2>5, HandlerMoves
<1>6. ASSUME CheckAuthority(h) PROVE AccessIInv'
  <2> DEFINE x == IF Authorized(handler[h].user) THEN [handler[h] EXCEPT !.pc = "issuing"] ELSE Idle
  <2>1. Known(x, session)
    BY <1>2, <1>6, IdleKnown DEF CheckAuthority, Known, Fields
  <2>2. handler' = [handler EXCEPT ![h] = x]
    BY <1>6 DEF CheckAuthority
  <2> HIDE DEF x
  <2> QED
    BY <1>1, <2>1, <2>2, HandlerMoves
<1>7. ASSUME ReadLinks(h) PROVE AccessIInv'
  <2>1. CASE handler' = [handler EXCEPT ![h] = Idle]
    BY <1>1, <2>1, IdleKnown, HandlerMoves
  <2>2. CASE handler' # [handler EXCEPT ![h] = Idle]
    <3> DEFINE x == [handler[h] EXCEPT !.pc = "checked", !.seen = (github[Actor(h)] # None)]
    <3>1. handler' = [handler EXCEPT ![h] = x]
      BY <1>7, <2>2 DEF ReadLinks
    <3>2. handler[h].pc = "exchanging"
      BY <1>7 DEF ReadLinks
    <3>3. Known(x, session)
      BY <1>2, <3>2 DEF Known, Fields
    <3> HIDE DEF x
    <3> QED
      BY <1>1, <3>1, <3>3, HandlerMoves
  <2> QED
    BY <2>1, <2>2
<1> QED
  BY <1>3, <1>4, <1>5, <1>6, <1>7, ZenonT(60)

\* What a handler that is about to commit an administrative request may write.
LEMMA CommittingIsAcceptable ==
  ASSUME AccessIInv, NEW h \in Handlers, NEW op \in AdminOps, Committing(h, op)
  PROVE  /\ handler[h].session \in Sessions /\ Actor(h) \in Users
         /\ Acceptable(op, handler[h].term, handler[h].user, handler[h].value)
<1>1. Known(handler[h], session) /\ handler[h].pc = "checked" /\ handler[h].op = op /\ op # "link"
  BY DEF AccessIInv, Handling, Committing, AdminOps
<1> QED
  BY <1>1 DEF Known, Actor, AccessIInv, AccessInv, SessionInv

\* The owner's first sign-in.
LEMMA BootstrapKeeps ==
  ASSUME AccessIInv, NEW h \in Handlers, Bootstrap(h)
  PROVE  AccessIInv'
<1> DEFINE x == [Idle EXCEPT !.pc = "bound", !.op = "signin", !.user = Owner]
<1>1. handler' = [handler EXCEPT ![h] = x] /\ UNCHANGED session
  BY DEF Bootstrap
<1>2. Known(x, session)
  BY AccessAssumption DEF Known, Idle, Fields
<1>3. Tabled'
  <2>1. staff' \in [Terms -> [Users -> SUBSET Roles]]
    BY AccessAssumption DEF Bootstrap, AccessIInv, AccessInv, TypeOK, Roles
  <2> QED
    BY <2>1, AccessAssumption DEF Bootstrap, AccessIInv, AccessInv, TypeOK, Tabled, Statuses
<1> QED
  BY <1>1, <1>2, <1>3, HandlerMoves

\* A session is issued to the user the sign-in was bound to.
LEMMA IssueKeeps ==
  ASSUME AccessIInv, NEW h \in Handlers, NEW k \in Sessions, Issue(h, k)
  PROVE  AccessIInv'
<1> DEFINE u == handler[h].user
           one == [session[k] EXCEPT !.user = u]
           two == [one EXCEPT !.status = "live"]
<1>1. /\ session' = [session EXCEPT ![k] = two] /\ session[k].status = "free"
      /\ handler' = [handler EXCEPT ![h] = Idle] /\ UNCHANGED <<tables, github>>
      /\ handler[h].pc = "issuing"
  BY DEF Issue, End
<1>2. u \in Users /\ session[k] \in Session /\ ~session[k].refused
  BY <1>1 DEF AccessIInv, AccessInv, TypeOK, SessionInv, Session
<1>3. one \in Session /\ one.user = u /\ ~one.refused
  BY <1>2 DEF Session
<1> HIDE DEF one
<1>4. two \in Session /\ two.user = u /\ ~two.refused /\ two.status = "live"
  BY <1>3 DEF Session
<1> HIDE DEF two, u
<1>5. SessionsAge
  BY <1>1, <1>2, <1>4 DEF SessionsAge, AccessIInv, AccessInv, TypeOK, SessionInv
<1>6. Known(Idle, session')
  BY IdleKnown
<1> QED
  BY <1>1, <1>5, <1>6, HandlingKeeps, TablesStay, Assembled

LEMMA CommitLinkKeeps ==
  ASSUME AccessIInv, NEW h \in Handlers, CommitLink(h)
  PROVE  AccessIInv'
<1>1. handler[h].value \in Accounts
  BY DEF CommitLink, AccessIInv, AccessInv, SessionInv
<1>2. Tabled'
  BY <1>1 DEF CommitLink, AccessIInv, AccessInv, TypeOK, Tabled, tables
<1> QED
  BY <1>2, HandlerEnds DEF CommitLink

\* Terms, sections and staff.
LEMMA CourseKeeps ==
  ASSUME AccessIInv, NEW h \in Handlers,
         CreateTerm(h) \/ CreateSection(h) \/ DefaultTerm(h) \/ AddStaff(h) \/ SetStatus(h)
  PROVE  AccessIInv'
<1> USE DEF AccessIInv, AccessInv, TypeOK
<1>1. ASSUME CreateTerm(h) PROVE Tabled'
  BY <1>1 DEF CreateTerm, Tabled, Statuses
<1>2. ASSUME CreateSection(h) PROVE Tabled'
  <2>1. handler[h].term \in Terms /\ Actor(h) \in Users
    BY <1>2, CommittingIsAcceptable DEF CreateSection, Acceptable, AdminOps
  <2>2. staff' \in [Terms -> [Users -> SUBSET Roles]]
    BY <1>2, <2>1 DEF CreateSection, Roles
  <2> QED
    BY <1>2, <2>1, <2>2 DEF CreateSection, Tabled
<1>3. ASSUME DefaultTerm(h) PROVE Tabled'
  <2>1. staff' \in [Terms -> [Users -> SUBSET Roles]]
    BY <1>3, ZenonT(60) DEF DefaultTerm, Roles
  <2> QED
    BY <1>3, <2>1, AccessAssumption DEF DefaultTerm, Tabled, Statuses
<1>4. ASSUME AddStaff(h) PROVE Tabled'
  <2>1. handler[h].value \in Roles /\ handler[h].user \in Users /\ handler[h].term \in Terms
    BY <1>4, CommittingIsAcceptable DEF AddStaff, Acceptable, AdminOps
  <2> DEFINE t == handler[h].term
             u == handler[h].user
             more == staff[t][u] \cup {handler[h].value}
  <2>2. t \in Terms /\ u \in Users /\ more \in SUBSET Roles
    BY <2>1
  <2>3. \/ UNCHANGED <<staff, identity>>
        \/ /\ staff' = [staff EXCEPT ![t][u] = more]
           /\ identity' = [identity EXCEPT ![u] = IF @ = "none" THEN "staff" ELSE @]
    BY <1>4 DEF AddStaff
  <2> HIDE DEF more, t, u
  <2>4. staff' \in [Terms -> [Users -> SUBSET Roles]]
    <3> DEFINE row == [staff[t] EXCEPT ![u] = more]
    <3>1. row \in [Users -> SUBSET Roles]
      BY <2>2
    <3>2. staff' = staff \/ staff' = [staff EXCEPT ![t] = row]
      BY <2>3
    <3> HIDE DEF row
    <3> QED
      BY <2>2, <3>1, <3>2
  <2>5. identity' \in [Users -> {"none", "student", "staff"}]
    BY <2>2, <2>3
  <2> QED
    BY <1>4, <2>4, <2>5 DEF AddStaff, Tabled
<1>5. ASSUME SetStatus(h) PROVE Tabled'
  <2>1. handler[h].value \in Statuses
    BY <1>5, CommittingIsAcceptable DEF SetStatus, Acceptable, AdminOps
  <2> QED
    BY <1>5, <2>1 DEF SetStatus, Tabled
<1>6. End(h) /\ UNCHANGED session
  BY DEF CreateTerm, CreateSection, DefaultTerm, AddStaff, SetStatus
<1> QED
  BY <1>1, <1>2, <1>3, <1>4, <1>5, <1>6, HandlerEnds

\* The roster and single students.
LEMMA RosterKeeps ==
  ASSUME AccessIInv, NEW h \in Handlers, ImportRoster(h) \/ StudentStatus(h)
  PROVE  AccessIInv'
<1> USE DEF AccessIInv, AccessInv, TypeOK
<1>1. ASSUME ImportRoster(h) PROVE Tabled'
  <2>1. handler[h].term \in Terms
    BY <1>1, CommittingIsAcceptable DEF ImportRoster, Acceptable, AdminOps
  <2> DEFINE rows == [u \in Users |-> EnrollmentAfter(enrolled[handler[h].term][u],
                       handler[h].seen.rows[u], u \in handler[h].value, handler[h].user # None)]
  <2>2. rows \in [Users -> Enrollments]
    BY <2>1, SMTT(30) DEF EnrollmentAfter, Enrollments
  <2>3. \/ UNCHANGED <<enrolled, identity>>
        \/ /\ enrolled' = [enrolled EXCEPT ![handler[h].term] = rows]
           /\ identity' = [u \in Users |-> IF u \in handler[h].value THEN "student" ELSE identity[u]]
    BY <1>1 DEF ImportRoster
  <2> HIDE DEF rows
  <2>4. enrolled' \in [Terms -> [Users -> Enrollments]] /\ identity' \in [Users -> {"none", "student", "staff"}]
    BY <2>2, <2>3
  <2> QED
    BY <1>1, <2>4, SMTT(30) DEF ImportRoster, Tabled
<1>2. ASSUME StudentStatus(h) PROVE Tabled'
  <2>1. handler[h].value \in Enrollments
    BY <1>2, CommittingIsAcceptable DEF StudentStatus, Acceptable, AdminOps
  <2>2. enrolled' \in [Terms -> [Users -> Enrollments]]
    BY <1>2, <2>1 DEF StudentStatus
  <2> QED
    BY <1>2, <2>2 DEF StudentStatus, Tabled
<1>3. End(h) /\ UNCHANGED session
  BY DEF ImportRoster, StudentStatus
<1> QED
  BY <1>1, <1>2, <1>3, HandlerEnds

\* The archive ends the sessions it has locked.
LEMMA RevokeKeeps ==
  ASSUME AccessIInv, NEW h \in Handlers, RevokeSessions(h)
  PROVE  AccessIInv'
<1> DEFINE rows == {k \in Sessions : session[k].status = "live"
                                    /\ session[k].user \in People(handler[h].term)}
           x == [handler[h] EXCEPT !.pc = "revoked", !.locked = rows]
<1>1. handler' = [handler EXCEPT ![h] = x] /\ UNCHANGED <<tables, session, github>>
  BY DEF RevokeSessions
<1>2. Known(handler[h], session) /\ handler[h].pc = "checked" /\ handler[h].op = "status"
  BY DEF RevokeSessions, Committing, AccessIInv, Handling
<1>3. handler[h].term \in Terms
  BY <1>2 DEF Known, Acceptable
<1>4. rows \subseteq Sessions /\ \A k \in rows : session[k].status # "free"
  OBVIOUS
<1> HIDE DEF rows
<1>5. Known(x, session)
  BY <1>2, <1>3, <1>4 DEF Known, Fields
<1> HIDE DEF x
<1> QED
  BY <1>1, <1>5, HandlerMoves, TablesStay

LEMMA ArchiveKeeps ==
  ASSUME AccessIInv, NEW h \in Handlers, ArchiveTerm(h)
  PROVE  AccessIInv'
<1>1. /\ handler' = [handler EXCEPT ![h] = Idle] /\ Known(Idle, session')
  BY IdleKnown DEF ArchiveTerm, End
<1> DEFINE ended(k) == [session[k] EXCEPT !.status = "ended"]
<1>a. session' = [k \in Sessions |-> IF k \in handler[h].locked THEN ended(k) ELSE session[k]]
  BY DEF ArchiveTerm
<1>b. session \in [Sessions -> Session]
  BY DEF AccessIInv, AccessInv, TypeOK
<1>c. \A k \in Sessions : /\ ended(k) \in Session /\ ended(k).status = "ended"
                          /\ ended(k).user = session[k].user
                          /\ ended(k).refused = session[k].refused
  BY <1>b DEF Session
<1> HIDE DEF ended
<1>2. /\ session' \in [Sessions -> Session]
      /\ \A k \in Sessions : session'[k] # session[k] =>
           session'[k].status = "ended" /\ session'[k].user = session[k].user
           /\ session'[k].refused = session[k].refused
  BY <1>a, <1>b, <1>c
<1>3. \A k \in Sessions : session'[k] # session[k] => session[k].status # "free"
  BY DEF ArchiveTerm, AccessIInv, AccessInv, TypeOK, Handling, Known
<1>5. SessionsAge
  BY <1>2, <1>3, EndingAges
<1>4. Tabled'
  BY DEF ArchiveTerm, AccessIInv, AccessInv, TypeOK, Tabled, Statuses
<1> QED
  BY <1>1, <1>4, <1>5, HandlingKeeps, Assembled

-----------------------------------------------------------------------------
(***************************************************************************)
(* The theorems.                                                           *)
(***************************************************************************)
LEMMA NextKeeps ==
  ASSUME AccessIInv, [Next]_vars
  PROVE  AccessIInv'
<1>1. CASE UNCHANGED vars
  <2>1. UNCHANGED <<tables, github>> /\ session' = session /\ handler' = handler
    BY <1>1 DEF vars, tables
  <2>2. SessionsAge /\ Tabled'
    BY <2>1, SessionsStay, TablesStay
  <2>3. Handling'
    BY <2>1 DEF AccessIInv, Handling
  <2> QED
    BY <2>2, <2>3, Assembled
<1>2. CASE Next
  BY <1>2, SessionStepKeeps, ReadingKeeps, BootstrapKeeps, IssueKeeps, CommitLinkKeeps,
     CourseKeeps, RosterKeeps, RevokeKeeps, ArchiveKeeps DEF Next, Client, HandlerStep
<1> QED
  BY <1>1, <1>2

\* AccessIInv holds in every reachable state.
THEOREM AccessInvariant == Spec => []AccessIInv
<1>1. Init => AccessIInv
  BY InitHolds
<1>2. AccessIInv /\ [Next]_vars => AccessIInv'
  BY NextKeeps
<1> QED
  BY <1>1, <1>2, PTL DEF Spec

\* Types are right, handlers know their sessions, and a session that was
\* refused has ended.
THEOREM AccessCorrect == Spec => []AccessInv
<1>1. AccessIInv => AccessInv
  BY DEF AccessIInv
<1> QED
  BY <1>1, AccessInvariant, PTL

\* No two users hold one GitHub account.
THEOREM AccountsExclusive == Spec => []AccountsAreExclusive
<1>1. Init => AccountsAreExclusive
  BY DEF Init, AccountsAreExclusive
<1>2. AccessIInv /\ AccountsAreExclusive /\ [Next]_vars => AccountsAreExclusive'
  <2> SUFFICES ASSUME AccessIInv, AccountsAreExclusive, [Next]_vars PROVE AccountsAreExclusive'
    OBVIOUS
  <2>1. CASE UNCHANGED github
    BY <2>1 DEF AccountsAreExclusive
  <2>2. CASE \E h \in Handlers : CommitLink(h)
    <3>1. PICK h \in Handlers : CommitLink(h)
      BY <2>2
    <3> QED
      BY <3>1 DEF CommitLink, FitsIndexes, AccountsAreExclusive, AccessIInv, AccessInv, TypeOK
  <2> QED
    BY <2>1, <2>2, ZenonT(60)
    DEF Next, Client, HandlerStep, vars, Refuse, Logout, Expire, Bootstrap, SignIn, Link, Ask,
        CheckAuthority, Issue, ReadLinks, CreateTerm, CreateSection, DefaultTerm, AddStaff,
        ImportRoster, StudentStatus, SetStatus, RevokeSessions, ArchiveTerm
<1> QED
  BY <1>1, <1>2, AccessInvariant, PTL DEF Spec

\* A step of a handler is of one that is at work, and moves only that one.
LEMMA OneHandlerWorks ==
  ASSUME NEW g \in Handlers, HandlerStep(g)
  PROVE  handler[g].pc # "idle" /\ \E x : handler' = [handler EXCEPT ![g] = x]
<1>1. ASSUME CheckAuthority(g) \/ (\E k \in Sessions : Issue(g, k)) \/ ReadLinks(g) \/ CommitLink(g)
      PROVE  handler[g].pc # "idle" /\ \E x : handler' = [handler EXCEPT ![g] = x]
  BY <1>1 DEF CheckAuthority, Issue, ReadLinks, CommitLink, End
<1>2. ASSUME Committing(g, "create") \/ Committing(g, "open") \/ Committing(g, "default")
             \/ Committing(g, "staff") \/ Committing(g, "roster") \/ Committing(g, "student")
             \/ Committing(g, "status") \/ handler[g].pc = "revoked"
      PROVE  handler[g].pc # "idle"
  BY <1>2, SMTT(30) DEF Committing
<1>3. ASSUME CreateTerm(g) \/ CreateSection(g) \/ DefaultTerm(g) \/ AddStaff(g) \/ ImportRoster(g)
             \/ StudentStatus(g) \/ SetStatus(g) \/ ArchiveTerm(g)
      PROVE  handler[g].pc # "idle" /\ handler' = [handler EXCEPT ![g] = Idle]
  BY <1>2, <1>3 DEF CreateTerm, CreateSection, DefaultTerm, AddStaff, ImportRoster, StudentStatus,
                    SetStatus, ArchiveTerm, End
<1>4. ASSUME RevokeSessions(g)
      PROVE  handler[g].pc # "idle" /\ \E x : handler' = [handler EXCEPT ![g] = x]
  BY <1>2, <1>4 DEF RevokeSessions
<1> QED
  BY <1>1, <1>3, <1>4 DEF HandlerStep

LEMMA OneHandlerMoves ==
  ASSUME AccessIInv, NEW g \in Handlers, NEW x, handler' = [handler EXCEPT ![g] = x]
  PROVE  handler'[g] = x /\ \A h \in Handlers \ {g} : handler'[h] = handler[h]
BY DEF AccessIInv, Handling

\* A step that begins to serve a session serves none that was refused.
ServesNoRefused ==
  \A h \in Handlers, k \in Sessions :
    handler[h] = Idle /\ handler'[h].session = k => ~session[k].refused

\* A session that was once refused is never honoured again.
THEOREM RefusalIsFinal == Spec => RefusedForGood
<1>1. ASSUME AccessIInv, [Next]_vars PROVE [ServesNoRefused]_vars
  <2> SUFFICES ASSUME NEW h \in Handlers, NEW k \in Sessions,
                      handler[h] = Idle, handler'[h].session = k
               PROVE  ~session[k].refused
    BY DEF ServesNoRefused
  <2>1. /\ Idle.session # k /\ Idle.pc = "idle" /\ Idle.op = None
    BY AccessAssumption DEF Idle
  <2>2. CASE \E j \in Sessions : (\E a \in Accounts : Link(h, j, a)) \/ (\E q \in Requests : Ask(h, j, q))
    <3>1. PICK j \in Sessions : (\E a \in Accounts : Link(h, j, a)) \/ (\E q \in Requests : Ask(h, j, q))
      BY <2>2
    <3>2. session[j].status = "live"
      BY <3>1 DEF Link, Ask, Honoured
    <3>3. handler'[h].session = j
      <4>1. ASSUME NEW a \in Accounts, Link(h, j, a) PROVE handler'[h].session = j
        <5> DEFINE x == [Idle EXCEPT !.pc = "exchanging", !.op = "link", !.session = j, !.value = a]
        <5>1. x.session = j
          BY DEF Idle
        <5>2. handler' = [handler EXCEPT ![h] = x]
          BY <4>1 DEF Link
        <5> HIDE DEF x
        <5> QED
          BY <1>1, <5>1, <5>2, OneHandlerMoves
      <4>2. ASSUME NEW q \in Requests, Ask(h, j, q) PROVE handler'[h].session = j
        <5> DEFINE x == [Idle EXCEPT !.pc = "checked", !.op = q.op, !.session = j, !.term = q.term,
                                     !.user = q.user, !.value = q.value, !.seen = ReadFor(q)]
        <5>1. x.session = j
          BY DEF Idle
        <5>2. handler' = [handler EXCEPT ![h] = x]
          BY <4>2 DEF Ask
        <5> HIDE DEF x
        <5> QED
          BY <1>1, <5>1, <5>2, OneHandlerMoves
      <4> QED
        BY <3>1, <4>1, <4>2
    <3>4. j = k
      BY <3>3
    <3>5. session[k].refused => session[k].status = "ended"
      BY <1>1 DEF AccessIInv, AccessInv, SessionInv
    <3> QED
      BY <3>2, <3>4, <3>5
  <2>3. CASE ~\E j \in Sessions : (\E a \in Accounts : Link(h, j, a)) \/ (\E q \in Requests : Ask(h, j, q))
    <3>1. handler'[h].session = None
      <4>1. CASE UNCHANGED handler
        BY <2>1, <4>1 DEF Idle
      <4>2. CASE Bootstrap(h) \/ \E u \in Users : SignIn(h, u)
        <5>1. PICK u : handler' = [handler EXCEPT ![h] =
                         [Idle EXCEPT !.pc = "bound", !.op = "signin", !.user = u]]
          BY <4>2 DEF Bootstrap, SignIn
        <5> DEFINE x == [Idle EXCEPT !.pc = "bound", !.op = "signin", !.user = u]
        <5>2. x.session = None
          BY DEF Idle
        <5>3. handler' = [handler EXCEPT ![h] = x]
          BY <5>1
        <5> HIDE DEF x
        <5> QED
          BY <1>1, <5>2, <5>3, OneHandlerMoves
      <4>3. ASSUME NEW g \in Handlers \ {h}, \E x : handler' = [handler EXCEPT ![g] = x]
            PROVE  handler'[h].session = None
        <5>1. handler'[h] = handler[h]
          BY <1>1, <4>3, OneHandlerMoves
        <5> QED
          BY <5>1 DEF Idle
      <4>4. CASE \E g \in Handlers : HandlerStep(g)
        <5>1. PICK g \in Handlers : HandlerStep(g)
          BY <4>4
        <5>2. handler[g].pc # "idle" /\ \E x : handler' = [handler EXCEPT ![g] = x]
          BY <5>1, OneHandlerWorks
        <5>3. handler[h].pc = "idle"
          BY DEF Idle
        <5> QED
          BY <4>3, <5>2, <5>3
      <4>5. CASE \E g \in Handlers \ {h} :
                   \/ Bootstrap(g) \/ \E u \in Users : SignIn(g, u)
                   \/ \E j \in Sessions : (\E a \in Accounts : Link(g, j, a))
                                        \/ (\E q \in Requests : Ask(g, j, q))
        <5>1. PICK g \in Handlers \ {h} :
                   \/ Bootstrap(g) \/ \E u \in Users : SignIn(g, u)
                   \/ \E j \in Sessions : (\E a \in Accounts : Link(g, j, a))
                                        \/ (\E q \in Requests : Ask(g, j, q))
          BY <4>5
        <5>2. \E x : handler' = [handler EXCEPT ![g] = x]
          BY <5>1 DEF Bootstrap, SignIn, Link, Ask
        <5> QED
          BY <4>3, <5>2
      <4>6. CASE \E j \in Sessions : Refuse(j) \/ Logout(j) \/ Expire(j)
        BY <4>1, <4>6 DEF Refuse, Logout, Expire
      <4> QED
        BY <1>1, <2>3, <4>1, <4>2, <4>4, <4>5, <4>6 DEF Next, Client, vars
    <3> QED
      BY <3>1, AccessAssumption
  <2> QED
    BY <2>2, <2>3
<1> QED
  BY <1>1, AccessInvariant, PTL DEF Spec, RefusedForGood, ServesNoRefused

-----------------------------------------------------------------------------
(***************************************************************************)
(* Terms.                                                                  *)
(***************************************************************************)

\* A step writes an earlier status only on a reading that was overtaken.
TermsStep ==
  \A t \in Terms :
    \/ Rank(term'[t]) >= Rank(term[t])
    \/ \E h \in Handlers : Committing(h, "status") /\ handler[h].term = t
                           /\ handler[h].seen # term[t]

\* A term never loses its status except through such a reading.
THEOREM TermsAdvance == Spec => TermsMoveForward
<1>1. ASSUME AccessIInv, [Next]_vars PROVE [TermsStep]_vars
  <2>0. /\ \A t \in Terms : term[t] \in Statuses /\ Rank(term[t]) \in 0 .. 3
        /\ \A t \in Terms : term[t] \in Statuses => Rank(term[t]) >= Rank(term[t])
        /\ DOMAIN term = Terms
    BY <1>1 DEF AccessIInv, AccessInv, TypeOK, Statuses, Rank
  <2>1. ASSUME UNCHANGED term PROVE TermsStep
    BY <2>0, <2>1 DEF TermsStep
  <2>2. ASSUME NEW t \in Terms, NEW s \in Statuses, Rank(s) >= Rank(term[t]),
               term' = [term EXCEPT ![t] = s]
        PROVE  TermsStep
    BY <2>0, <2>2 DEF TermsStep
  <2>3. ASSUME NEW h \in Handlers, Bootstrap(h) \/ DefaultTerm(h) \/ CreateTerm(h)
        PROVE  TermsStep
    <3>1. PICK t \in Terms, s \in {"setup", "active"} :
            term' = [term EXCEPT ![t] = IF @ = "none" THEN s ELSE @]
      <4>1. CASE Bootstrap(h) \/ DefaultTerm(h)
        BY <4>1, AccessAssumption DEF Bootstrap, DefaultTerm
      <4>2. CASE CreateTerm(h)
        BY <1>1, <4>2, CommittingIsAcceptable DEF CreateTerm, AdminOps, Acceptable
      <4> QED
        BY <2>3, <4>1, <4>2
    <3>2. CASE term[t] = "none"
      <4>1. term' = [term EXCEPT ![t] = s]
        BY <3>1, <3>2
      <4>2. s \in Statuses /\ Rank(s) >= Rank(term[t])
        BY <3>2 DEF Rank, Statuses
      <4> QED
        BY <2>2, <4>1, <4>2
    <3>3. CASE term[t] # "none"
      <4>1. term' = term
        BY <1>1, <3>1, <3>3 DEF AccessIInv, AccessInv, TypeOK
      <4> QED
        BY <2>1, <4>1
    <3> QED
      BY <3>2, <3>3
  <2>4. ASSUME NEW h \in Handlers, SetStatus(h) PROVE TermsStep
    <3> DEFINE t == handler[h].term
               s == handler[h].value
    <3>1. t \in Terms /\ s \in {"setup", "active"} /\ term' = [term EXCEPT ![t] = s]
      BY <1>1, <2>4, CommittingIsAcceptable DEF SetStatus, AdminOps, Acceptable, Statuses
    <3>2. AllowedChange(handler[h].seen, s)
      BY <1>1, <2>4 DEF SetStatus, Committing, AccessIInv, Handling, Known
    <3>3. CASE handler[h].seen = term[t]
      <4>1. Rank(s) >= Rank(term[t]) /\ s \in Statuses
        BY <2>0, <3>1, <3>2, <3>3 DEF AllowedChange, Rank, Statuses
      <4> QED
        BY <2>2, <3>1, <4>1
    <3>4. CASE handler[h].seen # term[t]
      <4>1. \A r \in Terms \ {t} : term'[r] = term[r]
        BY <3>1
      <4>2. Committing(h, "status")
        BY <2>4 DEF SetStatus
      <4> QED
        BY <2>0, <3>4, <4>1, <4>2 DEF TermsStep
    <3> QED
      BY <3>3, <3>4
  <2>5. ASSUME NEW h \in Handlers, ArchiveTerm(h) PROVE TermsStep
    <3>1. handler[h].term \in Terms /\ term' = [term EXCEPT ![handler[h].term] = "archived"]
      BY <1>1, <2>5 DEF ArchiveTerm, AccessIInv, Handling, Known
    <3>2. "archived" \in Statuses /\ Rank("archived") = 3
      BY DEF Rank, Statuses
    <3>3. Rank("archived") >= Rank(term[handler[h].term])
      BY <2>0, <3>1, <3>2
    <3> QED
      BY <2>2, <3>1, <3>2, <3>3
  <2>6. CASE UNCHANGED vars
    BY <2>1, <2>6 DEF vars
  <2>7. CASE Next
    <3>1. \/ UNCHANGED term
          \/ \E h \in Handlers : Bootstrap(h) \/ DefaultTerm(h) \/ CreateTerm(h)
                               \/ SetStatus(h) \/ ArchiveTerm(h)
      BY <2>7, ZenonT(60)
      DEF Next, Client, HandlerStep, tables, Refuse, Logout, Expire, SignIn, Link, Ask,
        CheckAuthority, Issue, ReadLinks, CommitLink, CreateSection, AddStaff, ImportRoster,
        StudentStatus, RevokeSessions
    <3> QED
      BY <2>1, <2>3, <2>4, <2>5, <3>1
  <2> QED
    BY <1>1, <2>6, <2>7
<1> QED
  BY <1>1, AccessInvariant, PTL DEF Spec, TermsMoveForward, TermsStep

-----------------------------------------------------------------------------
(***************************************************************************)
(* Ownership.                                                              *)
(***************************************************************************)
Frozen == UNCHANGED <<term, section, ElevatedRoles>>

\* Frozen elevated roles make nobody an owner.
LEMMA FrozenKeepsOwners ==
  ASSUME Orphaned, Frozen, identity'[Owner] # "none", \A g \in Handlers : ~Elevating(g)'
  PROVE  Orphaned'
<1>1. ASSUME NEW t \in Terms, NEW u \in Users, "course_owner" \in staff'[t][u],
             term'[t] \in Mutable
      PROVE  FALSE
  <2>1. staff'[t][u] \cap Elevated = ElevatedRoles'[t][u]
    BY DEF ElevatedRoles
  <2>2. ElevatedRoles'[t][u] = ElevatedRoles[t][u]
    BY DEF Frozen
  <2>3. ElevatedRoles[t][u] = staff[t][u] \cap Elevated
    BY DEF ElevatedRoles
  <2>4. "course_owner" \in staff[t][u]
    BY <1>1, <2>1, <2>2, <2>3 DEF Elevated
  <2> QED
    BY <1>1, <2>4 DEF Orphaned, Frozen
<1> QED
  BY <1>1 DEF Orphaned, Mutable

LEMMA StaffFrozen ==
  ASSUME UNCHANGED <<term, section, staff>>
  PROVE  Frozen
BY DEF Frozen, ElevatedRoles

\* Whether x, in progress, may change terms or elevated roles.
Raising(x) ==
  /\ x.pc \in {"checked", "revoked"}
  /\ \/ x.op \in {"create", "default", "open", "status"}
     \/ x.op = "staff" /\ x.value \in Elevated

LEMMA MovedHandlerRaisesNothing ==
  ASSUME AccessIInv, Orphaned, NEW h \in Handlers, NEW x, ~Raising(x),
         handler' = [handler EXCEPT ![h] = x]
  PROVE  \A g \in Handlers : ~Elevating(g)'
<1>1. handler'[h] = x /\ \A g \in Handlers \ {h} : handler'[g] = handler[g]
  BY DEF AccessIInv, Handling
<1>2. ~Elevating(h)'
  BY <1>1 DEF Elevating, Raising
<1>3. \A g \in Handlers \ {h} : ~Elevating(g)'
  BY <1>1 DEF Orphaned, Elevating
<1> QED
  BY <1>2, <1>3

LEMMA IdleRaisesNothing == ~Raising(Idle)
BY DEF Raising, Idle

\* Without an owner, a step that starts or advances a handler raises nothing.
LEMMA ReadingStaysOrphaned ==
  ASSUME AccessIInv, Orphaned, NEW h \in Handlers,
         \/ \E u \in Users : SignIn(h, u)
         \/ \E k \in Sessions : \/ \E a \in Accounts : Link(h, k, a)
                               \/ \E q \in Requests : Ask(h, k, q)
         \/ CheckAuthority(h) \/ ReadLinks(h)
  PROVE  Frozen /\ Orphaned'
<1>1. Frozen /\ identity' = identity
  BY StaffFrozen DEF SignIn, Link, Ask, CheckAuthority, ReadLinks, tables
<1> SUFFICES \A g \in Handlers : ~Elevating(g)'
  BY <1>1, FrozenKeepsOwners DEF Orphaned
<1>2. ASSUME NEW u \in Users, SignIn(h, u) PROVE \A g \in Handlers : ~Elevating(g)'
  <2> DEFINE x == [Idle EXCEPT !.pc = "bound", !.op = "signin", !.user = u]
  <2>1. ~Raising(x)
    BY DEF Raising, Idle
  <2>2. handler' = [handler EXCEPT ![h] = x]
    BY <1>2 DEF SignIn
  <2> HIDE DEF x
  <2> QED
    BY <2>1, <2>2, MovedHandlerRaisesNothing
<1>3. ASSUME NEW k \in Sessions, NEW a \in Accounts, Link(h, k, a)
      PROVE  \A g \in Handlers : ~Elevating(g)'
  <2> DEFINE x == [Idle EXCEPT !.pc = "exchanging", !.op = "link", !.session = k, !.value = a]
  <2>1. ~Raising(x)
    BY DEF Raising, Idle
  <2>2. handler' = [handler EXCEPT ![h] = x]
    BY <1>3 DEF Link
  <2> HIDE DEF x
  <2> QED
    BY <2>1, <2>2, MovedHandlerRaisesNothing
<1>4. ASSUME NEW k \in Sessions, NEW q \in Requests, Ask(h, k, q)
      PROVE  \A g \in Handlers : ~Elevating(g)'
  <2> DEFINE x == [Idle EXCEPT !.pc = "checked", !.op = q.op, !.session = k, !.term = q.term,
                               !.user = q.user, !.value = q.value, !.seen = ReadFor(q)]
  <2>1. x.op = q.op /\ x.value = q.value
    BY DEF Idle
  <2>2. handler' = [handler EXCEPT ![h] = x]
    BY <1>4 DEF Ask
  <2> HIDE DEF x
  <2>3. session[k].user \in Users
    BY <1>4, HonouredIsIssued DEF Ask
  <2>4. ~IsOwner(session[k].user)
    BY <2>3 DEF IsOwner, Orphaned
  <2>5. ~Raising(x)
    BY <1>4, <2>1, <2>4 DEF Raising, Ask, Permitted
  <2> QED
    BY <2>2, <2>5, MovedHandlerRaisesNothing
<1>5. ASSUME CheckAuthority(h) PROVE \A g \in Handlers : ~Elevating(g)'
  <2> DEFINE x == IF Authorized(handler[h].user) THEN [handler[h] EXCEPT !.pc = "issuing"] ELSE Idle
  <2>1. "pc" \in DOMAIN handler[h]
    BY DEF AccessIInv, Handling, Known, Fields
  <2>2. ~Raising(x)
    BY <2>1, IdleRaisesNothing DEF Raising
  <2>3. handler' = [handler EXCEPT ![h] = x]
    BY <1>5 DEF CheckAuthority
  <2> HIDE DEF x
  <2> QED
    BY <2>2, <2>3, MovedHandlerRaisesNothing
<1>6. ASSUME ReadLinks(h) PROVE \A g \in Handlers : ~Elevating(g)'
  <2> DEFINE x == [handler[h] EXCEPT !.pc = "checked", !.seen = (github[Actor(h)] # None)]
  <2>1. handler' = [handler EXCEPT ![h] = Idle] \/ handler' = [handler EXCEPT ![h] = x]
    BY <1>6 DEF ReadLinks
  <2>2. handler[h].pc = "exchanging" /\ handler[h].op = "link"
    BY <1>6 DEF ReadLinks, AccessIInv, Handling, Known
  <2>3. x.op = "link"
    BY <2>2
  <2> HIDE DEF x
  <2>4. ~Raising(x)
    BY <2>3 DEF Raising
  <2> QED
    BY <2>1, <2>4, IdleRaisesNothing, MovedHandlerRaisesNothing
<1> QED
  BY <1>2, <1>3, <1>4, <1>5, <1>6

\* Without an owner, a step that commits raises nothing.
LEMMA CommitStaysOrphaned ==
  ASSUME AccessIInv, Orphaned, NEW h \in Handlers,
         \/ \E k \in Sessions : Issue(h, k)
         \/ CommitLink(h) \/ AddStaff(h) \/ ImportRoster(h) \/ StudentStatus(h)
  PROVE  Frozen /\ Orphaned'
<1>1. \A g \in Handlers : ~Elevating(g)'
  <2>1. handler' = [handler EXCEPT ![h] = Idle]
    BY ZenonT(60) DEF Issue, CommitLink, AddStaff, ImportRoster, StudentStatus, End
  <2>2. ~Raising(Idle)
    BY IdleRaisesNothing
  <2> QED
    BY <2>1, <2>2, MovedHandlerRaisesNothing, ZenonT(60)
<1>2. ASSUME AddStaff(h) PROVE Frozen /\ identity'[Owner] # "none"
  <2>1. UNCHANGED <<term, section>>
    BY <1>2 DEF AddStaff
  <2>2. CASE UNCHANGED <<staff, identity>>
    BY <2>1, <2>2, StaffFrozen DEF Orphaned
  <2>3. CASE ~UNCHANGED <<staff, identity>>
    <3> DEFINE t == handler[h].term
               u == handler[h].user
               v == handler[h].value
    <3>1. v \notin Elevated
      BY <1>2 DEF AddStaff, Committing, Orphaned, Elevating
    <3>2. /\ staff' = [staff EXCEPT ![t][u] = @ \cup {v}]
          /\ identity' = [identity EXCEPT ![u] = IF @ = "none" THEN "staff" ELSE @]
      BY <1>2, <2>3 DEF AddStaff
    <3>3. ASSUME NEW s \in Terms, NEW w \in Users
          PROVE  staff'[s][w] \cap Elevated = staff[s][w] \cap Elevated
      <4>1. staff'[s][w] = staff[s][w] \/ staff'[s][w] = staff[s][w] \cup {v}
        BY <3>2 DEF AccessIInv, AccessInv, TypeOK
      <4> QED
        BY <3>1, <4>1
    <3>4. UNCHANGED ElevatedRoles
      BY <3>3 DEF ElevatedRoles
    <3>5. identity'[Owner] # "none"
      BY <3>2, AccessAssumption DEF Orphaned, AccessIInv, AccessInv, TypeOK
    <3> QED
      BY <2>1, <3>4, <3>5 DEF Frozen
  <2> QED
    BY <2>2, <2>3
<1>3. ASSUME ImportRoster(h) PROVE Frozen /\ identity'[Owner] # "none"
  <2>1. UNCHANGED <<term, section, staff>>
    BY <1>3 DEF ImportRoster
  <2>2. \/ UNCHANGED identity
        \/ identity' = [u \in Users |-> IF u \in handler[h].value THEN "student" ELSE identity[u]]
    BY <1>3 DEF ImportRoster
  <2>3. identity[Owner] # "none" /\ Owner \in Users
    BY AccessAssumption DEF Orphaned
  <2>4. identity'[Owner] \in {identity[Owner], "student"}
    BY <2>2, <2>3, ZenonT(60)
  <2>5. Frozen
    BY <2>1, ZenonT(60) DEF Frozen, ElevatedRoles
  <2> QED
    BY <2>3, <2>4, <2>5
<1>4. ASSUME (\E k \in Sessions : Issue(h, k)) \/ CommitLink(h) \/ StudentStatus(h)
      PROVE  Frozen /\ identity'[Owner] # "none"
  BY <1>4, StaffFrozen DEF Issue, CommitLink, StudentStatus, tables, Orphaned
<1> QED
  BY <1>1, <1>2, <1>3, <1>4, FrozenKeepsOwners

\* The steps that change terms, sections or elevated roles are over.
LEMMA NothingIsRaised ==
  ASSUME AccessIInv, Orphaned, NEW h \in Handlers
  PROVE  ~(\/ Bootstrap(h) \/ CreateTerm(h) \/ CreateSection(h) \/ DefaultTerm(h)
           \/ SetStatus(h) \/ RevokeSessions(h) \/ ArchiveTerm(h))
<1>1. ~Elevating(h)
  BY DEF Orphaned
<1>2. ~ArchiveTerm(h)
  BY <1>1 DEF ArchiveTerm, Elevating, AccessIInv, Handling, Known
<1> QED
  BY <1>1, <1>2 DEF Bootstrap, CreateTerm, CreateSection, DefaultTerm, SetStatus, RevokeSessions,
     Committing, Elevating, Orphaned

\* Once nobody owns a mutable term, nobody ever does again, and terms,
\* sections and elevated roles no longer change.
OwnershipStep == Orphaned => Orphaned' /\ UNCHANGED <<term, section, ElevatedRoles>>

\* Ownership of archived terms is not authority over another term.
THEOREM OwnershipIsGone == Spec => OwnershipIsNotRegained
<1>1. ASSUME AccessIInv, [Next]_vars PROVE [OwnershipStep]_vars
  <2> SUFFICES ASSUME Orphaned PROVE Frozen /\ Orphaned'
    BY DEF OwnershipStep, Frozen
  <2>1. CASE UNCHANGED <<tables, handler>>
    <3>1. Frozen /\ identity' = identity /\ handler' = handler
      BY <2>1, StaffFrozen DEF tables
    <3>2. \A g \in Handlers : ~Elevating(g)'
      BY <3>1 DEF Orphaned, Elevating
    <3> QED
      BY <3>1, <3>2, FrozenKeepsOwners DEF Orphaned
  <2>2. CASE UNCHANGED vars
    BY <2>1, <2>2 DEF vars, tables
  <2>3. CASE \E k \in Sessions : Refuse(k) \/ Logout(k) \/ Expire(k)
    BY <2>1, <2>3 DEF Refuse, Logout, Expire
  <2>4. CASE \E h \in Handlers :
               \/ Bootstrap(h) \/ \E u \in Users : SignIn(h, u)
               \/ \E k \in Sessions : \/ \E a \in Accounts : Link(h, k, a)
                                     \/ \E q \in Requests : Ask(h, k, q)
    BY <1>1, <2>4, ReadingStaysOrphaned, NothingIsRaised
  <2>5. CASE \E h \in Handlers : HandlerStep(h)
    BY <1>1, <2>5, ReadingStaysOrphaned, CommitStaysOrphaned, NothingIsRaised DEF HandlerStep
  <2> QED
    BY <1>1, <2>2, <2>3, <2>4, <2>5 DEF Next, Client
<1> QED
  BY <1>1, AccessInvariant, PTL DEF Spec, OwnershipIsNotRegained, OwnershipStep

=============================================================================
