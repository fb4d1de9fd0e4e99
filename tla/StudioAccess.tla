---------------------------- MODULE StudioAccess ----------------------------
(***************************************************************************)
(* Who may use the Studio (services/auth, services/semester_lifecycle,     *)
(* routers/auth, routers/admin, services/course_admin): authentication     *)
(* sessions, the lifecycle of terms, the roster and the staff the sessions *)
(* draw their authority from, and the link of a user to a GitHub account.  *)
(*                                                                         *)
(* PostgreSQL runs READ COMMITTED and no handler here locks a row before   *)
(* it reads it.  A handler is therefore at least two steps: parse the      *)
(* session, check and read; write and commit on what was read.             *)
(* A term has one section; users and sections are never deactivated by the *)
(* code and ETIS_ENV is not "development".                                 *)
(***************************************************************************)
EXTENDS FiniteSets, Integers

CONSTANTS
  Users, Terms, Accounts, Sessions, Handlers,
  Owner,     \* etis_bootstrap_owner_email
  Default,   \* the term of etis_course_namespace
  Requests,  \* the administrative requests the clients send
  None

Roles == {"course_owner", "instructor", "ta", "reviewer"}
Elevated == {"course_owner", "instructor"}
Statuses == {"none", "setup", "active", "archived"}
Enrollments == {"none", "active", "dropped"}

AdminOps == {"create", "default", "open", "status", "staff", "roster", "student"}

\* What the request models of the routers accept.
Acceptable(op, t, u, v) ==
  /\ op \in AdminOps /\ t \in Terms
  /\ op = "status" => v \in Statuses \ {"none"}
  /\ op = "staff" => u \in Users /\ v \in Roles
  /\ op = "roster" => v \subseteq Users
  /\ op = "student" => u \in Users /\ v \in Enrollments \ {"none"}

ASSUME AccessAssumption ==
  /\ Owner \in Users /\ Default \in Terms
  /\ None \notin Users \cup Accounts \cup Sessions \cup Terms \cup AdminOps \cup {"link"}
  /\ \A q \in Requests : Acceptable(q.op, q.term, q.user, q.value)

VARIABLES
  term,      \* CourseTerm.status, "none" before the row exists
  section,   \* the terms whose section exists
  enrolled,  \* SectionEnrollment.status
  staff,     \* the active SectionStaff roles of a user in a term
  identity,  \* InstitutionalIdentity: keyed by student id or as "staff:..."
  session,   \* AuthSession
  github,    \* GitHubIdentity.github_user_id
  handler

tables == <<term, section, enrolled, staff, identity>>
vars == <<term, section, enrolled, staff, identity, session, github, handler>>

Mutable == {"setup", "active"}

\* "ended": revoked_at is set or expires_at has passed.  `refused` is history:
\* the session was presented and answered 401.
Session == [user: Users \cup {None}, status: {"free", "live", "ended"},
            refused: BOOLEAN]

\* `seen`: what the check read and the commit relies on; `locked`: the
\* sessions an archive has updated and not yet committed.
Idle == [pc |-> "idle", op |-> None, session |-> None, term |-> None, user |-> None,
         value |-> None, seen |-> None, locked |-> {}]

TypeOK ==
  /\ term \in [Terms -> Statuses] /\ section \subseteq Terms
  /\ enrolled \in [Terms -> [Users -> Enrollments]]
  /\ staff \in [Terms -> [Users -> SUBSET Roles]]
  /\ identity \in [Users -> {"none", "student", "staff"}]
  /\ session \in [Sessions -> Session]
  /\ github \in [Users -> Accounts \cup {None}]

\* Only ended sessions were refused, and requests are made with sessions.
SessionInv ==
  /\ \A k \in Sessions :
       /\ session[k].refused => session[k].status = "ended"
       /\ session[k].status # "free" => session[k].user \in Users
  /\ \A h \in Handlers :
       /\ handler[h].locked \subseteq Sessions
       /\ handler[h].pc \in {"bound", "issuing"} => handler[h].user \in Users
       /\ handler[h].pc \in {"exchanging", "checked", "revoked"} =>
            handler[h].session \in Sessions /\ session[handler[h].session].status # "free"
       /\ handler[h].op = "link" => handler[h].value \in Accounts

\* The type invariant and what the handlers rely on.
AccessInv == TypeOK /\ SessionInv

Init ==
  /\ term = [t \in Terms |-> "none"] /\ section = {}
  /\ enrolled = [t \in Terms |-> [u \in Users |-> "none"]]
  /\ staff = [t \in Terms |-> [u \in Users |-> {}]]
  /\ identity = [u \in Users |-> "none"]
  /\ session = [k \in Sessions |-> [user |-> None, status |-> "free", refused |-> FALSE]]
  /\ github = [u \in Users |-> None]
  /\ handler = [h \in Handlers |-> Idle]

----------------------------------------------------------------------------
(* Authority, always read from the tables (semester_lifecycle).           *)

ActiveStudent(u) == \E t \in Terms : enrolled[t][u] = "active" /\ term[t] = "active"

\* Archived terms leave owners and instructors their read access.
RolesIn(u, t) ==
  CASE term[t] \in Mutable -> staff[t][u]
    [] term[t] = "archived" -> staff[t][u] \cap Elevated
    [] OTHER -> {}

ValidStaff(u) == \E t \in Terms : RolesIn(u, t) # {}
Authorized(u) == ActiveStudent(u) \/ ValidStaff(u)

\* Mutated: an archived Course Owner keeps global authority.
IsOwnerEver(u) == \E t \in Terms : "course_owner" \in RolesIn(u, t)
IsOwner(u) == \E t \in Terms : "course_owner" \in staff[t][u] /\ term[t] \in Mutable

Manages(u, t) == RolesIn(u, t) \cap Elevated # {}
MutableSection(t) == t \in section /\ term[t] \in Mutable

----------------------------------------------------------------------------
(* Sessions.                                                               *)

Locked(k) == \E h \in Handlers : k \in handler[h].locked
Honoured(k) == session[k].status = "live" /\ Authorized(session[k].user)

\* Mutated: a session without authority is refused but not revoked.
RefusedKept(s) == [s EXCEPT !.refused = TRUE]
Refused(s) == [s EXCEPT !.refused = TRUE,
                        !.status = "ended"]

\* parse_session_token answers 401; a live session whose user lost every
\* authority is revoked, which waits for an archive that updates its row.
Refuse(k) ==
  /\ session[k].status # "free" /\ ~Honoured(k)
  /\ session[k].status = "live" => ~Locked(k)
  /\ session' = [session EXCEPT ![k] = Refused(@)]
  /\ UNCHANGED <<tables, github, handler>>

\* revoke_session_token waits for such an archive as well.
Logout(k) ==
  /\ session[k].status = "live" /\ ~Locked(k)
  /\ session' = [session EXCEPT ![k].status = "ended"]
  /\ UNCHANGED <<tables, github, handler>>

\* Twelve hours after the sign-in.
Expire(k) ==
  /\ session[k].status = "live"
  /\ session' = [session EXCEPT ![k].status = "ended"]
  /\ UNCHANGED <<tables, github, handler>>

End(h) == handler' = [handler EXCEPT ![h] = Idle]

Actor(h) == session[handler[h].session].user

----------------------------------------------------------------------------
(* Signing in with Microsoft Entra.                                        *)

\* entra_callback reads the roster without the status of its terms;
\* create_session_token looks again, on a second connection.
SignIn(h, u) ==
  /\ handler[h] = Idle /\ identity[u] # "none"
  /\ \E t \in Terms : enrolled[t][u] = "active" \/ staff[t][u] # {}
  /\ handler' = [handler EXCEPT ![h] = [Idle EXCEPT !.pc = "bound", !.op = "signin", !.user = u]]
  /\ UNCHANGED <<tables, session, github>>

\* The configured owner's first sign-in creates the default term.
Bootstrap(h) ==
  /\ handler[h] = Idle /\ identity[Owner] = "none"
  /\ identity' = [identity EXCEPT ![Owner] = "staff"]
  /\ term' = [term EXCEPT ![Default] = IF @ = "none" THEN "active" ELSE @]
  /\ section' = section \cup {Default}
  /\ staff' = [staff EXCEPT ![Default][Owner] = @ \cup {"course_owner"}]
  /\ handler' = [handler EXCEPT ![h] = [Idle EXCEPT !.pc = "bound", !.op = "signin", !.user = Owner]]
  /\ UNCHANGED <<enrolled, session, github>>

CheckAuthority(h) ==
  /\ handler[h].pc = "bound"
  /\ handler' = [handler EXCEPT ![h] =
                   IF Authorized(handler[h].user) THEN [@ EXCEPT !.pc = "issuing"] ELSE Idle]
  /\ UNCHANGED <<tables, session, github>>

Issue(h, k) ==
  /\ handler[h].pc = "issuing" /\ session[k].status = "free"
  /\ session' = [session EXCEPT ![k] = [@ EXCEPT !.user = handler[h].user, !.status = "live"]]
  /\ End(h)
  /\ UNCHANGED <<tables, github>>

----------------------------------------------------------------------------
(* Linking a GitHub account.                                               *)

\* The callback presents the session that asked for the flow (uid and sid of
\* the signed state) and then waits for GitHub.
Link(h, k, a) ==
  /\ handler[h] = Idle /\ Honoured(k)
  /\ handler' = [handler EXCEPT ![h] = [Idle EXCEPT !.pc = "exchanging", !.op = "link",
                                                   !.session = k, !.value = a]]
  /\ UNCHANGED <<tables, session, github>>

\* After the exchange: the conflict query and the query of the own row.
ReadLinks(h) ==
  /\ handler[h].pc = "exchanging"
  /\ handler' = [handler EXCEPT ![h] =
       IF \E v \in Users \ {Actor(h)} : github[v] = handler[h].value THEN Idle
       ELSE [@ EXCEPT !.pc = "checked", !.seen = (github[Actor(h)] # None)]]
  /\ UNCHANGED <<tables, session, github>>

\* Mutated: no unique index on github_user_id.
FitsIndexesUser(u, a, row) == row \/ github[u] = None
\* The unique indexes of github_identities; an INSERT also needs the user's
\* row to be free still.
FitsIndexes(u, a, row) ==
  /\ \A v \in Users \ {u} : github[v] # a
  /\ row \/ github[u] = None

CommitLink(h) ==
  /\ handler[h].pc = "checked" /\ handler[h].op = "link"
  /\ LET u == Actor(h) a == handler[h].value IN
     github' = IF FitsIndexes(u, a, handler[h].seen) THEN [github EXCEPT ![u] = a] ELSE github
  /\ End(h)
  /\ UNCHANGED <<tables, session>>

----------------------------------------------------------------------------
(* Course administration.  Each request names its operation, its term and, *)
(* for some, a user and a value.                                           *)

\* Mutated: archived terms can be reopened.
AllowedChangeAny(old, new) == old # new
AllowedChange(old, new) == old # new /\ old # "archived" /\ <<old, new>> # <<"active", "setup">>

\* What each operation demands of its actor u and of the tables.
Permitted(u, q) ==
  CASE q.op = "create"  -> IsOwner(u) /\ term[q.term] = "none"
    [] q.op = "default" -> IsOwner(u) /\ term[Default] # "archived"
    [] q.op = "open"    -> IsOwner(u) /\ term[q.term] \in Mutable /\ q.term \notin section
    [] q.op = "status"  -> IsOwner(u) /\ term[q.term] # "none" /\ AllowedChange(term[q.term], q.value)
    [] q.op = "staff"   -> /\ MutableSection(q.term)
                           /\ IF q.value \in Elevated THEN IsOwner(u) ELSE Manages(u, q.term)
    [] q.op = "roster"  -> MutableSection(q.term) /\ Manages(u, q.term)
    [] q.op = "student" -> /\ MutableSection(q.term) /\ Manages(u, q.term)
                           /\ enrolled[q.term][q.user] # "none"
    [] OTHER -> FALSE

\* What the commit will rely on.
ReadFor(q) ==
  CASE q.op = "status" -> term[q.term]
    [] q.op = "roster" -> [rows |-> enrolled[q.term], identity |-> identity]
    [] q.op = "student" -> enrolled[q.term][q.user]
    [] q.op = "staff" -> identity
    [] OTHER -> None

\* parse_session_token, require_staff, the checks of the operation and its
\* reads; a request that is not permitted ends here.
Ask(h, k, q) ==
  /\ handler[h] = Idle /\ Honoured(k) /\ Permitted(session[k].user, q)
  /\ handler' = [handler EXCEPT ![h] = [Idle EXCEPT !.pc = "checked", !.op = q.op, !.session = k,
                   !.term = q.term, !.user = q.user, !.value = q.value, !.seen = ReadFor(q)]]
  /\ UNCHANGED <<tables, session, github>>

Committing(h, op) == handler[h].pc = "checked" /\ handler[h].op = op

\* The namespace of a term and the key of a section are unique: of two
\* concurrent inserts the second fails.
CreateTerm(h) ==
  /\ Committing(h, "create") /\ End(h)
  /\ term' = [term EXCEPT ![handler[h].term] = IF @ = "none" THEN "setup" ELSE @]
  /\ UNCHANGED <<section, enrolled, staff, identity, session, github>>

CreateSection(h) ==
  /\ Committing(h, "open") /\ End(h)
  /\ LET t == handler[h].term IN
     /\ section' = section \cup {t}
     /\ staff' = IF t \in section THEN staff
                 ELSE [staff EXCEPT ![t][Actor(h)] = @ \cup {"course_owner"}]
  /\ UNCHANGED <<term, enrolled, identity, session, github>>

DefaultTerm(h) ==
  /\ Committing(h, "default") /\ End(h)
  /\ term' = [term EXCEPT ![Default] = IF @ = "none" THEN "active" ELSE @]
  /\ section' = section \cup {Default}
  /\ staff' = [staff EXCEPT ![Default][Actor(h)] = @ \cup {"course_owner"}]
  /\ UNCHANGED <<enrolled, identity, session, github>>

\* The e-mail of an identity is unique: the INSERT of a second one fails.
AddStaff(h) ==
  /\ Committing(h, "staff") /\ End(h)
  /\ LET u == handler[h].user IN
     IF handler[h].seen[u] = "none" /\ identity[u] # "none" THEN UNCHANGED <<staff, identity>>
     ELSE /\ staff' = [staff EXCEPT ![handler[h].term][u] = @ \cup {handler[h].value}]
          /\ identity' = [identity EXCEPT ![u] = IF @ = "none" THEN "staff" ELSE @]
  /\ UNCHANGED <<term, section, enrolled, session, github>>

\* An enrollment is written only where it differs from what was read.
EnrollmentAfter(now, seen, listed, dropping) ==
  IF listed /\ seen # "active" THEN "active"
  ELSE IF ~listed /\ dropping /\ seen = "active" THEN "dropped" ELSE now

\* import_roster of the users in `value`; the others are dropped if `user` is
\* set (deactivate_missing).  It fails as a whole if it inserts what another
\* request inserted meanwhile, or a student known to the Studio as staff.
ImportRoster(h) ==
  /\ Committing(h, "roster") /\ End(h)
  /\ LET t == handler[h].term seen == handler[h].seen listed == handler[h].value
         Conflict == \E u \in listed :
           \/ seen.rows[u] = "none" /\ enrolled[t][u] # "none"
           \/ seen.identity[u] # "student" /\ identity[u] # "none"
     IN IF Conflict THEN UNCHANGED <<enrolled, identity>>
        ELSE /\ enrolled' = [enrolled EXCEPT ![t] = [u \in Users |->
                  EnrollmentAfter(@[u], seen.rows[u], u \in listed, handler[h].user # None)]]
             /\ identity' = [u \in Users |-> IF u \in listed THEN "student" ELSE identity[u]]
  /\ UNCHANGED <<term, section, staff, session, github>>

\* student_status: drop or reinstate one student.
StudentStatus(h) ==
  /\ Committing(h, "student") /\ End(h)
  /\ LET u == handler[h].user IN
     enrolled' = IF handler[h].seen = handler[h].value THEN enrolled
                 ELSE [enrolled EXCEPT ![handler[h].term][u] = handler[h].value]
  /\ UNCHANGED <<term, section, staff, identity, session, github>>

----------------------------------------------------------------------------
(* The status of a term.                                                   *)

\* set_term_status decided on the status it read; the UPDATE writes the new
\* one whatever the row says now.
SetStatus(h) ==
  /\ Committing(h, "status") /\ handler[h].value # "archived" /\ End(h)
  /\ term' = [term EXCEPT ![handler[h].term] = handler[h].value]
  /\ UNCHANGED <<section, enrolled, staff, identity, session, github>>

People(t) == {u \in Users : enrolled[t][u] # "none" \/ staff[t][u] # {}}

\* revoke_term_sessions: the UPDATE locks the rows until the commit.
RevokeSessions(h) ==
  /\ Committing(h, "status") /\ handler[h].value = "archived"
  /\ LET rows == {k \in Sessions : session[k].status = "live"
                                   /\ session[k].user \in People(handler[h].term)} IN
     /\ \A k \in rows : ~Locked(k)
     /\ handler' = [handler EXCEPT ![h] = [@ EXCEPT !.pc = "revoked", !.locked = rows]]
  /\ UNCHANGED <<tables, session, github>>

ArchiveTerm(h) ==
  /\ handler[h].pc = "revoked" /\ End(h)
  /\ term' = [term EXCEPT ![handler[h].term] = "archived"]
  /\ session' = [k \in Sessions |->
       IF k \in handler[h].locked THEN [session[k] EXCEPT !.status = "ended"] ELSE session[k]]
  /\ UNCHANGED <<section, enrolled, staff, identity, github>>

----------------------------------------------------------------------------
HandlerStep(h) ==
  \/ CheckAuthority(h) \/ \E k \in Sessions : Issue(h, k)
  \/ ReadLinks(h) \/ CommitLink(h)
  \/ CreateTerm(h) \/ CreateSection(h) \/ DefaultTerm(h) \/ AddStaff(h)
  \/ ImportRoster(h) \/ StudentStatus(h)
  \/ SetStatus(h) \/ RevokeSessions(h) \/ ArchiveTerm(h)

Client ==
  \/ \E k \in Sessions : Refuse(k) \/ Logout(k) \/ Expire(k)
  \/ \E h \in Handlers :
       \/ Bootstrap(h) \/ \E u \in Users : SignIn(h, u)
       \/ \E k \in Sessions :
            \/ \E a \in Accounts : Link(h, k, a)
            \/ \E q \in Requests : Ask(h, k, q)

Next == Client \/ \E h \in Handlers : HandlerStep(h)
Spec == Init /\ [][Next]_vars

----------------------------------------------------------------------------
(* Properties.                                                             *)

\* However the callbacks interleave, a GitHub account belongs to one user.
AccountsAreExclusive ==
  \A u, v \in Users : u # v /\ github[u] # None => github[u] # github[v]

\* A session that was once answered 401 is never honoured again, not even
\* when its user is enrolled or hired again.
RefusedForGood ==
  [][\A h \in Handlers, k \in Sessions :
       handler[h] = Idle /\ handler'[h].session = k
         => ~session[k].refused]_vars

\* A term moves forward, setup to active to archived; only a request whose
\* reading of the status was overtaken by another writes an earlier one.
Rank(s) == CASE s = "none" -> 0 [] s = "setup" -> 1 [] s = "active" -> 2 [] OTHER -> 3
TermsMoveForward ==
  [][\A t \in Terms :
       \/ Rank(term'[t]) >= Rank(term[t])
       \/ \E h \in Handlers : Committing(h, "status") /\ handler[h].term = t
                              /\ handler[h].seen # term[t]]_vars

\* Once no Course Owner of a mutable term is left and no request of one is
\* under way, that stays so, and terms, sections and elevated roles are frozen:
\* ownership of an archived term is not authority over another.
ElevatedRoles == [t \in Terms |-> [u \in Users |-> staff[t][u] \cap Elevated]]
Elevating(h) ==
  /\ handler[h].pc \in {"checked", "revoked"}
  /\ \/ handler[h].op \in {"create", "default", "open", "status"}
     \/ handler[h].op = "staff" /\ handler[h].value \in Elevated
Orphaned ==
  /\ identity[Owner] # "none"
  /\ \A t \in Terms, u \in Users : ~("course_owner" \in staff[t][u] /\ term[t] \in Mutable)
  /\ \A h \in Handlers : ~Elevating(h)
OwnershipIsNotRegained ==
  [][Orphaned => Orphaned' /\ UNCHANGED <<term, section, ElevatedRoles>>]_vars
=============================================================================
