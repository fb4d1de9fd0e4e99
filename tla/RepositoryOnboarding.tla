------------------------ MODULE RepositoryOnboarding ------------------------
(***************************************************************************)
(* Binding a team to its repository (routers/onboarding): nominate a       *)
(* candidate, record an authorization attempt, verify that GitHub lets the *)
(* App read it, reset the binding, confirm the project name.               *)
(*                                                                         *)
(* Every writer locks the Team row first.  connect asks GitHub about the   *)
(* owner while it holds that lock; verify asks whether the repository is   *)
(* readable before it takes the lock and compares the candidate again.     *)
(* The team and its members, the term and the App's installations change   *)
(* while requests wait.                                                    *)
(***************************************************************************)
EXTENDS Integers

CONSTANTS
  Requests, Users, Repos,
  Staff,          \* course owners and instructors of the section
  TestUser,       \* the configured production test student, or None
  StarterKit,     \* the shared starter kit, or None
  Account,        \* the GitHub account each user has linked, or None
  Owner,          \* the GitHub account that owns each repository
  Personal,       \* the repositories owned by a user, not an organization
  Asked,          \* what may be requested: [op, user, repo]
  Authorized,     \* repositories the App may read from the start
  Selectable,     \* repositories whose owner may change that
  Leavers,        \* users who may lose their membership or staff role
  MayEnd,         \* may the term be archived?
  None

Ops == {"connect", "attempt", "verify", "reset", "confirm"}
Statuses == {"candidate", "owner_authorization_required", "verified"}
Accounts == {Owner[r] : r \in Repos}
Answers == {"ok", "refused", "conflict", "unavailable"}

\* `attempt`: the repository an authorization attempt was recorded for, which
\* authorization_requested_at stands for.
Connection == [id: Nat, repo: Repos, status: Statuses, owner: Accounts \cup {None},
               attempt: Repos \cup {None}]

ASSUME OnboardingAssumption ==
  /\ Asked \subseteq [op: Ops, user: Users, repo: Repos \cup {None}]
  /\ \A a \in Asked : a.op = "connect" => a.repo # None
  /\ Staff \subseteq Users /\ Personal \subseteq Repos
  /\ TestUser \in Users \cup {None} /\ StarterKit \in Repos \cup {None}
  /\ Authorized \subseteq Repos /\ Selectable \subseteq Repos
  /\ Leavers \subseteq Users /\ MayEnd \in BOOLEAN
  /\ None \notin Users \cup Repos \cup Requests \cup Connection \cup Answers

VARIABLES
  repo,       \* Team.repo_full_name, the source of evidence; None for ""
  project,    \* Team.project_name: "suggested" while nobody confirmed it
  conn,       \* the team's RepositoryConnection row, or None
  lastId,     \* the sequence behind RepositoryConnection.id
  teamLock,   \* the request that holds the Team row FOR UPDATE, or None
  term,       \* the semester, "active" or "archived"
  entitled,   \* team members and staff, as the database has them now
  readable,   \* repositories GitHub lets the App read
  req         \* per request: its progress

team == <<repo, project, conn, lastId>>
world == <<term, entitled, readable>>
vars == <<repo, project, conn, lastId, teamLock, term, entitled, readable, req>>

\* `candidate`: the row a verify captured.  `stale`: Team.repo_full_name as the
\* request first loaded it.
Request == [pc: {"idle", "waiting", "asking", "locked", "done"}, what: Asked \cup {None},
            candidate: Connection \cup {None}, stale: Repos \cup {None},
            reply: Answers \cup {None}]

OnboardingTypeOK ==
  /\ repo \in Repos \cup {None} /\ project \in {"none", "suggested", "confirmed"}
  /\ conn \in Connection \cup {None} /\ lastId \in Nat
  /\ teamLock \in Requests \cup {None}
  /\ term \in {"active", "archived"} /\ entitled \subseteq Users /\ readable \subseteq Repos
  /\ req \in [Requests -> Request]
  /\ \A r \in Requests : req[r].pc = "locked" <=> teamLock = r

Init ==
  /\ repo = None /\ project = "none" /\ conn = None /\ lastId = 0
  /\ teamLock = None
  /\ term = "active" /\ entitled = Users /\ readable = Authorized
  /\ req = [r \in Requests |-> [pc |-> "idle", what |-> None, candidate |-> None,
                                stale |-> None, reply |-> None]]

-----------------------------------------------------------------------------
(***************************************************************************)
(* Authority, resolved from the database each time                         *)
(***************************************************************************)
Op(r) == req[r].what.op
User(r) == req[r].what.user

\* Mutated: the term is not looked at again.
MayConfigureOnce(r) ==
  /\ User(r) \in entitled
  /\ Op(r) = "reset" => User(r) \in Staff
  /\ Op(r) \in {"connect", "verify"} => User(r) \in Staff \/ Account[User(r)] # None

\* require_team_access, require_team_mutable and the configuration actor; reset
\* is for staff.  A member needs a complete GitHub identity to connect or verify.
MayConfigure(r) ==
  /\ term = "active" /\ User(r) \in entitled
  /\ Op(r) = "reset" => User(r) \in Staff
  /\ Op(r) \in {"connect", "verify"} => User(r) \in Staff \/ Account[User(r)] # None

\* _require_personal_repository_owner
OwnerOrOrganization(u, c) == c.repo \in Personal => Account[u] = c.owner

Verified(c) == c # None /\ c.status = "verified"

\* What begin_authorization and verify require of the candidate.
AwaitsOwner(u, c) ==
  c # None /\ c.status = "owner_authorization_required" /\ OwnerOrOrganization(u, c)

Reply(r, answer) == req' = [req EXCEPT ![r].pc = "done", ![r].reply = answer]

\* Mutated: the transaction of an answered request stays open.
EndKeepsLock(r, answer) == Reply(r, answer) /\ UNCHANGED teamLock

\* The response leaves and the transaction ends, with its lock.
End(r, answer) == Reply(r, answer) /\ teamLock' = None

\* The Team row is free and the request waits for it.
Free(r) == req[r].pc = "waiting" /\ teamLock = None

-----------------------------------------------------------------------------
(***************************************************************************)
(* Requests                                                                *)
(***************************************************************************)
\* A request arrives and passes or fails the checks made before the lock.
Arrive(r, a) ==
  /\ req[r].pc = "idle"
  /\ req' = [req EXCEPT ![r].pc = "waiting", ![r].what = a, ![r].stale = repo]
  /\ UNCHANGED <<team, teamLock, world>>

\* Authority is missing, before the lock is waited for or after.
Refuse(r) ==
  /\ req[r].pc = "waiting"
  /\ ~MayConfigure(r)
  /\ Reply(r, "refused")
  /\ UNCHANGED <<team, teamLock, world>>

\* connect_repository has the Team row: a verified team keeps its repository.
KeepVerified(r) ==
  /\ Free(r) /\ Op(r) = "connect" /\ MayConfigure(r) /\ Verified(conn)
  /\ Reply(r, IF conn.repo = req[r].what.repo THEN "ok" ELSE "conflict")
  /\ UNCHANGED <<team, teamLock, world>>

\* The starter kit is for the production test student only.
RefuseStarterKit(r) ==
  /\ Free(r) /\ Op(r) = "connect" /\ MayConfigure(r) /\ ~Verified(conn)
  /\ req[r].what.repo = StarterKit /\ User(r) # TestUser
  /\ Reply(r, "conflict")
  /\ UNCHANGED <<team, teamLock, world>>

\* Mutated: connect does not look at the connection once it holds the Team row.
MayTakeUnchecked(r) == TRUE

\* What a connect that goes on has found under the lock.
MayTake(r) ==
  Op(r) = "connect" =>
    ~Verified(conn) /\ (req[r].what.repo = StarterKit => User(r) = TestUser)

\* A verify comes for the row when GitHub has answered.  The authority is
\* resolved again under the lock; what follows commits without another look.
TakeTeam(r) ==
  /\ Free(r) /\ MayConfigure(r) /\ MayTake(r)
  /\ Op(r) = "verify" => req[r].candidate # None
  /\ teamLock' = r
  /\ req' = [req EXCEPT ![r].pc = "locked"]
  /\ UNCHANGED <<team, world>>

\* Request r holds the Team row for this operation.
Holds(r, op) == req[r].pc = "locked" /\ Op(r) = op

\* Mutated: a changed candidate keeps the recorded attempt.
AttemptAfterKept == IF conn = None THEN None ELSE conn.attempt

\* Recording a candidate clears what was observed of another one.
AttemptAfter == None

\* The row connect leaves: the team's row keeps its id, a new row gets the next.
NewId == IF conn = None THEN lastId + 1 ELSE conn.id
Row(to, status, owner) ==
  [id |-> NewId, repo |-> to, status |-> status, owner |-> owner, attempt |-> AttemptAfter]

WriteRow(row) ==
  /\ conn' = row
  /\ lastId' = IF conn = None THEN lastId + 1 ELSE lastId

\* Mutated: an owner GitHub knows makes the candidate verified.
NominatedVerified(to) == {Row(to, "verified", Owner[to]), Row(to, "candidate", None)}

\* GitHub names the owner of the candidate, or does not answer.
Nominated(to) ==
  {Row(to, "owner_authorization_required", Owner[to]), Row(to, "candidate", None)}

\* connect_repository records the candidate with what GitHub says of its owner;
\* a candidate is never evidence, so the team is left without a repository.
Nominate(r) ==
  /\ Holds(r, "connect") /\ req[r].what.repo # StarterKit
  /\ \E row \in Nominated(req[r].what.repo) : WriteRow(row)
  /\ repo' = None /\ UNCHANGED project
  /\ End(r, "ok") /\ UNCHANGED world

\* The suggested name is for a project nobody has named.
ProjectAfter == IF project = "confirmed" THEN project ELSE "suggested"

\* The readable starter kit is bound at once for the production test student.
BindStarterKit(r) ==
  /\ Holds(r, "connect") /\ req[r].what.repo = StarterKit /\ StarterKit \in readable
  /\ WriteRow(Row(StarterKit, "verified", None))
  /\ repo' = StarterKit /\ project' = ProjectAfter
  /\ End(r, "ok") /\ UNCHANGED world

\* It is not readable: 502, nothing changes.
StarterKitUnreadable(r) ==
  /\ Holds(r, "connect") /\ req[r].what.repo = StarterKit
  /\ End(r, "unavailable") /\ UNCHANGED <<team, world>>

\* begin_repository_authorization: the candidate is read again under both locks.
BeginAuthorization(r) ==
  /\ Holds(r, "attempt")
  /\ IF AwaitsOwner(User(r), conn)
     THEN conn' = [conn EXCEPT !.attempt = conn.repo] /\ End(r, "ok")
     ELSE End(r, "conflict") /\ UNCHANGED conn
  /\ UNCHANGED <<repo, project, lastId, world>>

\* confirm_project
ConfirmProject(r) ==
  /\ Holds(r, "confirm")
  /\ project' = "confirmed" /\ End(r, "ok")
  /\ UNCHANGED <<repo, conn, lastId, world>>

\* reset_repository_onboarding: the locked Team is the object loaded before the
\* wait (no populate_existing), so "" over a stale "" writes nothing.
Reset(r) ==
  /\ Holds(r, "reset")
  /\ repo' = IF req[r].stale = None THEN repo ELSE None
  /\ conn' = None /\ End(r, "ok")
  /\ UNCHANGED <<project, lastId, world>>

\* verify_repository reads the candidate without a lock: nothing to verify,
\* already verified, or not ready.
VerifyEarly(r) ==
  /\ req[r].pc = "waiting" /\ Op(r) = "verify" /\ req[r].candidate = None /\ MayConfigure(r)
  /\ ~AwaitsOwner(User(r), conn)
  /\ Reply(r, IF Verified(conn) /\ repo = conn.repo THEN "ok" ELSE "conflict")
  /\ UNCHANGED <<team, teamLock, world>>

\* It captures the candidate and asks GitHub with no lock held.
Capture(r) ==
  /\ req[r].pc = "waiting" /\ Op(r) = "verify" /\ req[r].candidate = None /\ MayConfigure(r)
  /\ AwaitsOwner(User(r), conn)
  /\ req' = [req EXCEPT ![r].pc = "asking", ![r].candidate = conn]
  /\ UNCHANGED <<team, teamLock, world>>

\* GitHub lets the App read the captured repository.
Proven(r) ==
  /\ req[r].pc = "asking" /\ req[r].candidate.repo \in readable
  /\ req' = [req EXCEPT ![r].pc = "waiting"]
  /\ UNCHANGED <<team, teamLock, world>>

\* It does not, or not only this repository, or GitHub is unreachable.
Unproven(r) ==
  /\ req[r].pc = "asking" /\ Reply(r, "unavailable")
  /\ UNCHANGED <<team, teamLock, world>>

\* Mutated: whatever candidate the team has now is promoted.
SameCandidateAny(r) == conn # None

\* The tuple compared again: everything but the attempt and the timestamps.
SameCandidate(r) ==
  conn # None /\ [conn EXCEPT !.attempt = None] = [req[r].candidate EXCEPT !.attempt = None]

\* The proven candidate becomes the team's source of evidence if it is still
\* the candidate.
Promote(r) ==
  /\ Holds(r, "verify")
  /\ IF SameCandidate(r)
     THEN /\ conn' = [conn EXCEPT !.status = "verified"] /\ repo' = conn.repo
          /\ End(r, "ok")
     ELSE End(r, "conflict") /\ UNCHANGED <<conn, repo>>
  /\ UNCHANGED <<project, lastId, world>>

-----------------------------------------------------------------------------
(***************************************************************************)
(* The world                                                               *)
(***************************************************************************)
\* The repository's owner selects it for the App, or withdraws it.
Authorize(to) == to \notin readable /\ readable' = readable \cup {to} /\ UNCHANGED <<team, teamLock, term, entitled, req>>
Withdraw(to) == to \in readable /\ readable' = readable \ {to} /\ UNCHANGED <<team, teamLock, term, entitled, req>>

\* A user leaves the team or the staff.
Leave(u) == u \in entitled /\ entitled' = entitled \ {u} /\ UNCHANGED <<team, teamLock, term, readable, req>>

\* set_term_status takes no Team lock.
ArchiveTerm ==
  /\ MayEnd /\ term = "active" /\ term' = "archived"
  /\ UNCHANGED <<team, teamLock, entitled, readable, req>>

RequestStep(r) ==
  \/ Refuse(r) \/ KeepVerified(r) \/ RefuseStarterKit(r) \/ TakeTeam(r)
  \/ Nominate(r) \/ BindStarterKit(r) \/ StarterKitUnreadable(r)
  \/ BeginAuthorization(r) \/ ConfirmProject(r) \/ Reset(r)
  \/ VerifyEarly(r) \/ Capture(r) \/ Proven(r) \/ Unproven(r) \/ Promote(r)

Next ==
  \/ \E r \in Requests : RequestStep(r) \/ \E a \in Asked : Arrive(r, a)
  \/ \E to \in Selectable : Authorize(to) \/ Withdraw(to)
  \/ \E u \in Leavers : Leave(u)
  \/ ArchiveTerm

\* Handlers that can run do; GitHub answers or the call fails.
Spec == Init /\ [][Next]_vars
FairSpec == Spec /\ \A r \in Requests : WF_vars(RequestStep(r))

-----------------------------------------------------------------------------
\* A nominated repository is not evidence: while a connection exists, the team
\* has a repository exactly when that connection is verified
\* (RepositoryConnection's docstring, "Fail closed" in connect_repository).
\* Without one it has none, but for a reset that had loaded the team before a
\* verify committed: that one leaves the repository behind.
EvidenceIsVerified ==
  IF conn # None THEN repo = IF Verified(conn) THEN conn.repo ELSE None
  ELSE repo # None =>
    \E r \in Requests : req[r].reply = "ok" /\ Op(r) = "reset" /\ req[r].stale = None

\* A repository becomes the team's only by a request that proved that GitHub
\* lets the App read it, for the candidate the team still has.
OnlyProvenRepositories ==
  [][repo' # repo /\ repo' # None =>
       \E r \in Requests :
         /\ req[r].pc \notin {"idle", "done"} /\ req'[r].reply = "ok"
         /\ \/ Op(r) = "verify" /\ req[r].candidate.repo = repo' /\ req[r].candidate.id = conn.id
            \/ repo' = StarterKit /\ StarterKit \in readable]_vars

\* Once verified, the binding changes only when staff resets it.
VerifiedUntilReset ==
  [][Verified(conn) /\ conn' # conn =>
       \E r \in Requests :
         /\ teamLock = r /\ req'[r].reply = "ok"
         /\ Op(r) = "reset" /\ User(r) \in Staff]_vars

\* A recorded authorization attempt is for the repository that is nominated now
\* ("Changing the candidate clears any ownership/authorization observations").
AttemptIsForCandidate ==
  conn # None /\ conn.attempt # None => conn.attempt = conn.repo /\ conn.owner = Owner[conn.repo]

\* Every request is answered, whatever GitHub does and whoever holds the team.
EveryRequestAnswered == \A r \in Requests : req[r].pc = "waiting" ~> req[r].pc = "done"

\* Once its term is archived a team's configuration changes at most once more:
\* by the request that held the Team row at that moment.  Those that wait for
\* the row look at the term again.
ArchiveEndsConfiguration ==
  [][term = "archived" /\ teamLock = None
       => teamLock' = None /\ UNCHANGED <<repo, conn, project>>]_vars

=============================================================================
