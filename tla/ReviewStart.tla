----------------------------- MODULE ReviewStart -----------------------------
(***************************************************************************)
(* POST /reviews/start (routers/reviews.start): one transaction that locks *)
(* the Team row, settles retries, asks GitHub for the commit to review,    *)
(* reuses or creates the frozen EvidenceSnapshot, marks a selected finding *)
(* as under discussion and inserts the session with its opening turn.      *)
(* Beside it run the dispute and disposition handlers of sessions that     *)
(* already discuss those snapshots, pushes to the repository, changes of   *)
(* the team's repository, deployments of a new analysis contract and the   *)
(* archive of the term.                                                    *)
(*                                                                         *)
(* PostgreSQL's implicit locks matter: inserting a ReviewFindingState row  *)
(* takes KEY SHARE on its Team and snapshot rows, which waits for FOR      *)
(* UPDATE; updating one waits for its uncommitted writer.                  *)
(***************************************************************************)
EXTENDS Integers, Sequences, FiniteSets, FiniteSetsExt

CONSTANTS
  Starts,        \* start requests, retries included
  Handlers,      \* dispute and disposition requests
  Keys,          \* client_request_id values
  Findings,      \* finding ids of the evidence
  Commits, FirstCommit,
  Demo,          \* 'demo-baseline', the commit of the demonstration evidence
  Phases,
  StartRequests, \* what a start may ask for
  Decisions,     \* what a handler may record: [finding, status]
  Pushes,        \* <<from, to>>: how the default branch may move
  MaxContract,   \* bound on deployments that change ANALYSIS_CONTRACT
  MayArchive,    \* may the term end?
  Onboardings,   \* may the team gain (TRUE) or lose (FALSE) its repository?
  None

Statuses == {"open", "under_discussion", "evidence_disputed", "confirmed",
             "corrected", "resolved", "accepted_risk", "deferred"}

\* A ReviewFindingState row's status, or "none" while there is no row.
RowStatus == Statuses \cup {"none"}

\* What a start answers when it opens or names no session.
Refusals == {"refused", "conflict", "moved", "error", "lost"}

\* `finding` is the one selected by a finding_review, None in other modes.
StartRequest == [key: Keys \cup {None}, phase: Phases, finding: Findings \cup {None},
                 scenario: BOOLEAN]

ASSUME StartAssumption ==
  /\ StartRequests \subseteq StartRequest
  /\ Decisions \subseteq [finding: Findings, status: Statuses]
  /\ Pushes \subseteq Commits \X Commits /\ FirstCommit \in Commits
  /\ None \notin Keys \cup Findings \cup Starts /\ Demo \notin Commits
  /\ Starts \cap Refusals = {}
  /\ MaxContract \in Nat /\ MayArchive \in BOOLEAN /\ Onboardings \subseteq BOOLEAN

VARIABLES
  repo,       \* does the team have an authoritative repository?
  head,       \* HEAD of that repository's default branch
  contract,   \* ANALYSIS_CONTRACT of the deployed code
  analysed,   \* process cache of GitHubEvidenceProvider: <<phase, commit>>
  term,       \* "active", "closing" (archive has queried), "archived"
  closing,    \* the sessions the archive's query returned
  snapshots,  \* committed EvidenceSnapshot rows with their finding rows
  sessions,   \* committed ReviewSession rows, named by the start that made them
  teamLock,   \* the start that holds the Team row FOR UPDATE, or None
  start,      \* per start request: its progress
  decide      \* per handler request: its progress

world == <<repo, head, contract, term, closing>>
vars == <<repo, head, contract, analysed, term, closing, snapshots, sessions, teamLock, start, decide>>

\* Values of a commit_sha.
Shas == Commits \cup {Demo}

NoRows == [f \in Findings |-> "none"]
Snapshot == [phase: Phases, commit: Shas, contract: 1 .. MaxContract + 1,
             found: [Findings -> RowStatus]]
Session == [id: Starts, request: StartRequests, repo: BOOLEAN, snapshot: Nat \ {0},
            status: {"active", "archived_incomplete"}]

\* `snap`: the snapshot row to use, 0 for `draft`, a new one.  `heads`: the
\* commits head_sha could have named while the request held the Team row.
Start == [pc: {"idle", "waiting", "locked", "chosen", "prepared", "read", "flushed", "done"},
          request: StartRequests \cup {None}, snap: Nat, draft: Snapshot \cup {None},
          commit: Shas \cup {None}, seen: RowStatus, heads: SUBSET Shas,
          reply: Starts \cup Refusals \cup {None}]
Decide == [pc: {"idle", "holding", "written", "done"}, snap: Nat,
           decision: Decisions \cup {None}, bills: BOOLEAN]

StartTypeOK ==
  /\ repo \in BOOLEAN /\ head \in Commits /\ contract \in 1 .. MaxContract + 1
  /\ analysed \subseteq Phases \X Shas
  /\ term \in {"active", "closing", "archived"}
  /\ closing \subseteq sessions
  /\ \A n \in DOMAIN snapshots : snapshots[n] \in Snapshot
  /\ \A s \in sessions : s \in Session /\ s.snapshot \in DOMAIN snapshots
  /\ teamLock \in Starts \cup {None}
  /\ \A r \in Starts : start[r] \in Start
  /\ \A h \in Handlers : decide[h] \in Decide

IdleStart == [pc |-> "idle", request |-> None, snap |-> 0, draft |-> None, commit |-> None,
              seen |-> "none", heads |-> {}, reply |-> None]

Init ==
  /\ repo \in BOOLEAN /\ head = FirstCommit /\ contract = 1 /\ analysed = {}
  /\ term = "active" /\ closing = {}
  /\ snapshots = << >> /\ sessions = {}
  /\ teamLock = None
  /\ start = [r \in Starts |-> IdleStart]
  /\ decide = [h \in Handlers |-> [pc |-> "idle", snap |-> 0, decision |-> None, bills |-> FALSE]]

-----------------------------------------------------------------------------
(***************************************************************************)
(* Helpers of the handler                                                  *)
(***************************************************************************)
Req(r) == start[r].request

\* GitHubEvidenceProvider.head_sha: HEAD, or the demonstration without a repository
\* (a repository of the name demo/... is one whose HEAD never moves).
HeadSha == IF repo THEN head ELSE Demo

\* A start of a scenario, or of a team without a repository, pins no commit: it
\* reuses no snapshot and freezes whatever analyze returns.
Unpinned(request, sha) == request.scenario \/ sha = Demo

\* The session that already used the request's key.
SessionsWithKey(k) == {s \in sessions : k # None /\ s.request.key = k}

\* Mutated: the newest snapshot of the phase, whatever commit it froze.
SameEvidenceAnyCommit(phase, commit) == {n \in DOMAIN snapshots : snapshots[n].phase = phase}

\* Snapshots of the same phase and commit.
SameEvidence(phase, commit) ==
  {n \in DOMAIN snapshots : snapshots[n].phase = phase /\ snapshots[n].commit = commit}

\* supports_current_analysis_contract of the newest of them.
Reusable(same) ==
  IF same # {} /\ snapshots[Max(same)].contract = contract THEN Max(same) ELSE 0

\* The states a new snapshot inherits from the team's previous one, when that
\* froze the same commit and phase.
CarriedStatuses ==
  {"corrected", "resolved", "accepted_risk", "deferred", "evidence_disputed", "confirmed"}

Carried(phase, commit) ==
  LET n == Len(snapshots)
  IN  IF n # 0 /\ snapshots[n].phase = phase /\ snapshots[n].commit = commit
      THEN [f \in Findings |-> IF snapshots[n].found[f] \in CarriedStatuses
                               THEN snapshots[n].found[f] ELSE "none"]
      ELSE NoRows

\* Mutated: a selected finding is marked whatever its state.
MarksAlways(r) == Req(r).finding # None

\* A selected finding is marked only when it was read as open.
Marks(r) == Req(r).finding # None /\ start[r].seen \in {"none", "open"}
Inserts(r) == Marks(r) /\ start[r].seen = "none"

\* Mutated: a failed start leaves its connection, and so its lock, open.
AnswerKeepsLock(r, reply) ==
  /\ start' = [start EXCEPT ![r].pc = "done", ![r].reply = reply]
  /\ UNCHANGED teamLock

\* The response leaves, get_db closes the session: its locks are released.
Answer(r, reply) ==
  /\ start' = [start EXCEPT ![r].pc = "done", ![r].reply = reply]
  /\ teamLock' = IF teamLock = r THEN None ELSE teamLock

\* The handler goes on in the same transaction.
Goes(r, pc) == start' = [start EXCEPT ![r].pc = pc]

-----------------------------------------------------------------------------
(***************************************************************************)
(* The start transaction                                                   *)
(***************************************************************************)
\* auth_context and require_team_access before the lock.
Arrive(r, c) ==
  /\ start[r].pc = "idle"
  /\ start' = [start EXCEPT ![r].pc = IF term = "archived" THEN "done" ELSE "waiting",
                            ![r].reply = IF term = "archived" THEN "refused" ELSE None,
                            ![r].request = c]
  /\ UNCHANGED <<world, analysed, snapshots, sessions, teamLock, decide>>

\* Handlers that inserted a row referencing the team share its row lock.
TeamSharers == {h \in Handlers : decide[h].pc = "written"}

\* The payload stored as start_request names the team's repository, too.
SameStart(s, r) == s.request = Req(r) /\ s.repo = repo

\* Mutated: access is checked only before the wait for the row.
SettleUnchecked(r) ==
  LET used == SessionsWithKey(Req(r).key) IN
  IF used = {}
  THEN /\ teamLock' = r
       /\ start' = [start EXCEPT ![r].pc = "locked", ![r].heads = {HeadSha}]
  ELSE Answer(r, IF \E s \in used : SameStart(s, r)
                 THEN (CHOOSE s \in used : TRUE).id ELSE "conflict")

\* What the start does once it holds the row: access again, then the key.
Settle(r) ==
  LET used == SessionsWithKey(Req(r).key) IN
  CASE term = "archived" -> Answer(r, "refused")
    [] term # "archived" /\ used = {} ->
         /\ teamLock' = r
         /\ start' = [start EXCEPT ![r].pc = "locked", ![r].heads = {HeadSha}]
    [] term # "archived" /\ used # {} ->
         Answer(r, IF \E s \in used : SameStart(s, r)
                   THEN (CHOOSE s \in used : TRUE).id ELSE "conflict")

\* Mutated: the Team row is read without FOR UPDATE.
LockTeamUnlocked(r) ==
  /\ start[r].pc = "waiting"
  /\ Settle(r)
  /\ UNCHANGED <<world, analysed, snapshots, sessions, decide>>

LockTeam(r) ==
  /\ start[r].pc = "waiting"
  /\ teamLock = None /\ TeamSharers = {}
  /\ Settle(r)
  /\ UNCHANGED <<world, analysed, snapshots, sessions, decide>>

\* The first head_sha and the query for a reusable snapshot
\* ("if repo_full_name and not req.scenario_id").
ChooseCommit(r) ==
  /\ start[r].pc = "locked"
  /\ LET n == IF Unpinned(Req(r), HeadSha) THEN 0 ELSE Reusable(SameEvidence(Req(r).phase, HeadSha))
     IN  start' = [start EXCEPT ![r].pc = IF n = 0 THEN "chosen" ELSE "prepared",
                                ![r].snap = n, ![r].commit = IF n = 0 THEN None ELSE HeadSha]
  /\ UNCHANGED <<world, analysed, snapshots, sessions, teamLock, decide>>

\* Membership, phase release or the repository no longer match the request.
RefuseStart(r) ==
  /\ start[r].pc = "waiting"
  /\ teamLock = None /\ TeamSharers = {}
  /\ Answer(r, "refused")
  /\ UNCHANGED <<world, analysed, snapshots, sessions, decide>>

\* Without a reusable one head_sha is asked again.
RereadHead(r) ==
  /\ start[r].pc = "chosen" /\ start[r].commit = None /\ repo
  /\ start' = [start EXCEPT ![r].commit = HeadSha]
  /\ UNCHANGED <<world, analysed, snapshots, sessions, teamLock, decide>>

\* GitHubEvidenceProvider.analyze: fresh cached evidence of that commit, or the
\* evidence of HEAD.  Only a start that pins no commit accepts another one.
Evidence(r) ==
  IF Unpinned(Req(r), HeadSha) THEN {HeadSha}
  ELSE {c \in {start[r].commit} : c = HeadSha \/ <<Req(r).phase, c>> \in analysed}

Analyse(r) ==
  /\ start[r].pc = "chosen" /\ (start[r].commit # None \/ ~repo)
  /\ IF Evidence(r) = {}
     THEN Answer(r, "moved") /\ UNCHANGED analysed
     ELSE \E c \in Evidence(r) :
            /\ start' = [start EXCEPT
                 ![r].pc = "prepared", ![r].commit = c,
                 ![r].draft = [phase |-> Req(r).phase, commit |-> c, contract |-> contract,
                               found |-> Carried(Req(r).phase, c)]]
            /\ analysed' = IF repo THEN analysed \cup {<<Req(r).phase, c>>} ELSE analysed
            /\ UNCHANGED teamLock
  /\ UNCHANGED <<world, snapshots, sessions, decide>>

\* The lifecycle of the selected finding is read WITHOUT the snapshot's lock;
\* the session does not flush before queries (autoflush=False), so the rows a
\* new snapshot inherits are not seen.
ReadFinding(r) ==
  /\ start[r].pc = "prepared"
  /\ LET n == start[r].snap
         f == Req(r).finding
     IN  start' = [start EXCEPT ![r].pc = "read",
                     ![r].seen = IF f = None \/ n = 0 THEN "none" ELSE snapshots[n].found[f]]
  /\ UNCHANGED <<world, analysed, snapshots, sessions, teamLock, decide>>

\* A handler that has locked the snapshot, or written the row, start r needs.
BlockedBy(r, h) ==
  /\ start[r].pc = "read" /\ Marks(r) /\ start[r].snap # 0
  /\ decide[h].snap = start[r].snap
  /\ IF Inserts(r) THEN decide[h].pc \in {"holding", "written"}
     ELSE decide[h].pc = "written" /\ decide[h].decision.finding = Req(r).finding

\* UNIQUE (snapshot_id, finding_id).
RowExists(r) ==
  LET n == start[r].snap
      f == Req(r).finding
  IN  (IF n = 0 THEN start[r].draft.found[f] ELSE snapshots[n].found[f]) # "none"

FlushStart(r) ==
  /\ start[r].pc = "read"
  /\ \A h \in Handlers : ~BlockedBy(r, h)
  /\ IF Inserts(r) /\ RowExists(r) THEN Answer(r, "error") ELSE Goes(r, "flushed") /\ UNCHANGED teamLock
  /\ UNCHANGED <<world, analysed, snapshots, sessions, decide>>

\* The rows as the transaction leaves them.
Marked(rows, r) == IF Marks(r) THEN [rows EXCEPT ![Req(r).finding] = "under_discussion"] ELSE rows

\* Mutated: the new snapshot is not flushed before the session takes its id.
CommitStartUnflushed(r) ==
  /\ start[r].pc = "flushed"
  /\ LET n == start[r].snap IN
     /\ snapshots' = IF n = 0 THEN Append(snapshots, [start[r].draft EXCEPT !.found = Marked(@, r)])
                     ELSE [snapshots EXCEPT ![n].found = Marked(@, r)]
     /\ sessions' = sessions \cup
          {[id |-> r, request |-> Req(r), repo |-> repo, snapshot |-> n, status |-> "active"]}
  /\ Answer(r, r)
  /\ UNCHANGED <<world, analysed, decide>>

CommitStart(r) ==
  /\ start[r].pc = "flushed"
  /\ LET n == IF start[r].snap = 0 THEN Len(snapshots) + 1 ELSE start[r].snap IN
     /\ snapshots' = IF start[r].snap = 0
                     THEN Append(snapshots, [start[r].draft EXCEPT !.found = Marked(@, r)])
                     ELSE [snapshots EXCEPT ![n].found = Marked(@, r)]
     /\ sessions' = sessions \cup
          {[id |-> r, request |-> Req(r), repo |-> repo, snapshot |-> n, status |-> "active"]}
  /\ Answer(r, r)
  /\ UNCHANGED <<world, analysed, decide>>

\* GitHub or the model fails, the browser leaves, or the replica dies.
Abort(r) ==
  /\ start[r].pc \notin {"idle", "done"}
  /\ Answer(r, "lost")
  /\ UNCHANGED <<world, analysed, snapshots, sessions, decide>>

-----------------------------------------------------------------------------
(***************************************************************************)
(* Disputes and dispositions on sessions of the team (see ReviewRoom)      *)
(***************************************************************************)
\* FOR UPDATE of the snapshot row; waits for the KEY SHARE of a start.
HoldSnapshot(h, n, d, bills) ==
  /\ decide[h].pc = "idle" /\ term # "archived"
  /\ \E s \in sessions : s.status = "active" /\ s.snapshot = n
  /\ \A g \in Handlers : decide[g].pc \in {"holding", "written"} => decide[g].snap # n
  /\ \A r \in Starts : start[r].pc = "flushed" /\ Inserts(r) => start[r].snap # n
  /\ decide' = [decide EXCEPT ![h] = [pc |-> "holding", snap |-> n, decision |-> d, bills |-> bills]]
  /\ UNCHANGED <<world, analysed, snapshots, sessions, teamLock, start>>

InsertsRow(h) == snapshots[decide[h].snap].found[decide[h].decision.finding] = "none"

\* _upsert_finding_state: an INSERT shares the Team row, an UPDATE waits for a
\* start that has written this row.
WriteRow(h) ==
  /\ decide[h].pc = "holding"
  /\ InsertsRow(h) => teamLock = None
  /\ \A r \in Starts :
       start[r].pc = "flushed" /\ Marks(r) /\ start[r].snap = decide[h].snap
         => Req(r).finding # decide[h].decision.finding
  /\ decide' = [decide EXCEPT ![h].pc = "written"]
  /\ UNCHANGED <<world, analysed, snapshots, sessions, teamLock, start>>

\* Usage rows of a model call share the Team row as well.
CommitRow(h) ==
  /\ decide[h].pc = "written"
  /\ decide[h].bills => teamLock = None
  /\ snapshots' = [snapshots EXCEPT
       ![decide[h].snap].found[decide[h].decision.finding] = decide[h].decision.status]
  /\ decide' = [decide EXCEPT ![h].pc = "done"]
  /\ UNCHANGED <<world, analysed, sessions, teamLock, start>>

HandlerWaits(h) ==
  /\ teamLock # None
  /\ \/ decide[h].pc = "holding" /\ InsertsRow(h)
     \/ decide[h].pc = "written" /\ decide[h].bills

\* PostgreSQL's deadlock detector cancels one of two transactions that wait for
\* each other.
BreakDeadlock(r, h) ==
  /\ teamLock = r /\ HandlerWaits(h) /\ BlockedBy(r, h)
  /\ \/ Answer(r, "error") /\ UNCHANGED decide
     \/ decide' = [decide EXCEPT ![h].pc = "done"] /\ UNCHANGED <<start, teamLock>>
  /\ UNCHANGED <<world, analysed, snapshots, sessions>>

-----------------------------------------------------------------------------
(***************************************************************************)
(* The surroundings                                                        *)
(***************************************************************************)
Push(c) ==
  /\ <<head, c>> \in Pushes
  /\ head' = c
  /\ start' = [r \in Starts |->
       IF repo /\ start[r].pc \in {"locked", "chosen"}
       THEN [start[r] EXCEPT !.heads = @ \cup {c}] ELSE start[r]]
  /\ UNCHANGED <<repo, contract, analysed, term, closing, snapshots, sessions, teamLock, decide>>

\* The team's repository is verified, or reset, while the term lasts and under the
\* Team row's lock (see RepositoryOnboarding).
Onboard ==
  /\ term # "archived" /\ teamLock = None /\ TeamSharers = {}
  /\ repo' \in Onboardings \ {repo}
  /\ UNCHANGED <<head, contract, analysed, term, closing, snapshots, sessions, teamLock, start, decide>>

\* A release with a new ANALYSIS_CONTRACT replaces the replicas.
Deploy ==
  /\ contract <= MaxContract
  /\ \A r \in Starts : start[r].pc \in {"idle", "done"}
  /\ contract' = contract + 1 /\ analysed' = {}
  /\ UNCHANGED <<repo, head, term, closing, snapshots, sessions, teamLock, start, decide>>

\* archive_active_term_reviews: the query ...
ArchiveQuery ==
  /\ MayArchive /\ term = "active"
  /\ term' = "closing" /\ closing' = {s \in sessions : s.status = "active"}
  /\ UNCHANGED <<repo, head, contract, analysed, snapshots, sessions, teamLock, start, decide>>

\* ... and the commit of term_status.
ArchiveCommit ==
  /\ term = "closing"
  /\ term' = "archived" /\ closing' = {}
  /\ sessions' = {IF s \in closing THEN [s EXCEPT !.status = "archived_incomplete"] ELSE s : s \in sessions}
  /\ UNCHANGED <<repo, head, contract, analysed, snapshots, teamLock, start, decide>>

StartStep(r) ==
  \/ LockTeam(r) \/ RefuseStart(r) \/ ChooseCommit(r) \/ RereadHead(r) \/ Analyse(r)
  \/ ReadFinding(r) \/ FlushStart(r) \/ CommitStart(r)

HandlerStep(h) == WriteRow(h) \/ CommitRow(h)

Next ==
  \/ \E r \in Starts : (\E c \in StartRequests : Arrive(r, c)) \/ StartStep(r) \/ Abort(r)
  \/ \E h \in Handlers :
       \/ \E n \in DOMAIN snapshots, d \in Decisions, bills \in BOOLEAN : HoldSnapshot(h, n, d, bills)
       \/ HandlerStep(h)
  \/ \E r \in Starts, h \in Handlers : BreakDeadlock(r, h)
  \/ \E c \in Commits : Push(c)
  \/ Onboard \/ Deploy \/ ArchiveQuery \/ ArchiveCommit

Spec == Init /\ [][Next]_vars

\* Threads that can run do, and the database breaks deadlocks.  Requests end
\* without a client's help, so weak fairness of each one is enough.
FairSpec ==
  /\ Spec
  /\ \A r \in Starts : WF_vars(StartStep(r))
  /\ \A h \in Handlers : WF_vars(HandlerStep(h))
  /\ WF_vars(\E r \in Starts, h \in Handlers : BreakDeadlock(r, h))

-----------------------------------------------------------------------------
\* A retry of a start names the session the first one made, and a key never
\* names two sessions (_review_start_response, client_request_id).
RetryReturnsOriginal ==
  \A r, q \in Starts :
    /\ start[r].reply \in Starts /\ start[q].reply \in Starts
    /\ Req(r).key = Req(q).key /\ Req(r).key # None
    => start[r].reply = start[q].reply /\ Req(r) = Req(q)

\* Evidence is frozen once per phase, commit and analysis contract, also by
\* replicas that start reviews of the team at the same time (comment of start:
\* they "cannot simultaneously decide" that a new snapshot is needed).  Snapshots
\* frozen by a start that pins no commit are not counted: a start with a
\* scenario_id, or of a team without a repository, whose demonstration evidence
\* is frozen again by each start.
EvidenceFrozenOnce ==
  \A m, n \in DOMAIN snapshots :
    /\ snapshots[m].phase = snapshots[n].phase
    /\ snapshots[m].commit = snapshots[n].commit
    /\ snapshots[m].contract = snapshots[n].contract
    => m = n \/ \E s \in sessions : s.snapshot \in {m, n} /\ (s.request.scenario \/ ~s.repo)

\* A review discusses evidence of its own phase, at a commit that was HEAD
\* while the review was being started, though pushes go on meanwhile; without a
\* repository at that time, and only then, the demonstration.
FrozenAtReviewedCommit ==
  \A s \in sessions :
    /\ snapshots[s.snapshot].phase = s.request.phase
    /\ snapshots[s.snapshot].commit \in start[s.id].heads

\* Selecting a finding for a review never overwrites what the team had decided
\* about it in the meantime.  A finding set back to open is the exception: its
\* row exists and is updated without the snapshot's lock.
DecisionsSurviveStart ==
  [][\A r \in Starts, n \in DOMAIN snapshots, f \in Findings :
       start[r].pc = "flushed" /\ start'[r].pc = "done" /\ snapshots'[n].found[f] # snapshots[n].found[f]
         => snapshots[n].found[f] \in {"none", "open"} \/ start[r].seen = "open"]_vars

\* A start that waited while its term was archived opens nothing.  Only the one
\* that already holds the Team row, and asked about the term before GitHub, may
\* still insert its session; it is the last review of an archived term.
ArchivedAdmitsNoStart ==
  [][term = "archived" =>
       /\ teamLock' \in {teamLock, None}
       /\ teamLock = None => UNCHANGED sessions]_vars

\* A start whose finding nobody else touches is never refused by the states it
\* inherits itself.
InheritedStateAccepted ==
  \A r \in Starts : start[r].snap = 0 /\ start[r].draft # None => start[r].reply # "error"

\* Every start that arrives and every decision that holds a snapshot is settled,
\* whatever they wait for and although they may wait for each other.
EverythingSettled ==
  /\ \A r \in Starts : start[r].pc = "waiting" ~> start[r].pc = "done"
  /\ \A h \in Handlers : decide[h].pc = "holding" ~> decide[h].pc = "done"

\* The key a session was opened under, forgetting who opened it.
OpenedSnapshot(k) ==
  LET used == SessionsWithKey(k) IN IF used = {} THEN 0 ELSE (CHOOSE s \in used : TRUE).snapshot

\* The handlers implement the promise of AtomicStart.
Promise == INSTANCE AtomicStart WITH frozen <- snapshots, opened <- [k \in Keys |-> OpenedSnapshot(k)]

ImplementsAtomicStart == Promise!Spec

=============================================================================
