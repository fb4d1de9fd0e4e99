# TLA+ models of the ETIS Engineering Studio

The ETIS Engineering Studio is a FastAPI service (`src/apps/api/app`) over one
PostgreSQL database. Students of a course connect a repository, start a *review*
of one assignment phase, and argue with an AI reviewer about findings in a frozen
snapshot of that repository. Several replicas of the API run at once, every
request is handled by a worker thread, and a request that talks to the reviewer
or to GitHub holds its database transaction open for seconds. What can go wrong is
therefore rarely in one handler: it is in what other handlers, retries, crashes
and the end of the semester do between two of its lines.

This directory holds TLA+ specifications of that behaviour, TLC configurations
that check them on small instances, and proofs checked by TLAPS.

    tlc -workers 2 -config room_conversation.cfg MCReviewRoom
    tlapm ReviewRoomProofs.tla

Contents: 1 the system; 2 the modules; 3 the runs; 4 the proofs; 5 known
divergences; 6 what is not modelled; 7 what could come next.

## 1. The system

Paths are relative to `src/apps/api/app`.

| Component | State | Operations | Talks to | Modelled in |
|---|---|---|---|---|
| Review Room turn protocol (`routers/reviews.py` 2042-3138) | `review_sessions` (status, one JSON document), `review_turns`, `review_finding_states`; one `threading.Lock` per session and process | clarify, coach, respond, evidence-dispute, finding disposition, commit, complete | coaching engine, authorization, snapshot | `ReviewRoom` |
| Review start (`routers/reviews.py` 1541-1957) | teams (row lock), snapshots, a new session and its first turn | start | GitHub, evidence analysis, finding states | `ReviewStart` |
| Archive of a term (`services/semester_lifecycle.py`) | `course_terms.status`, sessions, `auth_sessions` | archive closes reviews, revokes logins | Review Room, start, sessions | `ReviewArchive`, `ReviewStart`, `StudioAccess` |
| Authentication, linking (`services/auth.py`, `routers/auth.py`) | `auth_sessions`, users, identities | login, logout, link, parse a session on every request | every router | `StudioAccess` |
| Terms, roster, staff (`services/course_admin.py`, `routers/admin.py`) | terms, sections, enrolments, staff | create, change status, import, drop, hire | authorization | `StudioAccess` |
| Repository onboarding (`routers/onboarding.py`) | repository connection and candidate | connect, begin authorization, verify, reset, confirm | GitHub App | `RepositoryOnboarding` |
| Installation tokens (`services/github_app.py`) | per-process token cache | get a token, expire | GitHub | `InstallationTokens` |
| Coaching engine (`services/challenge_engine.py`, `reasoning_validation.py`) | the reasoning state inside the document | converse, merge, evaluate, validate | AI provider | `CoachingEngine`, `ReasoningShadow` |
| Planning (`services/review_planner.py`, `next_question_selector.py`, `review_planning.py`, `review_orchestrator.py`) | the plan inside the document | plan a turn, select, realize | AI provider, shadow | `QuestionSelector`, `ReviewObjective` |
| Finding lifecycle (`services/finding_state.py`) | finding states | upsert, inherit, derive | Room, start | `ReviewRoom`, `ReviewStart` |
| AI provider (`services/ai_provider.py`), pool (`db.py`), browser (`static/studio.js`) | usage rows, connections, request ids | call, check out, resend | all | as failures, locks and repetition |

Interaction is by shared rows. A handler of the Review Room reads its session
without a lock, authorizes, takes the process-local lock (non-blocking), waits for
`SELECT ... FOR UPDATE`, repeats its checks, works and commits. The local lock is
only a quick refusal inside one replica; the row lock is what serializes. Start and
onboarding do the same with the Team row. The administration and the archive of a
term read and rewrite rows without that protocol.

What makes each component correct:

- *Review Room*: every endpoint behaves as if it happened at once on the current
  record; turns are numbered without gaps; a request key is used once and a retry
  gets the stored answer; a recommendation passed the gap check; an ended review
  stays as it is; every request is answered.
- *Archive*: afterwards no review is written and none that it could see is open;
  archiving ends.
- *Start*: one session per request key; evidence of a pinned commit is frozen once, and
  at a commit that was HEAD meanwhile; no decision about a finding is lost; everything
  is settled in spite of deadlocks.
- *Access*: a refused session is never served again; one GitHub account, one user;
  terms move forward; ownership of an archived term is no authority elsewhere.
- *Onboarding*: a nominated repository is no evidence; a verified one is the one
  GitHub was asked about; only staff's reset ends it.
- *Tokens*: a scan that keeps to the reserve reads everything; a token opens one
  repository; no scan begins on withdrawn access after a bounded time.
- *Engine*: the validator only withholds credit; only corrections lower it; the
  planned question serves the student of this turn.

`PROJECT.json` lists the hazards with the line where each one bites and the
property that would catch it.

## 2. Modules

| Module | Models | Kind |
|---|---|---|
| `ReviewData` | rows, request, document, and the pure part of every Review Room handler | operators |
| `AtomicReview` | what the seven endpoints promise | abstract specification |
| `ReviewRoom`, `MCReviewRoom` | the endpoints as they run on replicas | detailed specification |
| `ReviewArchive`, `MCReviewArchive` | `ReviewRoom` while its term is archived | composition |
| `AtomicStart` | what a start promises | abstract specification |
| `ReviewStart`, `MCReviewStart` | the start transaction, decisions about findings, pushes, deployments, the archive | detailed specification |
| `RepositoryOnboarding`, `MCRepositoryOnboarding` | the onboarding of one team | specification |
| `InstallationTokens`, `MCInstallationTokens` | the token cache of one process | specification with time |
| `StudioAccess`, `MCStudioAccess` | sessions, terms, roster, staff, linking | specification |
| `ReviewObjective` | the vocabulary of planning: outcomes, moves, needs, objectives | operators |
| `QuestionSelector` | the bounded fallback, the hard constraints, the ranking | operators |
| `ReasoningShadow` | the validator's normalization, repair and what it grants | operators |
| `CoachingEngine`, `MCCoachingEngine` | the turns of one review through the engine | specification |
| `ReviewRoomProofs`, `ReviewReplayProofs`, `ReviewArchiveProofs`, `ReviewStartProofs`, `RepositoryOnboardingProofs`, `StudioAccessProofs`, `InstallationTokensProofs`, `CoachingEngineProofs` | theorems | TLAPS |

Steps are cut where another thread can see a difference: at a lock that is granted
or released, at a commit, and at a read or a call whose answer another actor can
make stale. Operators commented *Mutated* are deliberately wrong variants of the
definition that follows them. They are used nowhere; each stands for a plausible
bug, and putting it in place of the right definition makes the property named with
it in `PROJECT.json` fail.

### The Review Room and its archive

| Variable | Code |
|---|---|
| `status[s]`, `state[s]` | `ReviewSession.status`, `challenge_state_json` |
| `turns[s]` | the `review_turns` rows of a session |
| `findings[f]` | `ReviewFindingState.status` of a finding of the one snapshot; no row is `open` |
| `rowLock[s]`, `snapLock` | PostgreSQL row locks taken by `FOR UPDATE` |
| `localLock[p, s]` | `_session_locks` of replica `p` |
| `access` | what `_authorize_*` would answer now, for the owning student and for staff |
| `pc`, `call`, `replica`, `view`, `reply` | a thread of `replica[r]` that handles the request `call[r]` |
| `term`, `archive`, `archived`, `archiveLocks` | `CourseTerm.status`, the archiving transaction, the rows it loaded, the rows it has locked |

| Action | Code |
|---|---|
| `Arrive` | a request reaches a replica |
| `PreCheck` | unlocked read, authorization, status, first idempotency check |
| `TryLocal` | `lock.acquire(blocking=False)`, 409 if busy |
| `LockRow` | the `FOR UPDATE` is granted; checks repeated, document and transcript read |
| `LockSnapshot` | disputes and dispositions: the snapshot row is granted; checks repeated |
| `RespondCommit` ... `CompleteCommit` | the writes of one handler up to and including `db.commit()` |
| `Abort` | an exception (reviewer unavailable, database error): `finally` releases the local lock |
| `Close` | `get_db` closes the session: rollback, row locks released |
| `Finish` | `finally` after a commit: local lock released, answer sent |
| `Crash(p)` | replica `p` dies with all its requests |
| `ChangeAccess` | enrolment, membership, staffing or the account changes |
| `ArchiveRead`, `ArchiveLock`, `ArchiveCommit`, `ArchiveCrash` | the query and loop of `archive_active_term_reviews`; the UPDATEs of the flush, each waiting for its row; the commit of `term_status`; its failure |

`ReviewData` declares the constants and has no variables, so that the abstract and
the detailed specification compute rows and documents by the same definitions and
differ only in *when* and *from what* they do. The document keeps what the
properties tell apart: `turn_count`, `coaching_level`, `clarification_count`, the
number of `evidence_disputes`, the content of `last_student_position`,
`evaluation.ready_to_commit` and `committed_position`. `ready_to_commit` is decided
by the reviewer and the engine; every commit of a turn chooses it freely.

All reads of a handler after its row lock are one step with the grant, since nobody
else can write those rows until it is released; `ReviewRoom` does not assume that,
it reads `state` and `turns` at the grant and writes from that `view` at the commit,
and the model loses updates as soon as the lock is left out (`LockRowUnlocked`).

### Starting a review

`ReviewStart` is one team. `start[r]` runs through `waiting` (for the Team row),
`locked`, `chosen` (no reusable snapshot), `prepared`, `read` (the status of the
selected finding), `flushed` and `done`; `decide[h]` is a dispute or disposition on
one of the team's snapshots. Both transactions take PostgreSQL's *implicit* locks:
an inserted finding row shares its Team and snapshot rows, which conflicts with
`FOR UPDATE`; usage rows of a model call share the Team row at the commit (`bills`).
`BlockedBy` and `HandlerWaits` say who waits, and `BreakDeadlock` is PostgreSQL's
detector, which cancels one of the two. `heads` is history: the commits that were
HEAD while the start held the Team row. `Push`, `Deploy` (a new
`ANALYSIS_CONTRACT`), `ArchiveQuery` and `ArchiveCommit` happen in between. A
deployment replaces all replicas while no start is running.

`repo` says whether the team has an authoritative repository; `Onboard` gives or
takes it as `RepositoryOnboarding` does, under the Team row. Without one,
`head_sha('')` answers `demo-baseline` (`Demo`) and `analyze('')` the demonstration.
A start that names a scenario or has no repository is `Unpinned`: the code then skips
the search for a reusable snapshot, the expected commit and the comparison with it
(1782, 1811 and 1814 ask for `repo_full_name and not req.scenario_id`), and freezes what
it gets. One repository is modelled: what matters of a reset and another
repository is that the commit changes, which `Push` does.

### Onboarding and tokens

`RepositoryOnboarding` is one team's `Team.repo_full_name` (`repo`, the source of
evidence), its `RepositoryConnection` row (`conn`), the Team row lock and requests
in progress. `Arrive` and `Refuse` are the checks before the lock, `TakeTeam` the
grant with the checks repeated, `Nominate`, `BindStarterKit`, `BeginAuthorization`,
`ConfirmProject`, `Reset` and `Promote` the writes. `connect` asks GitHub with the
Team row held; `verify` reads the candidate without a lock (`Capture`), asks GitHub
(`Proven`, `Unproven`) and then takes the row and compares (`SameCandidate`). Only
for reset the object loaded before the wait is written (`stale`), which the code
does. GitHub (`readable`), membership (`entitled`) and the term change at any time.

`InstallationTokens` is `GitHubAppTokenManager` with a discrete clock: `Hit`,
`Miss`, `Installed`, `Issue`, `Arrive`, `Fail`, `Finish`. `Issue` lets GitHub answer
with any scope; `Exact` is the check of the code. An answer and a scan may take any
time: `Tick` is always possible. `evidence.analyze` takes its headers once and uses
them for all its calls, 25 s each and as many as there are pull requests and files. A
token that GitHub no longer honours makes the scan fail if it is met by the first
calls, the ones `raise_for_status` follows (`opening`, `Refuse`), and only leaves a gap
later (`reading`, `Skip`: `_json_count` counts 0, a file is listed as not inspected).

### Access

`StudioAccess` has the tables (`term`, `section`, `enrolled`, `staff`, `identity`),
`session`, `github`, and handlers. PostgreSQL runs READ COMMITTED and no handler
here locks a row before it reads it, so a handler is at least two steps: check and
read (`Ask`, `Link`, `SignIn`, `CheckAuthority`, `ReadLinks`), then write and commit
on what was read (`seen`). The archive of a term is three: it updates the
`auth_sessions` rows (`RevokeSessions`, `locked`), then commits with the status.
`Refuse` is the lazy revocation of a presented session without authority.
`refused` is history.

### The coaching engine

`doc` is the stored document of one review: objective, mode (which shadows run), the
legacy reasoning as a set of dimensions, the shadow as a status per dimension, stall
counter, reviewer, and whether evidence was disputed. `turn` is the request in progress,
which holds the row lock of `ReviewRoom`. `Converse` (or `SemanticTurn`,
`ScriptedReasoning`) merges what the reviewer heard, `CompleteValidation` or
`KeepShadow` ends the validator's step, `SelectQuestion`, `KeepQuestion` the planner's,
`Save` commits, `Abort` stores nothing. `Dispute` leaves the reasoning as it is; if the
artifact is found, the reviewer answers and the conversation memory of that answer
(`Remembering`) is saved too. Models answer anything their JSON schemas admit: the
validator any decision per dimension, in the call and in its repair; the planner any
list from `CandidateLists`; the realizer anything. The selector is exact:
`WithFallback`, `Admitted` and `Preferred` are the code's fallback, constraints and
ranking.

## 3. Runs

| Run | Instance | Shows |
|---|---|---|
| `room_conversation` | 1 session, 3 requests, 2 replicas; two positions (one with a key), a clarification, the recommendation, the end | transcript dense; the document is a replay of the transcript; a recommendation was ready, and is recorded again only after a new position (`RecommendationsAreEarned`); an ended review is final |
| `room_retries` | 1 session, 3 requests, 2 replicas; one key for the same payload, another payload, other operations; help past its cap (cap 1) | one turn per key; every answer is the stored one |
| `room_findings` | 2 sessions on one snapshot, 2 requests, 2 replicas; disputes found and not found, dispositions by student and staff, unacceptable ones; authorization changes | handlers are atomic under locks of two levels (`ImplementsAtomicReview`); every request is answered |
| `archive_boundary` | 2 sessions, 2 requests, 2 replicas, archive | an archived term is read-only, has no open review, and archiving ends; a document the archive has overwritten still replays a prefix of its transcript (`DocumentsReplayAPrefix`) |
| `archive_record`, `archive_completed` | the same | *violations*, see below |
| `start` | 2 starts (same key, another request under it, no key, another phase) of a team with a repository or one that may get it, 1 decision, 2 commits, 1 new contract, archive | one session per key; evidence of a pinned commit frozen once, and at a commit that was HEAD; decisions kept; everything settled although start and decision can deadlock; the transaction is atomic (`ImplementsAtomicStart`); no start takes the Team row of an archived term (`ArchivedAdmitsNoStart`) |
| `start_carried` | 2 starts, 1 decision, a new contract | *violation*, see below |
| `onboarding` | 3 requests of a student who owns one of two candidates and of an instructor, the starter kit, GitHub changing its mind, a member leaving, the term ending | a candidate is no evidence; attempts belong to the candidate; only proven repositories; bindings end by reset only; the archive ends configuration; every request is answered |
| `tokens` | 2 threads, 1 repository, two lives of a token, scans of any length | tokens are exact; evidence is left unread for want of a token only by a scan longer than the reserve or when the installation changed; no scan begins on withdrawn access later than a kept token is reused |
| `access` | an owner and a student, 2 terms, 2 accounts, 2 sessions, 2 handlers, from an empty database | exclusive accounts, refused sessions, terms, ownership |
| `engine` | a board, a focused or a finding review whose findings are frozen, any number of turns; teaching after 1 stall (a setting of the code); 3 kinds of proposals, 4 intents, 5 candidate lists | the shadow only withholds; only corrections lower it; a planned question serves the turn; the ranking is total (`OneIsPreferred`) |

**Bounds.** A request object is used once, and a retry is another request with the same
content, so `Requests`, `Starts` and `Handlers` bound the length of a behaviour. Three
requests on one session give a holder, a waiter and a latecomer, or a first try, its
retry and something else, and every pair of operations in both orders; two replicas give
both the local and the remote conflict. Locks exist per session, so a second session
matters only for the snapshot and the archive, where it is present. The coaching cap is
1 in `room_retries` so that it is passed; the code's 5 is used elsewhere. In `start`
every lock has one other holder to wait for; a second contract makes frozen evidence
obsolete once; the repository comes at most once (`Onboardings = {TRUE}`), before,
between or after the starts (330,837 states; the proofs let it come and go). In
`onboarding` three requests are what the longest race needs (a verify that has asked
GitHub, a reset and a new nomination). In `access` two handlers overlap, and free
sessions, which are never freed, bound the logins. In `tokens` the reserve `Life -
(Assumed - Margin)` is 3 ticks of a life of 4 and the clock's bound of 8 allows two
lives, so scans both within and beyond the reserve happen; with one repository only an
empty scope can be inexact, and `ExactTokens` proves the case of another repository's
token. `engine` needs no bound on turns: documents are finite. Symmetry is used where no
liveness is checked and the symmetric values are not told apart. `CHECK_DEADLOCK FALSE`:
when all requests of an instance are done, the system stops; `access` cannot stop and
checks deadlock.

**Fairness.** `FairSpec` is weak fairness of what a handler does by itself. Threads
are scheduled; a lock holder always gets on, because calls of the model and of GitHub
end by timeout (`ai_provider.py` 412-495) and `get_db` closes every session.
Arrivals, aborts, crashes and changes of the surroundings are not fair. With the few
requests of an instance a waiter cannot be overtaken forever, so weak fairness is
enough. In `start` PostgreSQL's detector is fair: without it a start and a decision
would wait for each other. The archive competes with newcomers for row locks;
PostgreSQL queues waiters, which is strong fairness of `ArchiveLock` and
`ArchiveCommit`. `ArchiveRead` is not fair: nobody has to archive a term. `tokens`,
`access` and `engine` state safety only: nobody has to call them.

### What the violations show

1. `archive_record`. `archive_active_term_reviews` loads the active sessions with a
   plain query, rewrites each document in memory and lets the flush store it. A
   handler that holds the row at that time commits first; then the archive's
   UPDATE replaces the document by the older one. The recommendation is gone from
   the document, and its turn is still in the transcript. The docstring
   (`services/semester_lifecycle.py` 291-293) says committed reasoning remains
   untouched.
2. `archive_completed`. The same window with `complete`: the student gets 200 and
   `completed`, then the row becomes `archived_incomplete`, which
   `docs/SECURITY_AND_PRIVACY.md` 134-135 reserves for reviews the student did not
   complete.
3. `start_carried`. A new analysis contract makes a start freeze the same commit
   again and carry over the states of its findings. Those rows are only pending:
   sessions are made with `autoflush=False` (`db.py` 12), so the query that looks up
   the selected finding does not see its row, and `_upsert_finding_state` adds a
   second one for the same snapshot and finding. The unique constraint fails, and so
   does every start that selects a finding with an inherited state.

## 4. Proofs

Each module of proofs covers every finite or infinite choice of the constants that
satisfies the assumptions of its module: `DataAssumption`, `RoomAssumption`,
`StartAssumption`, `OnboardingAssumption`, `AccessAssumption`, `EngineAssumption`
say that requests are well formed and that `None` is not a value;
`TimeAssumption` says that a token's times are numbers and the margin is no longer
than the assumed life. Nothing is assumed about how long an answer or a scan takes.

| Module | Theorem | Statement |
|---|---|---|
| `ReviewRoomProofs` | `RoomInvariant` | `Spec => []RoomInv` |
| | `TypeCorrect`, `TranscriptIsDense`, `KeysAreUnique`, `AnswersStored` | `Spec => []TypeOK`, `[]TranscriptDense`, `[]OneTurnPerKey`, `[]AnswersAreStored` |
| | `EndIsFinal` | `Spec => EndedIsFinal` |
| | `RoomImplementsAtomicReview` | `Spec => ImplementsAtomicReview` |
| | `LocksAreLive`, `NobodyWaitsInACircle` | `Spec => []LocksLive`, `[]WaitsEnd` |
| `ReviewReplayProofs` | `ReplayInvariant` | `Spec => [](RoomInv /\ ReplayInv)` |
| | `DocumentReplays`, `RecommendationsEarned` | `Spec => []DocumentReplaysTranscript`, `[]RecommendationsAreEarned` |
| `ReviewArchiveProofs` | `ArchiveInvariant` | `ArchiveSpec => []ArchiveInv` |
| | `ArchiveClosesReviews`, `ArchivedReadOnly` | `ArchiveSpec => []NoReviewLeftActive`, `ArchivedIsReadOnly` |
| | `ArchiveRecordInvariant`, `ArchiveTypeCorrect` | `ArchiveSpec => [](ArchiveInv /\ RecordInv)`, `[]ArchiveTypeOK` |
| | `ArchiveLosesOnlyTheEnd` | `ArchiveSpec => []DocumentsReplayAPrefix` |
| | `ArchiveKeepsAnswers` | `ArchiveSpec => [](OneTurnPerKey /\ AnswersAreStored)` |
| | `OnlyTheCommitArchives` | `ArchiveSpec => [][AtomicUnlessArchiving]_allVars` |
| | `ArchiveLeaksNoLock`, `ArchiveAndHandlersDoNotDeadlock` | `ArchiveSpec => []LocksLive`, `[]ArchiveWaitsEnd` |
| `ReviewStartProofs` | `StartInvariant`, `StartTypeCorrect` | `Spec => []StartInv`, `[]StartTypeOK` |
| | `RetriesShareTheSession`, `FrozenWhereReviewed` | `Spec => []RetryReturnsOriginal`, `[]FrozenAtReviewedCommit` |
| | `DecisionsAreKept` | `Spec => DecisionsSurviveStart` |
| | `EvidenceIsFrozenOnce` | `Spec => [](NeverReturns => EvidenceFrozenOnce)` |
| | `ArchivedTermsOpenNothing` | `Spec => ArchivedAdmitsNoStart` |
| | `TheDetectorSuffices` | `Spec => []WaitsAreBroken` |
| | `StartImplementsAtomicStart` | `Spec => ImplementsAtomicStart`, if `NeverReturns`, `NoScenarios` and `NoReopening` |
| `RepositoryOnboardingProofs` | `OnboardingInvariant`, `OnboardingTypeCorrect` | `Spec => []OnboardingInv`, `[]OnboardingTypeOK` |
| | `CandidatesAreNoEvidence`, `AttemptsAreCurrent` | `Spec => []EvidenceIsVerified`, `[]AttemptIsForCandidate` |
| | `ResetCandidatesNeverReturn` | `Spec => [][NewRowIsNew]_vars` |
| | `RepositoriesAreProven`, `BindingIsKept`, `ArchiveEnds` | `Spec => OnlyProvenRepositories`, `VerifiedUntilReset`, `ArchiveEndsConfiguration` |
| `StudioAccessProofs` | `AccessInvariant`, `AccessCorrect` | `Spec => []AccessIInv`, `[]AccessInv` |
| | `AccountsExclusive` | `Spec => []AccountsAreExclusive` |
| | `RefusalIsFinal`, `TermsAdvance`, `OwnershipIsGone` | `Spec => RefusedForGood`, `TermsMoveForward`, `OwnershipIsNotRegained` |
| `InstallationTokensProofs` | `TokenInvariant`, `ShortScansReadEverything`, `ExactTokens`, `WithdrawalTakesEffect` | `Spec => []TokenInv`, `[]UnreadOnlyByLongScans`, `[]TokensAreExact`, `[]StaleAccessBounded` |
| `CoachingEngineProofs` | `EngineInvariant`, `ShadowOnlyWithholds` | `Spec => []EngineIInv`, `[]EngineInv` |
| | `CreditLoweredOnlyByCorrections`, `PlanServes` | `Spec => CorrectionsOnlyReopen`, `[]PlanServesTurn` |
| | `ChallengeExcludesTeaching` | no candidate is admitted for a turn that has an open challenge and needs teaching |
| | `OneChoicePerPlan` | for every list of proposals the selector makes exactly one choice |

None of the properties is inductive. The strengthenings, and why they are needed:

- `RoomInv`. `TranscriptDense` is kept by a commit only if the number the handler
  read is still the last one, which holds because it owns the row. `RequestsKnown`:
  a request that has arrived has a content and a replica; `RowsOwned`: from `LockRow`
  until the release `rowLock` names the handler, so two of them never work on one
  session (`RowExclusive`); `ViewsCurrent`: what a working handler read is what the
  database holds; `StillPermitted`: the checks made under its locks still hold,
  which is the guard of the abstract operation; between the two locks only the status
  survives, keys and findings are checked at the second one; `TranscriptsSound` adds
  `ExchangesAdjacent`, the student turn followed by its answer; `AnswersRecorded` is
  `AnswersAreStored` from the moment an answer is decided on. The refinement mapping
  is the identity on the record: a commit is the abstract operation on current
  values, and every other step stutters (`OthersStutter`).
- `LocksLive` and `WaitsEnd`. `RowsOwned` says who holds the rows he needs; the
  converse, that no lock is held by anybody else, is `LocksLive`: the holder of a row
  or of the snapshot is on its way to giving it up, and a replica's local lock belongs
  to the one request that took it, also after crashes, refusals and errors. Rows are
  always taken before the snapshot, so every chain of waits has at most two links.
- `ReplayInv` says that the stored document counts and repeats the turns. With
  `ViewsCurrent` a commit adds rows to the transcript and writes the document of the
  current one, so each kind of commit needs one lemma about counting and the latest
  turn. `Revised` is part of it: a recommendation is recorded only if the document's
  position is not the recommended one, and since the document replays the turns, that
  position was stated after the last recommendation (`NewPositionIsLater`).
- `ArchiveInv`. The archive reads without a lock, so the argument is not about what it
  read but about what it overwrites: every active row is among the rows it updates
  (`FlushCovers`), a handler past its checks holds the row of an active review
  (`CheckedIsActive`, `HandlersHold`), the update waits for it (`LocksExclude`), and
  under an archived term nobody is past the checks (`Sealed`).
- `RecordInv`. While the term is active nobody but a handler writes, so `RoomInv` and
  `ReplayInv` still hold. What the archive has
  loaded is a document the review once had: it replays the turns it counts, and keeps
  doing so because rows are only added with higher numbers (`ReadsArePast`). Its commit
  puts such a document back; after that `RoomInv` is false (`archive_record` shows
  where), but every document still replays a prefix (`PrefixesReplay`), and turns, keys
  and answers are untouched (`RecordSound`).
- `ArchiveWaitsEnd` adds the archiving transaction to `WaitsEnd`. It takes the rows of
  the reviews in any order; the argument is that a handler holds at most one of them
  and waits for no other while it does, only for the snapshot.
- `StartInv`. `LockOwned` makes the holder of the Team row the only start at work;
  `Sound` is what each start knows: no session has its key, the commit it chose is among
  `heads`, the row it inserted is still absent and no handler holds that snapshot.
  `repo` cannot change meanwhile, since onboarding takes the Team row too. `OnceInv`
  dates snapshots: every frozen commit is at or before HEAD in the order of pushes, and
  a start that froze evidence of a pinned commit found it new. That needs
  `NeverReturns`, since HEAD is read once for the query and again for the evidence.
- `WaitsAreBroken` follows from `StartInv` alone: only the start that holds the Team row
  can be stopped by a handler (`BlockedHoldsTeam`), and a handler that stops it runs or
  waits for that same start. Those circles of two do occur, and they are the only ones:
  what `BreakDeadlock` breaks is enough.
- `StartImplementsAtomicStart` maps the frozen snapshots and the sessions' keys. Each
  hypothesis excludes one case of section 5 in which the code is not atomic: without
  `NeverReturns` one commit is frozen twice, without `NoScenarios` a start freezes on
  purpose what exists (the demonstration of a team without a repository is no
  hypothesis: `AtomicStart` itself lets it be frozen again), without `NoReopening` a
  start overwrites a decision made after it read the row (`NothingReopened` is what the
  third one buys).
- `OnboardingInv`. What a request found when it took the Team row is still true when it
  commits (`LocksFound`), and only GitHub's answer makes a candidate wait for its owner
  (`OwnerNamed`). `IdsPast` says that every row a verify may have captured is numbered
  no higher than `lastId`: comparing ids is then enough to know that the row is the one
  GitHub was asked about, though the same repository may have been nominated again.
- `AccessIInv` adds `Handling`: each handler knows the session, user and operation it
  serves, and what it may write is what its request model accepts (`Acceptable`).
- `TokenInv` says of what the cache and each thread hold that it is exact, that it was
  issued while the App was installed as required, and that the scan took it while more
  than the margin was left. That places the end of the token's life at GitHub at least
  `Life - (Assumed - Margin)`, less the delay of its answer, after the scan began.
- `EngineIInv` adds `DraftKeepsCredit`: the draft of a turn in progress holds at least
  the shadow credit of the stored document, unless the turn is a correction.
- `OneChoicePerPlan`. A candidate's priority is a tuple of six ranks compared in order;
  `Weight` reads it as a number in mixed radix (`WeightsCompare`), so among finitely many
  candidates one weight is highest and the first candidate that has it is the only one
  preferred. MCCoachingEngine's `OneIsPreferred` evaluates the same on short lists.

There is one lemma per action or group of actions that write the same state, and one
per idea they share (`ExchangeSound`, `WritingKeepsEvidence`, `OneHandlerWorks`).

Every invariant and action property of the passing runs is stated by a theorem. Only
model-checked is liveness under fairness (`EveryRequestAnswered` of the Review Room and
of onboarding, `ArchiveEnds`, `EverythingSettled`), which is beyond the prover; what it
rests on, that no wait is circular, is proved (`NobodyWaitsInACircle`,
`ArchiveAndHandlersDoNotDeadlock`, `TheDetectorSuffices`). The runs `archive_record`,
`archive_completed` and `start_carried` refute what they state, so nothing is proved
about those.

## 5. Known divergences

What the models show of the code that its documents or comments do not say, besides
the three violations. The properties except these cases explicitly, or the instance
leaves them out, as named here.

*Start and findings*

- A finding set back to `open` has a row, which a start updates without the
  snapshot's lock: a decision between its read and its flush is overwritten
  (`routers/reviews.py` 1846). `DecisionsSurviveStart` excepts it.
- A start with `scenario_id` freezes the evidence of a commit again
  (`routers/reviews.py` 1782; `CHANGELOG.md` 292), and so does every start of a team
  that has no repository: line 1782 reuses only for a `repo_full_name`, so each freezes
  the demonstration anew, with the same phase, commit and contract. `EvidenceFrozenOnce`
  counts neither (`Unpinned`). The run has teams without a repository, the proof has both.
- HEAD is read twice: a branch pushed away and back during one start freezes the same
  commit twice (`routers/reviews.py` 1797). `NeverReturns` excludes it.
- A start in flight while its term is archived inserts an active review afterwards
  (`routers/reviews.py` 1936): the archive's query does not see it and start does not
  look at the term again. `NoReviewLeftActive` is about reviews that exist;
  `ArchivedAdmitsNoStart` bounds the rest to the one start that holds the Team row then.
- `commit` has no request key: a retry that arrives after a newer position records that
  one (`routers/reviews.py` 2963). `RecommendationsAreEarned` is what remains: it never
  records the same position again.

*Onboarding and tokens*

- Reset writes the Team object it loaded before it waited for the row: a verify that
  commits meanwhile leaves its repository authoritative without a connection
  (`routers/onboarding.py` 768, 784). `EvidenceIsVerified` excepts it.
- The request that holds the Team row when its term is archived still changes the
  configuration (`docs/SECURITY_AND_PRIVACY.md` 85). `ArchiveEndsConfiguration` allows
  that one.
- One token serves a whole scan (`services/evidence.py` 234), which nothing limits. The
  120 s margin and the 300 s by which the cache underestimates a token's life give it
  420 s, less the delay of the token's answer; a longer scan, of a repository with many
  files or at a slow GitHub, loses its token on the way. The calls refused then count as
  empty or as files not inspected (158-203, 313-321), the scan succeeds, and a start
  freezes that evidence and the process caches it. (The same happens to any other refusal,
  a rate limit for one.) `UnreadOnlyByLongScans` says when it cannot happen.
- A cached token is used up to 53 minutes after the installation was widened to all
  repositories, which a new token would be refused for (`README.md` 48).
  `StaleAccessBounded` is the bound.

*Access*

- Two overlapping status requests: the one that archives commits first, the other
  writes `active` over it (`services/semester_lifecycle.py` 434, which refuses with
  "Archived terms cannot be reopened" at 419 only what it read;
  `docs/SECURITY_AND_PRIVACY.md` 58: "The lifecycle is forward-only").
  `TermsMoveForward` excepts an overtaken reading.
- A sign-in that has passed its check when the archive revokes sessions leaves a live
  one; it is refused at its next use if it has no other authority
  (`docs/SECURITY_AND_PRIVACY.md` 86, 212).
- Archiving the last term with a Course Owner leaves nobody who may create a term, a
  section or an owner, and bootstrap works only for an unknown owner
  (`routers/admin.py` 399). `OwnershipIsNotRegained` states it.
- A logout while GitHub is asked does not stop the link (`routers/auth.py` 213-276).
- A listed student who is known as staff makes the whole roster import fail
  (`services/course_admin.py` 88-127; `ImportRoster`'s `Conflict`).
- Two concurrent moves of one student leave two memberships
  (`services/course_admin.py` 130; teams are not modelled).
- The archive updates `auth_sessions` and then waits for a review row whose holder, on
  a second connection, updates the same session row
  (`services/semester_lifecycle.py` 390): PostgreSQL sees no cycle, timeouts end it.
  A full pool whose holders wait for their second connection ends by the pool's
  timeout (`services/auth.py` 134).

*Engine*

- A turn with an evidence-backed challenge open that also needs teaching rejects every
  candidate, the fallback included (`services/next_question_selector.py` 254-257,
  `services/review_planner.py` 542; `docs/architecture/ANALYTICAL_CONTROL_PLANE_V017.md`
  360). This is `ChallengeExcludesTeaching`; `TeachingIsServed` excepts it.
- A candidate that addresses the need but targets an outcome its move does not fit
  suppresses the fallback and is then rejected (`services/review_planner.py` 553).
- `SYNTHESIZE_OBJECTIVE` on a validated outcome is rejected as established
  (`services/next_question_selector.py` 528): a board review with all eight outcomes
  validated is never synthesized.
- An ACCEPT that carries `VALIDATOR_RESULT_MISSING` is applied if the repair does not
  replace it (`docs/architecture/ANALYTICAL_EVALUATION_AND_WARGAMES_V017.md` 180).
- PARTIAL on a validated dimension keeps its status and overwrites its references.
- References a student names in a turn count as authorized evidence of that turn
  (`services/next_question_selector.py` 307, `services/reasoning_validation.py` 459).

## 6. Not modelled

- The words: replies, prompts, evidence text, finding rationale, timestamps. A
  dispute's explanation counts as part of its path; the text checks of a realized
  question are one choice between accepted and rejected.
- The critic's rewrite, the guidance links and the transcripts the engine writes into
  prompts: they change no reasoning.
- The analysis of a repository (`services/evidence.py`, `artifact_condition.py`): text
  processing without state. Its cache, the two reads of HEAD and the contract are in
  `ReviewStart`.
- `authoritative_finding_state`: a view computed on reading.
- Turns stored by releases without fingerprints (`_legacy_idempotency_payload`) and
  sessions without a snapshot: the models start from sessions made by `start`.
- A deleted session or user (404), deactivated users and sections, the `developer`
  identity, cookies, signatures and the CSRF token.
- Adding a single student (`routers/admin.py` 169-334): it creates or reactivates one
  user, identity and enrolment as `ImportRoster` does for a list, and a membership.
- Teams, team assignment and the phase schedule; `RefuseStart` and `Leave` stand for
  their effect on a review and on onboarding.
- Rolling deployments: `Deploy` replaces all replicas at once.
- Foreign-key locks and the deadlock detector outside `ReviewStart`; there a
  transaction may fail at any time (`Abort`).
- The second connection of `auth_context`, and the pool. Its size is a default of the
  library and its timeout turns a full pool into an error, which is `Abort`.
- The browser's own state machine. Any request may be repeated with the same id at any
  time, through any replica, which includes what `studio.js` does, and no property
  relies on it doing less.
- The unique constraints on `review_turns`: the models show they are never needed.
- Usage rows, read-only routers, migrations, cloud scripts and offline tools.

## 7. What could come next

1. Teams and memberships in `StudioAccess`, with the concurrent moves of section 5, and
   the phase schedule.
2. `access` of `ReviewRoom` refined by the tables of `StudioAccess`: then the archive of
   a term is one action over three modules.
3. The answer of a recommendation: that it names the position recorded last.
4. A pool of connections with the second connection of `auth_context`, if the timeout
   of the library is to be relied on.
