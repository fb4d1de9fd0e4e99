------------------------- MODULE InstallationTokens -------------------------
(***************************************************************************)
(* GitHub App installation tokens (services/github_app): one cache per     *)
(* process, shared by the threads that answer requests.  A thread takes    *)
(* the cached token of its repository, or asks for the installation, asks  *)
(* for a token of that repository alone, stores it and uses it for all the *)
(* calls of one evidence scan (services/evidence).                         *)
(*                                                                         *)
(* The clock ticks at any time.  Nothing limits how long an answer takes   *)
(* or a scan lasts: a timeout is per call, and a scan makes one call per   *)
(* file and pull request.                                                  *)
(***************************************************************************)
EXTENDS Integers, FiniteSets

CONSTANTS
  Threads, Repos,
  Life,      \* a token's life at GitHub (3600 s)
  Assumed,   \* the life the cache assumes from its arrival (3300 s)
  Margin,    \* a token is reused while more than this is left (120 s)
  MaxTime,   \* bound on the clock
  None

ASSUME TimeAssumption ==
  /\ {Life, Assumed, Margin, MaxTime} \subseteq Nat
  /\ Margin <= Assumed
  /\ None \notin Repos

VARIABLES
  now,
  selection,  \* per repository: how the App is installed on its account
  left,       \* the last time it stopped being "selected" (0: never)
  cache,      \* GitHubAppTokenManager._cache
  thread      \* per thread: its progress

vars == <<now, selection, left, cache, thread>>

Selections == {"selected", "all", "none"}
Token == [scope: SUBSET Repos, issued: Nat, expires: Nat]
NoToken == [scope |-> {}, issued |-> 0, expires |-> 0]

\* A scan makes the calls it needs ("opening": repository, branch, tree) and then
\* those it can do without ("reading": issues, pull requests, reviews, files).
Scanning == {"opening", "reading"}

\* `at`: when the scan took its token; `unread`: one of its calls was refused
\* because the token was no longer good, and the scan went on without the answer.
Thread == [pc: {"idle", "asking", "posting", "arriving"} \cup Scanning,
           repo: Repos \cup {None}, token: Token, at: Nat, unread: BOOLEAN]

TypeOK ==
  /\ now \in Nat \ {0}
  /\ selection \in [Repos -> Selections] /\ left \in [Repos -> Nat]
  /\ cache \in [Repos -> Token]
  /\ thread \in [Threads -> Thread]
  /\ \A t \in Threads : thread[t].pc # "idle" => thread[t].repo \in Repos

Idle == [pc |-> "idle", repo |-> None, token |-> NoToken, at |-> 0, unread |-> FALSE]

Init ==
  /\ now = 1
  /\ selection = [r \in Repos |-> "selected"] /\ left = [r \in Repos |-> 0]
  /\ cache = [r \in Repos |-> NoToken]
  /\ thread = [t \in Threads |-> Idle]

-----------------------------------------------------------------------------
\* Mutated: the cached token is used until the life the cache assumes is over.
ReusableToEnd(token) == token.expires > now

\* A cached token is reused while more than the margin is left.
Reusable(token) == token.expires - now > Margin

Scan(r, token) == [pc |-> "opening", repo |-> r, token |-> token, at |-> now, unread |-> FALSE]

\* token_for_repo: a hit.
Hit(t, r) ==
  /\ thread[t].pc = "idle" /\ Reusable(cache[r])
  /\ thread' = [thread EXCEPT ![t] = Scan(r, cache[r])]
  /\ UNCHANGED <<now, selection, left, cache>>

\* A miss asks for the installation of the repository.
Miss(t, r) ==
  /\ thread[t].pc = "idle" /\ ~Reusable(cache[r])
  /\ thread' = [thread EXCEPT ![t] = [Idle EXCEPT !.pc = "asking", !.repo = r]]
  /\ UNCHANGED <<now, selection, left, cache>>

\* installation_for_repo: only a selected-repositories installation will do.
Installed(t) ==
  /\ thread[t].pc = "asking" /\ selection[thread[t].repo] = "selected"
  /\ thread' = [thread EXCEPT ![t].pc = "posting"]
  /\ UNCHANGED <<now, selection, left, cache>>

\* GitHub issues a token.  Its scope is what the installation covers of the
\* repositories asked for by name: another one of that name after a transfer.
Issue(t) ==
  /\ thread[t].pc = "posting" /\ selection[thread[t].repo] = "selected"
  /\ \E scope \in {{thread[t].repo}, {}} \cup {{r} : r \in Repos} :
       thread' = [thread EXCEPT ![t] = [Idle EXCEPT !.pc = "arriving", !.repo = thread[t].repo,
                    !.token = [scope |-> scope, issued |-> now, expires |-> 0]]]
  /\ UNCHANGED <<now, selection, left, cache>>

\* Mutated: the scope that was granted is not looked at.
ExactAny(t) == TRUE

\* The token is for exactly the repository asked for.
Exact(t) == thread[t].token.scope = {thread[t].repo}

\* The answer arrives: the token is stored for its repository and used.
Arrive(t) ==
  /\ thread[t].pc = "arriving" /\ Exact(t)
  /\ LET token == [thread[t].token EXCEPT !.expires = now + Assumed]
     IN  /\ cache' = [cache EXCEPT ![thread[t].repo] = token]
         /\ thread' = [thread EXCEPT ![t] = Scan(thread[t].repo, token)]
  /\ UNCHANGED <<now, selection, left>>

\* Refused: not installed, not only selected repositories, another scope, or
\* GitHub does not answer in time.
Fail(t) ==
  /\ thread[t].pc \in {"asking", "posting", "arriving"}
  /\ thread' = [thread EXCEPT ![t] = Idle]
  /\ UNCHANGED <<now, selection, left, cache>>

\* GitHub no longer honours a token that has expired, and may refuse one issued
\* before the installation changed.
Expired(t) == now > thread[t].token.issued + Life
Withdrawn(t) == left[thread[t].repo] >= thread[t].token.issued
Lapsed(t) == Expired(t) \/ Withdrawn(t)

\* The calls a scan needs are answered.
Opened(t) ==
  /\ thread[t].pc = "opening" /\ ~Expired(t) /\ selection[thread[t].repo] # "none"
  /\ thread' = [thread EXCEPT ![t].pc = "reading"]
  /\ UNCHANGED <<now, selection, left, cache>>

\* One of them is refused: the scan fails (raise_for_status).
Refuse(t) ==
  /\ thread[t].pc = "opening" /\ Lapsed(t)
  /\ thread' = [thread EXCEPT ![t] = Idle]
  /\ UNCHANGED <<now, selection, left, cache>>

\* A call the scan can do without is refused: it counts nothing there, or lists
\* the file as uninspected, and goes on.
Skip(t) ==
  /\ thread[t].pc = "reading" /\ Lapsed(t)
  /\ thread' = [thread EXCEPT ![t].unread = TRUE]
  /\ UNCHANGED <<now, selection, left, cache>>

\* The last call is done (head_sha makes only calls it needs), or the connection
\* fails.
Finish(t) ==
  /\ thread[t].pc \in Scanning
  /\ thread' = [thread EXCEPT ![t] = Idle]
  /\ UNCHANGED <<now, selection, left, cache>>

\* The owner changes how the App is installed.
Select(r, how) ==
  /\ how # selection[r]
  /\ selection' = [selection EXCEPT ![r] = how]
  /\ left' = IF selection[r] = "selected" THEN [left EXCEPT ![r] = now] ELSE left
  /\ UNCHANGED <<now, cache, thread>>

Tick ==
  /\ now < MaxTime
  /\ now' = now + 1
  /\ UNCHANGED <<selection, left, cache, thread>>

Next ==
  \/ \E t \in Threads :
       \/ \E r \in Repos : Hit(t, r) \/ Miss(t, r)
       \/ Installed(t) \/ Issue(t) \/ Arrive(t) \/ Fail(t)
       \/ Opened(t) \/ Refuse(t) \/ Skip(t) \/ Finish(t)
  \/ \E r \in Repos, how \in Selections : Select(r, how)
  \/ Tick

Spec == Init /\ [][Next]_vars

-----------------------------------------------------------------------------
\* The arrival of a token, and how long GitHub's answer took.
ArrivedAt(token) == token.expires - Assumed
Delay(token) == ArrivedAt(token) - token.issued

\* What the 120 s margin and the 300 s by which the cache underestimates a token's
\* life are worth (token_for_repo): evidence is left unread for want of a good token
\* only if the installation changed, or if this scan and the answer that brought
\* the token took longer than these 420 s together.  A longer scan does lose
\* evidence: nothing renews its token or ends it.
UnreadOnlyByLongScans ==
  \A t \in Threads : thread[t].unread =>
    \/ Withdrawn(t)
    \/ (now - thread[t].at) + Delay(thread[t].token) > Life - (Assumed - Margin)

\* A repository is read only with a token for that repository alone, whichever
\* threads filled the cache ("It cannot be reused to read another repository").
TokensAreExact ==
  \A t \in Threads : thread[t].pc \in Scanning => thread[t].token.scope = {thread[t].repo}

\* Nothing asks GitHub about the installation while a token is kept, so access that
\* is withdrawn or widened may still be used; but no scan begins on it later than
\* a kept token is reused.
StaleAccessBounded ==
  \A t \in Threads :
    thread[t].pc \in Scanning /\ selection[thread[t].repo] # "selected"
      => thread[t].at - left[thread[t].repo] <= Delay(thread[t].token) + (Assumed - Margin)

\* What keeps the three: what the cache and the threads hold is exact, was issued
\* while the App was installed as required, and arrived after it was issued.
FreshToken(r, token) ==
  /\ token.issued <= now
  /\ selection[r] # "selected" => token.issued <= left[r]

\* A token that arrived is for its repository alone.
KeptToken(r, token) ==
  /\ FreshToken(r, token)
  /\ token.scope = {r}
  /\ token.issued + Assumed <= token.expires

CacheInv ==
  \A r \in Repos : FreshToken(r, cache[r]) /\ (cache[r].expires # 0 => KeptToken(r, cache[r]))

ArrivingInv ==
  \A t \in Threads : thread[t].pc = "arriving" => FreshToken(thread[t].repo, thread[t].token)

ScanningInv ==
  \A t \in Threads :
    /\ thread[t].pc \in Scanning =>
         /\ KeptToken(thread[t].repo, thread[t].token)
         /\ thread[t].at + Margin <= thread[t].token.expires
    /\ thread[t].unread => thread[t].pc = "reading" /\ Lapsed(t)

TokenInv == TypeOK /\ CacheInv /\ ArrivingInv /\ ScanningInv

=============================================================================
