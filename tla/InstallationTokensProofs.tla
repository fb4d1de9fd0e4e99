---------------------- MODULE InstallationTokensProofs ----------------------
(***************************************************************************)
(* For any number of threads and repositories, any life, margin and delay  *)
(* and scans of any length: tokens are exact, evidence is left unread only *)
(* by a scan that outlasts the reserve of its token, and no scan begins on *)
(* withdrawn access later than a kept token is reused.                     *)
(***************************************************************************)
EXTENDS InstallationTokens, TLAPS

USE TimeAssumption

\* An idle thread and an empty cache have the right shape.
LEMMA IdleType == Idle \in Thread /\ NoToken \in Token
  BY DEF Idle, Thread, NoToken, Token

LEMMA InitInv == Init => TokenInv
<1> SUFFICES ASSUME Init PROVE TokenInv
  OBVIOUS
<1>1. TypeOK
  BY IdleType DEF Init, TypeOK, Idle, Selections
<1>2. CacheInv
  BY DEF Init, CacheInv, FreshToken, NoToken
<1>3. ArrivingInv /\ ScanningInv
  BY DEF Init, ArrivingInv, ScanningInv, Idle, Scanning
<1> QED
  BY <1>1, <1>2, <1>3 DEF TokenInv

\* What a thread's new state must satisfy for the invariant to hold again.
ThreadOK(value) ==
  /\ value \in Thread
  /\ value.pc # "idle" => value.repo \in Repos
  /\ value.pc = "arriving" => FreshToken(value.repo, value.token)
  /\ value.pc \in Scanning =>
       /\ KeptToken(value.repo, value.token)
       /\ value.at + Margin <= value.token.expires
  /\ value.unread =>
       /\ value.pc = "reading"
       /\ now > value.token.issued + Life \/ left[value.repo] >= value.token.issued

\* A step of one thread.
LEMMA ThreadStep ==
  ASSUME TokenInv, NEW t \in Threads, NEW value, ThreadOK(value),
         thread' = [thread EXCEPT ![t] = value],
         UNCHANGED <<now, selection, left>>,
         cache' \in [Repos -> Token], CacheInv'
  PROVE  TokenInv'
<1>1. TypeOK'
  BY DEF TokenInv, TypeOK, ThreadOK
<1>2. ArrivingInv'
  BY DEF TokenInv, TypeOK, ArrivingInv, FreshToken, ThreadOK
<1>3. ScanningInv'
  BY DEF TokenInv, TypeOK, ScanningInv, FreshToken, KeptToken, Lapsed, Expired, Withdrawn, ThreadOK
<1> QED
  BY <1>1, <1>2, <1>3 DEF TokenInv

\* The cache is not touched.
LEMMA CacheUnchanged ==
  ASSUME TokenInv, UNCHANGED <<now, selection, left, cache>>
  PROVE  cache' \in [Repos -> Token] /\ CacheInv'
  BY DEF TokenInv, TypeOK, CacheInv, FreshToken, KeptToken

\* A scan that begins with a token that was kept.
LEMMA ScanBegins ==
  ASSUME now \in Nat \ {0}, NEW r \in Repos, NEW token \in Token, KeptToken(r, token),
         now + Margin <= token.expires
  PROVE  ThreadOK(Scan(r, token))
  BY DEF ThreadOK, Scan, Thread, Scanning

LEMMA NextInv == TokenInv /\ [Next]_vars => TokenInv'
<1> SUFFICES ASSUME TokenInv, [Next]_vars PROVE TokenInv'
  OBVIOUS
<1> USE DEF TokenInv
<1>1. ASSUME NEW t \in Threads, NEW r \in Repos, Hit(t, r) PROVE TokenInv'
  <2>1. cache[r] \in Token /\ now \in Nat \ {0}
    BY DEF TypeOK
  <2>2. now + Margin <= cache[r].expires /\ cache[r].expires # 0
    BY <1>1, <2>1 DEF Hit, Reusable, Token
  <2>3. ThreadOK(Scan(r, cache[r]))
    BY <2>1, <2>2, ScanBegins DEF CacheInv
  <2> QED
    BY <1>1, <2>3, ThreadStep, CacheUnchanged DEF Hit
<1>2. ASSUME NEW t \in Threads, NEW r \in Repos, Miss(t, r) PROVE TokenInv'
  <2>1. ThreadOK([Idle EXCEPT !.pc = "asking", !.repo = r])
    BY IdleType DEF ThreadOK, Idle, Thread, Scanning
  <2> QED
    BY <1>2, <2>1, ThreadStep, CacheUnchanged DEF Miss
<1>3. ASSUME NEW t \in Threads, Installed(t) PROVE TokenInv'
  <2>1. ThreadOK([thread[t] EXCEPT !.pc = "posting"])
    BY <1>3 DEF Installed, TypeOK, ScanningInv, Thread, ThreadOK, Scanning
  <2> QED
    BY <1>3, <2>1, ThreadStep, CacheUnchanged DEF Installed
<1>4. ASSUME NEW t \in Threads, Issue(t) PROVE TokenInv'
  <2>1. PICK scope \in {{thread[t].repo}, {}} \cup {{r} : r \in Repos} :
          thread' = [thread EXCEPT ![t] = [Idle EXCEPT !.pc = "arriving", !.repo = thread[t].repo,
                       !.token = [scope |-> scope, issued |-> now, expires |-> 0]]]
    BY <1>4 DEF Issue
  <2>2. /\ thread[t].repo \in Repos /\ selection[thread[t].repo] = "selected"
        /\ now \in Nat
    BY <1>4 DEF Issue, TypeOK
  <2>3. [scope |-> scope, issued |-> now, expires |-> 0] \in Token
    BY <2>2 DEF Token
  <2>4. FreshToken(thread[t].repo, [scope |-> scope, issued |-> now, expires |-> 0])
    BY <2>2 DEF FreshToken
  <2>5. ThreadOK([Idle EXCEPT !.pc = "arriving", !.repo = thread[t].repo,
                    !.token = [scope |-> scope, issued |-> now, expires |-> 0]])
    BY <2>2, <2>3, <2>4, IdleType DEF ThreadOK, Idle, Thread, Scanning
  <2> QED
    BY <1>4, <2>1, <2>5, ThreadStep, CacheUnchanged DEF Issue
<1>5. ASSUME NEW t \in Threads, Arrive(t) PROVE TokenInv'
  <2> DEFINE repo == thread[t].repo
             token == [thread[t].token EXCEPT !.expires = now + Assumed]
  <2>1. repo \in Repos /\ now \in Nat \ {0} /\ thread[t].token \in Token
    BY <1>5 DEF Arrive, TypeOK, Thread
  <2>2. /\ token \in Token /\ token.scope = {repo}
        /\ token.issued = thread[t].token.issued /\ token.expires = now + Assumed
    BY <1>5, <2>1 DEF Arrive, Exact, Token
  <2>3. FreshToken(repo, token)
    BY <1>5, <2>1, <2>2 DEF Arrive, ArrivingInv, FreshToken
  <2>4. token.issued \in Nat /\ token.issued <= now
    BY <2>2, <2>3 DEF Token, FreshToken
  <2>5. KeptToken(repo, token) /\ now + Margin <= token.expires
    BY <2>1, <2>2, <2>3, <2>4 DEF KeptToken
  <2>6. /\ thread' = [thread EXCEPT ![t] = Scan(repo, token)]
        /\ cache' = [cache EXCEPT ![repo] = token]
        /\ UNCHANGED <<now, selection, left>>
    BY <1>5 DEF Arrive
  <2> HIDE DEF token, repo
  <2>7. ThreadOK(Scan(repo, token))
    BY <2>1, <2>2, <2>5, ScanBegins
  <2>8. cache' \in [Repos -> Token]
    BY <2>1, <2>2, <2>6 DEF TypeOK
  <2>9. CacheInv'
    BY <2>1, <2>3, <2>5, <2>6 DEF TypeOK, CacheInv, FreshToken, KeptToken
  <2> QED
    BY <2>6, <2>7, <2>8, <2>9, ThreadStep
<1>6. ASSUME NEW t \in Threads, Fail(t) \/ Refuse(t) \/ Finish(t) PROVE TokenInv'
  <2>1. ThreadOK(Idle)
    BY IdleType DEF ThreadOK, Idle, Scanning
  <2> QED
    BY <1>6, <2>1, ThreadStep, CacheUnchanged DEF Fail, Refuse, Finish
<1>7. ASSUME NEW t \in Threads, Opened(t) PROVE TokenInv'
  <2>1. ThreadOK([thread[t] EXCEPT !.pc = "reading"])
    BY <1>7 DEF Opened, TypeOK, ScanningInv, Thread, ThreadOK, Scanning
  <2> QED
    BY <1>7, <2>1, ThreadStep, CacheUnchanged DEF Opened
<1>8. ASSUME NEW t \in Threads, Skip(t) PROVE TokenInv'
  <2>1. ThreadOK([thread[t] EXCEPT !.unread = TRUE])
    BY <1>8 DEF Skip, TypeOK, ScanningInv, Thread, ThreadOK, Scanning, Lapsed, Expired, Withdrawn
  <2> QED
    BY <1>8, <2>1, ThreadStep, CacheUnchanged DEF Skip
<1>9. ASSUME NEW r \in Repos, NEW how \in Selections, Select(r, how) PROVE TokenInv'
  <2>1. TypeOK'
    BY <1>9 DEF Select, TypeOK
  <2>2. ASSUME NEW q \in Repos, NEW token, FreshToken(q, token) PROVE FreshToken(q, token)'
    BY <1>9, <2>2 DEF Select, FreshToken, TypeOK
  <2>3. CacheInv'
    BY <1>9, <2>2 DEF Select, CacheInv, KeptToken
  <2>4. ArrivingInv'
    BY <1>9, <2>2 DEF Select, ArrivingInv, TypeOK
  <2>5. \A t \in Threads : thread[t] \in Thread /\ (thread[t].pc # "idle" => thread[t].repo \in Repos)
    BY DEF TypeOK
  <2>6. ASSUME NEW t \in Threads, thread[t].unread PROVE Lapsed(t)'
    <3>1. thread[t].pc = "reading" /\ Lapsed(t) /\ thread[t].repo \in Repos
      BY <2>5, <2>6 DEF ScanningInv
    <3>2. thread[t].token.issued <= now
      BY <3>1 DEF ScanningInv, Scanning, KeptToken, FreshToken
    <3> QED
      BY <1>9, <3>1, <3>2 DEF Select, TypeOK, Lapsed, Expired, Withdrawn
  <2>7. ScanningInv'
    BY <1>9, <2>2, <2>5, <2>6 DEF Select, ScanningInv, KeptToken, Scanning
  <2> QED
    BY <2>1, <2>3, <2>4, <2>7
<1>10. ASSUME Tick PROVE TokenInv'
  <2>1. TypeOK' /\ now' = now + 1 /\ now \in Nat /\ UNCHANGED <<selection, left, cache, thread>>
    BY <1>10 DEF Tick, TypeOK
  <2>2. ASSUME NEW q \in Repos, NEW token \in Token, FreshToken(q, token) PROVE FreshToken(q, token)'
    BY <2>1, <2>2 DEF FreshToken, Token
  <2>3. CacheInv'
    BY <2>1, <2>2 DEF CacheInv, KeptToken, TypeOK
  <2>4. \A t \in Threads : /\ thread[t] \in Thread /\ thread[t].token \in Token
                           /\ thread[t].pc # "idle" => thread[t].repo \in Repos
    BY DEF TypeOK, Thread
  <2>5. ArrivingInv'
    BY <2>1, <2>2, <2>4 DEF ArrivingInv
  <2>6. ASSUME NEW t \in Threads, Lapsed(t) PROVE Lapsed(t)'
    BY <2>1, <2>4, <2>6 DEF Lapsed, Expired, Withdrawn, Token
  <2>7. ScanningInv'
    BY <2>1, <2>2, <2>4, <2>6 DEF ScanningInv, KeptToken, Scanning
  <2> QED
    BY <2>1, <2>3, <2>5, <2>7
<1>11. CASE UNCHANGED vars
  BY <1>11 DEF vars, TypeOK, CacheInv, ArrivingInv, ScanningInv, FreshToken, KeptToken,
               Lapsed, Expired, Withdrawn
<1> QED
  BY <1>1, <1>2, <1>3, <1>4, <1>5, <1>6, <1>7, <1>8, <1>9, <1>10, <1>11 DEF Next

\* The strengthening holds in every state of every instance.
THEOREM TokenInvariant == Spec => []TokenInv
  BY InitInv, NextInv, PTL DEF Spec

\* The cache's arithmetic is right: whatever GitHub's delays, a scan no longer than
\* the reserve loses no evidence to the end of its token.
THEOREM ShortScansReadEverything == Spec => []UnreadOnlyByLongScans
<1>1. ASSUME TokenInv, NEW t \in Threads, thread[t].unread, ~Withdrawn(t)
      PROVE  (now - thread[t].at) + Delay(thread[t].token) > Life - (Assumed - Margin)
  <2>1. now \in Nat /\ thread[t] \in Thread
    BY <1>1 DEF TokenInv, TypeOK
  <2>2. thread[t].token \in Token /\ thread[t].at \in Nat
    BY <2>1 DEF Thread
  <2>3. thread[t].token.issued \in Nat /\ thread[t].token.expires \in Nat
    BY <2>2 DEF Token
  <2>4. now > thread[t].token.issued + Life /\ thread[t].at + Margin <= thread[t].token.expires
    BY <1>1 DEF TokenInv, ScanningInv, Lapsed, Expired, Scanning
  <2> QED
    BY <2>1, <2>2, <2>3, <2>4 DEF Delay, ArrivedAt
<1>2. TokenInv => UnreadOnlyByLongScans
  BY <1>1 DEF UnreadOnlyByLongScans
<1> QED
  BY <1>2, TokenInvariant, PTL

\* No thread reads with a token that covers another repository.
THEOREM ExactTokens == Spec => []TokensAreExact
<1>1. TokenInv => TokensAreExact
  BY DEF TokenInv, ScanningInv, KeptToken, TokensAreExact
<1> QED
  BY <1>1, TokenInvariant, PTL

\* After access is withdrawn or widened, scans begin on it for at most the delay of
\* the token's answer and Assumed - Margin.
THEOREM WithdrawalTakesEffect == Spec => []StaleAccessBounded
<1>1. ASSUME TokenInv, NEW t \in Threads, thread[t].pc \in Scanning, selection[thread[t].repo] # "selected"
      PROVE  thread[t].at - left[thread[t].repo] <= Delay(thread[t].token) + (Assumed - Margin)
  <2>1. thread[t] \in Thread /\ thread[t].repo \in Repos
    BY <1>1 DEF TokenInv, TypeOK, Scanning
  <2>2. thread[t].token \in Token /\ thread[t].at \in Nat /\ left[thread[t].repo] \in Nat
    BY <1>1, <2>1 DEF TokenInv, TypeOK, Thread
  <2>3. thread[t].token.issued \in Nat /\ thread[t].token.expires \in Nat
    BY <2>2 DEF Token
  <2>4. /\ thread[t].token.issued <= left[thread[t].repo]
        /\ thread[t].at + Margin <= thread[t].token.expires
    BY <1>1 DEF TokenInv, ScanningInv, KeptToken, FreshToken
  <2> QED
    BY <2>2, <2>3, <2>4 DEF Delay, ArrivedAt
<1>2. TokenInv => StaleAccessBounded
  BY <1>1 DEF StaleAccessBounded
<1> QED
  BY <1>2, TokenInvariant, PTL

=============================================================================
