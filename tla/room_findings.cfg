\* Two sessions on one snapshot, two replicas, two requests; authorizations
\* change.  No symmetry: the run checks liveness.
SPECIFICATION FairSpec
CONSTANTS
  s1 = s1
  s2 = s2
  k1 = k1
  k2 = k2
  ta = ta
  tb = tb
  f1 = f1
  f2 = f2
  None = None
  Sessions = {s1, s2}
  Keys = {k1, k2}
  Texts = {ta, tb}
  Findings = {f1, f2}
  FrozenFindings = {f1}
  FrozenPaths = {ta}
  OpeningFinding = f1
  MaxCoachingLevel = 5
  Requests = {r1, r2}
  Replicas = {p1, p2}
  MayLose = {"student"}
  Submissions <- FindingCalls
CHECK_DEADLOCK FALSE
PROPERTIES
  ImplementsAtomicReview
  EveryRequestAnswered
