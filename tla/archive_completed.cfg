\* A student completes a review between the archive's query and its UPDATE.
SPECIFICATION ArchiveSpec
CONSTANTS
  s1 = s1
  s2 = s2
  k1 = k1
  k2 = k2
  ta = ta
  tb = tb
  f1 = f1
  f2 = f2
  None = None
  Sessions = {s1, s2}
  Keys = {k1, k2}
  Texts = {ta, tb}
  Findings = {f1, f2}
  FrozenFindings = {}
  FrozenPaths = {ta}
  OpeningFinding = None
  MaxCoachingLevel = 5
  Requests = {r1, r2}
  Replicas = {p1, p2}
  MayLose = {}
  Submissions <- ArchiveCalls
CHECK_DEADLOCK FALSE
PROPERTIES
  ArchiveClosesActiveReviews
