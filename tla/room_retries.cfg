\* One session, two replicas, three requests that reuse one key.
SPECIFICATION Spec
CONSTANTS
  s1 = s1
  s2 = s2
  k1 = k1
  k2 = k2
  ta = ta
  tb = tb
  f1 = f1
  f2 = f2
  None = None
  Sessions = {s1}
  Keys = {k1, k2}
  Texts = {ta, tb}
  Findings = {f1, f2}
  FrozenFindings = {}
  FrozenPaths = {ta}
  OpeningFinding = None
  MaxCoachingLevel = 1
  Requests = {r1, r2, r3}
  Replicas = {p1, p2}
  MayLose = {}
  Submissions <- RetryCalls
SYMMETRY RoomSymmetry
CHECK_DEADLOCK FALSE
INVARIANTS
  TypeOK
  OneTurnPerKey
  AnswersAreStored
