SPECIFICATION Spec
CONSTANTS
  k1 = k1
  k2 = k2
  f1 = f1
  f2 = f2
  c1 = c1
  c2 = c2
  p1 = p1
  p2 = p2
  None = None
  Keys = {k1, k2}
  Commits = {c1, c2}
  FirstCommit = c1
  Demo = Demo
  Phases = {p1, p2}
  Pushes <- Forward
  Findings = {f1,f2}
  Starts = {r1,r2}
  Handlers = {h1}
  StartRequests <- CarryRequests
  Decisions <- Answers
  MaxContract = 1
  MayArchive = FALSE
  Onboardings = {}
CHECK_DEADLOCK FALSE
INVARIANT
  InheritedStateAccepted
