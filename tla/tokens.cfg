\* Two threads, one repository, two lives of a token.
SPECIFICATION Spec
CONSTANTS
  Threads = {t1, t2}
  Repos = {a}
  Life = 4
  Assumed = 3
  Margin = 2
  MaxTime = 8
  None = None
SYMMETRY TokenSymmetry
CHECK_DEADLOCK FALSE
INVARIANTS
  TokenInv
  UnreadOnlyByLongScans
  StaleAccessBounded
