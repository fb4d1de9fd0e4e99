\* A board, a focused and a finding review with every pair of shadows, three
\* dimensions that turns may establish, and planners that answer anything, from
\* nothing to inventions.
SPECIFICATION Spec
CONSTANTS
  FrozenRefs = {"frozen"}
  ObjectiveRefs = {"frozen"}
  Modes = {"board_review", "focused_review", "finding_review"}
  Selections = {{"frozen finding", "another finding"}}
  FrozenFindings = {"frozen finding"}
  Proposals <- SmallProposals
  Intents = {"other", "stuck", "disagreement", "self_correction"}
  RefSets = {{}, {"named"}}
  CandidateLists <- SmallLists
  SemanticNeeds = {"none", "SYNTHESIS"}
  OpeningLens = "evidence_auditor"
  Lenses = {"evidence_auditor", "red_team"}
  StallLimit = 1
CHECK_DEADLOCK FALSE
INVARIANTS
  EngineInv
  PlanServesTurn
PROPERTIES
  CorrectionsOnlyReopen
