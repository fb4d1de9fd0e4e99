\* Three requests nominate, attempt, verify and reset two candidates and the kit.
SPECIFICATION FairSpec
CONSTANTS
  ann = ann
  ivy = ivy
  orgRepo = orgRepo
  annRepo = annRepo
  kit = kit
  org = org
  annAccount = annAccount
  None = None
  Users = {ann, ivy}
  Staff = {ivy}
  TestUser = ann
  StarterKit = kit
  Account <- LinkedAccount
  Owner <- OwnerOf
  Personal = {annRepo}
  Requests = {r1, r2, r3}
  Repos = {orgRepo, annRepo, kit}
  Asked <- TeamRequests
  Authorized = {orgRepo, kit}
  Selectable = {annRepo}
  Leavers = {ann}
  MayEnd = TRUE
CHECK_DEADLOCK FALSE
INVARIANTS
  OnboardingTypeOK
  EvidenceIsVerified
  AttemptIsForCandidate
PROPERTIES
  OnlyProvenRepositories
  VerifiedUntilReset
  ArchiveEndsConfiguration
  EveryRequestAnswered
