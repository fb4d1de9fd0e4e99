CONSTANTS
  owner = owner
  student = student
  fall = fall
  spring = spring
  Users = {owner, student}
  Terms = {fall, spring}
  Accounts = {a1, a2}
  Sessions = {k1, k2}
  Handlers = {h1, h2}
  Owner = owner
  Default = fall
  None = None
  Requests <- AdminRequests
SPECIFICATION Spec
SYMMETRY AccountSymmetry
INVARIANTS AccessInv AccountsAreExclusive
PROPERTIES RefusedForGood TermsMoveForward OwnershipIsNotRegained
