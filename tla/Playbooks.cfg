SPECIFICATION CornerSpec
CONSTANTS
  p1 = p1
  l1 = l1
  l2 = l2
  l3 = l3
  plain = plain
  risky = risky
  asking = asking
  lowered = lowered
  dangling = dangling
  sam = sam
  ann = ann
  olga = olga
  otto = otto
  pat = pat
  Books = {p1}
  Labels = {l1, l2, l3}
  NoLabel = NoLabel
  Contents = {plain, risky, asking}
  HighImpact = {risky, asking}
  Unresolved = {asking}
  Members = {sam, ann, olga, otto, pat}
  NoMember = NoMember
  RoleOf <- MCRoleOf
  PermitsOverride = TRUE
  MaxSaves = 3
CHECK_DEADLOCK FALSE
INVARIANTS
  SeparationOfDuties
  PublicationsChain
PROPERTIES
  VersionsAreAppendOnly
  PromiseKept
