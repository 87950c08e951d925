SPECIFICATION TablesSpec
CONSTANTS
  p1 = p1
  l1 = l1
  l2 = l2
  l3 = l3
  plain = plain
  sam = sam
  olga = olga
  r1 = r1
  r2 = r2
  i1 = i1
  yes = yes
  no = no
  v1 = v1
  v2 = v2
  q1 = q1
  q2 = q2
  alice = alice
  bob = bob
  first = first
  w1 = w1
  w2 = w2
  item1 = item1
  item2 = item2
  Books = {p1}
  Labels = {l1, l2, l3}
  NoLabel = NoLabel
  Contents = {plain}
  HighImpact = {}
  Unresolved = {}
  Members = {sam, olga}
  NoMember = NoMember
  RoleOf <- MCRoleOf
  PermitsOverride = FALSE
  MaxSaves = 1
  Requests = {r1, r2}
  Items = {i1}
  Actors = {sam, olga}
  NoActor = NoActor
  Answers = {yes, no}
  NoAnswer = NoAnswer
  Absorbers = {v1, v2}
  NoAbsorber = NoAbsorber
  Resolvers = {q1, q2}
  Reviewers = {alice, bob}
  Null = Null
  Writers = {w1, w2}
  Revisions = {first}
  VersionOf <- MCVersionOf
  Reasons <- MCReasons
  Floors = {"organization_admin"}
  Imported = {"deferred"}
  ItemIds = {item1, item2}
  MaxDecisions = 2
  MaxImported = 1
SYMMETRY Symmetry
CHECK_DEADLOCK FALSE
PROPERTIES
  ConvertedIsTerminal
