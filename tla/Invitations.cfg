SPECIFICATION CornerSpec
CONSTANTS
  ann = ann
  bo = bo
  north = north
  south = south
  kid = kid
  i1 = i1
  i2 = i2
  r1 = r1
  r2 = r2
  Users = {ann, bo}
  Orgs = {north, south}
  Clients = {kid}
  ClientOrg <- MCClientOrg
  Admins = {}
  Hires = {"organization_owner"}
  Deliveries = {}
  MaxTime = 1
  MaxChanges = 1
  Invites = {i1, i2}
  Requests = {r1, r2}
  Lifetime = 0
  MaxDenials = 1
SYMMETRY Symmetry
INVARIANTS
  AcceptedHasBinding
PROPERTIES
  BindingSpendsInvitation
CHECK_DEADLOCK FALSE
