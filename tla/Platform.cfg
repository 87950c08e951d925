SPECIFICATION Spec
CONSTANTS
  ann = ann
  north = north
  south = south
  kid = kid
  d1 = d1
  d2 = d2
  v1 = v1
  v2 = v2
  Users = {ann}
  Orgs = {north, south}
  Clients = {kid}
  ClientOrg <- MCClientOrg
  Admins = {}
  Hires = {"staff"}
  Deliveries = {d1, d2}
  MaxTime = 1
  MaxChanges = 2
  Visits = {v1, v2}
  Environments <- MCEnvironments
  MaxArrivals = 2
  MaxReloads = 1
  Tenants = {north, south}
  TenantTables = {"clients", "audit_events", "invitations", "organization_members", "client_user_links"}
  GlobalTables = {"users"}
  Targets <- MCTargets
  MainLike = {"ep-main"}
  NonMain = {"ep-preview"}
  HandGrants <- MCGrants
  HandSecurities <- MCSecurities
  MaxEdits = 3
SYMMETRY Symmetry
INVARIANTS
  SignedOutStaysOut
  ProcessedDeletionRevokes
  UndisturbedResolution
  OneRuntime
  AcceptedIsIsolated
CHECK_DEADLOCK FALSE
