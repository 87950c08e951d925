SPECIFICATION Spec
CONSTANTS
  ann = ann
  alma = alma
  olga = olga
  null = null
  art = art
  rev1 = rev1
  rev2 = rev2
  Members = {ann, alma, olga}
  RoleOf <- TeamRoles
  Null = null
  Artifacts = {art}
  TypeOf <- HighRiskArtifact
  Revisions = {rev1, rev2}
  VersionOf <- OneLabel
  WorkflowTypes = {"stage_advancement"}
  Overrides <- RaiseFloor
  EditCounts = {0, 1}
  Reasons <- ReasonPerDecision
  Digests = {"omitted", "nonempty"}
  MaxItems = 1
  MaxOutcomes = 1
INVARIANTS
  PublishedWasApproved
  EscalationBinds
  DecidedWithinAssignment
PROPERTIES
  PublishesReviewedContent
