SPECIFICATION BridgedSpec
CONSTANTS
  ann = ann
  alma = alma
  null = null
  roadmap = roadmap
  report = report
  rev = rev
  Members = {ann, alma}
  RoleOf <- PairRoles
  Null = null
  Artifacts = {roadmap, report}
  TypeOf <- RoadmapAndReport
  RowAuthor <- Authors
  Revisions = {rev}
  VersionOf <- OneLabel
  WorkflowTypes = {"roadmap_draft"}
  Overrides <- NoOverride
  EditCounts = {0}
  Reasons = {"RVD_ACCURATE"}
  Digests = {"omitted"}
  MaxItems = 3
  MaxOutcomes = 1
INVARIANTS
  ShadowLockstep
  PublishedShadowWasApproved
  RevisionsFormAChain
PROPERTIES
  ShadowsMoveWithTheirRow
CHECK_DEADLOCK FALSE
