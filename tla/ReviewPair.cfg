SPECIFICATION Spec
CONSTANTS
  ann = ann
  alma = alma
  olga = olga
  null = null
  art = art
  rev1 = rev1
  rev2 = rev2
  Members = {alma}
  RoleOf <- AdminAlone
  Null = null
  Artifacts = {art}
  TypeOf <- MediumRiskArtifact
  Revisions = {rev1, rev2}
  VersionOf <- TwoLabels
  WorkflowTypes = {"stage_advancement"}
  Overrides <- NoOverride
  EditCounts = {0}
  Reasons <- ApproveEscalate
  Digests = {"omitted"}
  MaxItems = 2
  MaxOutcomes = 0
INVARIANTS
  OneOpenReview
  SupersessionLinks
  ReadsAgree
PROPERTIES
  ClosedReviewsAreFinal
  ImplementsPromise
