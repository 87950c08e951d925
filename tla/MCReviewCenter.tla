--------------------------- MODULE MCReviewCenter ---------------------------
(***************************************************************************)
(* Small instances of ReviewCenter.                                        *)
(***************************************************************************)
EXTENDS ReviewMetrics

CONSTANTS ann, alma, olga, null, art, rev1, rev2

\* One reason code for each decision.
ReasonPerDecision ==
  {"RVD_ACCURATE", "RVD_EDITED_FACTS", "RVD_WRONG_CLIENT_CONTEXT",
   "RVD_AWAITING_DOCUMENT", "RVD_POLICY_QUESTION"}

AdminAlone == [m \in {alma} |-> "organization_admin"]

ApproveEscalate == {"RVD_ACCURATE", "RVD_COMPLIANCE_RISK"}

PairRoles == [m \in {ann, alma} |-> IF m = ann THEN "staff" ELSE "organization_admin"]

TeamRoles == [m \in {ann, alma, olga} |->
  IF m = ann THEN "staff" ELSE IF m = alma THEN "organization_admin" ELSE "organization_owner"]

HighRiskArtifact == [a \in {art} |-> "stage_advancement"]
MediumRiskArtifact == [a \in {art} |-> "educational_assignment"]

\* Both revisions carry one label: an edit need not bump the version.
OneLabel == [r \in {rev1, rev2} |-> "v1"]
TwoLabels == [r \in {rev1, rev2} |-> IF r = rev1 THEN "v1" ELSE "v2"]

NoOverride == {[risk |-> "low", role |-> "staff"]}
RaiseFloor == {[risk |-> "low", role |-> "staff"], [risk |-> "low", role |-> "organization_admin"]}

=============================================================================
