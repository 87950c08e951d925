--------------------------- MODULE MCBridgedReview ---------------------------
(***************************************************************************)
(* A roadmap and a quarterly report, with a staff author and an admin.     *)
(***************************************************************************)
EXTENDS BridgedReview

CONSTANTS ann, alma, null, roadmap, report, rev

PairRoles == [m \in {ann, alma} |-> IF m = ann THEN "staff" ELSE "organization_admin"]

RoadmapAndReport ==
  [a \in {roadmap, report} |-> IF a = roadmap THEN "roadmap_draft" ELSE "quarterly_report"]

Authors == [a \in {roadmap, report} |-> IF a = roadmap THEN ann ELSE null]

NoOverride == {[risk |-> "low", role |-> "staff"]}

OneLabel == [r \in {rev} |-> "1"]

=============================================================================
