---------------------------- MODULE ReviewKernel ----------------------------
(***************************************************************************)
(* The pure Review Center kernel, packages/rules/src/review-center.ts.     *)
(*                                                                         *)
(* Roles, risks, states and decisions are the kernel's own vocabularies.   *)
(* An operator of the kernel that answers [allowed, reasonCode, ...] is    *)
(* here the predicate `allowed`: the reason codes only word the denial.    *)
(* Inputs are drawn from the vocabularies, so "unknown state" and "unknown *)
(* decision" denials have nothing to deny.                                 *)
(***************************************************************************)
EXTENDS Integers

REVIEW_ITEM_STATES ==
  {"draft", "awaiting_review", "approved", "published",
   "rejected", "deferred", "withdrawn", "superseded"}

REVIEWER_ROLES == {"staff", "organization_admin", "organization_owner"}

ROLE_RANK == [staff |-> 0, organization_admin |-> 1, organization_owner |-> 2]

REVIEW_RISK_CLASSES == {"low", "medium", "high"}

RISK_RANK == [low |-> 0, medium |-> 1, high |-> 2]

REVIEW_ARTIFACT_TYPES ==
  {"readiness_assessment", "roadmap_draft", "concierge_recommendation",
   "document_interpretation", "financial_summary", "educational_assignment",
   "partner_referral", "client_communication", "quarterly_report",
   "stage_advancement"}

(***************************************************************************)
(* The state machine: every legal move.                                    *)
(***************************************************************************)
ALLOWED ==
  [draft           |-> {"awaiting_review", "withdrawn", "superseded"},
   awaiting_review |-> {"approved", "rejected", "deferred", "withdrawn", "superseded"},
   approved        |-> {"published", "superseded"},
   published       |-> {"superseded"},
   rejected        |-> {},
   deferred        |-> {},
   withdrawn       |-> {},
   superseded      |-> {}]

ReviewItemTransition(from, to) == to \in ALLOWED[from]

TerminalReviewStates == {s \in REVIEW_ITEM_STATES : ALLOWED[s] = {}}

(***************************************************************************)
(* Decisions.  `escalated` stays in awaiting_review and raises the floor.  *)
(***************************************************************************)
DECISION_TO_STATE ==
  [approved_unchanged  |-> "approved",
   approved_with_edits |-> "approved",
   rejected            |-> "rejected",
   deferred            |-> "deferred",
   escalated           |-> "awaiting_review"]

REVIEW_DECISIONS == DOMAIN DECISION_TO_STATE

\* The decisions each structured reason code is declared valid for.
REVIEW_DECISION_REASON_CODES ==
  [RVD_ACCURATE                |-> {"approved_unchanged"},
   RVD_EDITED_TONE             |-> {"approved_with_edits"},
   RVD_EDITED_FACTS            |-> {"approved_with_edits"},
   RVD_EDITED_SCOPE            |-> {"approved_with_edits"},
   RVD_EDITED_COMPLIANCE       |-> {"approved_with_edits"},
   RVD_INACCURATE_FACTS        |-> {"rejected"},
   RVD_STALE_FACTS             |-> {"rejected", "deferred"},
   RVD_WRONG_CLIENT_CONTEXT    |-> {"rejected"},
   RVD_COMPLIANCE_RISK         |-> {"rejected", "escalated"},
   RVD_NOT_APPROPRIATE_NOW     |-> {"rejected", "deferred"},
   RVD_AWAITING_CLIENT_INPUT   |-> {"deferred"},
   RVD_AWAITING_DOCUMENT       |-> {"deferred"},
   RVD_AWAITING_STAFF_CAPACITY |-> {"deferred"},
   RVD_NEEDS_SENIOR_REVIEW     |-> {"escalated"},
   RVD_POLICY_QUESTION         |-> {"escalated"}]

\* escalateReviewerRole: the next rank up, null at the ceiling.
EscalateReviewerRole ==
  [staff              |-> "organization_admin",
   organization_admin |-> "organization_owner",
   organization_owner |-> "null"]

\* applyReviewDecision: is the decision allowed from this state?
DecisionAllowed(decision, from, modifiedFields, reason, floor) ==
  /\ from = "awaiting_review"
  /\ decision \in REVIEW_DECISION_REASON_CODES[reason]
  /\ decision = "approved_unchanged"  => modifiedFields = 0
  /\ decision = "approved_with_edits" => modifiedFields > 0
  /\ decision = "escalated"           => EscalateReviewerRole[floor] # "null"

\* applyReviewDecision: the required reviewer role after an allowed decision.
FloorAfter(decision, floor) ==
  IF decision = "escalated" THEN EscalateReviewerRole[floor] ELSE floor

(***************************************************************************)
(* Policy: an override can only raise the baseline of the artifact type.   *)
(***************************************************************************)
DEFAULT_RISK(type) == IF type = "educational_assignment" THEN "medium" ELSE "high"

DEFAULT_ROLE(type) == IF type = "partner_referral" THEN "organization_admin" ELSE "staff"

ResolveRisk(type, override) ==
  IF RISK_RANK[override] > RISK_RANK[DEFAULT_RISK(type)] THEN override ELSE DEFAULT_RISK(type)

ResolveRole(type, override) ==
  IF ROLE_RANK[override] > ROLE_RANK[DEFAULT_ROLE(type)] THEN override ELSE DEFAULT_ROLE(type)

AdminPlus(role) == role \in {"organization_admin", "organization_owner"}

\* Mutant: an author may review their own high-risk work.
CanReviewOwnWork(risk, floor, role, reviewer, author) ==
  ROLE_RANK[role] >= ROLE_RANK[floor]

\* canReview: the floor, and no self-review of high-risk work.
CanReview(risk, floor, role, reviewer, author) ==
  /\ ROLE_RANK[role] >= ROLE_RANK[floor]
  /\ risk = "high" => reviewer # author

\* canPublishReviewItem: high risk needs an admin whatever the item's floor.
CanPublishReviewItem(role, risk, floor) ==
  /\ ROLE_RANK[role] >= ROLE_RANK[floor]
  /\ risk = "high" => AdminPlus(role)

=============================================================================
