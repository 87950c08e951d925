--------------------------- MODULE PlaybookContent ---------------------------
(***************************************************************************)
(* The content of a playbook version: its structural validation, what of   *)
(* it makes a version of high impact, and what of it blocks approval       *)
(* (packages/rules/src/playbook.ts), with the ten seeded Golden Key drafts *)
(* (packages/shared/src/data/playbook-seeds.ts).  A text is an opaque      *)
(* string; only blank text (NoText) is told apart.                         *)
(***************************************************************************)
EXTENDS ReviewKernel, Sequences

NoText == ""

FIELD_PROVENANCE_STATES == {"confirmed", "assumption", "discovery_required", "approved"}

PLAYBOOK_CONTENT_FIELDS ==
  {"purpose", "applicableStages", "triggeringConditions", "requiredFacts",
   "requiredDocuments", "calculations", "questionSequence", "educationContent",
   "recommendedActions", "prohibitedActions", "humanReviewCheckpoints",
   "escalationCriteria", "completionEvidence", "outcomeMetrics"}

PLAYBOOK_TRIGGER_KINDS == {"reason_code", "engagement_status", "fact_threshold", "manual"}

LIFECYCLE_STAGES ==
  {"recovery", "stabilization", "credit_readiness", "capital_readiness", "acquisition",
   "maintenance", "growth", "legacy"}

Entries(s) == {s[i] : i \in DOMAIN s}

\* The ids of a list are not blank and no two are the same.
IdsAreDistinct(s) ==
  /\ \A i \in DOMAIN s : s[i].id # NoText
  /\ \A i, j \in DOMAIN s : s[i].id = s[j].id => i = j

\* A checkpoint that only an artifact type is known of never sets its own risk
\* and role below the baseline: a lowering is an authoring error here, where
\* resolveReviewPolicy would correct it silently.
KeepsFloor(cp) ==
  /\ ResolveRisk(cp.artifactType, cp.riskClassification) = cp.riskClassification
  /\ ResolveRole(cp.artifactType, cp.requiredReviewerRole) = cp.requiredReviewerRole

StagesValid(c) ==
  /\ c.purpose # NoText
  /\ c.applicableStages # <<>>
  /\ Entries(c.applicableStages) \subseteq LIFECYCLE_STAGES

TriggersValid(c) ==
  \A t \in Entries(c.triggeringConditions) :
    /\ t.kind \in PLAYBOOK_TRIGGER_KINDS
    /\ t.value # NoText
    /\ t.kind = "fact_threshold" => t.ruleId # NoText

\* A play names something it must never do; a calculation is a rule id, which
\* nobody looks up in the registry.
ListsValid(c) ==
  /\ NoText \notin UNION {Entries(s) : s \in {c.requiredFacts, c.requiredDocuments,
       c.educationContent, c.completionEvidence, c.outcomeMetrics, c.prohibitedActions,
       c.calculations}}
  /\ c.prohibitedActions # <<>>

StepsValid(c) ==
  /\ IdsAreDistinct(c.questionSequence)
  /\ \A q \in Entries(c.questionSequence) : q.prompt # NoText
  /\ IdsAreDistinct(c.recommendedActions)
  /\ \A a \in Entries(c.recommendedActions) : a.summary # NoText /\ a.category # NoText

StepIds(c) ==
  {s.id : s \in Entries(c.recommendedActions) \cup Entries(c.questionSequence)}

CheckpointsValid(c) ==
  /\ IdsAreDistinct(c.humanReviewCheckpoints)
  /\ \A cp \in Entries(c.humanReviewCheckpoints) :
       /\ cp.afterStep \in StepIds(c)
       /\ cp.artifactType \in REVIEW_ARTIFACT_TYPES
       /\ cp.riskClassification \in REVIEW_RISK_CLASSES
       /\ cp.requiredReviewerRole \in REVIEWER_ROLES
       /\ KeepsFloor(cp)

EscalationsValid(c) ==
  /\ IdsAreDistinct(c.escalationCriteria)
  /\ \A e \in Entries(c.escalationCriteria) :
       e.condition # NoText /\ e.escalateToRole \in REVIEWER_ROLES

\* validatePlaybookContent returns no error.  Every field has one provenance.
ValidPlaybookContent(c) ==
  /\ StagesValid(c) /\ TriggersValid(c) /\ ListsValid(c) /\ StepsValid(c)
  /\ CheckpointsValid(c) /\ EscalationsValid(c)
  /\ c.fieldProvenance \in [PLAYBOOK_CONTENT_FIELDS -> FIELD_PROVENANCE_STATES]

IsHighImpactPlaybookContent(c) ==
  \E cp \in Entries(c.humanReviewCheckpoints) : cp.riskClassification = "high"

ContentBlocksApproval(c) ==
  {f \in PLAYBOOK_CONTENT_FIELDS : c.fieldProvenance[f] = "discovery_required"}

-----------------------------------------------------------------------------
(***************************************************************************)
(* The seeds: generic scaffolding whose process-specific fields are left   *)
(* to the founder's answers.                                               *)
(***************************************************************************)
DISCOVERY_FIELDS ==
  {"triggeringConditions", "questionSequence", "escalationCriteria", "completionEvidence",
   "outcomeMetrics", "requiredDocuments", "humanReviewCheckpoints", "recommendedActions"}

\* The fields a seed puts a question to the founder about.
COMMON_DISCOVERY ==
  <<"triggeringConditions", "questionSequence", "escalationCriteria", "completionEvidence",
    "outcomeMetrics", "requiredDocuments", "humanReviewCheckpoints", "recommendedActions",
    "triggeringConditions">>

Provenance ==
  [f \in PLAYBOOK_CONTENT_FIELDS |->
     IF f \in DISCOVERY_FIELDS THEN "discovery_required" ELSE "assumption"]

Draft(key, stages, facts, documents, calculations, category) ==
  [purpose |-> key, applicableStages |-> stages,
   triggeringConditions |-> <<[kind |-> "manual", value |-> "placeholder", ruleId |-> NoText]>>,
   requiredFacts |-> facts, requiredDocuments |-> documents, calculations |-> calculations,
   questionSequence |-> <<>>, educationContent |-> <<>>,
   recommendedActions |-> <<[id |-> "a1", summary |-> key, category |-> category]>>,
   prohibitedActions |-> <<"no promised score", "no regulated advice", "no contact">>,
   humanReviewCheckpoints |->
     <<[id |-> "cp-roadmap", afterStep |-> "a1", artifactType |-> "roadmap_draft",
        riskClassification |-> "high", requiredReviewerRole |-> "staff"]>>,
   escalationCriteria |->
     <<[id |-> "e-placeholder", condition |-> "out of scope",
        escalateToRole |-> "organization_admin"]>>,
   completionEvidence |-> <<>>, outcomeMetrics |-> <<>>, fieldProvenance |-> Provenance]

GOLDEN_KEY_PLAYBOOK_DRAFTS ==
  {Draft("high-utilization-recovery", <<"stabilization", "credit_readiness">>,
     <<"revolving_balance_total", "credit_limit_total">>, <<"credit_report">>,
     <<"readiness.utilization">>, "payment"),
   Draft("past-due-stabilization", <<"recovery", "stabilization">>, <<"past_due_accounts">>,
     <<"credit_report", "bank_statement">>, <<>>, "payment"),
   Draft("collections-preparation", <<"recovery">>, <<"collection_accounts">>,
     <<"credit_report", "identification">>, <<>>, "documentation"),
   Draft("thin-credit-profile", <<"credit_readiness">>, <<"open_tradeline_count">>,
     <<"credit_report">>, <<>>, "habit"),
   Draft("rental-readiness", <<"credit_readiness", "capital_readiness">>,
     <<"monthly_income", "monthly_obligations">>,
     <<"income_verification", "bank_statement", "identification">>, <<>>, "documentation"),
   Draft("mortgage-readiness", <<"capital_readiness", "acquisition">>,
     <<"monthly_income", "monthly_obligations", "savings_balance">>,
     <<"income_verification", "bank_statement", "credit_report">>,
     <<"readiness.utilization">>, "documentation"),
   Draft("emergency-savings", <<"stabilization">>, <<"savings_balance", "monthly_income">>,
     <<"bank_statement">>, <<>>, "savings"),
   Draft("debt-overload", <<"recovery", "stabilization">>,
     <<"monthly_obligations", "monthly_income">>, <<"credit_report", "bank_statement">>,
     <<>>, "payment"),
   Draft("business-capital-document-readiness", <<"capital_readiness">>,
     <<"business_revenue_monthly">>, <<"bank_statement", "income_verification", "other">>,
     <<>>, "documentation"),
   Draft("client-reengagement", <<"maintenance">>, <<"last_activity_at">>, <<>>, <<>>,
     "education")}

\* What the seed file promises of its drafts: every one is structurally valid
\* and of high impact, none can be approved as it stands, and every field that
\* blocks it has a question in the discovery queue.
SeedsAreBlockedDrafts ==
  \A c \in GOLDEN_KEY_PLAYBOOK_DRAFTS :
    /\ ValidPlaybookContent(c)
    /\ IsHighImpactPlaybookContent(c)
    /\ ContentBlocksApproval(c) # {}
    /\ ContentBlocksApproval(c) = Entries(COMMON_DISCOVERY)

=============================================================================
