--------------------------- MODULE PlaybookKernel ---------------------------
(***************************************************************************)
(* The pure playbook kernel, packages/rules/src/playbook.ts: the lifecycle *)
(* of a playbook version, who may move one, and the discovery queue.       *)
(* Versions share the states of the Review Center; "null" is the role of a *)
(* member who reviews nothing (reviewerRoleForMemberRole).                 *)
(***************************************************************************)
EXTENDS ReviewKernel

PLAYBOOK_ALLOWED ==
  [draft           |-> {"awaiting_review", "withdrawn", "superseded"},
   awaiting_review |-> {"approved", "rejected", "deferred", "withdrawn", "superseded"},
   approved        |-> {"published", "superseded"},
   published       |-> {"superseded"},
   rejected        |-> {},
   deferred        |-> {},
   withdrawn       |-> {},
   superseded      |-> {}]

PlaybookVersionTransition(from, to) == to \in PLAYBOOK_ALLOWED[from]

PLAYBOOK_ACTION_FLOOR ==
  [draft |-> "staff", revise |-> "staff", submit |-> "staff",
   approve |-> "organization_admin", publish |-> "organization_owner"]

\* Mutant: a high-impact version needs no second person to approve it.
SeparationAtPublication(action, isAuthor, highImpact) == isAuthor /\ action = "publish"

\* The author publishes no version of theirs, nor approves one of high impact.
SeparationViolated(action, isAuthor, highImpact) ==
  /\ isAuthor
  /\ action = "publish" \/ (action = "approve" /\ highImpact)

\* canActOnPlaybookVersion: membership, the floor of the action, and the
\* separation of duties, which only an owner may override where the
\* organization permits it.  A given override is well formed.
CanActOnPlaybookVersion(action, role, isAuthor, highImpact, ownerOverride, permitted) ==
  /\ role \in REVIEWER_ROLES
  /\ ROLE_RANK[role] >= ROLE_RANK[PLAYBOOK_ACTION_FLOOR[action]]
  /\ SeparationViolated(action, isAuthor, highImpact) =>
       ownerOverride /\ role = "organization_owner" /\ permitted

(***************************************************************************)
(* Workflow discovery.                                                     *)
(***************************************************************************)
DISCOVERY_ALLOWED ==
  [open      |-> {"answered", "dismissed"},
   answered  |-> {"converted", "open"},
   dismissed |-> {"open"},
   converted |-> {}]

WORKFLOW_DISCOVERY_STATUSES == DOMAIN DISCOVERY_ALLOWED

WorkflowDiscoveryTransition(from, to) == to \in DISCOVERY_ALLOWED[from]

=============================================================================
