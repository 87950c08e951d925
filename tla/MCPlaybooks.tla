---------------------------- MODULE MCPlaybooks -----------------------------
(***************************************************************************)
(* The instance of Playbooks: a seeded draft, the same draft with every    *)
(* question answered, and one whose checkpoint is of medium risk; contents *)
(* that validation turns away are no content; a member per role, and a     *)
(* second owner.  Two corners of it are explored, chosen at the start: the *)
(* policy, one version saved, revised and moved by anybody; and the chain, *)
(* three plain versions of two members that come into force one after the  *)
(* other.                                                                  *)
(***************************************************************************)
EXTENDS Playbooks, PlaybookContent, TLC

CONSTANTS p1, l1, l2, l3, plain, risky, asking, lowered, dangling, sam, ann, olga, otto, pat

VARIABLE corner

Seed == CHOOSE c \in GOLDEN_KEY_PLAYBOOK_DRAFTS : c.purpose = "high-utilization-recovery"

Answered(c) ==
  [c EXCEPT !.fieldProvenance =
     [f \in PLAYBOOK_CONTENT_FIELDS |-> IF @[f] = "assumption" THEN @[f] ELSE "confirmed"]]

Checkpoint(c, type, risk, step) ==
  [c EXCEPT !.humanReviewCheckpoints[1] =
     [id |-> @.id, afterStep |-> step, artifactType |-> type, riskClassification |-> risk,
      requiredReviewerRole |-> "staff"]]

\* What each member could try to save.
Candidates == {plain, risky, asking, lowered, dangling}

ContentOf ==
  [c \in Candidates |->
     CASE c = asking   -> Seed
       [] c = risky    -> Answered(Seed)
       [] c = plain    -> Checkpoint(Answered(Seed), "educational_assignment", "medium", "a1")
       [] c = lowered  -> Checkpoint(Answered(Seed), "roadmap_draft", "medium", "a1")
       [] c = dangling -> Checkpoint(Answered(Seed), "roadmap_draft", "high", "a2")]

\* savePlaybookVersion takes valid contents only, and the policies read the
\* contents as HighImpact and Unresolved say.
ASSUME ContentAssumption ==
  /\ SeedsAreBlockedDrafts
  /\ Contents   = {c \in Candidates : ValidPlaybookContent(ContentOf[c])}
  /\ HighImpact = {c \in Contents : IsHighImpactPlaybookContent(ContentOf[c])}
  /\ Unresolved = {c \in Contents : ContentBlocksApproval(ContentOf[c]) # {}}

MCRoleOf ==
  [m \in Members |->
     IF m = sam THEN "staff" ELSE IF m = ann THEN "organization_admin"
     ELSE IF m = pat THEN "null" ELSE "organization_owner"]

Saved(e) == e.action = "saved"

\* Every version has a label of ls, a content of cs, at most n saves, and was
\* moved by members of ms only.
Within(ls, cs, ms, n) ==
  \A p \in Books, l \in Labels : Exists(p, l) =>
    LET v == versions[p][l] IN
    /\ l \in ls /\ v.content \in cs
    /\ Len(SelectSeq(v.reviewHistory, Saved)) <= n
    /\ \A k \in DOMAIN v.reviewHistory : v.reviewHistory[k].by \in ms

InCorner ==
  IF corner = "policy" THEN Within({l1}, Contents, Members, MaxSaves)
  ELSE Within(Labels, {plain}, {sam, olga}, 1)

CornerInit == corner \in {"policy", "chain"} /\ Init

CornerNext == UNCHANGED corner /\ Next /\ InCorner'

CornerSpec == CornerInit /\ [][CornerNext]_<<vars, corner>>

=============================================================================
