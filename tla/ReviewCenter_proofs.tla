------------------------- MODULE ReviewCenter_proofs -------------------------
(***************************************************************************)
(* Proofs about ReviewCenter and ReviewMetrics, for every organization,    *)
(* artifact, revision, policy override and number of items.                *)
(***************************************************************************)
EXTENDS ReviewMetrics, SequenceTheorems, FiniteSetTheorems, WellFoundedInduction, TLAPS

-----------------------------------------------------------------------------
(***************************************************************************)
(* The kernel.                                                             *)
(***************************************************************************)

\* What the state machine allows, state by state: an item enters review from
\* draft and is decided only in review, and nothing leads back into the open states.
LEMMA MovesOfTheKernel ==
  ASSUME NEW from \in REVIEW_ITEM_STATES, NEW to, ReviewItemTransition(from, to)
  PROVE  /\ to \in REVIEW_ITEM_STATES
         /\ from \notin TerminalReviewStates
         /\ to = "awaiting_review" => from = "draft"
         /\ to \in {"approved", "rejected", "deferred"} => from = "awaiting_review"
         /\ to = "published" => from = "approved"
         /\ to = "withdrawn" => from \in OpenStates
         /\ to # "draft"
         /\ to \in OpenStates => from \in OpenStates
BY DEF ReviewItemTransition, ALLOWED, REVIEW_ITEM_STATES, TerminalReviewStates, OpenStates

\* The policy resolves to a risk class and a reviewer role, never below the baseline.
LEMMA PolicyIsBaselineOrStricter ==
  ASSUME NEW type \in REVIEW_ARTIFACT_TYPES,
         NEW risk \in REVIEW_RISK_CLASSES, NEW role \in REVIEWER_ROLES
  PROVE  /\ ResolveRisk(type, risk) \in REVIEW_RISK_CLASSES
         /\ ResolveRole(type, role) \in REVIEWER_ROLES
         /\ RISK_RANK[ResolveRisk(type, risk)] >= RISK_RANK[risk]
         /\ ROLE_RANK[ResolveRole(type, role)] >= ROLE_RANK[role]
<1>1. DEFAULT_RISK(type) \in REVIEW_RISK_CLASSES /\ DEFAULT_ROLE(type) \in REVIEWER_ROLES
  BY DEF DEFAULT_RISK, DEFAULT_ROLE, REVIEW_RISK_CLASSES, REVIEWER_ROLES
<1>2. /\ \A r \in REVIEW_RISK_CLASSES : RISK_RANK[r] \in Int
      /\ \A r \in REVIEWER_ROLES : ROLE_RANK[r] \in Int
  BY DEF REVIEW_RISK_CLASSES, REVIEWER_ROLES, RISK_RANK, ROLE_RANK
<1>3. QED
  BY <1>1, <1>2 DEF ResolveRisk, ResolveRole

\* An allowed decision leaves a reviewer role, at least as high as before.
LEMMA FloorNeverFalls ==
  ASSUME NEW decision \in REVIEW_DECISIONS, NEW from, NEW edits, NEW reason,
         NEW floor \in REVIEWER_ROLES, DecisionAllowed(decision, from, edits, reason, floor)
  PROVE  /\ FloorAfter(decision, floor) \in REVIEWER_ROLES
         /\ ROLE_RANK[FloorAfter(decision, floor)] >= ROLE_RANK[floor]
         /\ decision # "escalated" => FloorAfter(decision, floor) = floor
BY DEF DecisionAllowed, FloorAfter, EscalateReviewerRole, REVIEWER_ROLES, ROLE_RANK

-----------------------------------------------------------------------------
(***************************************************************************)
(* Heads of items.                                                         *)
(***************************************************************************)

\* Replacing the fields the operations replace, one at a time, gives an item.
LEMMA ItemFieldReplaced ==
  ASSUME NEW x \in Item
  PROVE  /\ \A s \in REVIEW_ITEM_STATES : [x EXCEPT !.state = s] \in Item
         /\ \A r \in REVIEWER_ROLES : [x EXCEPT !.floor = r] \in Item
         /\ \A m \in Actors : [x EXCEPT !.assigned = m] \in Item
         /\ \A m \in Actors : [x EXCEPT !.reviewedBy = m] \in Item
         /\ \A d \in REVIEW_DECISIONS : [x EXCEPT !.latest = d] \in Item
         /\ \A b \in BOOLEAN : [x EXCEPT !.modified = b] \in Item
         /\ \A b \in BOOLEAN : [x EXCEPT !.submitted = b] \in Item
         /\ \A b \in BOOLEAN : [x EXCEPT !.outcome = b] \in Item
         /\ \A j \in ItemIds : [x EXCEPT !.supersededBy = j] \in Item
<1>1. \A s \in REVIEW_ITEM_STATES : [x EXCEPT !.state = s] \in Item
  BY DEF Item
<1>2. \A r \in REVIEWER_ROLES : [x EXCEPT !.floor = r] \in Item
  BY DEF Item
<1>3. /\ \A m \in Actors : [x EXCEPT !.assigned = m] \in Item
      /\ \A m \in Actors : [x EXCEPT !.reviewedBy = m] \in Item
  BY DEF Item
<1>4. \A d \in REVIEW_DECISIONS : [x EXCEPT !.latest = d] \in Item
  BY DEF Item
<1>5. /\ \A b \in BOOLEAN : [x EXCEPT !.modified = b] \in Item
      /\ \A b \in BOOLEAN : [x EXCEPT !.submitted = b] \in Item
      /\ \A b \in BOOLEAN : [x EXCEPT !.outcome = b] \in Item
  BY DEF Item
<1>6. \A j \in ItemIds : [x EXCEPT !.supersededBy = j] \in Item
  BY DEF Item
<1>7. QED
  BY <1>1, <1>2, <1>3, <1>4, <1>5, <1>6

LEMMA NewItemIsItem ==
  ASSUME NEW a \in Artifacts, NEW r \in Revisions, NEW w \in REVIEW_ARTIFACT_TYPES,
         NEW risk \in REVIEW_RISK_CLASSES, NEW floor \in REVIEWER_ROLES,
         NEW author \in Actors, NEW birth \in OpenStates, NEW prev \in ItemIds \cup {NoItem}
  PROVE  NewItem(a, r, w, risk, floor, author, birth, prev) \in Item
BY DEF NewItem, Item, OpenStates, REVIEW_ITEM_STATES, Actors

\* What one step may do to the head of an item that exists.
Pinned(x, y) ==
  /\ y.artifact = x.artifact /\ y.revision = x.revision /\ y.workflow = x.workflow
  /\ y.risk = x.risk /\ y.author = x.author /\ y.prev = x.prev

HeadStep(x, y) ==
  /\ y \in Item
  /\ Pinned(x, y)
  /\ ROLE_RANK[y.floor] >= ROLE_RANK[x.floor]
  /\ x.state # "awaiting_review" => y.floor = x.floor
  /\ \/ y = x
     \/ /\ y.state = x.state /\ x.state \in {"draft", "awaiting_review", "published"}
        /\ y.reviewedBy = x.reviewedBy
     \/ /\ ReviewItemTransition(x.state, y.state)
        /\ IF x.state = "awaiting_review" /\ y.state \in {"approved", "rejected", "deferred"}
           THEN y.reviewedBy \in Members
           ELSE y.reviewedBy = x.reviewedBy

LEMMA RanksAreNumbers ==
  /\ \A r \in REVIEWER_ROLES : ROLE_RANK[r] \in Int
  /\ \A r \in REVIEW_RISK_CLASSES : RISK_RANK[r] \in Int
BY DEF REVIEWER_ROLES, ROLE_RANK, REVIEW_RISK_CLASSES, RISK_RANK

LEMMA SubmittedHead ==
  ASSUME NEW x \in Item, ReviewItemTransition(x.state, "awaiting_review")
  PROVE  HeadStep(x, [x EXCEPT !.state = "awaiting_review", !.submitted = TRUE])
<1> DEFINE y1 == [x EXCEPT !.state = "awaiting_review"]
           y  == [y1 EXCEPT !.submitted = TRUE]
<1>1. y = [x EXCEPT !.state = "awaiting_review", !.submitted = TRUE]
  BY Zenon
<1>2. y \in Item
  <2>1. y1 \in Item
    BY ItemFieldReplaced DEF REVIEW_ITEM_STATES
  <2> HIDE DEF y1
  <2>2. QED
    BY <2>1, ItemFieldReplaced
<1>3. /\ Pinned(x, y) /\ y.floor = x.floor /\ y.reviewedBy = x.reviewedBy
      /\ y.state = "awaiting_review"
  BY DEF Item, Pinned
<1>4. ROLE_RANK[x.floor] \in Int /\ x.state = "draft"
  BY RanksAreNumbers, MovesOfTheKernel DEF Item
<1> HIDE DEF y
<1>5. QED
  BY <1>1, <1>2, <1>3, <1>4 DEF HeadStep

LEMMA AssignedHead ==
  ASSUME NEW x \in Item, x.state \in OpenStates, NEW m \in Members
  PROVE  HeadStep(x, [x EXCEPT !.assigned = m])
<1> DEFINE y == [x EXCEPT !.assigned = m]
<1>1. y \in Item
  BY ItemFieldReplaced DEF Actors
<1>2. /\ Pinned(x, y) /\ y.floor = x.floor /\ y.reviewedBy = x.reviewedBy
      /\ y.state = x.state
  BY DEF Item, Pinned
<1>3. ROLE_RANK[x.floor] \in Int
  BY RanksAreNumbers DEF Item
<1> HIDE DEF y
<1>4. HeadStep(x, y)
  BY <1>1, <1>2, <1>3 DEF HeadStep, OpenStates
<1>5. QED
  BY <1>4 DEF y

\* The fields of a decided item.
LEMMA DecidedFields ==
  ASSUME NEW x \in Item, NEW decision \in REVIEW_DECISIONS, NEW actor \in Members,
         NEW digest \in Digests, NEW edits, NEW reason,
         DecisionAllowed(decision, x.state, edits, reason, x.floor)
  PROVE  LET y == Decided(x, decision, actor, digest)
         IN  /\ y \in Item
             /\ Pinned(x, y)
             /\ y.state = DECISION_TO_STATE[decision]
             /\ y.latest = decision
             /\ y.floor = FloorAfter(decision, x.floor)
             /\ y.reviewedBy = IF decision = "escalated" THEN x.reviewedBy ELSE actor
             /\ y.assigned = x.assigned /\ y.supersededBy = x.supersededBy
<1> DEFINE state == DECISION_TO_STATE[decision]
           signed == IF decision = "escalated" THEN x.reviewedBy ELSE actor
           floor == FloorAfter(decision, x.floor)
           modified == IF digest = "omitted" THEN x.modified ELSE digest = "nonempty"
           y1 == [x EXCEPT !.state = state]
           y2 == [y1 EXCEPT !.latest = decision]
           y3 == [y2 EXCEPT !.reviewedBy = signed]
           y4 == [y3 EXCEPT !.floor = floor]
           y5 == [y4 EXCEPT !.modified = modified]
<1>1. Decided(x, decision, actor, digest) = y5
  BY Zenon DEF Decided
<1>2. /\ state \in REVIEW_ITEM_STATES /\ signed \in Actors
      /\ floor \in REVIEWER_ROLES /\ modified \in BOOLEAN
  <2>1. state \in REVIEW_ITEM_STATES
    BY DEF DECISION_TO_STATE, REVIEW_DECISIONS, REVIEW_ITEM_STATES
  <2>2. signed \in Actors
    BY DEF Actors, Item
  <2>3. floor \in REVIEWER_ROLES
    BY FloorNeverFalls DEF Item
  <2>4. modified \in BOOLEAN
    BY DEF Item
  <2>5. QED
    BY <2>1, <2>2, <2>3, <2>4
<1> HIDE DEF state, signed, floor, modified
<1>3. y5 \in Item
  <2>1. y1 \in Item
    BY <1>2, ItemFieldReplaced
  <2> HIDE DEF y1
  <2>2. y2 \in Item
    BY <2>1, ItemFieldReplaced
  <2> HIDE DEF y2
  <2>3. y3 \in Item
    BY <1>2, <2>2, ItemFieldReplaced
  <2> HIDE DEF y3
  <2>4. y4 \in Item
    BY <1>2, <2>3, ItemFieldReplaced
  <2> HIDE DEF y4
  <2>5. QED
    BY <1>2, <2>4, ItemFieldReplaced
<1>4. /\ Pinned(x, y5) /\ y5.state = state /\ y5.latest = decision /\ y5.floor = floor
      /\ y5.reviewedBy = signed /\ y5.assigned = x.assigned /\ y5.supersededBy = x.supersededBy
  BY DEF Item, Pinned
<1> HIDE DEF y5
<1>5. QED
  BY <1>1, <1>3, <1>4 DEF state, signed, floor

LEMMA DecidedHead ==
  ASSUME NEW x \in Item, NEW decision \in REVIEW_DECISIONS, NEW actor \in Members,
         NEW digest \in Digests, NEW edits, NEW reason,
         DecisionAllowed(decision, x.state, edits, reason, x.floor)
  PROVE  HeadStep(x, Decided(x, decision, actor, digest))
<1> DEFINE y == Decided(x, decision, actor, digest)
<1>1. /\ y \in Item /\ Pinned(x, y) /\ y.state = DECISION_TO_STATE[decision]
      /\ y.floor = FloorAfter(decision, x.floor)
      /\ y.reviewedBy = IF decision = "escalated" THEN x.reviewedBy ELSE actor
  BY DecidedFields
<1>2. ROLE_RANK[y.floor] >= ROLE_RANK[x.floor]
  BY <1>1, FloorNeverFalls DEF Item
<1>3. x.state = "awaiting_review"
  BY DEF DecisionAllowed
<1> HIDE DEF y
<1>4. CASE decision = "escalated"
  <2>1. y.state = x.state
    BY <1>1, <1>3, <1>4 DEF DECISION_TO_STATE
  <2>2. QED
    BY <1>1, <1>2, <1>3, <1>4, <2>1 DEF HeadStep, y
<1>5. CASE decision # "escalated"
  <2>1. y.state \in {"approved", "rejected", "deferred"}
    BY <1>1, <1>5 DEF DECISION_TO_STATE, REVIEW_DECISIONS
  <2>2. ReviewItemTransition(x.state, y.state)
    BY <1>3, <2>1 DEF ReviewItemTransition, ALLOWED
  <2>3. QED
    BY <1>1, <1>2, <1>3, <1>5, <2>1, <2>2 DEF HeadStep, y
<1>6. QED
  BY <1>4, <1>5

\* Publication and withdrawal: the state alone.
LEMMA MovedHead ==
  ASSUME NEW x \in Item, NEW to \in {"published", "withdrawn"},
         ReviewItemTransition(x.state, to)
  PROVE  HeadStep(x, [x EXCEPT !.state = to])
<1> DEFINE y == [x EXCEPT !.state = to]
<1>1. y \in Item
  BY ItemFieldReplaced DEF REVIEW_ITEM_STATES
<1>2. /\ Pinned(x, y) /\ y.floor = x.floor /\ y.reviewedBy = x.reviewedBy
      /\ y.state = to
  BY DEF Item, Pinned
<1>3. ROLE_RANK[x.floor] \in Int
  BY RanksAreNumbers DEF Item
<1> HIDE DEF y
<1>4. HeadStep(x, y)
  BY <1>1, <1>2, <1>3 DEF HeadStep
<1>5. QED
  BY <1>4 DEF y

LEMMA SupersededHead ==
  ASSUME NEW x \in Item, ReviewItemTransition(x.state, "superseded"), NEW new \in ItemIds
  PROVE  HeadStep(x, [x EXCEPT !.state = "superseded", !.supersededBy = new])
<1> DEFINE y1 == [x EXCEPT !.state = "superseded"]
           y  == [y1 EXCEPT !.supersededBy = new]
<1>1. y = [x EXCEPT !.state = "superseded", !.supersededBy = new]
  BY Zenon
<1>2. y \in Item
  <2>1. y1 \in Item
    BY ItemFieldReplaced DEF REVIEW_ITEM_STATES
  <2> HIDE DEF y1
  <2>2. QED
    BY <2>1, ItemFieldReplaced
<1>3. /\ Pinned(x, y) /\ y.floor = x.floor /\ y.reviewedBy = x.reviewedBy
      /\ y.state = "superseded"
  BY DEF Item, Pinned
<1>4. ROLE_RANK[x.floor] \in Int
  BY RanksAreNumbers DEF Item
<1> HIDE DEF y
<1>5. QED
  BY <1>1, <1>2, <1>3, <1>4 DEF HeadStep

LEMMA OutcomeHead ==
  ASSUME NEW x \in Item, x.state = "published"
  PROVE  HeadStep(x, [x EXCEPT !.outcome = TRUE])
<1> DEFINE y == [x EXCEPT !.outcome = TRUE]
<1>1. y \in Item
  BY ItemFieldReplaced
<1>2. /\ Pinned(x, y) /\ y.floor = x.floor /\ y.reviewedBy = x.reviewedBy
      /\ y.state = x.state
  BY DEF Item, Pinned
<1>3. ROLE_RANK[x.floor] \in Int
  BY RanksAreNumbers DEF Item
<1> HIDE DEF y
<1>4. HeadStep(x, y)
  BY <1>1, <1>2, <1>3 DEF HeadStep
<1>5. QED
  BY <1>4 DEF y

LEMMA RestingHead == ASSUME NEW x \in Item PROVE HeadStep(x, x)
<1>1. ROLE_RANK[x.floor] \in Int
  BY RanksAreNumbers DEF Item
<1>2. QED
  BY <1>1 DEF HeadStep, Pinned

-----------------------------------------------------------------------------
(***************************************************************************)
(* What one step does to the items: the heads that exist move by HeadStep, *)
(* and at most one item is born, in an open state, when no review of its   *)
(* artifact version is open.  All that follows rests on this.              *)
(***************************************************************************)

Born(y) ==
  /\ y \in Item
  /\ y.state \in OpenStates
  /\ y.reviewedBy = Null
  /\ ~OpenReview(y.artifact, VersionOf[y.revision], y.workflow)

ItemsStep ==
  /\ items' = [i \in ItemIds |-> items'[i]]
  /\ \A i \in 1..count : HeadStep(items[i], items'[i])
  /\ \/ count' = count
     \/ count' = count + 1 /\ count' \in ItemIds /\ Born(items'[count'])
  /\ \A i \in ItemIds : i > count' => items'[i] = items[i]

\* An operation that touches one existing head, and only that.
LEMMA OneHead ==
  ASSUME TypeOK, NEW i \in 1..count, NEW y, HeadStep(items[i], y),
         items' = [items EXCEPT ![i] = y], count' = count
  PROVE  ItemsStep
<1>1. count \in 0..MaxItems /\ 1..count \subseteq ItemIds
  BY BoundsAssumption DEF TypeOK, ItemIds
<1>2. \A j \in 1..count : items[j] \in Item
  BY <1>1 DEF TypeOK
<1>3. \A j \in 1..count : HeadStep(items[j], items'[j])
  BY <1>1, <1>2, RestingHead DEF TypeOK
<1>4. items' = [j \in ItemIds |-> items'[j]]
  BY DEF TypeOK
<1>5. \A j \in ItemIds : j > count => items'[j] = items[j]
  BY <1>1 DEF TypeOK
<1>6. QED
  BY <1>3, <1>4, <1>5 DEF ItemsStep

LEMMA NextItems == ASSUME TypeOK, [Next]_vars PROVE ItemsStep
<1>0. /\ count \in 0..MaxItems /\ 1..count \subseteq ItemIds
      /\ items = [i \in ItemIds |-> items[i]]
      /\ \A j \in 1..count : items[j] \in Item
  BY BoundsAssumption DEF TypeOK, ItemIds
<1>1. CASE Creates
  <2>1. PICK actor \in Actors, a \in Artifacts, r \in Revisions, w \in WorkflowTypes,
             ask \in Overrides, birth \in REVIEW_ITEM_STATES,
             prev \in ItemIds \cup {NoItem}, envelopeBlocked \in BOOLEAN :
               CreateReviewItem(actor, a, r, w, ask, birth, prev, envelopeBlocked)
    BY <1>1 DEF Creates
  <2> DEFINE new == NewItem(a, r, w, ResolveRisk(TypeOf[a], ask.risk),
                            ResolveRole(TypeOf[a], ask.role), actor, birth, prev)
  <2>2. /\ count < MaxItems /\ birth \in OpenStates /\ ~OpenReview(a, VersionOf[r], w)
        /\ count' = count + 1
        /\ items' = [items EXCEPT ![count + 1] = new]
    BY <2>1 DEF CreateReviewItem, MayCreate
  <2>3. new \in Item
    <3>1. /\ TypeOf[a] \in REVIEW_ARTIFACT_TYPES /\ w \in REVIEW_ARTIFACT_TYPES
          /\ ask.risk \in REVIEW_RISK_CLASSES /\ ask.role \in REVIEWER_ROLES
      BY ArtifactsAssumption, InputsAssumption
    <3>2. QED
      BY <2>2, <3>1, NewItemIsItem, PolicyIsBaselineOrStricter
  <2>4. /\ new.state = birth /\ new.reviewedBy = Null
        /\ new.artifact = a /\ new.revision = r /\ new.workflow = w
    BY DEF NewItem
  <2> HIDE DEF new
  <2>5. Born(new)
    BY <2>2, <2>3, <2>4 DEF Born
  <2>6. count + 1 \in ItemIds /\ items'[count + 1] = new
    BY <1>0, <2>2, BoundsAssumption DEF ItemIds
  <2>7. \A j \in 1..count : HeadStep(items[j], items'[j])
    BY <1>0, <2>2, RestingHead
  <2>8. \A j \in ItemIds : j > count + 1 => items'[j] = items[j]
    BY <1>0, <2>2
  <2>9. items' = [i \in ItemIds |-> items'[i]]
    BY <1>0, <2>2
  <2>10. QED
    BY <2>2, <2>5, <2>6, <2>7, <2>8, <2>9 DEF ItemsStep
<1>2. ASSUME NEW i \in ItemIds, NEW actor \in Members, SubmitReviewItem(i, actor)
      PROVE  ItemsStep
  <2>1. i \in 1..count /\ ReviewItemTransition(items[i].state, "awaiting_review")
    BY <1>2 DEF SubmitReviewItem, Reviewable, IsItem
  <2>2. items' = [items EXCEPT ![i] =
                    [items[i] EXCEPT !.state = "awaiting_review", !.submitted = TRUE]]
    BY <1>0, <1>2 DEF SubmitReviewItem
  <2>3. QED
    BY <1>0, <1>2, <2>1, <2>2, SubmittedHead, OneHead DEF SubmitReviewItem
<1>3. ASSUME NEW i \in ItemIds, NEW actor \in Members, NEW reviewer \in Members,
             AssignReviewer(i, actor, reviewer)
      PROVE  ItemsStep
  <2>1. i \in 1..count /\ items[i].state \in OpenStates
    BY <1>3 DEF AssignReviewer, IsItem
  <2>2. items' = [items EXCEPT ![i] = [items[i] EXCEPT !.assigned = reviewer]]
    BY <1>0, <1>3 DEF AssignReviewer
  <2>3. QED
    BY <1>0, <1>3, <2>1, <2>2, AssignedHead, OneHead DEF AssignReviewer
<1>4. CASE Decides
  <2>1. PICK i \in ItemIds, actor \in Members, decision \in REVIEW_DECISIONS,
             reason \in Reasons, edits \in EditCounts, digest \in Digests :
               RecordReviewDecision(i, actor, decision, reason, edits, digest)
    BY <1>4 DEF Decides
  <2>2. /\ i \in 1..count
        /\ DecisionAllowed(decision, items[i].state, edits, reason, items[i].floor)
        /\ items' = [items EXCEPT ![i] = Decided(items[i], decision, actor, digest)]
        /\ count' = count
    BY <2>1 DEF RecordReviewDecision, Reviewable, IsItem
  <2>3. QED
    BY <1>0, <2>2, DecidedHead, OneHead
<1>5. ASSUME NEW i \in ItemIds, NEW actor \in Members, PublishReviewItem(i, actor)
      PROVE  ItemsStep
  <2>1. i \in 1..count /\ ReviewItemTransition(items[i].state, "published")
    BY <1>5 DEF PublishReviewItem, Reviewable, IsItem
  <2>2. items' = [items EXCEPT ![i] = [items[i] EXCEPT !.state = "published"]]
    BY <1>0, <1>5 DEF PublishReviewItem
  <2>3. QED
    BY <1>0, <1>5, <2>1, <2>2, MovedHead, OneHead DEF PublishReviewItem
<1>6. ASSUME NEW i \in ItemIds, NEW actor \in Members, WithdrawReviewItem(i, actor)
      PROVE  ItemsStep
  <2>1. i \in 1..count /\ ReviewItemTransition(items[i].state, "withdrawn")
    BY <1>6 DEF WithdrawReviewItem, Reviewable, IsItem
  <2>2. items' = [items EXCEPT ![i] = [items[i] EXCEPT !.state = "withdrawn"]]
    BY <1>0, <1>6 DEF WithdrawReviewItem
  <2>3. QED
    BY <1>0, <1>6, <2>1, <2>2, MovedHead, OneHead DEF WithdrawReviewItem
<1>7. CASE Supersedes
  <2>1. PICK i \in ItemIds, actor \in Actors, r \in Revisions,
             birth \in REVIEW_ITEM_STATES, envelopeBlocked \in BOOLEAN :
               SupersedeReviewItem(i, actor, r, birth, envelopeBlocked)
    BY <1>7 DEF Supersedes
  <2> DEFINE old == items[i]
             new == Replacement(old, i, actor, r, birth)
             closed == [old EXCEPT !.state = "superseded", !.supersededBy = count + 1]
  <2>2. /\ i \in 1..count /\ ReviewItemTransition(old.state, "superseded")
        /\ count < MaxItems /\ birth \in OpenStates
        /\ ~OpenReview(old.artifact, VersionOf[r], old.workflow)
        /\ count' = count + 1
    BY <2>1 DEF SupersedeReviewItem, MayCreate, Reviewable, IsItem
  <2>3. old \in Item
    BY <1>0, <2>2
  <2>4. count + 1 \in ItemIds /\ i # count + 1
    BY <1>0, <2>2, BoundsAssumption DEF ItemIds
  <2>5. items' = [items EXCEPT ![count + 1] = new, ![i] = closed]
    BY <1>0, <2>1, <2>4 DEF SupersedeReviewItem
  <2>6. new \in Item
    <3>1. /\ old.artifact \in Artifacts /\ old.workflow \in REVIEW_ARTIFACT_TYPES
          /\ old.risk \in REVIEW_RISK_CLASSES /\ old.floor \in REVIEWER_ROLES
      BY <2>3 DEF Item
    <3>2. TypeOf[old.artifact] \in REVIEW_ARTIFACT_TYPES
      BY <3>1, ArtifactsAssumption
    <3> HIDE DEF old
    <3>3. QED
      BY <2>2, <3>1, <3>2, NewItemIsItem, PolicyIsBaselineOrStricter DEF Replacement
  <2>7. /\ new.state = birth /\ new.reviewedBy = Null
        /\ new.artifact = old.artifact /\ new.revision = r /\ new.workflow = old.workflow
    BY DEF Replacement, NewItem
  <2>8. HeadStep(old, closed)
    BY <2>2, <2>3, <2>4, SupersededHead
  <2> HIDE DEF old, new, closed
  <2>9. Born(new)
    BY <2>2, <2>6, <2>7 DEF Born
  <2>10. items'[count + 1] = new /\ items'[i] = closed
    BY <1>0, <2>2, <2>4, <2>5
  <2>11. \A j \in 1..count : j # i => items'[j] = items[j]
    BY <1>0, <2>5
  <2>12. \A j \in 1..count : HeadStep(items[j], items'[j])
    BY <1>0, <2>8, <2>10, <2>11, RestingHead DEF old
  <2>13. \A j \in ItemIds : j > count + 1 => items'[j] = items[j]
    BY <1>0, <2>2, <2>5
  <2>14. items' = [j \in ItemIds |-> items'[j]]
    BY <1>0, <2>5
  <2>15. QED
    BY <2>2, <2>4, <2>9, <2>10, <2>12, <2>13, <2>14 DEF ItemsStep
<1>8. ASSUME NEW i \in ItemIds, NEW actor \in Members, RecordReviewOutcome(i, actor)
      PROVE  ItemsStep
  <2>1. i \in 1..count /\ items[i].state = "published"
    BY <1>8 DEF RecordReviewOutcome, IsItem
  <2>2. items' = [items EXCEPT ![i] = [items[i] EXCEPT !.outcome = TRUE]]
    BY <1>0, <1>8 DEF RecordReviewOutcome
  <2>3. QED
    BY <1>0, <1>8, <2>1, <2>2, OutcomeHead, OneHead DEF RecordReviewOutcome
<1>9. ASSUME items' = items, count' = count PROVE ItemsStep
  BY <1>0, <1>9, RestingHead DEF ItemsStep
<1>10. QED
  BY <1>1, <1>2, <1>3, <1>4, <1>5, <1>6, <1>7, <1>8, <1>9 DEF Next, vars, EditArtifact

-----------------------------------------------------------------------------
(***************************************************************************)
(* Type correctness.                                                       *)
(***************************************************************************)

LEMMA ItemIsNotAbsent == Absent \notin Item
<1>1. SUFFICES ASSUME Absent \in Item PROVE FALSE
  OBVIOUS
<1>2. Absent.state \in REVIEW_ITEM_STATES
  BY <1>1 DEF Item
<1>3. QED
  BY <1>2 DEF Absent, REVIEW_ITEM_STATES

LEMMA ItemsStepType ==
  ASSUME TypeOK, ItemsStep
  PROVE  /\ count' \in 0..MaxItems
         /\ items' \in [ItemIds -> Item \cup {Absent}]
         /\ \A i \in ItemIds : items'[i] # Absent <=> i <= count'
<1>1. count \in 0..MaxItems /\ count' \in 0..MaxItems /\ ItemIds \subseteq Nat
  BY BoundsAssumption DEF TypeOK, ItemsStep, ItemIds
<1>2. \A i \in 1..count : items'[i] \in Item
  BY DEF ItemsStep, HeadStep
<1>3. count' # count => count' = count + 1 /\ items'[count'] \in Item
  BY DEF ItemsStep, Born
<1>4. \A i \in ItemIds : i <= count' => items'[i] \in Item
  BY <1>1, <1>2, <1>3 DEF ItemIds
<1>5. \A i \in ItemIds : i > count' => items'[i] = Absent
  <2>1. count <= count'
    BY <1>1, <1>3
  <2>2. QED
    BY <1>1, <2>1 DEF ItemsStep, TypeOK
<1>6. \A i \in ItemIds : items'[i] \in Item \cup {Absent}
  BY <1>1, <1>4, <1>5
<1>7. \A i \in ItemIds : items'[i] # Absent <=> i <= count'
  BY <1>1, <1>4, <1>5, ItemIsNotAbsent
<1>8. QED
  BY <1>1, <1>6, <1>7 DEF ItemsStep

LEMMA AnnounceType ==
  ASSUME NEW log \in [ItemIds -> Seq(Event)], NEW i \in ItemIds,
         NEW type \in {"ReviewItemCreated", "ReviewItemSubmitted", "ReviewDecisionRecorded",
                       "ReviewItemPublished", "ReviewItemWithdrawn", "ReviewItemSuperseded",
                       "ReviewOutcomeRecorded"},
         NEW state \in REVIEW_ITEM_STATES, NEW by \in Actors
  PROVE  Announce(log, i, type, state, by) \in [ItemIds -> Seq(Event)]
<1> DEFINE event == [type |-> type, state |-> state, by |-> by]
<1>1. event \in Event
  BY DEF Event
<1> HIDE DEF event
<1>2. Append(log[i], event) \in Seq(Event)
  BY <1>1, AppendProperties
<1>3. Announce(log, i, type, state, by) = [log EXCEPT ![i] = Append(log[i], event)]
  BY DEF Announce, event
<1>4. QED
  BY <1>2, <1>3

LEMMA InitType == Init => TypeOK
BY BoundsAssumption DEF Init, TypeOK, ItemIds

LEMMA NextType == TypeOK /\ [Next]_vars => TypeOK'
<1> SUFFICES ASSUME TypeOK, [Next]_vars PROVE TypeOK'
  OBVIOUS
<1>1. /\ count' \in 0..MaxItems
      /\ items' \in [ItemIds -> Item \cup {Absent}]
      /\ \A i \in ItemIds : items'[i] # Absent <=> i <= count'
  BY NextItems, ItemsStepType
<1>2. artifact' \in [Artifacts -> Revisions]
  <2>1. \/ artifact' = artifact
        \/ \E a \in Artifacts, r \in Revisions : artifact' = [artifact EXCEPT ![a] = r]
    <3>1. CASE \E a \in Artifacts, r \in Revisions : EditArtifact(a, r)
      BY <3>1 DEF EditArtifact
    <3>2. CASE Creates
      BY <3>2 DEF Creates, CreateReviewItem
    <3>3. CASE Decides
      BY <3>3 DEF Decides, RecordReviewDecision
    <3>4. CASE Supersedes
      BY <3>4 DEF Supersedes, SupersedeReviewItem
    <3>5. ASSUME NEW i \in ItemIds, NEW actor \in Members, NEW reviewer \in Members,
                 SubmitReviewItem(i, actor) \/ AssignReviewer(i, actor, reviewer)
                   \/ PublishReviewItem(i, actor) \/ WithdrawReviewItem(i, actor)
                   \/ RecordReviewOutcome(i, actor)
          PROVE  artifact' = artifact
      BY <3>5 DEF SubmitReviewItem, AssignReviewer, PublishReviewItem, WithdrawReviewItem,
                  RecordReviewOutcome
    <3>6. CASE UNCHANGED vars
      BY <3>6 DEF vars
    <3>7. QED
      BY <3>1, <3>2, <3>3, <3>4, <3>5, <3>6 DEF Next
  <2>2. QED
    BY <2>1 DEF TypeOK
<1> DEFINE Logs == decisions' \in [ItemIds -> Seq(Decision)] /\ outbox' \in [ItemIds -> Seq(Event)]
<1>0. /\ decisions \in [ItemIds -> Seq(Decision)] /\ outbox \in [ItemIds -> Seq(Event)]
      /\ count \in 0..MaxItems /\ Null \in Actors /\ Members \subseteq Actors
      /\ \A i \in ItemIds : i \in 1..count => items[i] \in Item
  BY DEF TypeOK, Actors, ItemIds
<1>3. Logs
  <2>1. CASE Creates
    <3>1. PICK birth \in REVIEW_ITEM_STATES :
            /\ outbox' = Announce(outbox, count + 1, "ReviewItemCreated", birth, Null)
            /\ count < MaxItems /\ decisions' = decisions
      BY <2>1 DEF Creates, CreateReviewItem, MayCreate
    <3>2. count + 1 \in ItemIds
      BY <1>0, <3>1, BoundsAssumption DEF ItemIds
    <3>3. QED
      BY <1>0, <3>1, <3>2, AnnounceType
  <2>2. ASSUME NEW i \in ItemIds, NEW actor \in Members, SubmitReviewItem(i, actor) PROVE Logs
    <3>1. "awaiting_review" \in REVIEW_ITEM_STATES
      BY DEF REVIEW_ITEM_STATES
    <3>2. QED
      BY <1>0, <2>2, <3>1, AnnounceType DEF SubmitReviewItem
  <2>3. CASE Decides
    <3>1. PICK i \in ItemIds, actor \in Members, decision \in REVIEW_DECISIONS,
               reason \in Reasons, edits \in EditCounts, digest \in Digests :
                 RecordReviewDecision(i, actor, decision, reason, edits, digest)
      BY <2>3 DEF Decides
    <3> DEFINE entry == [decision |-> decision, by |-> actor,
                         floor |-> FloorAfter(decision, items[i].floor)]
    <3>2. items[i].floor \in REVIEWER_ROLES
      BY <1>0, <3>1 DEF RecordReviewDecision, Reviewable, IsItem, Item
    <3>3. FloorAfter(decision, items[i].floor) \in REVIEWER_ROLES
      BY <3>1, <3>2, FloorNeverFalls DEF RecordReviewDecision
    <3>4. entry \in Decision
      BY <3>3 DEF Decision
    <3>5. decisions' = [decisions EXCEPT ![i] = Append(decisions[i], entry)]
      BY <3>1 DEF RecordReviewDecision
    <3> HIDE DEF entry
    <3>6. decisions' \in [ItemIds -> Seq(Decision)]
      BY <1>0, <3>4, <3>5, AppendProperties
    <3>7. DECISION_TO_STATE[decision] \in REVIEW_ITEM_STATES
      BY DEF DECISION_TO_STATE, REVIEW_DECISIONS, REVIEW_ITEM_STATES
    <3>8. outbox' = Announce(outbox, i, "ReviewDecisionRecorded", DECISION_TO_STATE[decision], Null)
      BY <3>1 DEF RecordReviewDecision
    <3>9. QED
      BY <1>0, <3>6, <3>7, <3>8, AnnounceType
  <2>4. ASSUME NEW i \in ItemIds, NEW actor \in Members,
               PublishReviewItem(i, actor) \/ WithdrawReviewItem(i, actor)
                 \/ RecordReviewOutcome(i, actor)
        PROVE  Logs
    <3>1. "published" \in REVIEW_ITEM_STATES /\ "withdrawn" \in REVIEW_ITEM_STATES
      BY DEF REVIEW_ITEM_STATES
    <3>2. CASE PublishReviewItem(i, actor)
      BY <1>0, <3>1, <3>2, AnnounceType DEF PublishReviewItem
    <3>3. CASE WithdrawReviewItem(i, actor)
      BY <1>0, <3>1, <3>3, AnnounceType DEF WithdrawReviewItem
    <3>4. CASE RecordReviewOutcome(i, actor)
      BY <1>0, <3>1, <3>4, AnnounceType DEF RecordReviewOutcome
    <3>5. QED
      BY <2>4, <3>2, <3>3, <3>4
  <2>5. CASE Supersedes
    <3>1. PICK i \in ItemIds, birth \in REVIEW_ITEM_STATES :
            /\ outbox' = Announce(Announce(outbox, count + 1, "ReviewItemCreated", birth, Null),
                                  i, "ReviewItemSuperseded", "superseded", Null)
            /\ count < MaxItems /\ decisions' = decisions
      BY <2>5 DEF Supersedes, SupersedeReviewItem, MayCreate
    <3>2. count + 1 \in ItemIds /\ "superseded" \in REVIEW_ITEM_STATES
      BY <1>0, <3>1, BoundsAssumption DEF ItemIds, REVIEW_ITEM_STATES
    <3>3. Announce(outbox, count + 1, "ReviewItemCreated", birth, Null) \in [ItemIds -> Seq(Event)]
      BY <1>0, <3>1, <3>2, AnnounceType
    <3>4. QED
      BY <1>0, <3>1, <3>2, <3>3, AnnounceType
  <2>6. ASSUME UNCHANGED <<decisions, outbox>> PROVE Logs
    BY <1>0, <2>6
  <2>7. QED
    BY <2>1, <2>2, <2>3, <2>4, <2>5, <2>6 DEF Next, vars, AssignReviewer, EditArtifact
<1>4. QED
  BY <1>1, <1>2, <1>3 DEF TypeOK

\* Every operation of the store keeps items, decisions and events well formed;
\* in particular an allowed escalation never leaves a floor that is no role.
THEOREM TypeCorrect == Spec => []TypeOK
<1>1. QED
  BY InitType, NextType, PTL DEF Spec

-----------------------------------------------------------------------------
(***************************************************************************)
(* One open review per artifact version and workflow.                      *)
(***************************************************************************)

LEMMA NextOneOpen == TypeOK /\ OneOpenReview /\ [Next]_vars => OneOpenReview'
<1> SUFFICES ASSUME TypeOK, OneOpenReview, [Next]_vars,
                    NEW i \in 1..count', NEW j \in 1..count',
                    items'[i].state \in OpenStates, items'[j].state \in OpenStates,
                    items'[i].artifact = items'[j].artifact,
                    VersionOf[items'[i].revision] = VersionOf[items'[j].revision],
                    items'[i].workflow = items'[j].workflow
             PROVE  i = j
  BY DEF OneOpenReview
<1>1. /\ ItemsStep /\ count \in 0..MaxItems /\ 1..count \subseteq ItemIds
      /\ \A k \in 1..count : items[k] \in Item
  BY NextItems, BoundsAssumption DEF TypeOK, ItemIds
<1>2. ASSUME NEW k \in 1..count, items'[k].state \in OpenStates
      PROVE  /\ items[k].state \in OpenStates
             /\ items'[k].artifact = items[k].artifact
             /\ items'[k].revision = items[k].revision
             /\ items'[k].workflow = items[k].workflow
  <2>1. HeadStep(items[k], items'[k]) /\ items[k] \in Item
    BY <1>1 DEF ItemsStep
  <2>2. Pinned(items[k], items'[k])
    BY <2>1 DEF HeadStep
  <2>3. items[k].state \in OpenStates
    BY <1>2, <2>1, MovesOfTheKernel DEF HeadStep, Item
  <2>4. QED
    BY <2>2, <2>3 DEF Pinned
<1>3. CASE i \in 1..count /\ j \in 1..count
  BY <1>2, <1>3 DEF OneOpenReview
<1>4. ASSUME NEW new \in {i, j}, NEW k \in {i, j}, new \notin 1..count, k \in 1..count
      PROVE  FALSE
  <2>1. new = count' /\ Born(items'[new])
    BY <1>1, <1>4 DEF ItemsStep
  <2>2. OpenReview(items'[new].artifact, VersionOf[items'[new].revision], items'[new].workflow)
    BY <1>2, <1>4 DEF OpenReview
  <2>3. QED
    BY <2>1, <2>2 DEF Born
<1>5. CASE i \notin 1..count /\ j \notin 1..count
  BY <1>1, <1>5 DEF ItemsStep
<1>6. QED
  BY <1>3, <1>4, <1>5

\* However creations, submissions, withdrawals and supersessions interleave, no
\* two reviews of one artifact version in one workflow are open together,
\* although supersession opens the replacement before it closes the old item.
THEOREM ReviewsAreUnique == Spec => []OneOpenReview
<1>1. Init => OneOpenReview
  BY DEF Init, OneOpenReview
<1>2. QED
  BY <1>1, NextOneOpen, TypeCorrect, PTL DEF Spec

-----------------------------------------------------------------------------
(***************************************************************************)
(* The lifecycle keeps the promise of ReviewPromise.                       *)
(***************************************************************************)

Phase(x) == PhaseOf(x.state)

Approver(x) == IF x = Absent THEN Null ELSE x.reviewedBy

\* The disjuncts of the promise's next-state relation, for one head.
Kept(x, y) ==
  \/ /\ Phase(x) \in {"none", "open"} /\ Phase(y) \in {"approved", "published"}
     /\ Approver(y) \in Members
  \/ Phase(x) = "none" /\ Phase(y) = "open" /\ Approver(y) = Null
  \/ Phase(x) = "approved" /\ Phase(y) = "published" /\ Approver(y) = Approver(x)
  \/ /\ Phase(x) \in {"open", "approved", "published"} /\ Phase(y) = "closed"
     /\ Approver(y) = Approver(x) \/ (Phase(x) = "open" /\ Approver(y) \in Members)
  \/ Phase(y) = Phase(x) /\ Approver(y) = Approver(x)

LEMMA PhaseOfAbsent == Phase(Absent) = "none" /\ Approver(Absent) = Null
BY DEF Phase, PhaseOf, OpenStates, Absent, Approver

LEMMA PhaseOfItem ==
  ASSUME NEW x \in Item
  PROVE  /\ x.state \in OpenStates => Phase(x) = "open"
         /\ x.state \in {"approved", "published"} => Phase(x) = x.state
         /\ x.state \in {"rejected", "deferred", "withdrawn", "superseded"} => Phase(x) = "closed"
         /\ Phase(x) \in {"open", "approved", "published", "closed"}
         /\ Approver(x) = x.reviewedBy /\ x.reviewedBy \in Actors
<1>1. x.state \in REVIEW_ITEM_STATES /\ x.reviewedBy \in Actors
  BY DEF Item
<1>2. Approver(x) = x.reviewedBy
  BY ItemIsNotAbsent DEF Approver
<1>3. QED
  BY <1>1, <1>2 DEF Phase, PhaseOf, OpenStates, REVIEW_ITEM_STATES

\* A step of an existing head keeps the promise.
LEMMA HeadKeepsPromise ==
  ASSUME NEW x \in Item, NEW y, HeadStep(x, y)
  PROVE  Kept(x, y)
<1>1. y \in Item /\ x.state \in REVIEW_ITEM_STATES /\ y.state \in REVIEW_ITEM_STATES
  BY DEF HeadStep, Item
<1>2. Approver(x) = x.reviewedBy /\ Approver(y) = y.reviewedBy
  BY <1>1, PhaseOfItem
<1>3. CASE y.state = x.state /\ y.reviewedBy = x.reviewedBy
  BY <1>2, <1>3 DEF Kept, Phase
<1>4. CASE /\ x.state = "awaiting_review" /\ y.state \in {"approved", "rejected", "deferred"}
           /\ y.reviewedBy \in Members
  <2>1. Phase(x) = "open" /\ Phase(y) \in {"approved", "closed"}
    BY <1>1, <1>4, PhaseOfItem DEF OpenStates
  <2>2. QED
    BY <1>2, <1>4, <2>1 DEF Kept
<1>5. CASE /\ ReviewItemTransition(x.state, y.state)
           /\ y.state \notin {"approved", "rejected", "deferred"}
           /\ y.reviewedBy = x.reviewedBy
  <2>1. /\ x.state \notin TerminalReviewStates /\ y.state # "draft"
        /\ y.state = "awaiting_review" => x.state = "draft"
        /\ y.state = "published" => x.state = "approved"
    BY <1>1, <1>5, MovesOfTheKernel
  <2>2. x.state \in {"draft", "awaiting_review", "approved", "published"}
    BY <1>1, <2>1 DEF TerminalReviewStates, ALLOWED, REVIEW_ITEM_STATES
  <2>3. CASE y.state = "awaiting_review"
    <3>1. Phase(x) = "open" /\ Phase(y) = "open"
      BY <1>1, <2>1, <2>3, PhaseOfItem DEF OpenStates
    <3>2. QED
      BY <1>2, <1>5, <3>1 DEF Kept
  <2>4. CASE y.state = "published"
    <3>1. Phase(x) = "approved" /\ Phase(y) = "published"
      BY <1>1, <2>1, <2>4, PhaseOfItem
    <3>2. QED
      BY <1>2, <1>5, <3>1 DEF Kept
  <2>5. CASE y.state \in {"withdrawn", "superseded"}
    <3>1. Phase(x) \in {"open", "approved", "published"} /\ Phase(y) = "closed"
      BY <1>1, <2>2, <2>5, PhaseOfItem DEF OpenStates
    <3>2. QED
      BY <1>2, <1>5, <3>1 DEF Kept
  <2>6. QED
    BY <1>1, <1>5, <2>1, <2>3, <2>4, <2>5 DEF REVIEW_ITEM_STATES
<1>6. y = x \/ (y.state = x.state /\ y.reviewedBy = x.reviewedBy) \/ ReviewItemTransition(x.state, y.state)
  BY DEF HeadStep
<1>7. CASE ReviewItemTransition(x.state, y.state) /\ ~(y.state = x.state /\ y.reviewedBy = x.reviewedBy)
  <2>1. y.state \in {"approved", "rejected", "deferred"} => x.state = "awaiting_review"
    BY <1>1, <1>7, MovesOfTheKernel
  <2>2. IF x.state = "awaiting_review" /\ y.state \in {"approved", "rejected", "deferred"}
        THEN y.reviewedBy \in Members ELSE y.reviewedBy = x.reviewedBy
    BY <1>7 DEF HeadStep
  <2>3. QED
    BY <1>4, <1>5, <1>7, <2>1, <2>2
<1>8. QED
  BY <1>3, <1>6, <1>7

LEMMA PromiseInit == Init => Promise!Init
BY PhaseOfAbsent DEF Init, Promise!Init, Phase

LEMMA PromiseNext == TypeOK /\ [Next]_vars => Promise!Next
<1> SUFFICES ASSUME TypeOK, [Next]_vars PROVE Promise!Next
  OBVIOUS
<1>1. /\ TypeOK' /\ ItemsStep /\ count \in 0..MaxItems
      /\ \A i \in 1..count : items[i] \in Item
  BY NextType, NextItems, BoundsAssumption DEF TypeOK, ItemIds
<1>2. ASSUME NEW i \in 1..count PROVE Kept(items[i], items'[i])
  BY <1>1, HeadKeepsPromise DEF ItemsStep
<1>3. ASSUME NEW i \in ItemIds, i \notin 1..count PROVE Kept(items[i], items'[i])
  <2>1. items[i] = Absent
    BY <1>1, <1>3 DEF TypeOK, ItemIds
  <2>2. CASE i > count'
    <3>1. items'[i] = items[i]
      BY <1>1, <2>2 DEF ItemsStep
    <3>2. Kept(items[i], items[i])
      BY DEF Kept
    <3>3. QED
      BY <3>1, <3>2
  <2>3. CASE i <= count'
    <3>1. Born(items'[i])
      BY <1>1, <1>3, <2>3 DEF ItemsStep, ItemIds
    <3>2. Phase(items'[i]) = "open" /\ Approver(items'[i]) = Null
      <4> DEFINE y == items'[i]
      <4>1. y \in Item /\ y.state \in OpenStates /\ y.reviewedBy = Null
        BY <3>1 DEF Born
      <4> HIDE DEF y
      <4>2. Phase(y) = "open" /\ Approver(y) = Null
        BY <4>1, PhaseOfItem
      <4>3. QED
        BY <4>2 DEF y
    <3>3. QED
      BY <2>1, <3>2, PhaseOfAbsent DEF Kept
  <2>4. QED
    BY <1>1, <2>2, <2>3 DEF TypeOK, ItemIds
<1>4. \A i \in ItemIds : Kept(items[i], items'[i])
  BY <1>2, <1>3
<1>5. \A i \in ItemIds : Phase(items'[i]) \in Promise!Phases /\ Approver(items'[i]) \in Members \cup {Null}
  <2> SUFFICES ASSUME NEW i \in ItemIds
               PROVE  Phase(items'[i]) \in Promise!Phases /\ Approver(items'[i]) \in Members \cup {Null}
    OBVIOUS
  <2>1. items'[i] \in Item \/ items'[i] = Absent
    BY <1>1 DEF TypeOK
  <2>2. QED
    BY <2>1, PhaseOfItem, PhaseOfAbsent DEF Promise!Phases, Actors
<1>6. QED
  BY <1>4, <1>5 DEF Kept, Phase, Approver, Promise!Next, Promise!Approval, Promise!Opening,
                    Promise!Publication, Promise!Closing, Promise!Rest

\* The store's lifecycle implements the promise: nothing is published before a
\* human approved it, who approved it is settled once and for all, and a closed
\* review stays closed, whichever operations run in whichever order.
THEOREM LifecycleKeepsPromise == Spec => ImplementsPromise
<1>1. TypeOK /\ [Next]_vars => Promise!Next
  BY PromiseNext
<1>2. QED
  BY <1>1, PromiseInit, TypeCorrect, PTL DEF Spec, ImplementsPromise, Promise!Spec

-----------------------------------------------------------------------------
(***************************************************************************)
(* Nothing native is published unapproved.  PublishedWasApproved is not    *)
(* inductive: publication trusts the state `approved', so that state must  *)
(* carry the approval, and no decision may follow a publication.           *)
(***************************************************************************)

SoundlyApproved(i) ==
  /\ decisions[i] # << >>
  /\ LET last == decisions[i][Len(decisions[i])]
     IN  /\ last.decision \in Approvals
         /\ Rank(last.by) >= ROLE_RANK[items[i].floor]
         /\ items[i].risk = "high" => last.by # items[i].author

SoundlyPublished(i) ==
  \A k \in EventsOf(i, "ReviewItemPublished") :
    LET publisher == outbox[i][k].by
    IN  /\ publisher \in Members
        /\ Rank(publisher) >= ROLE_RANK[items[i].floor]
        /\ items[i].risk = "high" => IsAdmin(publisher)

PublicationInv ==
  /\ \A i \in NativeItems :
       /\ items[i].state \in {"approved", "published"} => SoundlyApproved(i)
       /\ WasPublished(i) =>
            /\ items[i].state \in {"published", "superseded"}
            /\ SoundlyApproved(i)
            /\ SoundlyPublished(i)
  /\ \A i \in ItemIds : WasPublished(i) => i <= count

LEMMA PublicationInvSuffices == PublicationInv => PublishedWasApproved
BY DEF PublicationInv, PublishedWasApproved, SoundlyApproved, SoundlyPublished

\* An announcement adds one event at the end of one item's log.
LEMMA AnnounceEvents ==
  ASSUME NEW log \in [ItemIds -> Seq(Event)], NEW i \in ItemIds, NEW j \in ItemIds,
         NEW type, NEW state, NEW by,
         NEW k \in DOMAIN Announce(log, i, type, state, by)[j]
  PROVE  LET new == Announce(log, i, type, state, by)[j][k]
         IN  \/ k \in DOMAIN log[j] /\ new = log[j][k]
             \/ i = j /\ new.type = type /\ new.by = by
<1> DEFINE event == [type |-> type, state |-> state, by |-> by]
<1>1. event.type = type /\ event.by = by
  OBVIOUS
<1> HIDE DEF event
<1>2. Announce(log, i, type, state, by) = [log EXCEPT ![i] = Append(log[i], event)]
  BY DEF Announce, event
<1>3. CASE i = j
  <2>1. Announce(log, i, type, state, by)[j] = Append(log[j], event)
    BY <1>2, <1>3
  <2>2. /\ DOMAIN Append(log[j], event) = 1..(Len(log[j]) + 1)
        /\ DOMAIN log[j] = 1..Len(log[j]) /\ Len(log[j]) \in Nat
        /\ \A n \in 1..Len(log[j]) : Append(log[j], event)[n] = log[j][n]
        /\ Append(log[j], event)[Len(log[j]) + 1] = event
    OBVIOUS
  <2>3. k \in 1..Len(log[j]) \/ k = Len(log[j]) + 1
    BY <2>1, <2>2
  <2>4. QED
    BY <1>1, <1>3, <2>1, <2>2, <2>3
<1>4. CASE i # j
  BY <1>2, <1>4
<1>5. QED
  BY <1>3, <1>4

\* An event of publication that one step adds is that of publishReviewItem.
LEMMA PublicationStep ==
  ASSUME TypeOK, [Next]_vars, NEW i \in ItemIds, NEW k \in DOMAIN outbox'[i],
         outbox'[i][k].type = "ReviewItemPublished"
  PROVE  \/ k \in DOMAIN outbox[i] /\ outbox'[i][k] = outbox[i][k]
         \/ \E actor \in Members : PublishReviewItem(i, actor) /\ outbox'[i][k].by = actor
<1> DEFINE Old == k \in DOMAIN outbox[i] /\ outbox'[i][k] = outbox[i][k]
<1>0. outbox \in [ItemIds -> Seq(Event)] /\ count \in 0..MaxItems /\ MaxItems \in Nat
  BY BoundsAssumption DEF TypeOK
<1>1. ASSUME NEW j \in ItemIds, NEW type, type # "ReviewItemPublished", NEW state, NEW by,
             outbox' = Announce(outbox, j, type, state, by)
      PROVE  Old
  BY <1>0, <1>1, AnnounceEvents
<1>2. CASE Creates
  <2>1. PICK birth : /\ outbox' = Announce(outbox, count + 1, "ReviewItemCreated", birth, Null)
                     /\ count < MaxItems
    BY <1>2 DEF Creates, CreateReviewItem, MayCreate
  <2>2. count + 1 \in ItemIds
    BY <1>0, <2>1 DEF ItemIds
  <2>3. QED
    BY <1>1, <2>1, <2>2
<1>3. ASSUME NEW j \in ItemIds, NEW actor \in Members,
             SubmitReviewItem(j, actor) \/ WithdrawReviewItem(j, actor)
               \/ RecordReviewOutcome(j, actor)
      PROVE  Old
  BY <1>1, <1>3 DEF SubmitReviewItem, WithdrawReviewItem, RecordReviewOutcome
<1>4. CASE Decides
  BY <1>1, <1>4 DEF Decides, RecordReviewDecision
<1>5. ASSUME NEW j \in ItemIds, NEW actor \in Members, PublishReviewItem(j, actor)
      PROVE  Old \/ (PublishReviewItem(i, actor) /\ outbox'[i][k].by = actor)
  <2>1. outbox' = Announce(outbox, j, "ReviewItemPublished", "published", actor)
    BY <1>5 DEF PublishReviewItem
  <2>2. Old \/ (j = i /\ outbox'[i][k].by = actor)
    BY <1>0, <2>1, AnnounceEvents
  <2>3. QED
    BY <1>5, <2>2
<1>6. CASE Supersedes
  <2>1. PICK j \in ItemIds, birth \in REVIEW_ITEM_STATES :
          /\ outbox' = Announce(Announce(outbox, count + 1, "ReviewItemCreated", birth, Null),
                                j, "ReviewItemSuperseded", "superseded", Null)
          /\ count < MaxItems
    BY <1>6 DEF Supersedes, SupersedeReviewItem, MayCreate
  <2> DEFINE mid == Announce(outbox, count + 1, "ReviewItemCreated", birth, Null)
  <2>2. count + 1 \in ItemIds /\ Null \in Actors
    BY <1>0, <2>1 DEF ItemIds, Actors
  <2>3. mid \in [ItemIds -> Seq(Event)]
    BY <1>0, <2>2, AnnounceType
  <2> HIDE DEF mid
  <2>4. outbox' = Announce(mid, j, "ReviewItemSuperseded", "superseded", Null)
    BY <2>1 DEF mid
  <2>5. k \in DOMAIN mid[i] /\ outbox'[i][k] = mid[i][k]
    BY <2>3, <2>4, AnnounceEvents
  <2>6. mid = Announce(outbox, count + 1, "ReviewItemCreated", birth, Null)
    BY DEF mid
  <2>7. mid[i][k].type = "ReviewItemPublished"
    BY <2>5
  <2>8. k \in DOMAIN outbox[i] /\ mid[i][k] = outbox[i][k]
    BY <1>0, <2>2, <2>5, <2>6, <2>7, AnnounceEvents
  <2>9. QED
    BY <2>5, <2>8
<1>7. ASSUME UNCHANGED outbox PROVE Old
  BY <1>7
<1>8. QED
  BY <1>2, <1>3, <1>4, <1>5, <1>6, <1>7 DEF Next, vars, AssignReviewer, EditArtifact

\* What one step does to the decision log of an item: nothing, or one decision
\* taken from awaiting_review, and no approval of an item but by such a decision.
LEMMA DecisionStep ==
  ASSUME TypeOK, [Next]_vars, NEW i \in 1..count
  PROVE  \/ /\ decisions'[i] = decisions[i]
            /\ items'[i].state = "approved" => items[i].state = "approved"
         \/ /\ items[i].state = "awaiting_review"
            /\ items'[i].state = "approved" => SoundlyApproved(i)'
<1>0. /\ i \in ItemIds /\ 1..count \subseteq ItemIds /\ items[i] \in Item
      /\ count \in Nat /\ i # count + 1
      /\ decisions \in [ItemIds -> Seq(Decision)] /\ items \in [ItemIds -> Item \cup {Absent}]
      /\ \A j \in 1..count : items[j] \in Item
  BY BoundsAssumption DEF TypeOK, ItemIds
<1> DEFINE Quiet == /\ decisions'[i] = decisions[i]
                    /\ items'[i].state = "approved" => items[i].state = "approved"
<1>1. CASE Decides
  <2>1. PICK j \in ItemIds, actor \in Members, decision \in REVIEW_DECISIONS,
             reason \in Reasons, edits \in EditCounts, digest \in Digests :
               RecordReviewDecision(j, actor, decision, reason, edits, digest)
    BY <1>1 DEF Decides
  <2>2. CASE j # i
    BY <1>0, <2>1, <2>2 DEF RecordReviewDecision
  <2>3. CASE j = i
    <3> DEFINE x == items[i]
               y == items'[i]
               entry == [decision |-> decision, by |-> actor,
                         floor |-> FloorAfter(decision, x.floor)]
    <3>1. /\ DecisionAllowed(decision, x.state, edits, reason, x.floor)
          /\ CanReview(x.risk, x.floor, RoleOf[actor], actor, x.author)
          /\ y = Decided(x, decision, actor, digest)
          /\ decisions'[i] = Append(decisions[i], entry)
      BY <1>0, <2>1, <2>3 DEF RecordReviewDecision
    <3>2. entry.decision = decision /\ entry.by = actor
      OBVIOUS
    <3> DEFINE log == decisions[i]
    <3>3. x \in Item /\ log \in Seq(Decision)
      BY <1>0
    <3> HIDE DEF entry, x, y, log
    <3>4. /\ Pinned(x, y) /\ y.state = DECISION_TO_STATE[decision]
          /\ y.floor = FloorAfter(decision, x.floor)
      BY <3>3, <3>1, DecidedFields
    <3>5. x.state = "awaiting_review" /\ x.floor \in REVIEWER_ROLES
      BY <3>3, <3>1 DEF DecisionAllowed, Item
    <3>6. /\ decisions'[i] # << >>
          /\ decisions'[i][Len(decisions'[i])] = entry
      <4>1. decisions'[i] = Append(log, entry)
        BY <3>1 DEF log
      <4>2. /\ Append(log, entry) # << >>
            /\ Append(log, entry)[Len(Append(log, entry))] = entry
        BY <3>3
      <4>3. QED
        BY <4>1, <4>2
    <3>7. ASSUME y.state = "approved" PROVE SoundlyApproved(i)'
      <4>1. decision \in Approvals
        BY <3>4, <3>7 DEF Approvals, DECISION_TO_STATE, REVIEW_DECISIONS
      <4>2. y.floor = x.floor /\ y.risk = x.risk /\ y.author = x.author
        BY <3>1, <3>4, <3>5, <4>1, FloorNeverFalls DEF Approvals, Pinned
      <4>3. Rank(actor) >= ROLE_RANK[y.floor] /\ (y.risk = "high" => actor # y.author)
        BY <3>1, <4>2 DEF CanReview, Rank
      <4>4. QED
        BY <3>2, <3>6, <4>1, <4>3 DEF SoundlyApproved, y, Rank
    <3>8. QED
      BY <3>5, <3>7 DEF x, y
  <2>4. QED
    BY <2>2, <2>3
<1>2. ASSUME decisions' = decisions,
             items'[i].state = "approved" => items[i].state = "approved"
      PROVE  Quiet
  BY <1>2
<1>3. CASE Creates
  <2> PICK actor \in Actors, a \in Artifacts, r \in Revisions, w \in WorkflowTypes,
           ask \in Overrides, birth \in REVIEW_ITEM_STATES,
           prev \in ItemIds \cup {NoItem}, envelopeBlocked \in BOOLEAN :
             CreateReviewItem(actor, a, r, w, ask, birth, prev, envelopeBlocked)
    BY <1>3, Zenon DEF Creates
  <2> DEFINE new == NewItem(a, r, w, ResolveRisk(TypeOf[a], ask.risk),
                            ResolveRole(TypeOf[a], ask.role), actor, birth, prev)
  <2>1. /\ decisions' = decisions
        /\ items' = [items EXCEPT ![count + 1] = new]
    BY Zenon DEF CreateReviewItem
  <2> HIDE DEF new
  <2>2. items'[i] = items[i]
    BY <1>0, <2>1
  <2>3. QED
    BY <1>2, <2>1, <2>2
<1>4. ASSUME NEW j \in ItemIds, NEW actor \in Members, NEW reviewer \in Members,
             SubmitReviewItem(j, actor) \/ AssignReviewer(j, actor, reviewer)
               \/ PublishReviewItem(j, actor) \/ WithdrawReviewItem(j, actor)
               \/ RecordReviewOutcome(j, actor)
      PROVE  Quiet
  <2>1. decisions' = decisions
    BY <1>4 DEF SubmitReviewItem, AssignReviewer, PublishReviewItem, WithdrawReviewItem,
                RecordReviewOutcome
  <2>2. \/ items'[i] = items[i]
        \/ items'[i].state \in {"awaiting_review", "published", "withdrawn"}
        \/ items'[i].state = items[i].state
    <3>1. CASE SubmitReviewItem(j, actor)
      BY <1>0, <3>1 DEF SubmitReviewItem, Item
    <3>2. CASE AssignReviewer(j, actor, reviewer)
      BY <1>0, <3>2 DEF AssignReviewer, Item
    <3>3. CASE PublishReviewItem(j, actor)
      BY <1>0, <3>3 DEF PublishReviewItem, Item
    <3>4. CASE WithdrawReviewItem(j, actor)
      BY <1>0, <3>4 DEF WithdrawReviewItem, Item
    <3>5. CASE RecordReviewOutcome(j, actor)
      BY <1>0, <3>5 DEF RecordReviewOutcome, Item
    <3>6. QED
      BY <1>4, <3>1, <3>2, <3>3, <3>4, <3>5
  <2>3. QED
    BY <1>2, <2>1, <2>2
<1>5. CASE Supersedes
  <2>1. PICK j \in ItemIds, actor \in Actors, r \in Revisions,
             birth \in REVIEW_ITEM_STATES, envelopeBlocked \in BOOLEAN :
               SupersedeReviewItem(j, actor, r, birth, envelopeBlocked)
    BY <1>5 DEF Supersedes
  <2> DEFINE new == Replacement(items[j], j, actor, r, birth)
  <2>2. /\ j \in 1..count /\ decisions' = decisions
        /\ items' = [items EXCEPT ![count + 1] = new,
                                  ![j].state = "superseded", ![j].supersededBy = count + 1]
    BY <2>1 DEF SupersedeReviewItem, Reviewable, IsItem
  <2> HIDE DEF new
  <2>3. CASE i # j
    BY <1>0, <1>2, <2>2, <2>3
  <2>4. CASE i = j
    <3>1. items'[i] = [items[i] EXCEPT !.state = "superseded", !.supersededBy = count + 1]
      BY <1>0, <2>2, <2>4
    <3>2. items'[i].state = "superseded"
      BY <1>0, <3>1 DEF Item
    <3>3. QED
      BY <1>2, <2>2, <3>2
  <2>5. QED
    BY <2>3, <2>4
<1>6. CASE items' = items /\ decisions' = decisions
  BY <1>2, <1>6
<1>7. QED
  BY <1>1, <1>3, <1>4, <1>5, <1>6 DEF Next, vars, EditArtifact

LEMMA NextPublication == TypeOK /\ PublicationInv /\ [Next]_vars => PublicationInv'
<1> SUFFICES ASSUME TypeOK, PublicationInv, [Next]_vars PROVE PublicationInv'
  OBVIOUS
<1>0. /\ ItemsStep /\ count \in 0..MaxItems /\ count' \in Int /\ 1..count \subseteq ItemIds
      /\ count' = count \/ count' = count + 1
      /\ \A i \in 1..count : items[i] \in Item
      /\ outbox \in [ItemIds -> Seq(Event)]
  BY NextItems, BoundsAssumption DEF TypeOK, ItemIds, ItemsStep
<1>1. ASSUME NEW i \in ItemIds, WasPublished(i)'
      PROVE  WasPublished(i) \/ \E actor \in Members : PublishReviewItem(i, actor)
  BY <1>1, PublicationStep DEF WasPublished, EventsOf
<1>2. ASSUME NEW i \in ItemIds, WasPublished(i)' PROVE i <= count
  <2>1. WasPublished(i) => i <= count
    BY DEF PublicationInv
  <2>2. (\E actor \in Members : PublishReviewItem(i, actor)) => i <= count
    BY <1>0 DEF PublishReviewItem, Reviewable, IsItem
  <2>3. QED
    BY <1>1, <1>2, <2>1, <2>2
<1>3. ASSUME NEW i \in 1..count, i \in NativeItems'
      PROVE  /\ items'[i].state \in {"approved", "published"} => SoundlyApproved(i)'
             /\ WasPublished(i)' =>
                  /\ items'[i].state \in {"published", "superseded"}
                  /\ SoundlyApproved(i)'
                  /\ SoundlyPublished(i)'
  <2> DEFINE x == items[i]
             y == items'[i]
  <2>1. i \in ItemIds /\ x \in Item /\ HeadStep(x, y)
    BY <1>0 DEF ItemsStep
  <2>2. Pinned(x, y) /\ y \in Item /\ x.state \in REVIEW_ITEM_STATES /\ y.state \in REVIEW_ITEM_STATES
    BY <2>1 DEF HeadStep, Item
  <2>3. i \in NativeItems
    BY <1>3, <2>2 DEF NativeItems, Pinned, Bridged
  <2>4. /\ x.state \in {"approved", "published"} => SoundlyApproved(i)
        /\ WasPublished(i) => /\ x.state \in {"published", "superseded"}
                              /\ SoundlyApproved(i) /\ SoundlyPublished(i)
    BY <2>3 DEF PublicationInv
  <2>5. y.state = x.state \/ ReviewItemTransition(x.state, y.state)
    BY <2>1 DEF HeadStep
  <2>6. x.state # "awaiting_review" =>
          y.floor = x.floor /\ y.risk = x.risk /\ y.author = x.author
    BY <2>1, <2>2 DEF HeadStep, Pinned
  <2>7. ASSUME SoundlyApproved(i), x.state # "awaiting_review" PROVE SoundlyApproved(i)'
    <3>1. decisions'[i] = decisions[i]
      BY <2>7, DecisionStep
    <3>2. QED
      BY <2>6, <2>7, <3>1 DEF SoundlyApproved, Rank
  <2>8. ASSUME y.state \in {"approved", "published"} PROVE SoundlyApproved(i)'
    <3>1. CASE x.state \in {"approved", "published"}
      BY <2>4, <2>7, <3>1
    <3>2. CASE x.state \notin {"approved", "published"}
      <4>1. y.state # "published"
        BY <2>2, <2>5, <3>2, MovesOfTheKernel
      <4>2. y.state = "approved" /\ x.state # "approved"
        BY <2>8, <3>2, <4>1
      <4>3. QED
        BY <4>2, DecisionStep
    <3>3. QED
      BY <3>1, <3>2
  <2>9. ASSUME WasPublished(i)'
        PROVE  y.state \in {"published", "superseded"} /\ SoundlyApproved(i)' /\ SoundlyPublished(i)'
    <3>1. ASSUME NEW actor \in Members, PublishReviewItem(i, actor)
          PROVE  /\ x.state = "approved" /\ y.state = "published"
                 /\ Rank(actor) >= ROLE_RANK[x.floor]
                 /\ x.risk = "high" => IsAdmin(actor)
      <4>1. /\ ReviewItemTransition(x.state, "published")
            /\ CanPublishReviewItem(RoleOf[actor], x.risk, x.floor)
        BY <3>1 DEF PublishReviewItem
      <4>2. x.state = "approved"
        BY <2>2, <4>1, MovesOfTheKernel
      <4>3. y.state = "published"
        BY <2>1, <3>1 DEF PublishReviewItem, TypeOK, Item
      <4>4. Rank(actor) >= ROLE_RANK[x.floor] /\ (x.risk = "high" => IsAdmin(actor))
        BY <4>1, NullAssumption DEF CanPublishReviewItem, Rank, IsAdmin
      <4>5. QED
        BY <4>2, <4>3, <4>4
    <3>2. x.state \in {"approved", "published", "superseded"} /\ SoundlyApproved(i)
      BY <1>1, <2>1, <2>4, <2>9, <3>1
    <3>3. y.state \in {"published", "superseded"}
      <4>1. CASE WasPublished(i)
        <5>1. x.state \in {"published", "superseded"}
          BY <2>4, <4>1
        <5>2. QED
          BY <2>5, <5>1 DEF ReviewItemTransition, ALLOWED
      <4>2. CASE ~WasPublished(i)
        BY <1>1, <2>1, <2>9, <3>1, <4>2
      <4>3. QED
        BY <4>1, <4>2
    <3>4. SoundlyApproved(i)'
      BY <2>7, <3>2
    <3>5. SoundlyPublished(i)'
      <4> SUFFICES ASSUME NEW k \in DOMAIN outbox'[i], outbox'[i][k].type = "ReviewItemPublished"
                   PROVE  /\ outbox'[i][k].by \in Members
                          /\ Rank(outbox'[i][k].by) >= ROLE_RANK[y.floor]
                          /\ y.risk = "high" => IsAdmin(outbox'[i][k].by)
        BY DEF SoundlyPublished, EventsOf, Rank, IsAdmin
      <4>1. y.floor = x.floor /\ y.risk = x.risk
        BY <2>6, <3>2
      <4>2. CASE k \in DOMAIN outbox[i] /\ outbox'[i][k] = outbox[i][k]
        <5>1. k \in EventsOf(i, "ReviewItemPublished")
          BY <4>2 DEF EventsOf
        <5>2. SoundlyPublished(i)
          BY <2>4, <5>1 DEF WasPublished
        <5>3. QED
          BY <4>1, <4>2, <5>1, <5>2 DEF SoundlyPublished
      <4>3. CASE \E actor \in Members : PublishReviewItem(i, actor) /\ outbox'[i][k].by = actor
        BY <3>1, <4>1, <4>3
      <4>4. QED
        BY <2>1, <4>2, <4>3, PublicationStep
    <3>6. QED
      BY <3>3, <3>4, <3>5
  <2>10. QED
    BY <2>8, <2>9
<1>4. ASSUME NEW i \in NativeItems', i \notin 1..count
      PROVE  items'[i].state \notin {"approved", "published"} /\ ~WasPublished(i)'
  <2>1. i = count' /\ i \in ItemIds /\ Born(items'[i]) /\ ~(i <= count)
    BY <1>0, <1>4 DEF NativeItems, ItemsStep
  <2>2. QED
    BY <1>2, <2>1 DEF Born, OpenStates
<1>5. ASSUME NEW i \in NativeItems'
      PROVE  /\ items'[i].state \in {"approved", "published"} => SoundlyApproved(i)'
             /\ WasPublished(i)' =>
                  /\ items'[i].state \in {"published", "superseded"}
                  /\ SoundlyApproved(i)'
                  /\ SoundlyPublished(i)'
  BY <1>3, <1>4
<1>6. \A i \in ItemIds : WasPublished(i)' => i <= count'
  BY <1>0, <1>2 DEF ItemIds
<1>7. QED
  BY <1>5, <1>6 DEF PublicationInv

\* For every team and every interleaving of its operations: what is published
\* was approved by a member meeting the floor as last escalated, never by the
\* author of high-risk work, and published by a member entitled to.
THEOREM NothingPublishedUnapproved == Spec => []PublishedWasApproved
<1>1. Init => PublicationInv
  BY DEF Init, PublicationInv, NativeItems, WasPublished, EventsOf
<1>2. Spec => []PublicationInv
  BY <1>1, NextPublication, TypeCorrect, PTL DEF Spec
<1>3. QED
  BY <1>2, PublicationInvSuffices, PTL

-----------------------------------------------------------------------------
(***************************************************************************)
(* What one step does to a review as a whole: its head, its decision log   *)
(* and its events.                                                         *)
(***************************************************************************)

Still(i) ==
  items'[i] = items[i] /\ decisions'[i] = decisions[i] /\ outbox'[i] = outbox[i]

SameVerdict(x, y) ==
  y.latest = x.latest /\ y.reviewedBy = x.reviewedBy /\ y.floor = x.floor

Noted(i, type) ==
  \E by \in Actors :
    outbox'[i] = Append(outbox[i], [type |-> type, state |-> items'[i].state, by |-> by])

\* An open item is given another reviewer.
Reassigned(i) ==
  /\ items[i].state \in OpenStates /\ items'[i].state = items[i].state
  /\ SameVerdict(items[i], items'[i])
  /\ items'[i].supersededBy = items[i].supersededBy
  /\ decisions'[i] = decisions[i] /\ outbox'[i] = outbox[i]

EventTypes ==
  {"ReviewItemCreated", "ReviewItemSubmitted", "ReviewItemPublished", "ReviewItemWithdrawn",
   "ReviewItemSuperseded", "ReviewOutcomeRecorded"}

\* Its state moves without a decision, or an outcome is recorded.
Moved(i) ==
  /\ items[i].state \notin TerminalReviewStates
  /\ items'[i].state \in OpenStates => items[i].state \in OpenStates
  /\ items[i].state # "published" /\ items'[i].state = "published" =>
       artifact[items[i].artifact] = items[i].revision
  /\ SameVerdict(items[i], items'[i]) /\ items'[i].assigned = items[i].assigned
  /\ decisions'[i] = decisions[i]
  /\ \E type \in EventTypes : Noted(i, type)

Shifted(i) ==
  Moved(i) /\ items'[i].state # "superseded" /\ items'[i].supersededBy = items[i].supersededBy

\* It is decided.
Turned(i, actor, decision) ==
  /\ items[i].state = "awaiting_review"
  /\ Rank(actor) >= ROLE_RANK[items[i].floor]
  /\ WithinAssignment(i, actor)
  /\ items'[i].state = DECISION_TO_STATE[decision]
  /\ items'[i].latest = decision
  /\ items'[i].reviewedBy = IF decision = "escalated" THEN items[i].reviewedBy ELSE actor
  /\ items'[i].assigned = items[i].assigned
  /\ items'[i].supersededBy = items[i].supersededBy
  /\ decisions'[i] =
       Append(decisions[i], [decision |-> decision, by |-> actor, floor |-> items'[i].floor])
  /\ items'[i].floor \in REVIEWER_ROLES
  /\ Noted(i, "ReviewDecisionRecorded")

\* A review nobody has looked at.
Fresh(n) ==
  /\ items'[n].state \in OpenStates
  /\ items'[n].latest = "none" /\ items'[n].reviewedBy = Null
  /\ items'[n].supersededBy = NoItem
  /\ decisions'[n] = decisions[n]
  /\ Noted(n, "ReviewItemCreated")

\* At least as strict as what it replaces.
Succeeds(x, i, y) ==
  /\ y.prev = i /\ y.artifact = x.artifact /\ y.workflow = x.workflow
  /\ RISK_RANK[y.risk] >= RISK_RANK[x.risk]
  /\ ROLE_RANK[y.floor] >= ROLE_RANK[x.floor]

OneMoves ==
  /\ count' = count
  /\ \E i \in 1..count :
       /\ \/ Reassigned(i) \/ Shifted(i)
          \/ \E actor \in Members, decision \in REVIEW_DECISIONS : Turned(i, actor, decision)
       /\ \A j \in ItemIds \ {i} : Still(j)

OneIsBorn ==
  /\ count' = count + 1 /\ count' \in ItemIds /\ Fresh(count')
  /\ \A j \in ItemIds \ {count'} : Still(j)

OneIsReplaced ==
  /\ count' = count + 1 /\ count' \in ItemIds /\ Fresh(count')
  /\ \E i \in 1..count :
       /\ Moved(i)
       /\ items'[i].state = "superseded" /\ items'[i].supersededBy = count'
       /\ Succeeds(items[i], i, items'[count'])
       /\ \A j \in ItemIds \ {i, count'} : Still(j)

NothingMoves == count' = count /\ \A j \in ItemIds : Still(j)

\* An announcement is the last event of its item.
LEMMA AnnouncedEvent ==
  ASSUME NEW log \in [ItemIds -> Seq(Event)], NEW i \in ItemIds,
         NEW type, NEW state, NEW by
  PROVE  /\ Announce(log, i, type, state, by)[i] =
              Append(log[i], [type |-> type, state |-> state, by |-> by])
         /\ \A j \in ItemIds \ {i} : Announce(log, i, type, state, by)[j] = log[j]
BY DEF Announce

LEMMA AnnouncementNotes ==
  ASSUME outbox \in [ItemIds -> Seq(Event)], NEW i \in ItemIds, NEW type, NEW by \in Actors,
         outbox' = Announce(outbox, i, type, items'[i].state, by)
  PROVE  Noted(i, type)
BY AnnouncedEvent DEF Noted

LEMMA NobodyIsActor == Null \in Actors /\ Members \subseteq Actors
BY DEF Actors

\* An operation on one item leaves the others.
LEMMA OthersRest ==
  ASSUME TypeOK, NEW i \in ItemIds, NEW y, items' = [items EXCEPT ![i] = y],
         decisions' = decisions \/ \E log : decisions' = [decisions EXCEPT ![i] = log],
         outbox' = outbox \/ \E log : outbox' = [outbox EXCEPT ![i] = log]
  PROVE  \A j \in ItemIds \ {i} : Still(j)
BY DEF TypeOK, Still

LEMMA SubmitStep ==
  ASSUME TypeOK, NEW i \in ItemIds, NEW actor \in Members, SubmitReviewItem(i, actor)
  PROVE  OneMoves
<1> DEFINE y == [items[i] EXCEPT !.state = "awaiting_review", !.submitted = TRUE]
<1>0. items' = [items EXCEPT ![i] = y]
  BY DEF SubmitReviewItem, TypeOK
<1>1. /\ i \in 1..count /\ ReviewItemTransition(items[i].state, "awaiting_review")
      /\ decisions' = decisions /\ count' = count
      /\ outbox' = Announce(outbox, i, "ReviewItemSubmitted", "awaiting_review", Null)
      /\ outbox \in [ItemIds -> Seq(Event)] /\ items[i] \in Item
  BY DEF SubmitReviewItem, Reviewable, IsItem, TypeOK
<1>2. /\ y.state = "awaiting_review" /\ SameVerdict(items[i], y)
      /\ y.assigned = items[i].assigned /\ y.supersededBy = items[i].supersededBy
  BY <1>1 DEF Item, SameVerdict
<1>3. items[i].state \notin TerminalReviewStates /\ items[i].state \in OpenStates
  BY <1>1, MovesOfTheKernel DEF Item, OpenStates
<1> HIDE DEF y
<1>4. items'[i] = y
  BY <1>0 DEF TypeOK
<1>5. Noted(i, "ReviewItemSubmitted")
  BY <1>1, <1>2, <1>4, AnnouncementNotes, NobodyIsActor
<1>6. Shifted(i)
  BY <1>1, <1>2, <1>3, <1>4, <1>5 DEF Shifted, Moved, EventTypes
<1>7. \A j \in ItemIds \ {i} : Still(j)
  BY <1>0, <1>1, OthersRest DEF Announce
<1>8. QED
  BY <1>1, <1>6, <1>7 DEF OneMoves

LEMMA AssignStep ==
  ASSUME TypeOK, NEW i \in ItemIds, NEW actor \in Members, NEW reviewer \in Members,
         AssignReviewer(i, actor, reviewer)
  PROVE  OneMoves
<1> DEFINE y == [items[i] EXCEPT !.assigned = reviewer]
<1>1. /\ i \in 1..count /\ items[i].state \in OpenStates
      /\ items' = [items EXCEPT ![i] = y] /\ decisions' = decisions /\ count' = count
      /\ outbox' = outbox /\ items[i] \in Item
  BY DEF AssignReviewer, IsItem, TypeOK
<1>2. /\ y.state = items[i].state /\ SameVerdict(items[i], y)
      /\ y.supersededBy = items[i].supersededBy
  BY <1>1 DEF Item, SameVerdict
<1> HIDE DEF y
<1>3. items'[i] = y
  BY <1>1 DEF TypeOK
<1>4. Reassigned(i)
  BY <1>1, <1>2, <1>3 DEF Reassigned
<1>5. \A j \in ItemIds \ {i} : Still(j)
  BY <1>1, OthersRest
<1>6. QED
  BY <1>1, <1>4, <1>5 DEF OneMoves

LEMMA PublishStep ==
  ASSUME TypeOK, NEW i \in ItemIds, NEW actor \in Members, PublishReviewItem(i, actor)
  PROVE  OneMoves
<1> DEFINE y == [items[i] EXCEPT !.state = "published"]
<1>1. /\ i \in 1..count /\ ReviewItemTransition(items[i].state, "published")
      /\ artifact[items[i].artifact] = items[i].revision
      /\ items' = [items EXCEPT ![i] = y] /\ decisions' = decisions /\ count' = count
      /\ outbox' = Announce(outbox, i, "ReviewItemPublished", "published", actor)
      /\ outbox \in [ItemIds -> Seq(Event)] /\ items[i] \in Item
  BY DEF PublishReviewItem, Reviewable, IsItem, TypeOK
<1>2. /\ y.state = "published" /\ SameVerdict(items[i], y)
      /\ y.assigned = items[i].assigned /\ y.supersededBy = items[i].supersededBy
  BY <1>1 DEF Item, SameVerdict
<1>3. items[i].state \notin TerminalReviewStates
  BY <1>1, MovesOfTheKernel DEF Item
<1> HIDE DEF y
<1>4. items'[i] = y
  BY <1>1 DEF TypeOK
<1>5. Noted(i, "ReviewItemPublished")
  BY <1>1, <1>2, <1>4, AnnouncementNotes, NobodyIsActor
<1>6. Shifted(i)
  BY <1>1, <1>2, <1>3, <1>4, <1>5 DEF Shifted, Moved, EventTypes, OpenStates
<1>7. \A j \in ItemIds \ {i} : Still(j)
  BY <1>1, OthersRest DEF Announce
<1>8. QED
  BY <1>1, <1>6, <1>7 DEF OneMoves

LEMMA WithdrawStep ==
  ASSUME TypeOK, NEW i \in ItemIds, NEW actor \in Members, WithdrawReviewItem(i, actor)
  PROVE  OneMoves
<1> DEFINE y == [items[i] EXCEPT !.state = "withdrawn"]
<1>1. /\ i \in 1..count /\ ReviewItemTransition(items[i].state, "withdrawn")
      /\ items' = [items EXCEPT ![i] = y] /\ decisions' = decisions /\ count' = count
      /\ outbox' = Announce(outbox, i, "ReviewItemWithdrawn", "withdrawn", actor)
      /\ outbox \in [ItemIds -> Seq(Event)] /\ items[i] \in Item
  BY DEF WithdrawReviewItem, Reviewable, IsItem, TypeOK
<1>2. /\ y.state = "withdrawn" /\ SameVerdict(items[i], y)
      /\ y.assigned = items[i].assigned /\ y.supersededBy = items[i].supersededBy
  BY <1>1 DEF Item, SameVerdict
<1>3. items[i].state \notin TerminalReviewStates
  BY <1>1, MovesOfTheKernel DEF Item
<1> HIDE DEF y
<1>4. items'[i] = y
  BY <1>1 DEF TypeOK
<1>5. Noted(i, "ReviewItemWithdrawn")
  BY <1>1, <1>2, <1>4, AnnouncementNotes, NobodyIsActor
<1>6. Shifted(i)
  BY <1>1, <1>2, <1>3, <1>4, <1>5 DEF Shifted, Moved, EventTypes, OpenStates
<1>7. \A j \in ItemIds \ {i} : Still(j)
  BY <1>1, OthersRest DEF Announce
<1>8. QED
  BY <1>1, <1>6, <1>7 DEF OneMoves

LEMMA OutcomeStep ==
  ASSUME TypeOK, NEW i \in ItemIds, NEW actor \in Members, RecordReviewOutcome(i, actor)
  PROVE  OneMoves
<1> DEFINE y == [items[i] EXCEPT !.outcome = TRUE]
<1>1. /\ i \in 1..count /\ items[i].state = "published"
      /\ items' = [items EXCEPT ![i] = y] /\ decisions' = decisions /\ count' = count
      /\ outbox' = Announce(outbox, i, "ReviewOutcomeRecorded", "published", Null)
      /\ outbox \in [ItemIds -> Seq(Event)] /\ items[i] \in Item
  BY DEF RecordReviewOutcome, IsItem, TypeOK
<1>2. /\ y.state = "published" /\ SameVerdict(items[i], y)
      /\ y.assigned = items[i].assigned /\ y.supersededBy = items[i].supersededBy
  BY <1>1 DEF Item, SameVerdict
<1>3. items[i].state \notin TerminalReviewStates
  <2>1. ReviewItemTransition("published", "superseded") /\ "published" \in REVIEW_ITEM_STATES
    BY DEF ReviewItemTransition, ALLOWED, REVIEW_ITEM_STATES
  <2>2. QED
    BY <1>1, <2>1, MovesOfTheKernel
<1> HIDE DEF y
<1>4. items'[i] = y
  BY <1>1 DEF TypeOK
<1>5. Noted(i, "ReviewOutcomeRecorded")
  BY <1>1, <1>2, <1>4, AnnouncementNotes, NobodyIsActor
<1>6. Shifted(i)
  BY <1>1, <1>2, <1>3, <1>4, <1>5 DEF Shifted, Moved, EventTypes, OpenStates
<1>7. \A j \in ItemIds \ {i} : Still(j)
  BY <1>1, OthersRest DEF Announce
<1>8. QED
  BY <1>1, <1>6, <1>7 DEF OneMoves

LEMMA DecideStep == ASSUME TypeOK, Decides PROVE OneMoves
<1>1. PICK i \in ItemIds, actor \in Members, decision \in REVIEW_DECISIONS,
           reason \in Reasons, edits \in EditCounts, digest \in Digests :
             RecordReviewDecision(i, actor, decision, reason, edits, digest)
  BY DEF Decides
<1> DEFINE x == items[i]
           y == Decided(x, decision, actor, digest)
           entry == [decision |-> decision, by |-> actor, floor |-> FloorAfter(decision, x.floor)]
<1>2. /\ i \in 1..count /\ x \in Item
      /\ DecisionAllowed(decision, x.state, edits, reason, x.floor)
      /\ CanReview(x.risk, x.floor, RoleOf[actor], actor, x.author)
      /\ WithinAssignment(i, actor)
      /\ items' = [items EXCEPT ![i] = y] /\ count' = count
      /\ decisions' = [decisions EXCEPT ![i] = Append(decisions[i], entry)]
      /\ outbox' = Announce(outbox, i, "ReviewDecisionRecorded", DECISION_TO_STATE[decision], Null)
      /\ outbox \in [ItemIds -> Seq(Event)] /\ decisions \in [ItemIds -> Seq(Decision)]
  BY <1>1 DEF RecordReviewDecision, Reviewable, IsItem, TypeOK
<1> HIDE DEF x
<1>3. /\ y \in Item /\ y.state = DECISION_TO_STATE[decision] /\ y.latest = decision
      /\ y.floor = FloorAfter(decision, x.floor)
      /\ y.reviewedBy = IF decision = "escalated" THEN x.reviewedBy ELSE actor
      /\ y.assigned = x.assigned /\ y.supersededBy = x.supersededBy
  <2>1. x \in Item /\ DecisionAllowed(decision, x.state, edits, reason, x.floor)
    BY <1>2
  <2>2. QED
    BY <2>1, DecidedFields
<1> HIDE DEF y, entry
<1>4. items'[i] = y /\ decisions'[i] = Append(decisions[i], entry)
  BY <1>2 DEF TypeOK
<1>5. Noted(i, "ReviewDecisionRecorded")
  BY <1>2, <1>3, <1>4, AnnouncementNotes, NobodyIsActor
<1>6. Turned(i, actor, decision)
  <2>1. x.state = "awaiting_review" /\ Rank(actor) >= ROLE_RANK[x.floor]
    BY <1>2 DEF DecisionAllowed, CanReview, Rank
  <2>2. y.floor \in REVIEWER_ROLES
    BY <1>3 DEF Item
  <2>3. entry = [decision |-> decision, by |-> actor, floor |-> y.floor]
    BY <1>3 DEF entry
  <2>4. QED
    BY <1>2, <1>3, <1>4, <1>5, <2>1, <2>2, <2>3 DEF Turned, x
<1>7. \A j \in ItemIds \ {i} : Still(j)
  BY <1>2, OthersRest DEF Announce
<1>8. QED
  BY <1>2, <1>6, <1>7 DEF OneMoves

\* What a fresh item is, however it is born.
LEMMA NewItemFields ==
  ASSUME NEW a, NEW r, NEW w, NEW risk, NEW floor, NEW author, NEW birth, NEW prev
  PROVE  LET y == NewItem(a, r, w, risk, floor, author, birth, prev)
         IN  /\ y.state = birth /\ y.latest = "none" /\ y.reviewedBy = Null
             /\ y.supersededBy = NoItem /\ y.prev = prev /\ y.artifact = a /\ y.workflow = w
             /\ y.risk = risk /\ y.floor = floor
BY DEF NewItem

LEMMA CreateStep == ASSUME TypeOK, Creates PROVE OneIsBorn
<1>1. PICK actor \in Actors, a \in Artifacts, r \in Revisions, w \in WorkflowTypes,
           ask \in Overrides, birth \in REVIEW_ITEM_STATES,
           prev \in ItemIds \cup {NoItem}, envelopeBlocked \in BOOLEAN :
             CreateReviewItem(actor, a, r, w, ask, birth, prev, envelopeBlocked)
  BY Zenon DEF Creates
<1> DEFINE y == NewItem(a, r, w, ResolveRisk(TypeOf[a], ask.risk),
                        ResolveRole(TypeOf[a], ask.role), actor, birth, prev)
           n == count + 1
<1>2. /\ count < MaxItems /\ birth \in OpenStates /\ count' = n
      /\ items' = [items EXCEPT ![n] = y] /\ decisions' = decisions
      /\ outbox' = Announce(outbox, n, "ReviewItemCreated", birth, Null)
  BY <1>1, Zenon DEF CreateReviewItem, MayCreate
<1>3. n \in ItemIds /\ outbox \in [ItemIds -> Seq(Event)]
  BY <1>2, BoundsAssumption DEF ItemIds, TypeOK
<1>4. /\ y.state = birth /\ y.latest = "none" /\ y.reviewedBy = Null
      /\ y.supersededBy = NoItem
  BY NewItemFields
<1> HIDE DEF y, n
<1>5. items'[n] = y
  BY <1>2, <1>3 DEF TypeOK
<1>6. Noted(n, "ReviewItemCreated")
  BY <1>2, <1>3, <1>4, <1>5, AnnouncementNotes, NobodyIsActor
<1>7. Fresh(n)
  BY <1>2, <1>4, <1>5, <1>6 DEF Fresh
<1>8. \A j \in ItemIds \ {n} : Still(j)
  BY <1>2, <1>3, OthersRest DEF Announce
<1>9. QED
  BY <1>2, <1>3, <1>7, <1>8 DEF OneIsBorn, n

LEMMA SupersedeStep == ASSUME TypeOK, Supersedes PROVE OneIsReplaced
<1>1. PICK i \in ItemIds, actor \in Actors, r \in Revisions,
           birth \in REVIEW_ITEM_STATES, envelopeBlocked \in BOOLEAN :
             SupersedeReviewItem(i, actor, r, birth, envelopeBlocked)
  BY DEF Supersedes
<1> DEFINE x == items[i]
           n == count + 1
           new == Replacement(x, i, actor, r, birth)
           y == [x EXCEPT !.state = "superseded", !.supersededBy = n]
           mid == Announce(outbox, n, "ReviewItemCreated", birth, Null)
<1>2. /\ i \in 1..count /\ ReviewItemTransition(x.state, "superseded")
      /\ count < MaxItems /\ birth \in OpenStates
      /\ count' = n /\ decisions' = decisions
      /\ outbox' = Announce(mid, i, "ReviewItemSuperseded", "superseded", Null)
  BY <1>1 DEF SupersedeReviewItem, MayCreate, Reviewable, IsItem
<1>3. /\ n \in ItemIds /\ i # n /\ x \in Item /\ Null \in Actors
      /\ outbox \in [ItemIds -> Seq(Event)] /\ birth \in REVIEW_ITEM_STATES
  BY <1>2, BoundsAssumption DEF ItemIds, TypeOK, Actors
<1>4. items' = [items EXCEPT ![n] = new, ![i] = y]
  BY <1>1, <1>3 DEF SupersedeReviewItem, TypeOK
<1>5. /\ new.state = birth /\ new.latest = "none" /\ new.reviewedBy = Null
      /\ new.supersededBy = NoItem
  BY NewItemFields DEF Replacement
<1>6. Succeeds(x, i, new)
  <2>1. TypeOf[x.artifact] \in REVIEW_ARTIFACT_TYPES
    BY <1>3, ArtifactsAssumption DEF Item
  <2>2. x.risk \in REVIEW_RISK_CLASSES /\ x.floor \in REVIEWER_ROLES
    BY <1>3 DEF Item
  <2>3. /\ new.prev = i /\ new.artifact = x.artifact /\ new.workflow = x.workflow
        /\ new.risk = ResolveRisk(TypeOf[x.artifact], x.risk)
        /\ new.floor = ResolveRole(TypeOf[x.artifact], x.floor)
    BY NewItemFields DEF Replacement
  <2> HIDE DEF x, new
  <2>4. QED
    BY <2>1, <2>2, <2>3, PolicyIsBaselineOrStricter DEF Succeeds
<1>7. /\ y.state = "superseded" /\ y.supersededBy = n /\ SameVerdict(x, y)
      /\ y.assigned = x.assigned
  BY <1>3 DEF Item, SameVerdict
<1>8. x.state \notin TerminalReviewStates
  BY <1>2, <1>3, MovesOfTheKernel DEF Item
<1>9. mid \in [ItemIds -> Seq(Event)]
  BY <1>3, AnnounceType
<1>10. /\ mid[n] = Append(outbox[n], [type |-> "ReviewItemCreated", state |-> birth, by |-> Null])
       /\ \A j \in ItemIds \ {n} : mid[j] = outbox[j]
  BY <1>3, AnnouncedEvent
<1> HIDE DEF mid
<1>11. /\ outbox'[i] =
            Append(mid[i], [type |-> "ReviewItemSuperseded", state |-> "superseded", by |-> Null])
       /\ \A j \in ItemIds \ {i} : outbox'[j] = mid[j]
  BY <1>2, <1>9, AnnouncedEvent
<1>a. n = count + 1
  OBVIOUS
<1> HIDE DEF new, y, n
<1>12. items'[n] = new /\ items'[i] = y /\ \A j \in ItemIds \ {i, n} : items'[j] = items[j]
  BY <1>3, <1>4 DEF TypeOK
<1>13. Noted(n, "ReviewItemCreated") /\ Noted(i, "ReviewItemSuperseded")
  BY <1>3, <1>5, <1>7, <1>10, <1>11, <1>12 DEF Noted
<1>14. Fresh(n)
  BY <1>2, <1>5, <1>12, <1>13 DEF Fresh
<1>15. Moved(i) /\ items'[i].state = "superseded" /\ items'[i].supersededBy = n
  BY <1>2, <1>7, <1>8, <1>12, <1>13 DEF Moved, OpenStates, EventTypes
<1>16. \A j \in ItemIds \ {i, n} : Still(j)
  BY <1>2, <1>10, <1>11, <1>12 DEF Still
<1>17. QED
  BY <1>2, <1>3, <1>6, <1>12, <1>14, <1>15, <1>16, <1>a DEF OneIsReplaced

\* Every step of the store is one of these.
LEMMA NextReviews ==
  ASSUME TypeOK, [Next]_vars
  PROVE  OneMoves \/ OneIsBorn \/ OneIsReplaced \/ NothingMoves
<1>1. ASSUME UNCHANGED <<items, count, decisions, outbox>> PROVE NothingMoves
  BY <1>1 DEF NothingMoves, Still
<1>2. QED
  BY <1>1, SubmitStep, AssignStep, PublishStep, WithdrawStep, OutcomeStep, DecideStep,
     CreateStep, SupersedeStep DEF Next, vars, EditArtifact

\* Seen from one item: it rests, or it is assigned, moved or decided.
ReviewStep(i) ==
  \/ Still(i) \/ Reassigned(i) \/ Moved(i)
  \/ \E actor \in Members, decision \in REVIEW_DECISIONS : Turned(i, actor, decision)

LEMMA ReviewSteps ==
  ASSUME TypeOK, [Next]_vars
  PROVE  /\ \A i \in 1..count : ReviewStep(i)
         /\ count' = count \/ (count' = count + 1 /\ Fresh(count'))
         /\ \A i \in ItemIds : i > count' => Still(i)
<1>1. 1..count \subseteq ItemIds /\ count \in Nat /\ ItemIds \subseteq Nat
  BY BoundsAssumption DEF TypeOK, ItemIds
<1>2. CASE OneMoves
  BY <1>1, <1>2 DEF OneMoves, ReviewStep, Shifted
<1>3. CASE OneIsBorn
  BY <1>1, <1>3 DEF OneIsBorn, ReviewStep
<1>4. CASE OneIsReplaced
  BY <1>1, <1>4 DEF OneIsReplaced, ReviewStep
<1>5. CASE NothingMoves
  BY <1>1, <1>5 DEF NothingMoves, ReviewStep
<1>6. QED
  BY <1>2, <1>3, <1>4, <1>5, NextReviews

\* Whatever operation is called, a closed review keeps its head, its log and
\* its events: only open items are assigned, and no edge leaves a closed state.
THEOREM ClosedStaysClosed == Spec => ClosedReviewsAreFinal
<1>1. ASSUME TypeOK, [Next]_vars, NEW i \in 1..count, items[i].state \in TerminalReviewStates
      PROVE  Still(i)
  <2>1. items[i].state \notin OpenStates
    BY <1>1 DEF TerminalReviewStates, ALLOWED, OpenStates, REVIEW_ITEM_STATES
  <2>2. ReviewStep(i)
    BY <1>1, ReviewSteps
  <2>3. QED
    BY <1>1, <2>1, <2>2 DEF ReviewStep, Reassigned, Moved, Turned, OpenStates
<1>2. TypeOK /\ [Next]_vars =>
        \A i \in 1..count : items[i].state \in TerminalReviewStates =>
          /\ items'[i] = items[i]
          /\ decisions'[i] = decisions[i]
          /\ outbox'[i] = outbox[i]
  BY <1>1 DEF Still
<1>3. QED
  BY <1>2, TypeCorrect, PTL DEF Spec, ClosedReviewsAreFinal

\* At the moment of publication the artifact holds the reviewed content, for
\* every history of edits: publication compares the digest, not the label.
THEOREM PublicationIsCurrent == Spec => PublishesReviewedContent
<1>1. ASSUME TypeOK, [Next]_vars, NEW i \in NativeItems,
             items[i].state # "published", items'[i].state = "published"
      PROVE  artifact[items[i].artifact] = items[i].revision
  <2>1. i \in 1..count /\ ReviewStep(i)
    BY <1>1, ReviewSteps DEF NativeItems
  <2>2. \A decision \in REVIEW_DECISIONS : DECISION_TO_STATE[decision] # "published"
    BY DEF DECISION_TO_STATE, REVIEW_DECISIONS
  <2>3. QED
    BY <1>1, <2>1, <2>2 DEF ReviewStep, Still, Reassigned, Moved, Turned
<1>2. TypeOK /\ [Next]_vars =>
        \A i \in NativeItems : items[i].state # "published" /\ items'[i].state = "published" =>
          artifact[items[i].artifact] = items[i].revision
  BY <1>1
<1>3. QED
  BY <1>2, TypeCorrect, PTL DEF Spec, PublishesReviewedContent

-----------------------------------------------------------------------------
(***************************************************************************)
(* Head, log and outbox tell one story.  An open item has logged nothing   *)
(* but escalations, so nobody has signed it; what its head says is the     *)
(* last entry of its log; and each decision was announced.                 *)
(***************************************************************************)

LastDecision(i) == decisions[i][Len(decisions[i])]

HeadTells(i) ==
  IF decisions[i] = << >>
  THEN items[i].latest = "none" /\ items[i].reviewedBy = Null
  ELSE /\ items[i].latest = LastDecision(i).decision
       /\ items[i].floor = LastDecision(i).floor
       /\ items[i].reviewedBy =
            IF LastDecision(i).decision = "escalated" THEN Null ELSE LastDecision(i).by

OpenIsUndecided(i) ==
  items[i].state \in OpenStates => items[i].latest \in {"none", "escalated"}

EscalationsBind(i) ==
  \A k \in 2..Len(decisions[i]) :
    /\ decisions[i][k-1].decision = "escalated"
    /\ Rank(decisions[i][k].by) >= ROLE_RANK[decisions[i][k-1].floor]

AssigneeDecided(i) ==
  items[i].reviewedBy # Null =>
    items[i].assigned \in {Null, items[i].reviewedBy} \/ IsAdmin(items[i].reviewedBy)

Announced(i) ==
  /\ outbox[i] # << >>
  /\ outbox[i][Len(outbox[i])].state = items[i].state
  /\ Len(decisions[i]) = Cardinality(EventsOf(i, "ReviewDecisionRecorded"))

Story(i) ==
  /\ HeadTells(i) /\ OpenIsUndecided(i) /\ EscalationsBind(i) /\ AssigneeDecided(i)
  /\ Announced(i)

StoryInv ==
  /\ \A i \in 1..count : Story(i)
  /\ \A i \in ItemIds : i > count => decisions[i] = << >> /\ outbox[i] = << >>

LEMMA Appended ==
  ASSUME NEW S, NEW s \in Seq(S), NEW e \in S
  PROVE  /\ Append(s, e) # << >> /\ Len(s) \in Nat
         /\ Len(Append(s, e)) = Len(s) + 1
         /\ Append(s, e)[Len(s) + 1] = e
         /\ \A k \in 1..Len(s) : Append(s, e)[k] = s[k]
         /\ DOMAIN s = 1..Len(s) /\ DOMAIN Append(s, e) = 1..(Len(s) + 1)
OBVIOUS

\* How an event adds to the events of one type.
LEMMA EventsCounted ==
  ASSUME NEW s \in Seq(Event), NEW e \in Event, NEW type
  PROVE  LET Of(log) == {k \in DOMAIN log : log[k].type = type}
         IN  /\ Cardinality(Of(<< >>)) = 0
             /\ Cardinality(Of(Append(s, e))) =
                  IF e.type = type THEN Cardinality(Of(s)) + 1 ELSE Cardinality(Of(s))
<1> DEFINE Of(log) == {k \in DOMAIN log : log[k].type = type}
           n == Len(s) + 1
<1>1. /\ Len(s) \in Nat /\ Append(s, e)[n] = e /\ DOMAIN s = 1..Len(s)
      /\ \A k \in 1..Len(s) : Append(s, e)[k] = s[k]
      /\ DOMAIN Append(s, e) = 1..n
  BY Appended
<1>2. Of(Append(s, e)) = IF e.type = type THEN Of(s) \cup {n} ELSE Of(s)
  BY <1>1
<1>3. IsFiniteSet(Of(s)) /\ n \notin Of(s)
  <2>1. IsFiniteSet(1..Len(s)) /\ Of(s) \subseteq 1..Len(s)
    BY <1>1, FS_Interval
  <2>2. QED
    BY <1>1, <2>1, FS_Subset
<1>4. Cardinality(Of(s) \cup {n}) = Cardinality(Of(s)) + 1
  BY <1>3, FS_AddElement
<1>5. Of(<< >>) = {} /\ Cardinality({}) = 0
  BY FS_EmptySet
<1>6. QED
  BY <1>2, <1>4, <1>5

\* One event more, with the state of the item.
LEMMA NotedEvent ==
  ASSUME TypeOK, TypeOK', NEW i \in 1..count', 
         NEW type \in EventTypes \cup {"ReviewDecisionRecorded"}, Noted(i, type)
  PROVE  /\ outbox'[i] # << >>
         /\ outbox'[i][Len(outbox'[i])].state = items'[i].state
         /\ Cardinality(EventsOf(i, "ReviewDecisionRecorded")') =
              IF type = "ReviewDecisionRecorded"
              THEN Cardinality(EventsOf(i, "ReviewDecisionRecorded")) + 1
              ELSE Cardinality(EventsOf(i, "ReviewDecisionRecorded"))
<1>1. PICK by \in Actors :
        outbox'[i] = Append(outbox[i], [type |-> type, state |-> items'[i].state, by |-> by])
  BY DEF Noted
<1> DEFINE e == [type |-> type, state |-> items'[i].state, by |-> by]
<1>2. i \in ItemIds /\ items'[i] \in Item /\ outbox[i] \in Seq(Event)
  BY BoundsAssumption DEF TypeOK, ItemIds
<1>3. e \in Event /\ e.type = type /\ e.state = items'[i].state
  BY <1>2 DEF Event, EventTypes, Item
<1> HIDE DEF e
<1>4. outbox'[i] = Append(outbox[i], e)
  BY <1>1 DEF e
<1>5. outbox'[i] # << >> /\ outbox'[i][Len(outbox'[i])] = e
  BY <1>2, <1>3, <1>4, Appended
<1> DEFINE told == "ReviewDecisionRecorded"
           Of(log) == {k \in DOMAIN log : log[k].type = told}
<1>6. Cardinality(Of(Append(outbox[i], e))) =
        IF e.type = told THEN Cardinality(Of(outbox[i])) + 1 ELSE Cardinality(Of(outbox[i]))
  BY <1>2, <1>3, EventsCounted
<1>7. EventsOf(i, told) = Of(outbox[i]) /\ EventsOf(i, told)' = Of(Append(outbox[i], e))
  BY <1>4 DEF EventsOf
<1>8. QED
  BY <1>2, <1>3, <1>5, <1>6, <1>7

\* Nobody has signed what is open.
LEMMA OpenIsUnsigned ==
  ASSUME TypeOK, NEW i \in 1..count, Story(i), items[i].state \in OpenStates
  PROVE  items[i].latest \in {"none", "escalated"} /\ items[i].reviewedBy = Null
<1>1. items[i].latest \in {"none", "escalated"} /\ HeadTells(i)
  BY DEF Story, OpenIsUndecided
<1>2. CASE decisions[i] = << >>
  BY <1>1, <1>2 DEF HeadTells
<1>3. CASE decisions[i] # << >>
  <2>1. decisions[i] \in Seq(Decision) /\ Len(decisions[i]) \in DOMAIN decisions[i]
    <3>1. decisions[i] \in Seq(Decision)
      BY BoundsAssumption DEF TypeOK, ItemIds
    <3>2. QED
      BY <1>3, <3>1
  <2>2. LastDecision(i).decision # "none"
    <3>1. LastDecision(i) \in Decision
      BY <2>1 DEF LastDecision
    <3>2. "none" \notin REVIEW_DECISIONS
      BY DEF REVIEW_DECISIONS, DECISION_TO_STATE
    <3>3. QED
      BY <3>1, <3>2 DEF Decision
  <2>3. QED
    BY <1>1, <1>3, <2>2 DEF HeadTells
<1>4. QED
  BY <1>1, <1>2, <1>3

LEMMA StoryOfTheFresh ==
  ASSUME TypeOK, TypeOK', NEW i \in 1..count', Fresh(i),
         decisions[i] = << >>, outbox[i] = << >>
  PROVE  Story(i)'
<1>1. Noted(i, "ReviewItemCreated") /\ decisions'[i] = << >>
  BY DEF Fresh
<1>2. Cardinality(EventsOf(i, "ReviewDecisionRecorded")) = 0
  BY FS_EmptySet DEF EventsOf
<1>3. Announced(i)'
  BY <1>1, <1>2, NotedEvent DEF Announced, EventTypes
<1>4. HeadTells(i)' /\ OpenIsUndecided(i)' /\ AssigneeDecided(i)'
  BY <1>1 DEF Fresh, HeadTells, OpenIsUndecided, AssigneeDecided
<1>5. EscalationsBind(i)'
  BY <1>1 DEF EscalationsBind
<1>6. QED
  BY <1>3, <1>4, <1>5 DEF Story

\* Nothing of the story but the announcement changes with a move.
LEMMA StoryOfTheMoved ==
  ASSUME TypeOK, TypeOK', NEW i \in 1..count, i \in 1..count', Story(i), Moved(i)
  PROVE  Story(i)'
<1>1. PICK type \in EventTypes : Noted(i, type)
  BY DEF Moved
<1>2. type # "ReviewDecisionRecorded"
  BY DEF EventTypes
<1>3. Announced(i)'
  BY <1>1, <1>2, NotedEvent DEF Announced, Story, Moved
<1>4. HeadTells(i)' /\ OpenIsUndecided(i)' /\ AssigneeDecided(i)'
  BY DEF Moved, SameVerdict, Story, HeadTells, OpenIsUndecided, AssigneeDecided, LastDecision,
         IsAdmin
<1>5. EscalationsBind(i)'
  BY DEF Moved, Story, EscalationsBind, Rank
<1>6. QED
  BY <1>3, <1>4, <1>5 DEF Story

LEMMA StoryOfTheReassigned ==
  ASSUME TypeOK, NEW i \in 1..count, Story(i), Reassigned(i)
  PROVE  Story(i)'
<1>1. items[i].reviewedBy = Null
  BY OpenIsUnsigned DEF Reassigned
<1>2. AssigneeDecided(i)' /\ HeadTells(i)' /\ OpenIsUndecided(i)'
  BY <1>1 DEF Reassigned, SameVerdict, Story, HeadTells, OpenIsUndecided, AssigneeDecided,
              LastDecision
<1>3. EscalationsBind(i)' /\ Announced(i)'
  BY DEF Reassigned, Story, EscalationsBind, Announced, EventsOf, Rank
<1>4. QED
  BY <1>2, <1>3 DEF Story

LEMMA StoryOfTheTurned ==
  ASSUME TypeOK, TypeOK', NEW i \in 1..count, i \in 1..count', Story(i),
         NEW actor \in Members, NEW decision \in REVIEW_DECISIONS, Turned(i, actor, decision)
  PROVE  Story(i)'
<1> DEFINE log == decisions[i]
           entry == [decision |-> decision, by |-> actor, floor |-> items'[i].floor]
<1>1. log \in Seq(Decision) /\ entry \in Decision
  <2>1. log \in Seq(Decision)
    BY BoundsAssumption DEF TypeOK, ItemIds
  <2>2. items'[i].floor \in REVIEWER_ROLES
    BY DEF Turned
  <2>3. QED
    BY <2>1, <2>2 DEF Decision
<1>2. decisions'[i] = Append(log, entry)
  BY DEF Turned
<1>3. entry.decision = decision /\ entry.by = actor /\ entry.floor = items'[i].floor
  OBVIOUS
<1> HIDE DEF log, entry
<1>4. /\ decisions'[i] # << >> /\ Len(log) \in Nat /\ Len(decisions'[i]) = Len(log) + 1
      /\ decisions'[i][Len(log) + 1] = entry
      /\ \A k \in 1..Len(log) : decisions'[i][k] = log[k]
  BY <1>1, <1>2, Appended
<1>5. LastDecision(i)' = entry
  BY <1>4 DEF LastDecision
<1>6. items[i].latest \in {"none", "escalated"} /\ items[i].reviewedBy = Null
  BY OpenIsUnsigned DEF Turned, OpenStates
<1>7. HeadTells(i)'
  BY <1>3, <1>4, <1>5, <1>6 DEF HeadTells, Turned
<1>8. OpenIsUndecided(i)'
  BY DEF OpenIsUndecided, Turned, OpenStates, DECISION_TO_STATE, REVIEW_DECISIONS
<1>9. AssigneeDecided(i)'
  BY <1>6 DEF AssigneeDecided, Turned, WithinAssignment, IsAdmin
<1>10. EscalationsBind(i)'
  <2> SUFFICES ASSUME NEW k \in 2..(Len(log) + 1)
               PROVE  /\ decisions'[i][k-1].decision = "escalated"
                      /\ Rank(decisions'[i][k].by) >= ROLE_RANK[decisions'[i][k-1].floor]
    BY <1>4 DEF EscalationsBind, Rank
  <2>1. CASE k \in 2..Len(log)
    <3>1. decisions'[i][k] = log[k] /\ decisions'[i][k-1] = log[k-1]
      BY <1>4, <2>1
    <3>2. QED
      BY <2>1, <3>1 DEF Story, EscalationsBind, log
  <2>2. CASE k = Len(log) + 1 /\ Len(log) >= 1
    <3>1. decisions'[i][k] = entry /\ decisions'[i][k-1] = LastDecision(i) /\ log # << >>
      BY <1>4, <2>2 DEF LastDecision, log
    <3>2. /\ items[i].latest = LastDecision(i).decision
          /\ items[i].floor = LastDecision(i).floor
      BY <3>1 DEF Story, HeadTells, log
    <3>3. LastDecision(i).decision = "escalated"
      <4>1. LastDecision(i) \in Decision
        BY <1>1, <2>2 DEF LastDecision, log
      <4>2. "none" \notin REVIEW_DECISIONS
        BY DEF REVIEW_DECISIONS, DECISION_TO_STATE
      <4>3. QED
        BY <1>6, <3>2, <4>1, <4>2 DEF Decision
    <3>4. QED
      BY <1>3, <3>1, <3>2, <3>3 DEF Turned
  <2>3. QED
    BY <1>4, <2>1, <2>2
<1>11. Announced(i)'
  <2>1. Noted(i, "ReviewDecisionRecorded")
    BY DEF Turned
  <2>2. Len(log) = Cardinality(EventsOf(i, "ReviewDecisionRecorded"))
    BY DEF Story, Announced, log
  <2>3. QED
    BY <1>4, <2>1, <2>2, NotedEvent DEF Announced
<1>12. QED
  BY <1>7, <1>8, <1>9, <1>10, <1>11 DEF Story

LEMMA NextStory == TypeOK /\ StoryInv /\ [Next]_vars => StoryInv'
<1> SUFFICES ASSUME TypeOK, StoryInv, [Next]_vars PROVE StoryInv'
  OBVIOUS
<1>1. /\ TypeOK' /\ count \in Nat /\ count' \in Nat /\ ItemIds \subseteq Nat
      /\ count' = count \/ (count' = count + 1 /\ Fresh(count') /\ count' \in ItemIds)
  BY NextType, ReviewSteps, BoundsAssumption DEF TypeOK, ItemIds
<1>2. ASSUME NEW i \in 1..count PROVE Story(i)'
  <2>1. Story(i) /\ i \in 1..count' /\ ReviewStep(i)
    BY <1>1, ReviewSteps DEF StoryInv
  <2>2. CASE Still(i)
    BY <2>1, <2>2 DEF Still, Story, HeadTells, OpenIsUndecided, EscalationsBind, AssigneeDecided,
                      Announced, LastDecision, EventsOf, Rank, IsAdmin
  <2>3. CASE Reassigned(i)
    BY <2>1, <2>3, StoryOfTheReassigned
  <2>4. CASE Moved(i)
    BY <1>1, <2>1, <2>4, StoryOfTheMoved
  <2>5. CASE \E actor \in Members, decision \in REVIEW_DECISIONS : Turned(i, actor, decision)
    BY <1>1, <2>1, <2>5, StoryOfTheTurned
  <2>6. QED
    BY <2>1, <2>2, <2>3, <2>4, <2>5 DEF ReviewStep
<1>3. ASSUME NEW i \in 1..count', i \notin 1..count PROVE Story(i)'
  <2>1. i = count' /\ Fresh(i) /\ i \in ItemIds /\ i > count
    BY <1>1, <1>3
  <2>2. decisions[i] = << >> /\ outbox[i] = << >>
    BY <2>1 DEF StoryInv
  <2>3. QED
    BY <1>1, <2>1, <2>2, StoryOfTheFresh
<1>4. ASSUME NEW i \in ItemIds, i > count' PROVE decisions'[i] = << >> /\ outbox'[i] = << >>
  <2>1. Still(i) /\ i > count
    BY <1>1, <1>4, ReviewSteps
  <2>2. QED
    BY <2>1 DEF Still, StoryInv
<1>5. QED
  BY <1>2, <1>3, <1>4 DEF StoryInv

LEMMA StoriesHold == Spec => []StoryInv
<1>1. Init => StoryInv
  BY DEF Init, StoryInv
<1>2. QED
  BY <1>1, NextStory, TypeCorrect, PTL DEF Spec

\* An escalation binds every decision after it, for any chain of escalations
\* (recordReviewDecision compares with the floor the head was left with).
THEOREM EscalationsAreBinding == Spec => []EscalationBinds
<1>1. StoryInv => EscalationBinds
  BY DEF StoryInv, Story, EscalationsBind, EscalationBinds
<1>2. QED
  BY <1>1, StoriesHold, PTL

\* Who closed an item was its assignee or an admin, and no later assignment
\* hides it: assignReviewer reaches open items only.
THEOREM AssigneesDecide == Spec => []DecidedWithinAssignment
<1>1. StoryInv => DecidedWithinAssignment
  BY DEF StoryInv, Story, AssigneeDecided, DecidedWithinAssignment, NativeItems
<1>2. QED
  BY <1>1, StoriesHold, PTL

\* The head, the log and the outbox of an item, written by each operation
\* separately, never disagree.
THEOREM HeadsTellTheLog == Spec => []HeadAgreesWithLogAndOutbox
<1>1. StoryInv => HeadAgreesWithLogAndOutbox
  BY DEF StoryInv, Story, HeadTells, Announced, LastDecision, HeadAgreesWithLogAndOutbox
<1>2. QED
  BY <1>1, StoriesHold, PTL

-----------------------------------------------------------------------------
(***************************************************************************)
(* Supersession.                                                           *)
(***************************************************************************)

Linked(i) ==
  /\ items[i].supersededBy \in (i+1)..count
  /\ Succeeds(items[i], i, items[items[i].supersededBy])

\* Strictness is that of numbers.
LEMMA SuccessionLasts ==
  ASSUME NEW x \in Item, NEW y \in Item, NEW z, NEW i, HeadStep(y, z), Succeeds(x, i, y)
  PROVE  Succeeds(x, i, z)
<1>1. /\ Pinned(y, z) /\ z \in Item /\ ROLE_RANK[z.floor] >= ROLE_RANK[y.floor]
      /\ ROLE_RANK[y.floor] >= ROLE_RANK[x.floor]
  BY DEF HeadStep, Succeeds
<1>2. ROLE_RANK[x.floor] \in Int /\ ROLE_RANK[y.floor] \in Int /\ ROLE_RANK[z.floor] \in Int
  BY <1>1, RanksAreNumbers DEF Item
<1>3. QED
  BY <1>1, <1>2 DEF Succeeds, Pinned

\* Only what is superseded has a successor, and the other way round; shadows
\* keep to the same rule here, as nothing moves them but these operations.
LinksInv ==
  \A i \in 1..count :
    IF items[i].state = "superseded" THEN Linked(i) ELSE items[i].supersededBy = NoItem

LEMMA NextLinks == TypeOK /\ LinksInv /\ [Next]_vars => LinksInv'
<1> SUFFICES ASSUME TypeOK, LinksInv, [Next]_vars PROVE LinksInv'
  OBVIOUS
<1>1. /\ TypeOK' /\ count \in Nat /\ count' \in Nat /\ count' >= count
      /\ 1..count \subseteq ItemIds /\ ItemIds \subseteq Nat /\ ItemsStep
      /\ \A i \in 1..count : items[i] \in Item /\ HeadStep(items[i], items'[i])
  BY NextType, NextItems, BoundsAssumption DEF TypeOK, ItemIds, ItemsStep
<1>2. ASSUME NEW i \in 1..count, items[i].state = "superseded"
      PROVE  items'[i].state = "superseded" /\ Linked(i)'
  <2>1. ReviewStep(i) /\ Linked(i)
    BY <1>2, ReviewSteps DEF LinksInv
  <2>2. "superseded" \in TerminalReviewStates /\ "superseded" \notin OpenStates
    BY DEF TerminalReviewStates, REVIEW_ITEM_STATES, ALLOWED, OpenStates
  <2>3. items'[i] = items[i]
    BY <1>2, <2>1, <2>2 DEF ReviewStep, Still, Reassigned, Moved, Turned
  <2> DEFINE n == items[i].supersededBy
  <2>4. n \in (i+1)..count /\ n \in 1..count /\ Succeeds(items[i], i, items[n])
    BY <1>1, <2>1 DEF Linked
  <2>5. Succeeds(items[i], i, items'[n])
    BY <1>1, <2>4, SuccessionLasts
  <2>6. QED
    BY <1>1, <1>2, <2>3, <2>4, <2>5 DEF Linked
<1>3. ASSUME NEW i \in 1..count, items[i].state # "superseded",
             items'[i].state # "superseded", items'[i].supersededBy = items[i].supersededBy
      PROVE  items'[i].supersededBy = NoItem
  BY <1>3 DEF LinksInv
<1>4. ASSUME NEW i \in 1..count, items[i].state # "superseded",
             Still(i) \/ Reassigned(i) \/ Shifted(i)
               \/ \E actor \in Members, decision \in REVIEW_DECISIONS : Turned(i, actor, decision)
      PROVE  items'[i].state # "superseded" /\ items'[i].supersededBy = NoItem
  <2>1. \A decision \in REVIEW_DECISIONS : DECISION_TO_STATE[decision] # "superseded"
    BY DEF DECISION_TO_STATE, REVIEW_DECISIONS
  <2>2. QED
    BY <1>3, <1>4, <2>1 DEF Still, Reassigned, Shifted, Turned
<1>5. ASSUME Fresh(count')
      PROVE  items'[count'].state # "superseded" /\ items'[count'].supersededBy = NoItem
  BY <1>5 DEF Fresh, OpenStates
<1>6. CASE OneMoves \/ NothingMoves
  <2>1. count' = count /\ \A i \in 1..count :
          Still(i) \/ Reassigned(i) \/ Shifted(i)
            \/ \E actor \in Members, decision \in REVIEW_DECISIONS : Turned(i, actor, decision)
    BY <1>1, <1>6 DEF OneMoves, NothingMoves
  <2>2. QED
    BY <1>2, <1>4, <2>1 DEF LinksInv
<1>7. CASE OneIsBorn
  <2>1. count' = count + 1 /\ Fresh(count') /\ \A i \in 1..count : Still(i)
    BY <1>1, <1>7 DEF OneIsBorn
  <2>2. QED
    BY <1>1, <1>2, <1>4, <1>5, <2>1 DEF LinksInv
<1>8. CASE OneIsReplaced
  <2>1. /\ count' = count + 1 /\ Fresh(count')
    BY <1>8 DEF OneIsReplaced
  <2>2. PICK i \in 1..count :
          /\ Moved(i)
          /\ items'[i].state = "superseded" /\ items'[i].supersededBy = count'
          /\ Succeeds(items[i], i, items'[count'])
          /\ \A j \in ItemIds \ {i, count'} : Still(j)
    BY <1>8 DEF OneIsReplaced
  <2>3. Linked(i)'
    <3>1. Pinned(items[i], items'[i]) /\ items'[i].floor = items[i].floor
      BY <1>1, <2>2 DEF HeadStep, Moved, SameVerdict
    <3>2. QED
      BY <1>1, <2>1, <2>2, <3>1 DEF Linked, Succeeds, Pinned
  <2>4. \A j \in 1..count : j # i => Still(j)
    BY <1>1, <2>1, <2>2
  <2>5. QED
    BY <1>1, <1>2, <1>4, <1>5, <2>1, <2>2, <2>3, <2>4 DEF LinksInv
<1>9. QED
  BY <1>6, <1>7, <1>8, NextReviews

\* A superseded item and its replacement point at each other, and no chain of
\* replacements sheds a risk class or an escalation.
THEOREM SupersessionsLink == Spec => []SupersessionLinks
<1>1. Init => LinksInv
  BY DEF Init, LinksInv
<1>2. TypeOK /\ LinksInv => SupersessionLinks
  <2> SUFFICES ASSUME TypeOK, LinksInv, NEW i \in 1..count
               PROVE  /\ items[i].state = "superseded" => items[i].supersededBy # NoItem
                      /\ items[i].supersededBy # NoItem =>
                           items[i].state = "superseded" /\ Linked(i)
    BY DEF SupersessionLinks, Linked, Succeeds
  <2>1. CASE items[i].state = "superseded"
    <3>1. Linked(i)
      BY <2>1 DEF LinksInv
    <3>2. items[i].supersededBy # NoItem
      BY <3>1 DEF Linked, NoItem
    <3>3. QED
      BY <2>1, <3>1, <3>2
  <2>2. CASE items[i].state # "superseded"
    BY <2>2 DEF LinksInv
  <2>3. QED
    BY <2>1, <2>2
<1>3. QED
  BY <1>1, <1>2, NextLinks, TypeCorrect, PTL DEF Spec

-----------------------------------------------------------------------------
(***************************************************************************)
(* Sums.  The sum of the sizes of disjoint sets is the size of their       *)
(* union; the fold that MapThenSumSet is computes it in whatever order.    *)
(***************************************************************************)

Together(A, s) == UNION {A[k] : k \in s}

Disjoint(A, K) ==
  /\ IsFiniteSet(K) /\ \A k \in K : IsFiniteSet(A[k])
  /\ \A j, k \in K : j # k => A[j] \cap A[k] = {}

AnyOf(s) == CHOOSE k \in s : TRUE

\* f adds up the numbers n[k], over every subset of K.
AddsUp(f, n, K) ==
  f = [s \in SUBSET K |-> IF s = {} THEN 0 ELSE n[AnyOf(s)] + f[s \ {AnyOf(s)}]]

Sizes(A, K) == [k \in K |-> Cardinality(A[k])]

LEMMA TogetherIsFinite ==
  ASSUME NEW A, NEW K, Disjoint(A, K), NEW s \in SUBSET K
  PROVE  IsFiniteSet(s) /\ IsFiniteSet(Together(A, s))
<1> DEFINE g == [k \in s |-> A[k]]
<1>1. IsFiniteSet(s)
  BY FS_Subset DEF Disjoint
<1>2. g \in Surjection(s, {A[k] : k \in s})
  BY DEF Surjection
<1>3. IsFiniteSet({A[k] : k \in s})
  BY <1>1, <1>2, FS_Surjection
<1>4. \A S \in {A[k] : k \in s} : IsFiniteSet(S)
  BY DEF Disjoint
<1>5. QED
  BY <1>1, <1>3, <1>4, FS_UNION DEF Together

\* One set more adds its size.
LEMMA OneSetMore ==
  ASSUME NEW A, NEW K, Disjoint(A, K), NEW s \in SUBSET K, s # {}
  PROVE  /\ AnyOf(s) \in s
         /\ Cardinality(Together(A, s)) =
              Cardinality(A[AnyOf(s)]) + Cardinality(Together(A, s \ {AnyOf(s)}))
<1> DEFINE x == AnyOf(s)
           rest == s \ {x}
<1>1. x \in s
  BY DEF AnyOf
<1> HIDE DEF x
<1>2. Together(A, s) = A[x] \cup Together(A, rest)
  BY <1>1 DEF Together
<1>3. A[x] \cap Together(A, rest) = {}
  BY <1>1 DEF Together, Disjoint
<1>4. IsFiniteSet(A[x]) /\ IsFiniteSet(Together(A, rest))
  <2>1. rest \in SUBSET K /\ x \in K
    BY <1>1
  <2>2. QED
    BY <2>1, TogetherIsFinite DEF Disjoint
<1>5. Cardinality(Together(A, s)) =
        Cardinality(A[x]) + Cardinality(Together(A, rest)) - Cardinality({})
  BY <1>2, <1>3, <1>4, FS_Union
<1>6. /\ Cardinality(A[x]) \in Nat /\ Cardinality(Together(A, rest)) \in Nat
      /\ Cardinality({}) = 0
  BY <1>4, FS_CardinalityType, FS_EmptySet
<1>7. Cardinality(Together(A, s)) = Cardinality(A[x]) + Cardinality(Together(A, rest))
  BY <1>5, <1>6
<1>8. QED
  BY <1>1, <1>7 DEF x

LEMMA SizesAddUp ==
  ASSUME NEW A, NEW K, Disjoint(A, K)
  PROVE  AddsUp([s \in SUBSET K |-> Cardinality(Together(A, s))], Sizes(A, K), K)
<1> DEFINE f == [s \in SUBSET K |-> Cardinality(Together(A, s))]
<1>1. ASSUME NEW s \in SUBSET K
      PROVE  f[s] = IF s = {} THEN 0 ELSE Sizes(A, K)[AnyOf(s)] + f[s \ {AnyOf(s)}]
  <2>1. CASE s = {}
    <3>1. Together(A, s) = {}
      BY <2>1 DEF Together
    <3>2. QED
      BY <2>1, <3>1, FS_EmptySet
  <2>2. CASE s # {}
    <3>1. /\ AnyOf(s) \in s
          /\ f[s] = Cardinality(A[AnyOf(s)]) + Cardinality(Together(A, s \ {AnyOf(s)}))
      BY <2>2, OneSetMore
    <3>2. /\ Sizes(A, K)[AnyOf(s)] = Cardinality(A[AnyOf(s)])
          /\ f[s \ {AnyOf(s)}] = Cardinality(Together(A, s \ {AnyOf(s)}))
      BY <3>1 DEF Sizes
    <3>3. QED
      BY <2>2, <3>1, <3>2
  <2>3. QED
    BY <2>1, <2>2
<1>2. f = [s \in SUBSET K |-> f[s]]
  OBVIOUS
<1> HIDE DEF f
<1>3. f = [s \in SUBSET K |->
             IF s = {} THEN 0 ELSE Sizes(A, K)[AnyOf(s)] + f[s \ {AnyOf(s)}]]
  BY <1>1, <1>2
<1>4. QED
  BY <1>3 DEF AddsUp, f

\* What adds up the sizes is their number together: a least subset for which it
\* were not is not empty, and loses one set without mending.
LEMMA OnlyOneSum ==
  ASSUME NEW A, NEW K, Disjoint(A, K), NEW f, AddsUp(f, Sizes(A, K), K)
  PROVE  f[K] = Cardinality(Together(A, K))
<1> DEFINE Wrong == {s \in SUBSET K : f[s] # Cardinality(Together(A, s))}
<1>1. SUFFICES ASSUME Wrong # {} PROVE FALSE
  BY <1>1
<1>2. IsFiniteSet(K)
  BY DEF Disjoint
<1>3. IsWellFoundedOn(StrictSubsetOrdering(K), SUBSET K)
  BY <1>2, FS_StrictSubsetOrderingWellFounded, FS_FiniteSubsetsOfFinite
<1>4. PICK s \in Wrong : \A r \in Wrong : ~(<<r, s>> \in StrictSubsetOrdering(K))
  <2>1. Wrong \subseteq SUBSET K
    OBVIOUS
  <2> HIDE DEF Wrong
  <2>2. QED
    BY <1>1, <1>3, <2>1, WFMin
<1>5. s \in SUBSET K /\ f[s] # Cardinality(Together(A, s))
  OBVIOUS
<1>6. f[s] = IF s = {} THEN 0 ELSE Sizes(A, K)[AnyOf(s)] + f[s \ {AnyOf(s)}]
  BY <1>5 DEF AddsUp
<1>7. CASE s = {}
  <2>1. Together(A, s) = {}
    BY <1>7 DEF Together
  <2>2. QED
    BY <1>5, <1>6, <1>7, <2>1, FS_EmptySet
<1>8. CASE s # {}
  <2> DEFINE r == s \ {AnyOf(s)}
  <2>1. /\ AnyOf(s) \in s
        /\ Cardinality(Together(A, s)) = Cardinality(A[AnyOf(s)]) + Cardinality(Together(A, r))
    BY <1>5, <1>8, OneSetMore
  <2>2. r \in SUBSET K /\ <<r, s>> \in StrictSubsetOrdering(K)
    BY <1>5, <2>1 DEF StrictSubsetOrdering
  <2>3. f[r] = Cardinality(Together(A, r))
    BY <1>4, <2>2
  <2>4. Sizes(A, K)[AnyOf(s)] = Cardinality(A[AnyOf(s)])
    BY <1>5, <2>1 DEF Sizes
  <2>5. QED
    BY <1>5, <1>6, <1>8, <2>1, <2>3, <2>4
<1>9. QED
  BY <1>7, <1>8

\* Hence the choice of such a function, which the fold is.
LEMMA TheSum ==
  ASSUME NEW A, NEW K, Disjoint(A, K), NEW n, n = Sizes(A, K)
  PROVE  (CHOOSE f : AddsUp(f, n, K))[K] = Cardinality(Together(A, K))
<1> DEFINE sum == CHOOSE f : AddsUp(f, n, K)
<1>1. \E f : AddsUp(f, n, K)
  BY SizesAddUp
<1>2. AddsUp(sum, n, K)
  BY <1>1
<1> HIDE DEF sum
<1>3. sum[K] = Cardinality(Together(A, K))
  BY <1>2, OnlyOneSum
<1>4. QED
  BY <1>3 DEF sum

-----------------------------------------------------------------------------
(***************************************************************************)
(* The analytics.                                                          *)
(***************************************************************************)

RowsOf(i) == {i} \X DOMAIN decisions[i]

LEMMA LogRows ==
  ASSUME TypeOK
  PROVE  /\ \A i \in 1..count : /\ decisions[i] \in Seq(Decision)
                                /\ IsFiniteSet(RowsOf(i))
                                /\ Cardinality(RowsOf(i)) = Len(decisions[i])
         /\ Disjoint([i \in 1..count |-> RowsOf(i)], 1..count)
         /\ DecisionRows = Together([i \in 1..count |-> RowsOf(i)], 1..count)
         /\ IsFiniteSet(DecisionRows)
<1>1. /\ count \in Nat /\ \A i \in 1..count : decisions[i] \in Seq(Decision)
  BY BoundsAssumption DEF TypeOK, ItemIds
<1>2. ASSUME NEW i \in 1..count
      PROVE  IsFiniteSet(RowsOf(i)) /\ Cardinality(RowsOf(i)) = Len(decisions[i])
  <2>1. DOMAIN decisions[i] = 1..Len(decisions[i]) /\ Len(decisions[i]) \in Nat
    BY <1>1
  <2>2. /\ IsFiniteSet(DOMAIN decisions[i])
        /\ Cardinality(DOMAIN decisions[i]) = Len(decisions[i])
    BY <2>1, FS_Interval
  <2>3. IsFiniteSet({i}) /\ Cardinality({i}) = 1
    BY FS_Singleton
  <2>4. /\ IsFiniteSet({i} \X DOMAIN decisions[i])
        /\ Cardinality({i} \X DOMAIN decisions[i]) = 1 * Len(decisions[i])
    BY <2>2, <2>3, FS_Product
  <2>5. QED
    BY <2>1, <2>4 DEF RowsOf
<1> DEFINE A == [i \in 1..count |-> RowsOf(i)]
<1>3. Disjoint(A, 1..count)
  <2>1. IsFiniteSet(1..count)
    BY <1>1, FS_Interval
  <2>2. \A i, j \in 1..count : i # j => A[i] \cap A[j] = {}
    BY DEF RowsOf
  <2>3. QED
    BY <1>2, <2>1, <2>2 DEF Disjoint
<1>4. DecisionRows = Together(A, 1..count)
  BY DEF DecisionRows, Together, RowsOf
<1>5. IsFiniteSet(DecisionRows)
  <2>1. 1..count \in SUBSET (1..count)
    OBVIOUS
  <2>2. QED
    BY <1>3, <1>4, <2>1, TogetherIsFinite
<1>6. QED
  BY <1>1, <1>2, <1>3, <1>4, <1>5

\* The log holds a row for each decision announced.
LEMMA RowsWereAnnounced ==
  ASSUME TypeOK, StoryInv
  PROVE  Cardinality(DecisionRows) =
           MapThenSumSet(LAMBDA i : Cardinality(EventsOf(i, "ReviewDecisionRecorded")), 1..count)
<1> DEFINE K == 1..count
           A == [i \in K |-> RowsOf(i)]
           n == [i \in K |-> Cardinality(EventsOf(i, "ReviewDecisionRecorded"))]
<1>1. Disjoint(A, K) /\ DecisionRows = Together(A, K)
  BY LogRows
<1>2. n = Sizes(A, K)
  BY LogRows DEF StoryInv, Story, Announced, Sizes
<1>3. (CHOOSE f : AddsUp(f, n, K))[K] = Cardinality(DecisionRows)
  <2> HIDE DEF A, n, K
  <2>1. QED
    BY <1>1, <1>2, TheSum
<1>4. MapThenSumSet(LAMBDA i : Cardinality(EventsOf(i, "ReviewDecisionRecorded")), 1..count)
        = MapThenSumSet(LAMBDA i : n[i], K)
  BY DEF MapThenSumSet, MapThenFoldSet
<1>5. MapThenSumSet(LAMBDA i : n[i], K) = (CHOOSE f : AddsUp(f, n, K))[K]
  <2> HIDE DEF A, n, K
  <2>1. QED
    BY DEF MapThenSumSet, MapThenFoldSet, AddsUp, AnyOf
<1>6. QED
  BY <1>3, <1>4, <1>5

\* However the rows are grouped, the groups hold every decision of a kind once.
LEMMA GroupsAddUp ==
  ASSUME TypeOK, NEW key, NEW mixes, mixes = MixBy(key), NEW x \in REVIEW_DECISIONS
  PROVE  MapThenSumSet(LAMBDA k : mixes[k].of[x], DOMAIN mixes) =
           Cardinality({d \in DecisionRows : RowOf(d).decision \in {x}})
<1> DEFINE K == {key[d] : d \in DecisionRows}
           A == [k \in K |-> {d \in DecisionRows : key[d] = k /\ RowOf(d).decision \in {x}}]
           n == [k \in K |-> mixes[k].of[x]]
<1>1. IsFiniteSet(DecisionRows)
  BY LogRows
<1>2. DOMAIN mixes = K
  BY DEF MixBy
<1>3. Disjoint(A, K)
  <2> DEFINE g == [d \in DecisionRows |-> key[d]]
  <2>1. g \in Surjection(DecisionRows, K)
    BY DEF Surjection
  <2>2. IsFiniteSet(K)
    BY <1>1, <2>1, FS_Surjection
  <2>3. \A k \in K : A[k] \in SUBSET DecisionRows
    OBVIOUS
  <2>4. \A k \in K : IsFiniteSet(A[k])
    BY <1>1, <2>3, FS_Subset
  <2>5. QED
    BY <2>2, <2>4 DEF Disjoint
<1>4. Together(A, K) = {d \in DecisionRows : RowOf(d).decision \in {x}}
  <2>1. \A k \in K : A[k] = {d \in DecisionRows : key[d] = k /\ RowOf(d).decision \in {x}}
    OBVIOUS
  <2>2. \A d \in DecisionRows : key[d] \in K
    OBVIOUS
  <2> HIDE DEF A, K
  <2>3. \A d : d \in Together(A, K) <=> \E k \in K : d \in A[k]
    BY DEF Together
  <2>4. QED
    BY <2>1, <2>2, <2>3
<1>5. n = Sizes(A, K)
  <2>1. ASSUME NEW k \in K PROVE mixes[k].of[x] = Cardinality(A[k])
    <3> DEFINE rows == {d \in DecisionRows : key[d] = k}
    <3>1. mixes[k] = DecisionMix(rows)
      BY <2>1 DEF MixBy
    <3>2. DecisionMix(rows).of[x] = Cardinality({d \in rows : RowOf(d).decision \in {x}})
      <4> HIDE DEF rows
      <4>1. QED
        BY DEF DecisionMix, Quantify
    <3>3. {d \in rows : RowOf(d).decision \in {x}} = A[k]
      OBVIOUS
    <3>4. QED
      BY <3>1, <3>2, <3>3
  <2>2. QED
    BY <2>1 DEF Sizes
<1>6. (CHOOSE f : AddsUp(f, n, K))[K] = Cardinality(Together(A, K))
  <2> HIDE DEF A, n, K
  <2>1. QED
    BY <1>3, <1>5, TheSum
<1>7. MapThenSumSet(LAMBDA k : mixes[k].of[x], DOMAIN mixes) = MapThenSumSet(LAMBDA k : n[k], K)
  <2>1. n = [k \in K |-> mixes[k].of[x]]
    OBVIOUS
  <2> HIDE DEF A, n, K
  <2>2. MapThenSumSet(LAMBDA k : mixes[k].of[x], DOMAIN mixes) =
          MapThenSumSet(LAMBDA k : mixes[k].of[x], K)
    BY <1>2 DEF MapThenSumSet, MapThenFoldSet
  <2>3. MapThenSumSet(LAMBDA k : mixes[k].of[x], K) = MapThenSumSet(LAMBDA k : n[k], K)
    BY <2>1 DEF MapThenSumSet, MapThenFoldSet
  <2>4. QED
    BY <2>2, <2>3
<1>8. MapThenSumSet(LAMBDA k : n[k], K) = (CHOOSE f : AddsUp(f, n, K))[K]
  <2> HIDE DEF A, n, K
  <2>1. QED
    BY DEF MapThenSumSet, MapThenFoldSet, AddsUp, AnyOf
<1>9. QED
  BY <1>4, <1>6, <1>7, <1>8

\* A verdict is the last row of its item: only escalations are followed by another.
LEMMA VerdictsAreLast ==
  ASSUME TypeOK, StoryInv, NEW x \in REVIEW_DECISIONS, x # "escalated"
  PROVE  Cardinality({d \in DecisionRows : RowOf(d).decision \in {x}}) =
           Cardinality({i \in 1..count : items[i].latest = x})
<1> DEFINE Closed == {i \in 1..count : items[i].latest = x}
           Rows == {d \in DecisionRows : RowOf(d).decision \in {x}}
           g == [i \in Closed |-> <<i, Len(decisions[i])>>]
<1>1. /\ \A i \in 1..count : decisions[i] \in Seq(Decision) /\ Story(i)
      /\ count \in Nat
  BY LogRows, BoundsAssumption DEF StoryInv, TypeOK
<1>2. x # "none"
  BY DEF REVIEW_DECISIONS, DECISION_TO_STATE
<1>3. ASSUME NEW i \in Closed PROVE g[i] \in Rows
  <2>1. decisions[i] # << >> /\ LastDecision(i).decision = x
    BY <1>1, <1>2 DEF Story, HeadTells
  <2>2. Len(decisions[i]) \in DOMAIN decisions[i]
    BY <1>1, <2>1
  <2>3. <<i, Len(decisions[i])>> \in DecisionRows
    BY <2>2 DEF DecisionRows
  <2>4. QED
    BY <2>1, <2>3 DEF RowOf, LastDecision
<1>4. ASSUME NEW d \in Rows PROVE d[1] \in Closed /\ d = g[d[1]]
  <2>0. PICK i \in 1..count : \E k \in DOMAIN decisions[i] : d = <<i, k>>
    BY DEF DecisionRows
  <2>1. PICK k \in DOMAIN decisions[i] : d = <<i, k>>
    BY <2>0
  <2>2. decisions[i][k].decision = x
    BY <2>1 DEF RowOf
  <2>3. /\ Len(decisions[i]) \in Nat /\ DOMAIN decisions[i] = 1..Len(decisions[i])
        /\ decisions[i] # << >>
    BY <1>1, <2>1
  <2>4. k = Len(decisions[i])
    <3>1. \A j \in 2..Len(decisions[i]) : decisions[i][j-1].decision = "escalated"
      BY <1>1 DEF Story, EscalationsBind
    <3>2. SUFFICES ASSUME k # Len(decisions[i]) PROVE FALSE
      OBVIOUS
    <3>3. k + 1 \in 2..Len(decisions[i]) /\ k + 1 - 1 = k
      BY <2>3, <3>2
    <3>4. QED
      BY <2>2, <3>1, <3>3
  <2>5. items[i].latest = x
    BY <1>1, <2>2, <2>3, <2>4 DEF Story, HeadTells, LastDecision
  <2>6. QED
    BY <2>1, <2>4, <2>5
<1>5. \A i, j \in Closed : g[i] = g[j] => i = j
  OBVIOUS
<1>6. IsFiniteSet(Closed)
  <2>1. IsFiniteSet(1..count) /\ Closed \in SUBSET (1..count)
    BY <1>1, FS_Interval
  <2>2. QED
    BY <2>1, FS_Subset
<1>7. g \in Bijection(Closed, Rows)
  <2>1. g \in [Closed -> Rows] /\ \A d \in Rows : \E i \in Closed : g[i] = d
    BY <1>3, <1>4
  <2> HIDE DEF Closed, Rows, g
  <2>2. QED
    BY <1>5, <2>1 DEF Bijection, Injection, Surjection, IsInjective
<1>8. Cardinality(Rows) = Cardinality(Closed)
  <2> HIDE DEF Closed, Rows, g
  <2>1. QED
    BY <1>6, <1>7, FS_Bijection DEF ExistsBijection
<1>9. QED
  BY <1>8

\* What is approved or published was decided so.
ApprovedBySomeone ==
  \A i \in 1..count : items[i].state \in {"approved", "published"} => items[i].latest \in Approvals

LEMMA NextApproved ==
  TypeOK /\ StoryInv /\ ApprovedBySomeone /\ [Next]_vars => ApprovedBySomeone'
<1> SUFFICES ASSUME TypeOK, StoryInv, ApprovedBySomeone, [Next]_vars, NEW i \in 1..count',
                    items'[i].state \in {"approved", "published"}
             PROVE  items'[i].latest \in Approvals
  BY DEF ApprovedBySomeone
<1>1. /\ count' = count \/ (count' = count + 1 /\ Fresh(count'))
      /\ count \in Nat
      /\ \A j \in 1..count : /\ ReviewStep(j) /\ HeadStep(items[j], items'[j])
                             /\ items[j] \in Item
  BY ReviewSteps, NextItems, BoundsAssumption DEF ItemsStep, TypeOK, ItemIds
<1>2. CASE i \notin 1..count
  <2>1. Fresh(i)
    BY <1>1, <1>2
  <2>2. QED
    BY <2>1 DEF Fresh, OpenStates
<1>3. CASE i \in 1..count
  <2>1. ReviewStep(i) /\ HeadStep(items[i], items'[i]) /\ items[i] \in Item /\ Story(i)
    BY <1>1, <1>3 DEF StoryInv
  <2>2. CASE Still(i) \/ Reassigned(i)
    BY <1>3, <2>2 DEF Still, Reassigned, SameVerdict, ApprovedBySomeone
  <2>3. CASE Moved(i)
    <3>1. items[i].state \in {"approved", "published"}
      <4>1. SUFFICES ASSUME items[i].state \notin {"approved", "published"} PROVE FALSE
        OBVIOUS
      <4>2. ReviewItemTransition(items[i].state, items'[i].state)
        BY <2>1, <4>1 DEF HeadStep
      <4>3. items[i].state = "awaiting_review" /\ items'[i].state = "approved"
        BY <2>1, <4>1, <4>2, MovesOfTheKernel DEF Item
      <4>4. items'[i].reviewedBy \in Members
        BY <2>1, <4>3 DEF HeadStep
      <4>5. items'[i].reviewedBy = Null
        BY <1>3, <2>1, <2>3, <4>3, OpenIsUnsigned DEF Moved, SameVerdict, OpenStates
      <4>6. QED
        BY <4>4, <4>5, NullAssumption
    <3>2. QED
      BY <1>3, <2>3, <3>1 DEF Moved, SameVerdict, ApprovedBySomeone
  <2>4. CASE \E actor \in Members, decision \in REVIEW_DECISIONS : Turned(i, actor, decision)
    BY <2>4 DEF Turned, REVIEW_DECISIONS, DECISION_TO_STATE, Approvals
  <2>5. QED
    BY <2>1, <2>2, <2>3, <2>4 DEF ReviewStep
<1>4. QED
  BY <1>2, <1>3

LEMMA ReadsOfTheStory ==
  TypeOK /\ StoryInv /\ ApprovedBySomeone => MetricsAgree
<1> SUFFICES ASSUME TypeOK, StoryInv, ApprovedBySomeone PROVE MetricsAgree
  OBVIOUS
<1> DEFINE m == ReviewMetricsFor
           Of(x) == Cardinality({d \in DecisionRows : RowOf(d).decision \in {x}})
<1>1. /\ m.overall.total = Cardinality(DecisionRows)
      /\ \A x \in REVIEW_DECISIONS : m.overall.of[x] = Of(x)
      /\ m.escalationVolume = Cardinality({d \in DecisionRows : RowOf(d).decision = "escalated"})
  BY DEF ReviewMetricsFor, DecisionMix, Quantify
<1>2. m.overall.total =
        MapThenSumSet(LAMBDA i : Cardinality(EventsOf(i, "ReviewDecisionRecorded")), 1..count)
  BY <1>1, RowsWereAnnounced
<1>3. ASSUME NEW x \in REVIEW_DECISIONS
      PROVE  MapThenSumSet(LAMBDA k : m.byArtifactType[k].of[x], DOMAIN m.byArtifactType)
               = m.overall.of[x]
  <2> DEFINE key == [d \in DecisionRows |-> TypeOf[items[d[1]].artifact]]
  <2>1. m.byArtifactType = MixBy(key)
    BY DEF ReviewMetricsFor
  <2> HIDE DEF m, key
  <2>2. MapThenSumSet(LAMBDA k : m.byArtifactType[k].of[x], DOMAIN m.byArtifactType) = Of(x)
    BY <2>1, GroupsAddUp
  <2>3. QED
    BY <1>1, <2>2
<1>4. ASSUME NEW x \in REVIEW_DECISIONS
      PROVE  MapThenSumSet(LAMBDA k : m.staffProfiles[k].of[x], DOMAIN m.staffProfiles)
               = m.overall.of[x]
  <2> DEFINE key == [d \in DecisionRows |-> RowOf(d).by]
  <2>1. m.staffProfiles = MixBy(key)
    BY DEF ReviewMetricsFor
  <2> HIDE DEF m, key
  <2>2. MapThenSumSet(LAMBDA k : m.staffProfiles[k].of[x], DOMAIN m.staffProfiles) = Of(x)
    BY <2>1, GroupsAddUp
  <2>3. QED
    BY <1>1, <2>2
<1>5. ASSUME NEW x \in REVIEW_DECISIONS, x # "escalated"
      PROVE  m.overall.of[x] = Cardinality({i \in 1..count : items[i].latest = x})
  BY <1>1, <1>5, VerdictsAreLast
<1>6. m.overall.of["escalated"] = m.escalationVolume
  <2>1. "escalated" \in REVIEW_DECISIONS
    BY DEF REVIEW_DECISIONS, DECISION_TO_STATE
  <2>2. {d \in DecisionRows : RowOf(d).decision \in {"escalated"}} =
          {d \in DecisionRows : RowOf(d).decision = "escalated"}
    OBVIOUS
  <2>3. QED
    BY <1>1, <2>1, <2>2
<1>7. \A view \in ClientPublishedReviews(Artifacts) : items[view.review].latest \in Approvals
  BY DEF ClientPublishedReviews, ApprovedBySomeone
<1> HIDE DEF m
<1>8. QED
  BY <1>2, <1>3, <1>4, <1>5, <1>6, <1>7 DEF MetricsAgree, m

\* What staff and clients are shown, computed along different paths from heads
\* and from the log, agrees at every moment, for any number of reviews and
\* decisions: reviewMetricsForOrg counts every announced decision once in each of its
\* groupings and every verdict once for the item it closed.
THEOREM AllReadsAgree == Spec => []ReadsAgree
<1>1. Init => ApprovedBySomeone
  BY DEF Init, ApprovedBySomeone
<1>2. Spec => []ApprovedBySomeone
  BY <1>1, NextApproved, StoriesHold, TypeCorrect, PTL DEF Spec
<1>3. TypeOK /\ StoryInv /\ ApprovedBySomeone => MetricsAgree
  BY ReadsOfTheStory
<1>4. QED
  BY <1>2, <1>3, StoriesHold, TypeCorrect, HeadsTellTheLog, PTL DEF ReadsAgree

=============================================================================
