---------------------------- MODULE ReviewCenter ----------------------------
(***************************************************************************)
(* The native review lifecycle of AfloStore                                *)
(* (packages/shared/src/store/store.ts): review items, their append-only   *)
(* decision log, and the domain events each operation appends to the       *)
(* outbox.                                                                 *)
(*                                                                         *)
(* Every store method runs to completion in one synchronous call, so each  *)
(* is one action.  A denied call writes an audit row and nothing else: it  *)
(* is the action not being enabled.  The audit trail, timestamps and       *)
(* provenance fields no guard reads are left out.  The store holds one     *)
(* organization; the client and the playbook an item names exist.          *)
(***************************************************************************)
EXTENDS ReviewKernel, Sequences, FiniteSets

CONSTANTS
  Members,        \* staff ids with a membership
  RoleOf,         \* [Members -> REVIEWER_ROLES], fixed at seeding
  Null,           \* null: the system as an actor, no reviewer
  Artifacts,      \* artifact ids
  TypeOf,         \* [Artifacts -> REVIEW_ARTIFACT_TYPES]
  Revisions,      \* contents an artifact takes: the sha256 digest
  VersionOf,      \* the version label of a revision; edits may keep the label
  WorkflowTypes,  \* review workflows a caller names
  Overrides,      \* the (risk, role) a caller asks for
  EditCounts,     \* numbers of distinct edited fields a reviewer sends
  Reasons,        \* the structured reason codes reviewers use
  Digests,        \* what they send as modificationsDigest
  MaxItems,       \* bound: review items ever created
  MaxOutcomes     \* bound: outcomes recorded on one item

ASSUME RolesAssumption == RoleOf \in [Members -> REVIEWER_ROLES]

ASSUME NullAssumption == Null \notin Members

ASSUME ArtifactsAssumption == TypeOf \in [Artifacts -> REVIEW_ARTIFACT_TYPES]

ASSUME InputsAssumption ==
  /\ WorkflowTypes \subseteq REVIEW_ARTIFACT_TYPES
  /\ Overrides \subseteq [risk : REVIEW_RISK_CLASSES, role : REVIEWER_ROLES]
  /\ EditCounts \subseteq Nat
  /\ Reasons \subseteq DOMAIN REVIEW_DECISION_REASON_CODES
  /\ Digests \subseteq {"omitted", "empty", "nonempty"}

ASSUME BoundsAssumption == MaxItems \in Nat /\ MaxOutcomes \in Nat

VARIABLES
  items,      \* db.reviewItems: id -> the head of the item
  count,      \* items created so far; ids are 1..count
  decisions,  \* db.reviewDecisions, by item
  outbox,     \* this.outbox, by aggregate id
  artifact    \* the current revision of each artifact, owned by its workflow

vars == <<items, count, decisions, outbox, artifact>>

ItemIds == 1..MaxItems
NoItem == 0
Actors == Members \cup {Null}

MAX_EDITED_FIELDS == 32

\* The artifact types whose items are shadows of a domain row (ADR-0049).
BRIDGED_ARTIFACT_TYPES == {"roadmap_draft", "quarterly_report"}

Bridged(a) == TypeOf[a] \in BRIDGED_ARTIFACT_TYPES

OpenStates == {"draft", "awaiting_review"}

Absent == [state |-> "absent"]

IsItem(i) == i \in 1..count

Rank(m) == ROLE_RANK[RoleOf[m]]

IsAdmin(m) == m # Null /\ AdminPlus(RoleOf[m])

Item ==
  [state : REVIEW_ITEM_STATES, artifact : Artifacts, revision : Revisions,
   workflow : REVIEW_ARTIFACT_TYPES, risk : REVIEW_RISK_CLASSES,
   floor : REVIEWER_ROLES, author : Actors, assigned : Actors,
   reviewedBy : Actors, latest : REVIEW_DECISIONS \cup {"none"},
   modified : BOOLEAN, submitted : BOOLEAN, outcome : BOOLEAN,
   prev : ItemIds \cup {NoItem}, supersededBy : ItemIds \cup {NoItem}]

Decision ==
  [decision : REVIEW_DECISIONS, by : Members, floor : REVIEWER_ROLES]

\* A domain event: its type, the item state it announces, and the staff id its
\* payload names, for the two events that name one.
Event ==
  [type : {"ReviewItemCreated", "ReviewItemSubmitted", "ReviewDecisionRecorded",
           "ReviewItemPublished", "ReviewItemWithdrawn", "ReviewItemSuperseded",
           "ReviewOutcomeRecorded"},
   state : REVIEW_ITEM_STATES, by : Actors]

TypeOK ==
  /\ count \in 0..MaxItems
  /\ items \in [ItemIds -> Item \cup {Absent}]
  /\ \A i \in ItemIds : items[i] # Absent <=> i <= count
  /\ decisions \in [ItemIds -> Seq(Decision)]
  /\ outbox \in [ItemIds -> Seq(Event)]
  /\ artifact \in [Artifacts -> Revisions]

Init ==
  /\ items = [i \in ItemIds |-> Absent]
  /\ count = 0
  /\ decisions = [i \in ItemIds |-> << >>]
  /\ outbox = [i \in ItemIds |-> << >>]
  /\ artifact \in [Artifacts -> Revisions]

-----------------------------------------------------------------------------
(***************************************************************************)
(* Pieces the operations share.                                            *)
(***************************************************************************)

Announce(log, i, type, state, by) ==
  [log EXCEPT ![i] = Append(@, [type |-> type, state |-> state, by |-> by])]

\* An item as it is born, linked to the item it revises.
NewItem(a, r, w, risk, floor, author, birth, prev) ==
  [state |-> birth, artifact |-> a, revision |-> r, workflow |-> w,
   risk |-> risk, floor |-> floor, author |-> author, assigned |-> Null,
   reviewedBy |-> Null, latest |-> "none", modified |-> FALSE,
   submitted |-> birth = "awaiting_review", outcome |-> FALSE,
   prev |-> prev, supersededBy |-> NoItem]

\* Mutant: a draft does not count as an open review.
QueuedReview(a, version, w) ==
  \E i \in 1..count :
    /\ items[i].artifact = a
    /\ VersionOf[items[i].revision] = version
    /\ items[i].workflow = w
    /\ items[i].state = "awaiting_review"

\* An open review of this version of the artifact, in this workflow.
OpenReview(a, version, w) ==
  \E i \in 1..count :
    /\ items[i].artifact = a
    /\ VersionOf[items[i].revision] = version
    /\ items[i].workflow = w
    /\ items[i].state \in OpenStates

\* The gates of createReviewItem, which supersession passes through too.
MayCreate(a, r, w, birth, envelopeBlocked) ==
  /\ count < MaxItems
  /\ ~Bridged(a)
  /\ birth \in OpenStates
  /\ ~envelopeBlocked
  /\ ~OpenReview(a, VersionOf[r], w)

\* Mutant: shadows are addressed like native items.
ReviewableShadow(i) == IsItem(i)

\* An item the operations that move a state may address.
Reviewable(i) == IsItem(i) /\ ~Bridged(items[i].artifact)

-----------------------------------------------------------------------------
(***************************************************************************)
(* The operations.                                                         *)
(***************************************************************************)

CreateReviewItem(actor, a, r, w, ask, birth, prev, envelopeBlocked) ==
  /\ MayCreate(a, r, w, birth, envelopeBlocked)
  /\ prev = NoItem \/ IsItem(prev)
  /\ count' = count + 1
  /\ items' = [items EXCEPT ![count + 1] =
                 NewItem(a, r, w, ResolveRisk(TypeOf[a], ask.risk),
                         ResolveRole(TypeOf[a], ask.role), actor, birth, prev)]
  /\ outbox' = Announce(outbox, count + 1, "ReviewItemCreated", birth, Null)
  /\ UNCHANGED <<decisions, artifact>>

\* Mutant: the submission is not announced.
SubmitSilently(i, actor) ==
  /\ Reviewable(i)
  /\ ReviewItemTransition(items[i].state, "awaiting_review")
  /\ items' = [items EXCEPT ![i].state = "awaiting_review", ![i].submitted = TRUE]
  /\ UNCHANGED <<count, decisions, outbox, artifact>>

SubmitReviewItem(i, actor) ==
  /\ Reviewable(i)
  /\ ReviewItemTransition(items[i].state, "awaiting_review")
  /\ items' = [items EXCEPT ![i].state = "awaiting_review", ![i].submitted = TRUE]
  /\ outbox' = Announce(outbox, i, "ReviewItemSubmitted", "awaiting_review", Null)
  /\ UNCHANGED <<count, decisions, artifact>>

\* Mutant: a reviewer is assigned whatever the state of the item.
AssignAnyTime(i, actor, reviewer) ==
  /\ IsItem(i)
  /\ IsAdmin(actor)
  /\ items' = [items EXCEPT ![i].assigned = reviewer]
  /\ UNCHANGED <<count, decisions, outbox, artifact>>

\* Not guarded by the artifact being bridged; emits no event.
AssignReviewer(i, actor, reviewer) ==
  /\ IsItem(i)
  /\ IsAdmin(actor)
  /\ items[i].state \in OpenStates
  /\ items' = [items EXCEPT ![i].assigned = reviewer]
  /\ UNCHANGED <<count, decisions, outbox, artifact>>

\* An assigned item is decided by its assignee or by an admin.
WithinAssignment(i, actor) ==
  \/ items[i].assigned \in {Null, actor}
  \/ IsAdmin(actor)

\* Mutants: the raised floor is not saved, or the reviewer does not sign.
DecidedAtOldFloor(item, decision, actor, digest) ==
  [item EXCEPT !.state = DECISION_TO_STATE[decision],
               !.latest = decision,
               !.reviewedBy = IF decision = "escalated" THEN @ ELSE actor,
               !.modified = IF digest = "omitted" THEN @ ELSE digest = "nonempty"]
DecidedUnsigned(item, decision, actor, digest) ==
  [item EXCEPT !.state = DECISION_TO_STATE[decision],
               !.latest = decision,
               !.floor = FloorAfter(decision, @),
               !.modified = IF digest = "omitted" THEN @ ELSE digest = "nonempty"]

\* The head of an item after an allowed decision.
Decided(item, decision, actor, digest) ==
  [item EXCEPT !.state = DECISION_TO_STATE[decision],
               !.latest = decision,
               !.reviewedBy = IF decision = "escalated" THEN @ ELSE actor,
               !.floor = FloorAfter(decision, @),
               !.modified = IF digest = "omitted" THEN @ ELSE digest = "nonempty"]

\* modificationsDigest is an input of its own, beside the edited field names.
RecordReviewDecision(i, actor, decision, reason, edits, digest) ==
  /\ Reviewable(i)
  /\ edits <= MAX_EDITED_FIELDS
  /\ CanReview(items[i].risk, items[i].floor, RoleOf[actor], actor, items[i].author)
  /\ WithinAssignment(i, actor)
  /\ DecisionAllowed(decision, items[i].state, edits, reason, items[i].floor)
  /\ items' = [items EXCEPT ![i] = Decided(@, decision, actor, digest)]
  /\ decisions' = [decisions EXCEPT ![i] =
       Append(@, [decision |-> decision, by |-> actor,
                  floor |-> FloorAfter(decision, items[i].floor)])]
  /\ outbox' = Announce(outbox, i, "ReviewDecisionRecorded",
                        DECISION_TO_STATE[decision], Null)
  /\ UNCHANGED <<count, artifact>>

\* Mutant: only the version label is compared.
PublishByLabel(i, actor) ==
  /\ Reviewable(i)
  /\ ReviewItemTransition(items[i].state, "published")
  /\ CanPublishReviewItem(RoleOf[actor], items[i].risk, items[i].floor)
  /\ VersionOf[artifact[items[i].artifact]] = VersionOf[items[i].revision]
  /\ items' = [items EXCEPT ![i].state = "published"]
  /\ outbox' = Announce(outbox, i, "ReviewItemPublished", "published", actor)
  /\ UNCHANGED <<count, decisions, artifact>>

\* The caller states the current version and digest of the artifact.
PublishReviewItem(i, actor) ==
  /\ Reviewable(i)
  /\ ReviewItemTransition(items[i].state, "published")
  /\ CanPublishReviewItem(RoleOf[actor], items[i].risk, items[i].floor)
  /\ VersionOf[artifact[items[i].artifact]] = VersionOf[items[i].revision]
  /\ artifact[items[i].artifact] = items[i].revision
  /\ items' = [items EXCEPT ![i].state = "published"]
  /\ outbox' = Announce(outbox, i, "ReviewItemPublished", "published", actor)
  /\ UNCHANGED <<count, decisions, artifact>>

WithdrawReviewItem(i, actor) ==
  /\ Reviewable(i)
  /\ actor = items[i].author \/ IsAdmin(actor)
  /\ ReviewItemTransition(items[i].state, "withdrawn")
  /\ items' = [items EXCEPT ![i].state = "withdrawn"]
  /\ outbox' = Announce(outbox, i, "ReviewItemWithdrawn", "withdrawn", actor)
  /\ UNCHANGED <<count, decisions, artifact>>

\* Who may replace an item: the system, an admin, its author while it is open.
MaySupersede(i, actor) ==
  \/ actor = Null
  \/ IsAdmin(actor)
  \/ actor = items[i].author /\ items[i].state \in OpenStates

\* Mutant: the replacement starts from the policy baseline.
ReplacementAtBaseline(old, i, actor, r, birth) ==
  NewItem(old.artifact, r, old.workflow, DEFAULT_RISK(TypeOf[old.artifact]),
          DEFAULT_ROLE(TypeOf[old.artifact]), actor, birth, i)

\* The item that replaces item i keeps its risk and its floor, escalated or not.
Replacement(old, i, actor, r, birth) ==
  NewItem(old.artifact, r, old.workflow, ResolveRisk(TypeOf[old.artifact], old.risk),
          ResolveRole(TypeOf[old.artifact], old.floor), actor, birth, i)

\* A fresh item for revision r replaces item i.  It is created first, through
\* the gates of createReviewItem, while i is still in its old state.
SupersedeReviewItem(i, actor, r, birth, envelopeBlocked) ==
  LET new == count + 1
  IN  /\ Reviewable(i)
      /\ MaySupersede(i, actor)
      /\ ReviewItemTransition(items[i].state, "superseded")
      /\ MayCreate(items[i].artifact, r, items[i].workflow, birth, envelopeBlocked)
      /\ count' = new
      /\ items' = [items EXCEPT ![new] = Replacement(items[i], i, actor, r, birth),
                                ![i].state = "superseded",
                                ![i].supersededBy = new]
      /\ outbox' = Announce(Announce(outbox, new, "ReviewItemCreated", birth, Null),
                            i, "ReviewItemSuperseded", "superseded", Null)
      /\ UNCHANGED <<decisions, artifact>>

OutcomesOf(i) == Cardinality({k \in DOMAIN outbox[i] : outbox[i][k].type = "ReviewOutcomeRecorded"})

\* Not guarded by the artifact being bridged.
RecordReviewOutcome(i, actor) ==
  /\ IsItem(i)
  /\ items[i].state = "published"
  /\ OutcomesOf(i) < MaxOutcomes
  /\ items' = [items EXCEPT ![i].outcome = TRUE]
  /\ outbox' = Announce(outbox, i, "ReviewOutcomeRecorded", "published", Null)
  /\ UNCHANGED <<count, decisions, artifact>>

\* The artifact changes in its own workflow, outside the Review Center.
EditArtifact(a, r) ==
  /\ ~Bridged(a)
  /\ artifact' = [artifact EXCEPT ![a] = r]
  /\ UNCHANGED <<items, count, decisions, outbox>>

-----------------------------------------------------------------------------

Creates ==
  \E actor \in Actors, a \in Artifacts, r \in Revisions, w \in WorkflowTypes,
     ask \in Overrides, birth \in REVIEW_ITEM_STATES,
     prev \in ItemIds \cup {NoItem}, envelopeBlocked \in BOOLEAN :
       CreateReviewItem(actor, a, r, w, ask, birth, prev, envelopeBlocked)

Decides ==
  \E i \in ItemIds, actor \in Members, decision \in REVIEW_DECISIONS,
     reason \in Reasons, edits \in EditCounts, digest \in Digests :
       RecordReviewDecision(i, actor, decision, reason, edits, digest)

Supersedes ==
  \E i \in ItemIds, actor \in Actors, r \in Revisions,
     birth \in REVIEW_ITEM_STATES, envelopeBlocked \in BOOLEAN :
       SupersedeReviewItem(i, actor, r, birth, envelopeBlocked)

Next ==
  \/ Creates
  \/ \E i \in ItemIds, actor \in Members : SubmitReviewItem(i, actor)
  \/ \E i \in ItemIds, actor, reviewer \in Members : AssignReviewer(i, actor, reviewer)
  \/ Decides
  \/ \E i \in ItemIds, actor \in Members : PublishReviewItem(i, actor)
  \/ \E i \in ItemIds, actor \in Members : WithdrawReviewItem(i, actor)
  \/ Supersedes
  \/ \E i \in ItemIds, actor \in Members : RecordReviewOutcome(i, actor)
  \/ \E a \in Artifacts, r \in Revisions : EditArtifact(a, r)

Spec == Init /\ [][Next]_vars

-----------------------------------------------------------------------------
(***************************************************************************)
(* Properties.                                                             *)
(***************************************************************************)

Approvals == {"approved_unchanged", "approved_with_edits"}

\* Positions of events of a type in the outbox of item i.
EventsOf(i, type) == {k \in DOMAIN outbox[i] : outbox[i][k].type = type}

WasPublished(i) == EventsOf(i, "ReviewItemPublished") # {}

\* Items the Review Center decides itself; the others follow a domain row.
NativeItems == {i \in 1..count : ~Bridged(items[i].artifact)}

\* At most one review of a version of an artifact is open per workflow,
\* however creations, submissions, withdrawals and supersessions interleave:
\* supersession opens the replacement before it closes the old item.
OneOpenReview ==
  \A i, j \in 1..count :
    /\ items[i].state \in OpenStates
    /\ items[j].state \in OpenStates
    /\ items[i].artifact = items[j].artifact
    /\ VersionOf[items[i].revision] = VersionOf[items[j].revision]
    /\ items[i].workflow = items[j].workflow
    => i = j

\* Whatever native item was ever published was approved first: the decision log ends with
\* an approval, by a member who meets the floor the item ended up with (after
\* every escalation) and, for high-risk work, who is not its author; and who
\* published it met the floor of publication.
PublishedWasApproved ==
  \A i \in NativeItems : WasPublished(i) =>
    /\ decisions[i] # << >>
    /\ LET last == decisions[i][Len(decisions[i])]
       IN  /\ last.decision \in Approvals
           /\ Rank(last.by) >= ROLE_RANK[items[i].floor]
           /\ items[i].risk = "high" => last.by # items[i].author
    /\ \A k \in EventsOf(i, "ReviewItemPublished") :
         LET publisher == outbox[i][k].by
         IN  /\ publisher \in Members
             /\ Rank(publisher) >= ROLE_RANK[items[i].floor]
             /\ items[i].risk = "high" => IsAdmin(publisher)

\* An escalation binds the decisions after it: each decision was taken by a
\* member meeting the floor its predecessor left, and only escalations precede
\* the last decision.
EscalationBinds ==
  \A i \in 1..count : \A k \in 2..Len(decisions[i]) :
    /\ decisions[i][k-1].decision = "escalated"
    /\ Rank(decisions[i][k].by) >= ROLE_RANK[decisions[i][k-1].floor]

\* Who closed a native item was its assignee or an admin, and the assignment the
\* item shows afterwards is the one that was in force then.
DecidedWithinAssignment ==
  \A i \in NativeItems : items[i].reviewedBy # Null =>
    \/ items[i].assigned \in {Null, items[i].reviewedBy}
    \/ IsAdmin(items[i].reviewedBy)

\* The head of an item, its decision log and its outbox tell one story: the
\* last log entry is the head's, and a consumer that replays the events of the
\* item ends in its state.
HeadAgreesWithLogAndOutbox ==
  \A i \in 1..count :
    /\ outbox[i] # << >>
    /\ outbox[i][Len(outbox[i])].state = items[i].state
    /\ Len(decisions[i]) = Cardinality(EventsOf(i, "ReviewDecisionRecorded"))
    /\ IF decisions[i] = << >>
       THEN items[i].latest = "none" /\ items[i].reviewedBy = Null
       ELSE LET last == decisions[i][Len(decisions[i])]
            IN  /\ items[i].latest = last.decision
                /\ items[i].floor = last.floor
                /\ items[i].reviewedBy =
                     IF last.decision = "escalated" THEN Null ELSE last.by

\* A superseded item and its replacement point at each other, review the same
\* artifact in the same workflow, and the replacement is at least as strict:
\* replacing an escalated item does not shed the escalation.
SupersessionLinks ==
  \A i \in 1..count :
    /\ items[i].state = "superseded" /\ i \in NativeItems => items[i].supersededBy # NoItem
    /\ items[i].supersededBy # NoItem =>
         LET new == items[items[i].supersededBy]
         IN  /\ items[i].state = "superseded"
             /\ items[i].supersededBy \in (i+1)..count
             /\ new.prev = i
             /\ new.artifact = items[i].artifact
             /\ new.workflow = items[i].workflow
             /\ RISK_RANK[new.risk] >= RISK_RANK[items[i].risk]
             /\ ROLE_RANK[new.floor] >= ROLE_RANK[items[i].floor]

\* A closed review is history: no operation, guarded by the kernel or not,
\* changes an item in a terminal state, its log or its events.
ClosedReviewsAreFinal ==
  [][\A i \in 1..count : items[i].state \in TerminalReviewStates =>
       /\ items'[i] = items[i]
       /\ decisions'[i] = decisions[i]
       /\ outbox'[i] = outbox[i]]_vars

\* What is under review never changes under the reviewer: the content, the
\* author, the risk and the link back are fixed at birth, the floor only rises,
\* the log and the outbox only grow, and a decision once approved stands.
ReviewIsPinned ==
  [][\A i \in 1..count :
       /\ \A f \in {"artifact", "revision", "workflow", "risk", "author", "prev"} :
            items'[i][f] = items[i][f]
       /\ ROLE_RANK[items'[i].floor] >= ROLE_RANK[items[i].floor]
       /\ SubSeq(decisions'[i], 1, Len(decisions[i])) = decisions[i]
       /\ SubSeq(outbox'[i], 1, Len(outbox[i])) = outbox[i]
       /\ items[i].reviewedBy # Null => items'[i].reviewedBy = items[i].reviewedBy]_vars

\* The stale-artifact rule: at the moment an item is published the artifact
\* holds exactly the content that was reviewed, even when an edit kept the
\* version label, and even when it was edited and edited back meanwhile.
PublishesReviewedContent ==
  [][\A i \in NativeItems : items[i].state # "published" /\ items'[i].state = "published" =>
       artifact[items[i].artifact] = items[i].revision]_vars

-----------------------------------------------------------------------------
(***************************************************************************)
(* The lifecycle implements what the Review Center promises: the phase of  *)
(* a review is its state, the human behind it the reviewer of the item.    *)
(***************************************************************************)
PhaseOf(state) ==
  CASE state = "absent" -> "none"
    [] state \in OpenStates -> "open"
    [] state \in {"approved", "published"} -> state
    [] OTHER -> "closed"

Promise == INSTANCE ReviewPromise WITH
  Reviews  <- ItemIds,
  Humans   <- Members,
  Nobody   <- Null,
  phase    <- [i \in ItemIds |-> PhaseOf(items[i].state)],
  approver <- [i \in ItemIds |->
                 IF items[i] = Absent THEN Null ELSE items[i].reviewedBy]

\* The lifecycle is a review process in the sense of ReviewPromise.
ImplementsPromise == Promise!Spec

=============================================================================
