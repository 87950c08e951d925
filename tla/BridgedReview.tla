---------------------------- MODULE BridgedReview ----------------------------
(***************************************************************************)
(* Roadmaps and quarterly reports, and the review items that shadow them   *)
(* (ADR-0049).  The status of the domain row is authoritative: its two     *)
(* workflows, transitionRoadmap and transitionReport of store.ts, move the *)
(* row and its shadow in one synchronous call.  The native operations of   *)
(* ReviewCenter run beside them on the same items.                         *)
(*                                                                         *)
(* A row is an artifact of a bridged type; a report row stands for the one *)
(* report of a client and quarter.  Its content cannot be edited, so its   *)
(* digest never changes.  Rows may have any status before their first      *)
(* shadow: they are older than the bridge, or were created by the program  *)
(* in draft.  The domain's own events, notifications and approval stamps   *)
(* are left out: no review operation reads them.                           *)
(***************************************************************************)
EXTENDS ReviewCenter

CONSTANT RowAuthor  \* roadmap.createdByStaffId; Null for reports

VARIABLE status     \* roadmap.status and report.status, by row

bridgedVars == <<items, count, decisions, outbox, artifact, status>>

Rows == {a \in Artifacts : Bridged(a)}

IsRoadmap(a) == TypeOf[a] = "roadmap_draft"

ASSUME RowAuthorAssumption ==
  /\ RowAuthor \in [Rows -> Actors]
  /\ \A a \in Rows : ~IsRoadmap(a) => RowAuthor[a] = Null

ROADMAP_ALLOWED ==
  [draft        |-> {"staff_review", "archived"},
   staff_review |-> {"approved", "draft"},
   approved     |-> {"published", "draft"},
   published    |-> {"archived"},
   archived     |-> {}]

REPORT_ALLOWED ==
  [draft            |-> {"ready_for_review"},
   ready_for_review |-> {"published", "draft"},
   published        |-> {}]

ReviewStateForRoadmapStatus ==
  [draft |-> "draft", staff_review |-> "awaiting_review", approved |-> "approved",
   published |-> "published", archived |-> "superseded"]

ReviewStateForReportStatus ==
  [draft |-> "draft", ready_for_review |-> "awaiting_review", published |-> "published"]

StatusesOf(a) ==
  IF IsRoadmap(a) THEN DOMAIN ROADMAP_ALLOWED ELSE DOMAIN REPORT_ALLOWED \cup {"missing"}

MappedState(a, s) ==
  IF IsRoadmap(a) THEN ReviewStateForRoadmapStatus[s] ELSE ReviewStateForReportStatus[s]

BridgedTypeOK ==
  /\ TypeOK
  /\ DOMAIN status = Rows
  /\ \A a \in Rows : status[a] \in StatusesOf(a)

BridgedInit ==
  /\ Init
  /\ status \in [Rows -> DOMAIN ROADMAP_ALLOWED \cup DOMAIN REPORT_ALLOWED \cup {"missing"}]
  /\ \A a \in Rows : status[a] \in StatusesOf(a)

-----------------------------------------------------------------------------
(***************************************************************************)
(* syncBridgedShadow, as a function of the review records: rc is the       *)
(* record of items, count, decisions and outbox it transforms.             *)
(***************************************************************************)

LiveStates == {"draft", "awaiting_review", "approved", "published"}

LiveShadows(a) == {i \in 1..count : items[i].artifact = a /\ items[i].state \in LiveStates}

Records == [items |-> items, count |-> count, decisions |-> decisions, outbox |-> outbox]

Mint(rc, a, birth, prev) ==
  LET new == rc.count + 1
  IN  [rc EXCEPT
        !.count = new,
        !.items[new] = NewItem(a, artifact[a], TypeOf[a], DEFAULT_RISK(TypeOf[a]),
                               DEFAULT_ROLE(TypeOf[a]), RowAuthor[a], birth, prev),
        !.outbox = Announce(@, new, "ReviewItemCreated", birth, Null)]

\* Mutant: the head is approved without a log entry.
ApproveUnlogged(rc, i, actor) ==
  [rc EXCEPT
    !.items[i].state = "approved", !.items[i].latest = "approved_unchanged",
    !.items[i].reviewedBy = actor,
    !.outbox = Announce(@, i, "ReviewDecisionRecorded", "approved", Null)]

\* The approve leg records a decision in the name of the acting member.
ApproveShadow(rc, i, actor) ==
  [rc EXCEPT
    !.items[i].state = "approved", !.items[i].latest = "approved_unchanged",
    !.items[i].reviewedBy = actor,
    !.decisions[i] = Append(@, [decision |-> "approved_unchanged", by |-> actor,
                                floor |-> rc.items[i].floor]),
    !.outbox = Announce(@, i, "ReviewDecisionRecorded", "approved", Null)]

\* One kernel edge; a move the kernel forbids is audited and not made.
ApplyEdge(rc, i, to, actor, link) ==
  IF ~ReviewItemTransition(rc.items[i].state, to) THEN rc
  ELSE CASE to = "awaiting_review" ->
              [rc EXCEPT !.items[i].state = to, !.items[i].submitted = TRUE,
                         !.outbox = Announce(@, i, "ReviewItemSubmitted", to, Null)]
         [] to = "approved" -> ApproveShadow(rc, i, actor)
         [] to = "published" ->
              [rc EXCEPT !.items[i].state = to,
                         !.outbox = Announce(@, i, "ReviewItemPublished", to, actor)]
         [] to = "superseded" ->
              [rc EXCEPT !.items[i].state = to, !.items[i].supersededBy = link,
                         !.outbox = Announce(@, i, "ReviewItemSuperseded", to, Null)]

SPINE == <<"draft", "awaiting_review", "approved", "published">>

Position(state) == CHOOSE k \in DOMAIN SPINE : SPINE[k] = state

\* Mutant: one leg at most.
WalkOneLeg(rc, i, target, actor) ==
  ApplyEdge(rc, i, SPINE[Position(rc.items[i].state) + 1], actor, NoItem)

\* The forward walk: the edges of the spine between two states, in order.
Walk(rc, i, target, actor) ==
  LET goal     == Position(target)
      from     == Position(rc.items[i].state)
      Leg(r, k) == IF from < k /\ k <= goal THEN ApplyEdge(r, i, SPINE[k], actor, NoItem) ELSE r
  IN  Leg(Leg(Leg(rc, 2), 3), 4)

\* The shadow to move: the live one, or one minted on first entry.
WithShadow(rc, a, target) ==
  IF LiveShadows(a) # {} \/ target = "superseded" THEN rc
  ELSE Mint(rc, a, IF target = "draft" THEN "draft" ELSE "awaiting_review", NoItem)

\* Mutant: the new draft does not name the shadow it replaces.
MoveShadowUnlinked(rc, i, a, target, actor) ==
  IF rc.items[i].state = target THEN rc
  ELSE CASE target = "superseded" -> ApplyEdge(rc, i, target, actor, NoItem)
         [] target = "draft" ->
              ApplyEdge(Mint(rc, a, "draft", NoItem), i, "superseded", actor, rc.count + 1)
         [] OTHER -> Walk(rc, i, target, actor)

\* A regression replaces the shadow, an archival closes it, else it walks on.
MoveShadow(rc, i, a, target, actor) ==
  IF rc.items[i].state = target THEN rc
  ELSE CASE target = "superseded" -> ApplyEdge(rc, i, target, actor, NoItem)
         [] target = "draft" ->
              IF ReviewItemTransition(rc.items[i].state, "superseded")
              THEN ApplyEdge(Mint(rc, a, "draft", i), i, "superseded", actor, rc.count + 1)
              ELSE rc
         [] OTHER -> Walk(rc, i, target, actor)

SyncBridgedShadow(a, target, actor) ==
  LET rc == WithShadow(Records, a, target)
      i  == IF LiveShadows(a) = {} THEN rc.count ELSE CHOOSE k \in LiveShadows(a) : TRUE
  IN  IF LiveShadows(a) = {} /\ target = "superseded" THEN Records
      ELSE MoveShadow(rc, i, a, target, actor)

\* Does the move mint a shadow?  (MaxItems bounds how many are.)
MintsShadow(a, target) ==
  IF LiveShadows(a) = {} THEN target # "superseded"
  ELSE target = "draft" /\ \A i \in LiveShadows(a) : items[i].state # "draft"

\* The domain row moves, and its shadow with it.
TransitionRow(a, to, actor) ==
  LET rc == SyncBridgedShadow(a, MappedState(a, to), actor)
  IN  /\ MintsShadow(a, MappedState(a, to)) => count < MaxItems
      /\ status' = [status EXCEPT ![a] = to]
      /\ items' = rc.items
      /\ count' = rc.count
      /\ decisions' = rc.decisions
      /\ outbox' = rc.outbox
      /\ UNCHANGED artifact

-----------------------------------------------------------------------------
(***************************************************************************)
(* The domain operations.  Any member may call them.                       *)
(***************************************************************************)

TransitionRoadmap(a, to, actor) ==
  /\ IsRoadmap(a)
  /\ to \in ROADMAP_ALLOWED[status[a]]
  /\ TransitionRow(a, to, actor)

\* A report starts in draft and unshadowed; one per client and quarter.
GenerateQuarterlyReport(a) ==
  /\ status[a] = "missing"
  /\ status' = [status EXCEPT ![a] = "draft"]
  /\ UNCHANGED vars

TransitionReport(a, to, actor) ==
  /\ ~IsRoadmap(a)
  /\ status[a] # "missing"
  /\ to \in REPORT_ALLOWED[status[a]]
  /\ TransitionRow(a, to, actor)

BridgedNext ==
  \/ Next /\ UNCHANGED status
  \/ \E a \in Rows, actor \in Members, to \in DOMAIN ROADMAP_ALLOWED :
       TransitionRoadmap(a, to, actor)
  \/ \E a \in Rows : GenerateQuarterlyReport(a)
  \/ \E a \in Rows, actor \in Members, to \in DOMAIN REPORT_ALLOWED :
       TransitionReport(a, to, actor)

BridgedSpec == BridgedInit /\ [][BridgedNext]_bridgedVars

-----------------------------------------------------------------------------
(***************************************************************************)
(* Properties.                                                             *)
(***************************************************************************)

Shadows(a) == {i \in 1..count : items[i].artifact = a}

\* The two machines stay in lockstep: a row has at most one live shadow, in
\* the state its status maps to; and once the row entered review it has one
\* until it is archived.  No path of syncBridgedShadow ends in its
\* fail-closed drift branch, which would leave a live shadow behind.
ShadowLockstep ==
  \A a \in Rows :
    /\ Cardinality(LiveShadows(a)) <= 1
    /\ \A i \in LiveShadows(a) : items[i].state = MappedState(a, status[a])
    /\ Shadows(a) # {} /\ status[a] # "archived" => LiveShadows(a) # {}

\* A published shadow shows a recorded human approval, whatever path led there:
\* the two legs of a report's publication, or a row older than the bridge.
PublishedShadowWasApproved ==
  \A a \in Rows : \A i \in Shadows(a) : WasPublished(i) =>
    /\ decisions[i] # << >>
    /\ decisions[i][Len(decisions[i])].decision \in Approvals
    /\ items[i].reviewedBy = decisions[i][Len(decisions[i])].by
    /\ items[i].supersededBy = NoItem

\* The revisions of a row form one chain: every shadow but the first names the
\* one it replaced, which names it back.
RevisionsFormAChain ==
  \A a \in Rows : \A i, j \in Shadows(a) :
    i < j /\ (\A k \in Shadows(a) : ~(i < k /\ k < j)) =>
      items[j].prev = i /\ items[i].supersededBy = j

\* What a step that leaves the row alone may do to a shadow: an administrator
\* assigns a reviewer while it is open, or an outcome is reported once it is
\* published.  These two operations have no bridgedGuard.
ReviewerAssigned(i) ==
  /\ items[i].state \in OpenStates
  /\ items'[i] = [items[i] EXCEPT !.assigned = items'[i].assigned]
  /\ outbox'[i] = outbox[i]

OutcomeReported(i) ==
  /\ items[i].state = "published"
  /\ items'[i] = [items[i] EXCEPT !.outcome = TRUE]
  /\ outbox'[i] = Append(outbox[i], [type |-> "ReviewOutcomeRecorded", state |-> "published",
                                     by |-> Null])

LeftAlone(i) ==
  /\ decisions'[i] = decisions[i]
  /\ \/ items'[i] = items[i] /\ outbox'[i] = outbox[i]
     \/ ReviewerAssigned(i)
     \/ OutcomeReported(i)

\* While its row stays, so does a shadow, but for an assignment before and a
\* reported outcome after its publication: no native operation, and no move of
\* another row, touches its state, links, floor, reviewer or decisions, or adds
\* another event.
ShadowsMoveWithTheirRow ==
  [][\A a \in Rows : \A i \in Shadows(a) : status'[a] = status[a] => LeftAlone(i)]_bridgedVars

=============================================================================
