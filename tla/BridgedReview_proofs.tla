------------------------- MODULE BridgedReview_proofs -------------------------
(***************************************************************************)
(* Proofs about BridgedReview, for every organization, any number of       *)
(* roadmaps and reports, and every interleaving of the two domain          *)
(* workflows with the native operations.  A domain move is a function of   *)
(* the review records, so most lemmas are about that function: what one    *)
(* kernel edge, one minted shadow and the walk along the spine do to the   *)
(* shadows of one row, and that those of every other row stay as they were.*)
(***************************************************************************)
EXTENDS BridgedReview, ReviewCenter_proofs, FiniteSetTheorems

-----------------------------------------------------------------------------
(***************************************************************************)
(* The review records a domain move transforms, and the shadows in them.   *)
(***************************************************************************)

ReviewRecords ==
  [items : [ItemIds -> Item \cup {Absent}], count : 0..MaxItems,
   decisions : [ItemIds -> Seq(Decision)], outbox : [ItemIds -> Seq(Event)]]

RecordsOK(rc) ==
  rc \in ReviewRecords /\ \A i \in ItemIds : rc.items[i] # Absent <=> i <= rc.count

ShadowsIn(rc, a) == {i \in 1..rc.count : rc.items[i].artifact = a}

LiveIn(rc, a) == {i \in ShadowsIn(rc, a) : rc.items[i].state \in LiveStates}

Published(log) == \E k \in DOMAIN log : log[k].type = "ReviewItemPublished"

ApprovalStands(x, log) ==
  log # << >> /\ log[Len(log)].decision \in Approvals /\ x.reviewedBy = log[Len(log)].by

\* A shadow is live or superseded, and tells who approved what was published.
ShadowStory(x, decided, events) ==
  /\ x.state \in LiveStates \cup {"superseded"}
  /\ x.state \in LiveStates => x.supersededBy = NoItem
  /\ x.state \in {"approved", "published"} => ApprovalStands(x, decided)
  /\ Published(events) =>
       /\ x.state \in {"published", "superseded"} /\ x.supersededBy = NoItem
       /\ ApprovalStands(x, decided)

InOneChain(rc, a) ==
  \A i, j \in ShadowsIn(rc, a) :
    i < j /\ (\A k \in ShadowsIn(rc, a) : ~(i < k /\ k < j)) =>
      rc.items[j].prev = i /\ rc.items[i].supersededBy = j

\* The shadows of one row: a live one is the last of them.
RowOK(rc, a) ==
  /\ \A i \in LiveIn(rc, a), j \in ShadowsIn(rc, a) : j <= i
  /\ \A i \in ShadowsIn(rc, a) : ShadowStory(rc.items[i], rc.decisions[i], rc.outbox[i])
  /\ InOneChain(rc, a)

\* No item was ever announced that is not there yet.
Unused(rc) == \A i \in ItemIds : i > rc.count => ~Published(rc.outbox[i])

RowsOK(rc) == RecordsOK(rc) /\ Unused(rc) /\ \A a \in Rows : RowOK(rc, a)

\* The row and its shadows agree.
InStep(rc, a, s) ==
  /\ \A i \in LiveIn(rc, a) : rc.items[i].state = MappedState(a, s)
  /\ ShadowsIn(rc, a) # {} /\ s # "archived" => LiveIn(rc, a) # {}
  /\ s = "missing" => ShadowsIn(rc, a) = {}

\* The shadows of every other row are what they were.
Elsewhere(rc, next, a) ==
  \A b \in Rows \ {a} :
    ShadowsIn(next, b) = ShadowsIn(rc, b) /\ LiveIn(next, b) = LiveIn(rc, b)
    /\ \A i \in ShadowsIn(rc, b) :
         /\ next.items[i] = rc.items[i] /\ next.decisions[i] = rc.decisions[i]
         /\ next.outbox[i] = rc.outbox[i]

BridgedInv ==
  /\ RowsOK(Records)
  /\ artifact \in [Artifacts -> Revisions]
  /\ DOMAIN status = Rows /\ \A a \in Rows : status[a] \in StatusesOf(a)
  /\ \A a \in Rows : InStep(Records, a, status[a])

LEMMA Ids ==
  ASSUME NEW rc, RecordsOK(rc)
  PROVE  /\ rc.count \in Nat /\ 1..rc.count \subseteq ItemIds /\ ItemIds \subseteq Nat
         /\ \A i \in 1..rc.count : rc.items[i] \in Item
<1>1. rc.count \in 0..MaxItems /\ rc.items \in [ItemIds -> Item \cup {Absent}]
  BY DEF RecordsOK, ReviewRecords
<1>2. rc.count \in Nat /\ 1..rc.count \subseteq ItemIds /\ ItemIds \subseteq Nat
  BY <1>1, BoundsAssumption DEF ItemIds
<1>3. \A i \in ItemIds : i <= rc.count => rc.items[i] # Absent
  BY DEF RecordsOK
<1>4. QED
  BY <1>1, <1>2, <1>3

LEMMA TypedRecords ==
  /\ TypeOK <=> RecordsOK(Records) /\ artifact \in [Artifacts -> Revisions]
  /\ \A a \in Rows : Shadows(a) = ShadowsIn(Records, a) /\ LiveShadows(a) = LiveIn(Records, a)
BY DEF TypeOK, RecordsOK, ReviewRecords, Records, Shadows, LiveShadows, ShadowsIn, LiveIn

LEMMA RecordsAre ==
  ASSUME NEW rc \in ReviewRecords
  PROVE  rc = [items |-> rc.items, count |-> rc.count, decisions |-> rc.decisions,
               outbox |-> rc.outbox]
BY DEF ReviewRecords

\* One shadow of a row moves: the others, and those of other rows, do not.
LEMMA OneShadow ==
  ASSUME NEW rc, NEW next, NEW a \in Rows, NEW i \in ShadowsIn(rc, a), NEW x \in Item,
         RowsOK(rc), RecordsOK(next), next.count = rc.count,
         \A j \in ItemIds \ {i} : /\ next.items[j] = rc.items[j]
                                  /\ next.decisions[j] = rc.decisions[j]
                                  /\ next.outbox[j] = rc.outbox[j],
         next.items[i] = x, x.artifact = a, x.prev = rc.items[i].prev,
         x.supersededBy = rc.items[i].supersededBy,
         x.state \in LiveStates => rc.items[i].state \in LiveStates,
         ShadowStory(x, next.decisions[i], next.outbox[i])
  PROVE  /\ RowsOK(next) /\ Elsewhere(rc, next, a)
         /\ ShadowsIn(next, a) = ShadowsIn(rc, a)
         /\ LiveIn(next, a) = IF x.state \in LiveStates THEN LiveIn(rc, a) ELSE LiveIn(rc, a) \ {i}
<1>0. /\ rc.count \in Nat /\ 1..rc.count \subseteq ItemIds /\ i \in 1..rc.count
      /\ rc.items[i].artifact = a
  BY Ids DEF RowsOK, ShadowsIn
<1>1. \A b \in Rows : ShadowsIn(next, b) = ShadowsIn(rc, b)
  BY <1>0 DEF ShadowsIn
<1>2. \A b \in Rows \ {a} : i \notin ShadowsIn(rc, b)
  BY <1>0 DEF ShadowsIn
<1>3. \A b \in Rows : \A j \in ShadowsIn(rc, b) : j \in ItemIds
  BY <1>0 DEF ShadowsIn
<1>4. Elsewhere(rc, next, a)
  BY <1>1, <1>2, <1>3 DEF Elsewhere, LiveIn
<1>5. LiveIn(next, a) = IF x.state \in LiveStates THEN LiveIn(rc, a) ELSE LiveIn(rc, a) \ {i}
  <2>1. \A j \in ShadowsIn(rc, a) : j # i => next.items[j].state = rc.items[j].state
    BY <1>3
  <2>2. LiveIn(next, a) = {j \in ShadowsIn(rc, a) : next.items[j].state \in LiveStates}
    BY <1>1 DEF LiveIn
  <2>3. QED
    BY <2>1, <2>2 DEF LiveIn
<1>6. ASSUME NEW b \in Rows, b # a PROVE RowOK(next, b)
  <2>1. RowOK(rc, b)
    BY DEF RowsOK
  <2>2. \A j \in ShadowsIn(rc, b) : /\ next.items[j] = rc.items[j]
                                    /\ next.decisions[j] = rc.decisions[j]
                                    /\ next.outbox[j] = rc.outbox[j]
    BY <1>2, <1>3, <1>6
  <2>3. ShadowsIn(next, b) = ShadowsIn(rc, b) /\ LiveIn(next, b) = LiveIn(rc, b)
    BY <1>1, <1>4, <1>6 DEF Elsewhere
  <2>4. QED
    BY <2>1, <2>2, <2>3 DEF RowOK, InOneChain
<1>7. RowOK(next, a)
  <2>1. RowOK(rc, a)
    BY DEF RowsOK
  <2>2. \A j \in ShadowsIn(rc, a) : j # i => /\ next.items[j] = rc.items[j]
                                             /\ next.decisions[j] = rc.decisions[j]
                                             /\ next.outbox[j] = rc.outbox[j]
    BY <1>3
  <2>3. \A j \in ShadowsIn(rc, a) : /\ next.items[j].prev = rc.items[j].prev
                                    /\ next.items[j].supersededBy = rc.items[j].supersededBy
    BY <2>2
  <2>4. InOneChain(next, a)
    BY <1>1, <2>1, <2>3 DEF RowOK, InOneChain
  <2>5. \A j \in LiveIn(next, a), k \in ShadowsIn(next, a) : k <= j
    BY <1>1, <1>5, <2>1 DEF RowOK
  <2>6. \A j \in ShadowsIn(next, a) :
          ShadowStory(next.items[j], next.decisions[j], next.outbox[j])
    BY <1>1, <2>1, <2>2 DEF RowOK
  <2>7. QED
    BY <2>4, <2>5, <2>6 DEF RowOK
<1>8. Unused(next)
  BY <1>0 DEF RowsOK, Unused
<1>9. QED
  BY <1>1, <1>4, <1>5, <1>6, <1>7, <1>8 DEF RowsOK

\* A record with one item, its log or its events replaced.
LEMMA ItemReplaced ==
  ASSUME NEW rc, RecordsOK(rc), NEW i \in 1..rc.count, NEW x \in Item
  PROVE  LET next == [rc EXCEPT !.items = [rc.items EXCEPT ![i] = x]]
         IN  /\ RecordsOK(next)
             /\ next.count = rc.count /\ next.decisions = rc.decisions
             /\ next.outbox = rc.outbox /\ next.items[i] = x
             /\ \A j \in ItemIds \ {i} : next.items[j] = rc.items[j]
<1> DEFINE heads == [rc.items EXCEPT ![i] = x]
           next == [rc EXCEPT !.items = heads]
<1>1. rc \in ReviewRecords /\ i \in ItemIds /\ rc.items \in [ItemIds -> Item \cup {Absent}]
  BY Ids DEF RecordsOK, ReviewRecords
<1>2. heads \in [ItemIds -> Item \cup {Absent}] /\ heads[i] = x
      /\ \A j \in ItemIds \ {i} : heads[j] = rc.items[j]
  BY <1>1
<1> HIDE DEF heads
<1>3. /\ next \in ReviewRecords /\ next.items = heads /\ next.count = rc.count
      /\ next.decisions = rc.decisions /\ next.outbox = rc.outbox
  BY <1>1, <1>2 DEF ReviewRecords
<1> HIDE DEF next
<1>4. RecordsOK(next)
  BY <1>1, <1>2, <1>3, ItemIsNotAbsent DEF RecordsOK
<1>5. QED
  BY <1>2, <1>3, <1>4 DEF next, heads

LEMMA EventsReplaced ==
  ASSUME NEW rc, RecordsOK(rc), NEW events \in [ItemIds -> Seq(Event)]
  PROVE  LET next == [rc EXCEPT !.outbox = events]
         IN  /\ RecordsOK(next) /\ next.count = rc.count /\ next.items = rc.items
             /\ next.decisions = rc.decisions /\ next.outbox = events
BY DEF RecordsOK, ReviewRecords

LEMMA LogReplaced ==
  ASSUME NEW rc, RecordsOK(rc), NEW logs \in [ItemIds -> Seq(Decision)]
  PROVE  LET next == [rc EXCEPT !.decisions = logs]
         IN  /\ RecordsOK(next) /\ next.count = rc.count /\ next.items = rc.items
             /\ next.decisions = logs /\ next.outbox = rc.outbox
BY DEF RecordsOK, ReviewRecords


\* An edge is announced, publication as such.
EdgeEvent(rc, next, i, to) ==
  \E event \in Event :
    /\ next.outbox[i] = Append(rc.outbox[i], event)
    /\ event.type = "ReviewItemPublished" <=> to = "published"

\* What one kernel edge does to a shadow, and to nothing else.
EdgeMade(rc, next, i, to, actor, link) ==
  LET x == rc.items[i]
      y == next.items[i]
  IN  /\ RecordsOK(next) /\ next.count = rc.count
      /\ \A j \in ItemIds \ {i} : /\ next.items[j] = rc.items[j]
                                  /\ next.decisions[j] = rc.decisions[j]
                                  /\ next.outbox[j] = rc.outbox[j]
      /\ y \in Item /\ y.artifact = x.artifact /\ y.prev = x.prev /\ y.state = to
      /\ y.supersededBy = IF to = "superseded" THEN link ELSE x.supersededBy
      /\ IF to = "approved"
         THEN /\ y.reviewedBy = actor
              /\ \E entry \in Decision :
                   /\ next.decisions[i] = Append(rc.decisions[i], entry)
                   /\ entry.by = actor /\ entry.decision \in Approvals
         ELSE y.reviewedBy = x.reviewedBy /\ next.decisions[i] = rc.decisions[i]
      /\ EdgeEvent(rc, next, i, to)

\* The announcement that comes with an edge.
LEMMA EdgeAnnounced ==
  ASSUME NEW rc, RecordsOK(rc), NEW i \in 1..rc.count,
         NEW to \in REVIEW_ITEM_STATES, NEW by \in Actors,
         NEW type \in {"ReviewItemSubmitted", "ReviewDecisionRecorded", "ReviewItemPublished",
                       "ReviewItemSuperseded"}
  PROVE  LET events == Announce(rc.outbox, i, type, to, by)
         IN  /\ events \in [ItemIds -> Seq(Event)]
             /\ \A j \in ItemIds \ {i} : events[j] = rc.outbox[j]
             /\ \E event \in Event : events[i] = Append(rc.outbox[i], event) /\ event.type = type
<1>1. i \in ItemIds /\ rc.outbox \in [ItemIds -> Seq(Event)]
  BY Ids DEF RecordsOK, ReviewRecords
<1>2. [type |-> type, state |-> to, by |-> by] \in Event
  BY DEF Event
<1>3. [type |-> type, state |-> to, by |-> by].type = type
  OBVIOUS
<1>4. /\ Announce(rc.outbox, i, type, to, by)[i] =
           Append(rc.outbox[i], [type |-> type, state |-> to, by |-> by])
      /\ \A j \in ItemIds \ {i} : Announce(rc.outbox, i, type, to, by)[j] = rc.outbox[j]
  BY <1>1, AnnouncedEvent
<1>5. Announce(rc.outbox, i, type, to, by) \in [ItemIds -> Seq(Event)]
  BY <1>1, AnnounceType
<1>6. QED
  BY <1>2, <1>3, <1>4, <1>5

LEMMA SubmitEdge ==
  ASSUME NEW rc, RecordsOK(rc), NEW i \in 1..rc.count, NEW actor,
         ReviewItemTransition(rc.items[i].state, "awaiting_review")
  PROVE  EdgeMade(rc, ApplyEdge(rc, i, "awaiting_review", actor, NoItem), i,
                  "awaiting_review", actor, NoItem)
<1> DEFINE to == "awaiting_review"
           x == [[rc.items[i] EXCEPT !.state = to] EXCEPT !.submitted = TRUE]
           events == Announce(rc.outbox, i, "ReviewItemSubmitted", to, Null)
           mid == [rc EXCEPT !.items = [rc.items EXCEPT ![i] = x]]
           next == [mid EXCEPT !.outbox = events]
<1>1. /\ rc \in ReviewRecords /\ i \in ItemIds /\ rc.items[i] \in Item
      /\ rc.items \in [ItemIds -> Item \cup {Absent}] /\ to \in REVIEW_ITEM_STATES
  BY Ids DEF RecordsOK, ReviewRecords, REVIEW_ITEM_STATES
<1>2. ApplyEdge(rc, i, to, actor, NoItem) = next
  BY <1>1 DEF ApplyEdge, ReviewRecords
<1>3. /\ x \in Item /\ x.artifact = rc.items[i].artifact /\ x.prev = rc.items[i].prev
      /\ x.state = to /\ x.supersededBy = rc.items[i].supersededBy
      /\ x.reviewedBy = rc.items[i].reviewedBy
  BY <1>1 DEF Item
<1>4. /\ events \in [ItemIds -> Seq(Event)]
      /\ \A j \in ItemIds \ {i} : events[j] = rc.outbox[j]
      /\ \E event \in Event : events[i] = Append(rc.outbox[i], event)
                             /\ event.type = "ReviewItemSubmitted"
  BY <1>1, EdgeAnnounced, NobodyIsActor
<1> HIDE DEF x, events
<1>5. /\ RecordsOK(mid) /\ mid.count = rc.count /\ mid.decisions = rc.decisions
      /\ mid.items[i] = x /\ \A j \in ItemIds \ {i} : mid.items[j] = rc.items[j]
  BY <1>3, ItemReplaced
<1> HIDE DEF mid
<1>6. /\ RecordsOK(next) /\ next.count = rc.count /\ next.decisions = rc.decisions
      /\ next.items = mid.items /\ next.outbox = events
  BY <1>4, <1>5, EventsReplaced
<1> HIDE DEF next
<1>7. QED
  BY <1>2, <1>3, <1>4, <1>5, <1>6 DEF EdgeMade, EdgeEvent

LEMMA PublishEdge ==
  ASSUME NEW rc, RecordsOK(rc), NEW i \in 1..rc.count, NEW actor \in Members,
         ReviewItemTransition(rc.items[i].state, "published")
  PROVE  EdgeMade(rc, ApplyEdge(rc, i, "published", actor, NoItem), i, "published", actor, NoItem)
<1> DEFINE to == "published"
           x == [rc.items[i] EXCEPT !.state = to]
           events == Announce(rc.outbox, i, "ReviewItemPublished", to, actor)
           mid == [rc EXCEPT !.items = [rc.items EXCEPT ![i] = x]]
           next == [mid EXCEPT !.outbox = events]
<1>1. /\ rc \in ReviewRecords /\ i \in ItemIds /\ rc.items[i] \in Item
      /\ rc.items \in [ItemIds -> Item \cup {Absent}] /\ to \in REVIEW_ITEM_STATES
  BY Ids DEF RecordsOK, ReviewRecords, REVIEW_ITEM_STATES
<1>2. ApplyEdge(rc, i, to, actor, NoItem) = next
  BY <1>1 DEF ApplyEdge, ReviewRecords
<1>3. /\ x \in Item /\ x.artifact = rc.items[i].artifact /\ x.prev = rc.items[i].prev
      /\ x.state = to /\ x.supersededBy = rc.items[i].supersededBy
      /\ x.reviewedBy = rc.items[i].reviewedBy
  BY <1>1 DEF Item
<1>4. /\ events \in [ItemIds -> Seq(Event)]
      /\ \A j \in ItemIds \ {i} : events[j] = rc.outbox[j]
      /\ \E event \in Event : events[i] = Append(rc.outbox[i], event)
                             /\ event.type = "ReviewItemPublished"
  BY <1>1, EdgeAnnounced, NobodyIsActor
<1> HIDE DEF x, events
<1>5. /\ RecordsOK(mid) /\ mid.count = rc.count /\ mid.decisions = rc.decisions
      /\ mid.items[i] = x /\ \A j \in ItemIds \ {i} : mid.items[j] = rc.items[j]
  BY <1>3, ItemReplaced
<1> HIDE DEF mid
<1>6. /\ RecordsOK(next) /\ next.count = rc.count /\ next.decisions = rc.decisions
      /\ next.items = mid.items /\ next.outbox = events
  BY <1>4, <1>5, EventsReplaced
<1> HIDE DEF next
<1>7. QED
  BY <1>2, <1>3, <1>4, <1>5, <1>6 DEF EdgeMade, EdgeEvent

LEMMA CloseEdge ==
  ASSUME NEW rc, RecordsOK(rc), NEW i \in 1..rc.count, NEW actor,
         NEW link \in ItemIds \cup {NoItem},
         ReviewItemTransition(rc.items[i].state, "superseded")
  PROVE  EdgeMade(rc, ApplyEdge(rc, i, "superseded", actor, link), i, "superseded", actor, link)
<1> DEFINE to == "superseded"
           x == [[rc.items[i] EXCEPT !.state = to] EXCEPT !.supersededBy = link]
           events == Announce(rc.outbox, i, "ReviewItemSuperseded", to, Null)
           mid == [rc EXCEPT !.items = [rc.items EXCEPT ![i] = x]]
           next == [mid EXCEPT !.outbox = events]
<1>1. /\ rc \in ReviewRecords /\ i \in ItemIds /\ rc.items[i] \in Item
      /\ rc.items \in [ItemIds -> Item \cup {Absent}] /\ to \in REVIEW_ITEM_STATES
  BY Ids DEF RecordsOK, ReviewRecords, REVIEW_ITEM_STATES
<1>2. ApplyEdge(rc, i, to, actor, link) = next
  BY <1>1 DEF ApplyEdge, ReviewRecords
<1>3. /\ x \in Item /\ x.artifact = rc.items[i].artifact /\ x.prev = rc.items[i].prev
      /\ x.state = to /\ x.supersededBy = link /\ x.reviewedBy = rc.items[i].reviewedBy
  BY <1>1 DEF Item
<1>4. /\ events \in [ItemIds -> Seq(Event)]
      /\ \A j \in ItemIds \ {i} : events[j] = rc.outbox[j]
      /\ \E event \in Event : events[i] = Append(rc.outbox[i], event)
                             /\ event.type = "ReviewItemSuperseded"
  BY <1>1, EdgeAnnounced, NobodyIsActor
<1> HIDE DEF x, events
<1>5. /\ RecordsOK(mid) /\ mid.count = rc.count /\ mid.decisions = rc.decisions
      /\ mid.items[i] = x /\ \A j \in ItemIds \ {i} : mid.items[j] = rc.items[j]
  BY <1>3, ItemReplaced
<1> HIDE DEF mid
<1>6. /\ RecordsOK(next) /\ next.count = rc.count /\ next.decisions = rc.decisions
      /\ next.items = mid.items /\ next.outbox = events
  BY <1>4, <1>5, EventsReplaced
<1> HIDE DEF next
<1>7. QED
  BY <1>2, <1>3, <1>4, <1>5, <1>6 DEF EdgeMade, EdgeEvent

LEMMA ApproveEdge ==
  ASSUME NEW rc, RecordsOK(rc), NEW i \in 1..rc.count, NEW actor \in Members,
         ReviewItemTransition(rc.items[i].state, "approved")
  PROVE  EdgeMade(rc, ApplyEdge(rc, i, "approved", actor, NoItem), i, "approved", actor, NoItem)
<1> DEFINE to == "approved"
           y1 == [rc.items[i] EXCEPT !.state = to]
           y2 == [y1 EXCEPT !.latest = "approved_unchanged"]
           x == [y2 EXCEPT !.reviewedBy = actor]
           entry == [decision |-> "approved_unchanged", by |-> actor, floor |-> rc.items[i].floor]
           logs == [rc.decisions EXCEPT ![i] = Append(rc.decisions[i], entry)]
           events == Announce(rc.outbox, i, "ReviewDecisionRecorded", to, Null)
           mid == [rc EXCEPT !.items = [rc.items EXCEPT ![i] = x]]
           signed == [mid EXCEPT !.decisions = logs]
           next == [signed EXCEPT !.outbox = events]
<1>1. /\ rc \in ReviewRecords /\ i \in ItemIds /\ rc.items[i] \in Item
      /\ rc.items \in [ItemIds -> Item \cup {Absent}] /\ to \in REVIEW_ITEM_STATES
      /\ rc.decisions \in [ItemIds -> Seq(Decision)] /\ "approved_unchanged" \in REVIEW_DECISIONS
  BY Ids DEF RecordsOK, ReviewRecords, REVIEW_ITEM_STATES, REVIEW_DECISIONS, DECISION_TO_STATE
<1>2. ApplyEdge(rc, i, to, actor, NoItem) = next
  <2>1. ApplyEdge(rc, i, to, actor, NoItem) = ApproveShadow(rc, i, actor)
    BY DEF ApplyEdge
  <2>2. ApproveShadow(rc, i, actor) = next
    <3>1. ApproveShadow(rc, i, actor) =
            [[[rc EXCEPT !.items[i].state = to, !.items[i].latest = "approved_unchanged",
                         !.items[i].reviewedBy = actor]
               EXCEPT !.decisions[i] = Append(@, entry)]
               EXCEPT !.outbox = Announce(@, i, "ReviewDecisionRecorded", "approved", Null)]
      BY Zenon DEF ApproveShadow
    <3>2. [rc EXCEPT !.items[i].state = to, !.items[i].latest = "approved_unchanged",
                     !.items[i].reviewedBy = actor] = mid
      BY <1>1 DEF ReviewRecords
    <3>3. mid.decisions = rc.decisions /\ mid.outbox = rc.outbox
      BY <1>1 DEF ReviewRecords
    <3> HIDE DEF mid, entry
    <3>4. [mid EXCEPT !.decisions[i] = Append(@, entry)] = signed
      BY <3>3
    <3>5. signed.outbox = rc.outbox
      BY <3>3
    <3>6. QED
      BY <3>1, <3>2, <3>4, <3>5
  <2>3. QED
    BY <2>1, <2>2
<1>3. /\ x \in Item /\ x.artifact = rc.items[i].artifact /\ x.prev = rc.items[i].prev
      /\ x.state = to /\ x.supersededBy = rc.items[i].supersededBy /\ x.reviewedBy = actor
  <2>1. y1 \in Item /\ y1.artifact = rc.items[i].artifact /\ y1.prev = rc.items[i].prev
        /\ y1.state = to /\ y1.supersededBy = rc.items[i].supersededBy
    BY <1>1 DEF Item
  <2> HIDE DEF y1
  <2>2. y2 \in Item /\ y2.artifact = y1.artifact /\ y2.prev = y1.prev
        /\ y2.state = to /\ y2.supersededBy = y1.supersededBy
    BY <1>1, <2>1 DEF Item
  <2> HIDE DEF y2
  <2>3. QED
    BY <2>1, <2>2, NobodyIsActor DEF Item
<1>4. /\ events \in [ItemIds -> Seq(Event)]
      /\ \A j \in ItemIds \ {i} : events[j] = rc.outbox[j]
      /\ \E event \in Event : events[i] = Append(rc.outbox[i], event)
                             /\ event.type = "ReviewDecisionRecorded"
  BY <1>1, EdgeAnnounced, NobodyIsActor
<1>5. entry \in Decision /\ entry.by = actor /\ entry.decision \in Approvals
  BY <1>1 DEF Decision, Item, Approvals
<1> HIDE DEF x, events, entry
<1>6. /\ logs \in [ItemIds -> Seq(Decision)] /\ logs[i] = Append(rc.decisions[i], entry)
      /\ \A j \in ItemIds \ {i} : logs[j] = rc.decisions[j]
  BY <1>1, <1>5, AppendProperties
<1> HIDE DEF logs
<1>7. /\ RecordsOK(mid) /\ mid.count = rc.count
      /\ mid.items[i] = x /\ \A j \in ItemIds \ {i} : mid.items[j] = rc.items[j]
  BY <1>3, ItemReplaced
<1> HIDE DEF mid
<1>8. /\ RecordsOK(signed) /\ signed.count = rc.count /\ signed.items = mid.items
      /\ signed.decisions = logs
  BY <1>6, <1>7, LogReplaced
<1> HIDE DEF signed
<1>9. /\ RecordsOK(next) /\ next.count = rc.count /\ next.decisions = logs
      /\ next.items = mid.items /\ next.outbox = events
  BY <1>4, <1>8, EventsReplaced
<1> HIDE DEF next
<1>10. QED
  BY <1>2, <1>3, <1>4, <1>5, <1>6, <1>7, <1>9 DEF EdgeMade, EdgeEvent

LEMMA PublishedEvents ==
  ASSUME NEW log \in Seq(Event), NEW event \in Event
  PROVE  Published(Append(log, event)) <=> Published(log) \/ event.type = "ReviewItemPublished"
<1>1. /\ DOMAIN Append(log, event) = 1..(Len(log) + 1)
      /\ DOMAIN log = 1..Len(log) /\ Len(log) \in Nat
      /\ \A n \in 1..Len(log) : Append(log, event)[n] = log[n]
      /\ Append(log, event)[Len(log) + 1] = event
  OBVIOUS
<1>2. \A n \in DOMAIN Append(log, event) : n \in DOMAIN log \/ n = Len(log) + 1
  BY <1>1
<1>3. Len(log) + 1 \in DOMAIN Append(log, event) /\ DOMAIN log \subseteq DOMAIN Append(log, event)
  BY <1>1
<1>4. QED
  BY <1>1, <1>2, <1>3 DEF Published

\* A row has one live shadow at most, and it is the last.
LEMMA LiveIsLast ==
  ASSUME NEW rc, RowsOK(rc), NEW a \in Rows, NEW i \in LiveIn(rc, a)
  PROVE  /\ LiveIn(rc, a) = {i} /\ \A j \in ShadowsIn(rc, a) : j <= i
         /\ i \in 1..rc.count /\ rc.items[i].artifact = a /\ rc.items[i].state \in LiveStates
<1>1. /\ \A k \in LiveIn(rc, a), j \in ShadowsIn(rc, a) : j <= k
      /\ rc.count \in Nat
  BY Ids DEF RowsOK, RowOK
<1>2. LiveIn(rc, a) \subseteq ShadowsIn(rc, a) /\ ShadowsIn(rc, a) \subseteq 1..rc.count
  BY DEF LiveIn, ShadowsIn
<1>3. \A j \in LiveIn(rc, a) : j = i
  BY <1>1, <1>2
<1>4. QED
  BY <1>1, <1>3 DEF LiveIn, ShadowsIn

\* The story of a shadow goes on along every edge a domain move takes.
LEMMA StoryGoesOn ==
  ASSUME NEW rc, RowsOK(rc), NEW a \in Rows, NEW i \in LiveIn(rc, a), NEW next, NEW actor,
         NEW to \in {"awaiting_review", "approved", "published", "superseded"},
         ReviewItemTransition(rc.items[i].state, to),
         EdgeMade(rc, next, i, to, actor, NoItem),
         to = "superseded" => rc.items[i].state \in {"draft", "published"}
  PROVE  ShadowStory(next.items[i], next.decisions[i], next.outbox[i])
<1> DEFINE x == rc.items[i]
           y == next.items[i]
<1>1. /\ x \in Item /\ x.state \in LiveStates /\ i \in ItemIds
      /\ ShadowStory(x, rc.decisions[i], rc.outbox[i])
      /\ rc.outbox[i] \in Seq(Event) /\ rc.decisions[i] \in Seq(Decision)
  BY LiveIsLast, Ids DEF RowsOK, RecordsOK, ReviewRecords, RowOK, LiveIn
<1>2. /\ to = "awaiting_review" => x.state = "draft"
      /\ to = "approved" => x.state = "awaiting_review"
      /\ to = "published" => x.state = "approved"
  BY <1>1, MovesOfTheKernel DEF Item
<1>3. PICK event \in Event : /\ next.outbox[i] = Append(rc.outbox[i], event)
                             /\ event.type = "ReviewItemPublished" <=> to = "published"
  <2>1. EdgeEvent(rc, next, i, to)
    BY DEF EdgeMade
  <2>2. QED
    BY <2>1 DEF EdgeEvent
<1>4. Published(next.outbox[i]) <=> Published(rc.outbox[i]) \/ to = "published"
  BY <1>1, <1>3, PublishedEvents
<1>5. /\ y.state = to
      /\ y.supersededBy = IF to = "superseded" THEN NoItem ELSE x.supersededBy
      /\ to # "approved" => y.reviewedBy = x.reviewedBy /\ next.decisions[i] = rc.decisions[i]
  BY DEF EdgeMade
<1>6. x.supersededBy = NoItem /\ y.supersededBy = NoItem
  BY <1>1, <1>5 DEF ShadowStory
<1>7. CASE to = "approved"
  <2>1. PICK entry \in Decision : /\ next.decisions[i] = Append(rc.decisions[i], entry)
                                  /\ entry.by = actor /\ entry.decision \in Approvals
    BY <1>7 DEF EdgeMade
  <2>2. next.decisions[i] # << >> /\ next.decisions[i][Len(next.decisions[i])] = entry
    BY <1>1, <2>1
  <2>3. ApprovalStands(y, next.decisions[i])
    BY <1>7, <2>1, <2>2 DEF EdgeMade, ApprovalStands
  <2>4. ~Published(next.outbox[i])
    BY <1>1, <1>2, <1>4, <1>7 DEF ShadowStory
  <2>5. QED
    BY <1>5, <1>6, <1>7, <2>3, <2>4 DEF ShadowStory, LiveStates
<1>8. CASE to # "approved"
  <2>1. ApprovalStands(y, next.decisions[i]) <=> ApprovalStands(x, rc.decisions[i])
    BY <1>5, <1>8 DEF ApprovalStands
  <2>2. CASE to = "awaiting_review"
    BY <1>1, <1>2, <1>4, <1>5, <1>6, <2>2 DEF ShadowStory, LiveStates
  <2>3. CASE to = "published"
    BY <1>1, <1>2, <1>4, <1>5, <1>6, <2>1, <2>3 DEF ShadowStory, LiveStates
  <2>4. CASE to = "superseded"
    BY <1>1, <1>4, <1>5, <1>6, <2>1, <2>4 DEF ShadowStory, LiveStates
  <2>5. QED
    BY <1>8, <2>2, <2>3, <2>4
<1>9. QED
  BY <1>7, <1>8

\* An edge moves the live shadow of its row and no other, or closes it.
LEMMA EdgeKeepsRows ==
  ASSUME NEW rc, RowsOK(rc), NEW a \in Rows, NEW i \in LiveIn(rc, a), NEW next, NEW actor,
         NEW to \in {"awaiting_review", "approved", "published", "superseded"},
         ReviewItemTransition(rc.items[i].state, to),
         EdgeMade(rc, next, i, to, actor, NoItem),
         to = "superseded" => rc.items[i].state \in {"draft", "published"}
  PROVE  /\ RowsOK(next) /\ Elsewhere(rc, next, a)
         /\ ShadowsIn(next, a) = ShadowsIn(rc, a)
         /\ LiveIn(next, a) = IF to = "superseded" THEN {} ELSE LiveIn(rc, a)
         /\ next.items[i].state = to
<1> DEFINE x == next.items[i]
<1>1. /\ i \in ShadowsIn(rc, a) /\ LiveIn(rc, a) = {i} /\ rc.items[i].state \in LiveStates
      /\ rc.items[i].artifact = a
  BY LiveIsLast DEF LiveIn
<1>2. ShadowStory(x, next.decisions[i], next.outbox[i])
  BY StoryGoesOn
<1>3. ShadowStory(rc.items[i], rc.decisions[i], rc.outbox[i])
  BY <1>1 DEF RowsOK, RowOK
<1>4. /\ RecordsOK(next) /\ next.count = rc.count /\ x \in Item /\ x.artifact = a
      /\ x.prev = rc.items[i].prev /\ x.state = to /\ x.supersededBy = rc.items[i].supersededBy
      /\ \A j \in ItemIds \ {i} : /\ next.items[j] = rc.items[j]
                                  /\ next.decisions[j] = rc.decisions[j]
                                  /\ next.outbox[j] = rc.outbox[j]
  BY <1>1, <1>3 DEF EdgeMade, ShadowStory
<1> HIDE DEF x
<1>5. /\ RowsOK(next) /\ Elsewhere(rc, next, a)
      /\ ShadowsIn(next, a) = ShadowsIn(rc, a)
      /\ LiveIn(next, a) = IF x.state \in LiveStates THEN LiveIn(rc, a) ELSE LiveIn(rc, a) \ {i}
  BY <1>1, <1>2, <1>4, OneShadow DEF x
<1>6. x.state \in LiveStates <=> to # "superseded"
  BY <1>4 DEF LiveStates
<1>7. QED
  BY <1>1, <1>4, <1>5, <1>6 DEF x

-----------------------------------------------------------------------------
(***************************************************************************)
(* Minting: a first shadow, or one that replaces the live one.             *)
(***************************************************************************)

ShadowBirths == {"draft", "awaiting_review"}

Minted(rc, next, a, birth, prev) ==
  LET n == rc.count + 1
      y == next.items[n]
  IN  /\ n \in ItemIds /\ RecordsOK(next) /\ next.count = n /\ next.decisions = rc.decisions
      /\ \A j \in ItemIds \ {n} : next.items[j] = rc.items[j] /\ next.outbox[j] = rc.outbox[j]
      /\ y \in Item /\ y.artifact = a /\ y.state = birth /\ y.prev = prev
      /\ y.supersededBy = NoItem /\ y.reviewedBy = Null
      /\ ~Published(next.outbox[n])

LEMMA MintMakes ==
  ASSUME NEW rc, RecordsOK(rc), Unused(rc), rc.count < MaxItems, NEW a \in Rows,
         NEW birth \in ShadowBirths, NEW prev \in ItemIds \cup {NoItem},
         artifact \in [Artifacts -> Revisions]
  PROVE  Minted(rc, Mint(rc, a, birth, prev), a, birth, prev)
<1> DEFINE n == rc.count + 1
           x == NewItem(a, artifact[a], TypeOf[a], DEFAULT_RISK(TypeOf[a]),
                        DEFAULT_ROLE(TypeOf[a]), RowAuthor[a], birth, prev)
           heads == [rc.items EXCEPT ![n] = x]
           events == Announce(rc.outbox, n, "ReviewItemCreated", birth, Null)
           next == [[[rc EXCEPT !.count = n] EXCEPT !.items = heads] EXCEPT !.outbox = events]
<1>1. /\ rc \in ReviewRecords /\ rc.count \in Nat /\ n \in ItemIds
      /\ rc.items \in [ItemIds -> Item \cup {Absent}] /\ rc.outbox \in [ItemIds -> Seq(Event)]
      /\ n \in 0..MaxItems
  BY Ids, BoundsAssumption DEF RecordsOK, ReviewRecords, ItemIds
<1>2. x \in Item
  <2>1. a \in Artifacts /\ artifact[a] \in Revisions /\ TypeOf[a] \in REVIEW_ARTIFACT_TYPES
    BY ArtifactsAssumption DEF Rows
  <2>2. /\ DEFAULT_RISK(TypeOf[a]) \in REVIEW_RISK_CLASSES
        /\ DEFAULT_ROLE(TypeOf[a]) \in REVIEWER_ROLES
    BY DEF DEFAULT_RISK, DEFAULT_ROLE, REVIEW_RISK_CLASSES, REVIEWER_ROLES
  <2>3. RowAuthor[a] \in Actors /\ birth \in OpenStates
    BY RowAuthorAssumption DEF ShadowBirths, OpenStates
  <2>4. QED
    BY <2>1, <2>2, <2>3, NewItemIsItem
<1>3. /\ x.artifact = a /\ x.state = birth /\ x.prev = prev /\ x.supersededBy = NoItem
      /\ x.reviewedBy = Null
  BY NewItemFields
<1>4. Mint(rc, a, birth, prev) = next
  <2>1. Mint(rc, a, birth, prev) =
          [[[rc EXCEPT !.count = n] EXCEPT !.items[n] = x]
             EXCEPT !.outbox = Announce(@, n, "ReviewItemCreated", birth, Null)]
    BY Zenon DEF Mint
  <2> HIDE DEF x, n
  <2>2. QED
    BY <1>1, <2>1 DEF ReviewRecords
<1> HIDE DEF x
<1>5. heads \in [ItemIds -> Item \cup {Absent}] /\ heads[n] = x
      /\ \A j \in ItemIds \ {n} : heads[j] = rc.items[j]
  BY <1>1, <1>2
<1>6. /\ events \in [ItemIds -> Seq(Event)]
      /\ events[n] = Append(rc.outbox[n],
                            [type |-> "ReviewItemCreated", state |-> birth, by |-> Null])
      /\ \A j \in ItemIds \ {n} : events[j] = rc.outbox[j]
  <2>1. birth \in REVIEW_ITEM_STATES /\ Null \in Actors
    BY DEF ShadowBirths, REVIEW_ITEM_STATES, Actors
  <2> HIDE DEF n
  <2>2. events \in [ItemIds -> Seq(Event)]
    BY <1>1, <2>1, AnnounceType
  <2>3. QED
    <3> DEFINE created == "ReviewItemCreated"
    <3>1. /\ Announce(rc.outbox, n, created, birth, Null)[n] =
               Append(rc.outbox[n], [type |-> created, state |-> birth, by |-> Null])
          /\ \A j \in ItemIds \ {n} :
                Announce(rc.outbox, n, created, birth, Null)[j] = rc.outbox[j]
      BY <1>1, AnnouncedEvent
    <3>2. QED
      BY <2>2, <3>1
<1>7. ~Published(events[n])
  <2> DEFINE event == [type |-> "ReviewItemCreated", state |-> birth, by |-> Null]
  <2>1. event \in Event /\ event.type = "ReviewItemCreated"
    BY DEF Event, ShadowBirths, REVIEW_ITEM_STATES, Actors
  <2>2. ~Published(rc.outbox[n]) /\ rc.outbox[n] \in Seq(Event)
    BY <1>1 DEF Unused
  <2> HIDE DEF event
  <2>3. events[n] = Append(rc.outbox[n], event)
    BY <1>6 DEF event
  <2>4. QED
    BY <2>1, <2>2, <2>3, PublishedEvents
<1> HIDE DEF heads, events
<1>8. /\ next \in ReviewRecords /\ next.items = heads /\ next.count = n
      /\ next.decisions = rc.decisions /\ next.outbox = events
  BY <1>1, <1>5, <1>6 DEF ReviewRecords
<1> HIDE DEF next
<1>9. \A j \in ItemIds : next.items[j] # Absent <=> j <= next.count
  BY <1>1, <1>2, <1>5, <1>8, ItemIsNotAbsent DEF RecordsOK, ItemIds
<1>10. RecordsOK(next)
  BY <1>8, <1>9 DEF RecordsOK
<1> HIDE DEF n
<1>11. Minted(rc, next, a, birth, prev)
  BY <1>1, <1>2, <1>3, <1>5, <1>6, <1>7, <1>8, <1>10 DEF Minted, n
<1>12. QED
  BY <1>4, <1>11

\* Where the shadows are after one was minted.
LEMMA ShadowsAfterMint ==
  ASSUME NEW rc, RowsOK(rc), NEW a \in Rows, NEW next, NEW birth \in ShadowBirths, NEW prev,
         Minted(rc, next, a, birth, prev)
  PROVE  LET n == rc.count + 1
         IN  /\ ShadowsIn(next, a) = ShadowsIn(rc, a) \cup {n}
             /\ LiveIn(next, a) = LiveIn(rc, a) \cup {n}
             /\ Elsewhere(rc, next, a) /\ Unused(next)
             /\ \A b \in Rows : \A j \in ShadowsIn(rc, b) :
                  /\ j \in ItemIds \ {n} /\ j < n
                  /\ next.items[j] = rc.items[j] /\ next.outbox[j] = rc.outbox[j]
                  /\ next.decisions[j] = rc.decisions[j]
<1> DEFINE n == rc.count + 1
<1>1. /\ rc.count \in Nat /\ 1..rc.count \subseteq ItemIds /\ ItemIds \subseteq Nat
      /\ n \in ItemIds /\ next.count = n /\ 1..n = (1..rc.count) \cup {n} /\ n \notin 1..rc.count
  BY Ids DEF RowsOK, Minted
<1>2. \A j \in 1..rc.count : /\ j \in ItemIds \ {n} /\ j < n
                             /\ next.items[j] = rc.items[j] /\ next.outbox[j] = rc.outbox[j]
                             /\ next.decisions[j] = rc.decisions[j]
  BY <1>1 DEF Minted
<1>3. next.items[n].artifact = a /\ next.items[n].state \in LiveStates
  BY DEF Minted, ShadowBirths, LiveStates
<1>4. \A b \in Rows :
        ShadowsIn(next, b) = IF b = a THEN ShadowsIn(rc, b) \cup {n} ELSE ShadowsIn(rc, b)
  BY <1>1, <1>2, <1>3 DEF ShadowsIn
<1>5. \A b \in Rows : ShadowsIn(rc, b) \subseteq 1..rc.count
  BY DEF ShadowsIn
<1>6. \A b \in Rows : LiveIn(next, b) = IF b = a THEN LiveIn(rc, b) \cup {n} ELSE LiveIn(rc, b)
  BY <1>2, <1>3, <1>4, <1>5 DEF LiveIn
<1>7. Unused(next)
  <2>1. \A j \in ItemIds \ {n} : next.outbox[j] = rc.outbox[j]
    BY DEF Minted
  <2>2. \A j \in ItemIds : j > n => j # n /\ j > rc.count
    BY <1>1
  <2>3. QED
    BY <1>1, <2>1, <2>2 DEF Unused, RowsOK
<1>8. Elsewhere(rc, next, a)
  BY <1>2, <1>4, <1>5, <1>6 DEF Elsewhere
<1>9. QED
  BY <1>2, <1>4, <1>5, <1>6, <1>7, <1>8

LEMMA FirstShadow ==
  ASSUME NEW rc, RowsOK(rc), NEW a \in Rows, ShadowsIn(rc, a) = {}, NEW next,
         NEW birth \in ShadowBirths, Minted(rc, next, a, birth, NoItem)
  PROVE  LET n == rc.count + 1
         IN  /\ RowsOK(next) /\ Elsewhere(rc, next, a)
             /\ ShadowsIn(next, a) = {n} /\ LiveIn(next, a) = {n}
             /\ next.items[n].state = birth
<1> DEFINE n == rc.count + 1
<1>1. /\ ShadowsIn(next, a) = {n} /\ LiveIn(next, a) = LiveIn(rc, a) \cup {n}
      /\ Elsewhere(rc, next, a) /\ Unused(next)
      /\ \A b \in Rows : \A j \in ShadowsIn(rc, b) :
           /\ next.items[j] = rc.items[j] /\ next.outbox[j] = rc.outbox[j]
           /\ next.decisions[j] = rc.decisions[j]
  BY ShadowsAfterMint
<1>2. LiveIn(next, a) = {n}
  BY <1>1 DEF LiveIn
<1>3. n \in Nat /\ RecordsOK(next) /\ next.items[n].state = birth
      /\ next.items[n].supersededBy = NoItem /\ ~Published(next.outbox[n])
  BY Ids DEF Minted, RowsOK
<1>4. RowOK(next, a)
  <2>1. ShadowStory(next.items[n], next.decisions[n], next.outbox[n])
    BY <1>3 DEF ShadowStory, ShadowBirths, LiveStates
  <2> HIDE DEF n
  <2>2. QED
    BY <1>1, <1>2, <1>3, <2>1 DEF RowOK, InOneChain
<1>5. ASSUME NEW b \in Rows, b # a PROVE RowOK(next, b)
  <2>1. RowOK(rc, b)
    BY DEF RowsOK
  <2>2. ShadowsIn(next, b) = ShadowsIn(rc, b) /\ LiveIn(next, b) = LiveIn(rc, b)
    BY <1>1, <1>5 DEF Elsewhere
  <2>3. QED
    BY <1>1, <2>1, <2>2 DEF RowOK, InOneChain
<1>6. QED
  BY <1>1, <1>2, <1>3, <1>4, <1>5 DEF RowsOK

\* The draft that replaces a live shadow: it names it and is named by it.
LEMMA ReplacedShadow ==
  ASSUME NEW rc, RowsOK(rc), NEW a \in Rows, NEW i \in LiveIn(rc, a),
         rc.items[i].state \in {"awaiting_review", "approved"},
         NEW mid, Minted(rc, mid, a, "draft", i), NEW next, NEW actor,
         EdgeMade(mid, next, i, "superseded", actor, rc.count + 1)
  PROVE  LET n == rc.count + 1
         IN  /\ RowsOK(next) /\ Elsewhere(rc, next, a)
             /\ LiveIn(next, a) = {n} /\ next.items[n].state = "draft"
<1> DEFINE n == rc.count + 1
<1>1. /\ LiveIn(rc, a) = {i} /\ \A j \in ShadowsIn(rc, a) : j <= i
      /\ i \in ShadowsIn(rc, a) /\ ShadowsIn(rc, a) \subseteq Nat
  BY LiveIsLast DEF LiveIn, ShadowsIn
<1>2. "draft" \in ShadowBirths
  BY DEF ShadowBirths
<1>3. /\ ShadowsIn(mid, a) = ShadowsIn(rc, a) \cup {n} /\ LiveIn(mid, a) = {i, n}
      /\ Elsewhere(rc, mid, a) /\ Unused(mid)
      /\ \A b \in Rows : \A j \in ShadowsIn(rc, b) :
           /\ j \in ItemIds \ {n} /\ j < n
           /\ mid.items[j] = rc.items[j] /\ mid.outbox[j] = rc.outbox[j]
           /\ mid.decisions[j] = rc.decisions[j]
  BY <1>1, <1>2, ShadowsAfterMint
<1>4. /\ n \in ItemIds /\ mid.count = n
      /\ mid.items[n].artifact = a /\ mid.items[n].state = "draft"
      /\ mid.items[n].prev = i /\ mid.items[n].supersededBy = NoItem
      /\ ~Published(mid.outbox[n]) /\ ItemIds \subseteq Nat /\ 1..n \subseteq ItemIds
  BY Ids DEF Minted
<1>5. /\ RecordsOK(next) /\ next.count = n
      /\ \A j \in ItemIds \ {i} : /\ next.items[j] = mid.items[j]
                                  /\ next.decisions[j] = mid.decisions[j]
                                  /\ next.outbox[j] = mid.outbox[j]
      /\ next.items[i].artifact = a /\ next.items[i].prev = rc.items[i].prev
      /\ next.items[i].state = "superseded" /\ next.items[i].supersededBy = n
  BY <1>1, <1>3, <1>4 DEF EdgeMade, ShadowsIn
<1>6. ~Published(next.outbox[i])
  <2>1. ~Published(mid.outbox[i])
    BY <1>1, <1>3 DEF RowsOK, RowOK, ShadowStory
  <2>2. PICK event \in Event : /\ next.outbox[i] = Append(mid.outbox[i], event)
                               /\ event.type # "ReviewItemPublished"
    <3>1. EdgeEvent(mid, next, i, "superseded")
      BY DEF EdgeMade
    <3>2. QED
      BY <3>1 DEF EdgeEvent
  <2>3. mid.outbox[i] \in Seq(Event)
    BY <1>1, <1>3 DEF Minted, RecordsOK, ReviewRecords
  <2>4. QED
    BY <2>1, <2>2, <2>3, PublishedEvents
<1> HIDE DEF n
<1>7. \A b \in Rows : ShadowsIn(next, b) = ShadowsIn(mid, b)
  BY <1>3, <1>4, <1>5, <1>1 DEF ShadowsIn
<1>8. \A b \in Rows \ {a} : \A j \in ShadowsIn(rc, b) :
        /\ j \in ItemIds \ {i} /\ next.items[j] = rc.items[j]
        /\ next.outbox[j] = rc.outbox[j] /\ next.decisions[j] = rc.decisions[j]
  <2>1. \A b \in Rows \ {a} : i \notin ShadowsIn(rc, b)
    BY <1>1 DEF ShadowsIn
  <2>2. QED
    BY <1>3, <1>5, <2>1
<1>9. \A b \in Rows \ {a} :
        ShadowsIn(next, b) = ShadowsIn(rc, b) /\ LiveIn(next, b) = LiveIn(rc, b)
  <2>1. \A b \in Rows \ {a} : ShadowsIn(next, b) = ShadowsIn(rc, b)
    BY <1>3, <1>7 DEF Elsewhere
  <2>2. QED
    BY <1>8, <2>1 DEF LiveIn
<1>10. Elsewhere(rc, next, a)
  BY <1>8, <1>9 DEF Elsewhere
<1>11. i # n /\ n \in ItemIds \ {i}
  BY <1>1, <1>3, <1>4
<1>12. LiveIn(next, a) = {n} /\ next.items[n].state = "draft"
  <2>1. LiveIn(next, a) = {j \in ShadowsIn(mid, a) : next.items[j].state \in LiveStates}
    BY <1>7 DEF LiveIn
  <2>2. \A j \in ShadowsIn(mid, a) : j # i => next.items[j].state = mid.items[j].state
    BY <1>1, <1>3, <1>4, <1>5
  <2>3. LiveIn(mid, a) = {j \in ShadowsIn(mid, a) : mid.items[j].state \in LiveStates}
    BY DEF LiveIn
  <2>4. i \notin LiveIn(next, a)
    BY <1>5 DEF LiveIn, LiveStates
  <2>5. QED
    BY <1>3, <1>4, <1>5, <1>11, <2>1, <2>2, <2>3, <2>4
<1>13. RowOK(next, a)
  <2>1. RowOK(rc, a)
    BY DEF RowsOK
  <2>2. ShadowsIn(next, a) = ShadowsIn(rc, a) \cup {n}
    BY <1>3, <1>7
  <2>3. \A j \in ShadowsIn(rc, a) : j # i =>
          /\ next.items[j] = rc.items[j] /\ next.outbox[j] = rc.outbox[j]
          /\ next.decisions[j] = rc.decisions[j]
    BY <1>3, <1>5
  <2>4. \A j \in ShadowsIn(next, a) : j <= n
    BY <1>1, <1>3, <1>4, <2>2
  <2>5. ShadowStory(next.items[i], next.decisions[i], next.outbox[i])
    BY <1>5, <1>6 DEF ShadowStory, LiveStates
  <2>6. ShadowStory(next.items[n], next.decisions[n], next.outbox[n])
    BY <1>4, <1>5, <1>11 DEF ShadowStory, LiveStates
  <2>7. \A j \in ShadowsIn(next, a) :
          ShadowStory(next.items[j], next.decisions[j], next.outbox[j])
    BY <2>1, <2>2, <2>3, <2>5, <2>6 DEF RowOK
  <2>8. InOneChain(next, a)
    <3> SUFFICES ASSUME NEW j \in ShadowsIn(next, a), NEW k \in ShadowsIn(next, a), j < k,
                        \A m \in ShadowsIn(next, a) : ~(j < m /\ m < k)
                 PROVE  next.items[k].prev = j /\ next.items[j].supersededBy = k
      BY DEF InOneChain
    <3>1. CASE k = n
      <4>1. j \in ShadowsIn(rc, a) /\ i \in ShadowsIn(next, a) /\ i < n /\ j <= i
        BY <1>1, <1>3, <2>2, <3>1, <1>4
      <4>2. j = i
        BY <1>1, <3>1, <4>1
      <4>3. QED
        BY <1>4, <1>5, <1>11, <3>1, <4>2
    <3>2. CASE k # n
      <4>1. /\ k \in ShadowsIn(rc, a) /\ j \in ShadowsIn(rc, a)
            /\ \A m \in ShadowsIn(rc, a) : ~(j < m /\ m < k)
        BY <1>1, <1>3, <1>4, <2>2, <2>4, <3>2
      <4>2. rc.items[k].prev = j /\ rc.items[j].supersededBy = k
        BY <2>1, <4>1 DEF RowOK, InOneChain
      <4>3. j # i
        BY <1>1, <4>1
      <4>4. next.items[k].prev = rc.items[k].prev
        BY <1>5, <2>3, <4>1
      <4>5. QED
        BY <2>3, <4>1, <4>2, <4>3, <4>4
    <3>3. QED
      BY <3>1, <3>2
  <2>9. QED
    BY <1>12, <2>4, <2>7, <2>8 DEF RowOK
<1>14. ASSUME NEW b \in Rows, b # a PROVE RowOK(next, b)
  <2>1. RowOK(rc, b)
    BY DEF RowsOK
  <2>2. QED
    BY <1>8, <1>9, <1>14, <2>1 DEF RowOK, InOneChain
<1>15. Unused(next)
  BY <1>3, <1>4, <1>5, <1>1 DEF Unused
<1>16. QED
  BY <1>5, <1>10, <1>12, <1>13, <1>14, <1>15 DEF RowsOK, n

-----------------------------------------------------------------------------
(***************************************************************************)
(* The walk along the spine, and the move of a shadow as a whole.          *)
(***************************************************************************)

LEMMA SpinePositions ==
  /\ Position("draft") = 1 /\ Position("awaiting_review") = 2
  /\ Position("approved") = 3 /\ Position("published") = 4
  /\ SPINE[1] = "draft" /\ SPINE[2] = "awaiting_review"
  /\ SPINE[3] = "approved" /\ SPINE[4] = "published"
<1>1. /\ SPINE[1] = "draft" /\ SPINE[2] = "awaiting_review"
      /\ SPINE[3] = "approved" /\ SPINE[4] = "published" /\ DOMAIN SPINE = 1..4
  BY DEF SPINE
<1> HIDE DEF SPINE
<1>2. DOMAIN SPINE = {1, 2, 3, 4}
  BY <1>1
<1>3. \A k \in DOMAIN SPINE : SPINE[k] = "draft" <=> k = 1
  BY <1>1, <1>2
<1>4. \A k \in DOMAIN SPINE : SPINE[k] = "awaiting_review" <=> k = 2
  BY <1>1, <1>2
<1>5. \A k \in DOMAIN SPINE : SPINE[k] = "approved" <=> k = 3
  BY <1>1, <1>2
<1>6. \A k \in DOMAIN SPINE : SPINE[k] = "published" <=> k = 4
  BY <1>1, <1>2
<1>7. QED
  BY <1>1, <1>2, <1>3, <1>4, <1>5, <1>6 DEF Position

LEMMA ElsewhereStill == ASSUME NEW rc, NEW a PROVE Elsewhere(rc, rc, a)
BY DEF Elsewhere

LEMMA ElsewhereOnward ==
  ASSUME NEW rc, NEW mid, NEW next, NEW a, Elsewhere(rc, mid, a), Elsewhere(mid, next, a)
  PROVE  Elsewhere(rc, next, a)
BY DEF Elsewhere

\* The shadow of a row, walked on to a place of the spine.  Only approval signs it.
At(rc, next, a, i, place) ==
  /\ RowsOK(next) /\ Elsewhere(rc, next, a)
  /\ LiveIn(next, a) = {i} /\ ShadowsIn(next, a) = ShadowsIn(rc, a)
  /\ next.items[i].state = SPINE[place]
  /\ \A j \in ItemIds \ {i} : next.items[j] = rc.items[j]
  /\ rc.items[i].state = "approved" => place >= 3
  /\ place <= 2 \/ rc.items[i].state = "approved" =>
       next.items[i].reviewedBy = rc.items[i].reviewedBy

LEMMA OneLeg ==
  ASSUME NEW rc, NEW a \in Rows, NEW i, NEW actor \in Members, NEW place \in {1, 2, 3},
         NEW mid, At(rc, mid, a, i, place)
  PROVE  At(rc, ApplyEdge(mid, i, SPINE[place + 1], actor, NoItem), a, i, place + 1)
<1> DEFINE to == SPINE[place + 1]
           next == ApplyEdge(mid, i, to, actor, NoItem)
<1>1. /\ RowsOK(mid) /\ Elsewhere(rc, mid, a) /\ LiveIn(mid, a) = {i}
      /\ ShadowsIn(mid, a) = ShadowsIn(rc, a) /\ mid.items[i].state = SPINE[place]
  BY DEF At
<1>2. i \in LiveIn(mid, a) /\ i \in 1..mid.count /\ RecordsOK(mid)
  BY <1>1, LiveIsLast DEF RowsOK
<1>3. /\ to \in {"awaiting_review", "approved", "published"}
      /\ ReviewItemTransition(mid.items[i].state, to)
  <2>1. /\ "awaiting_review" \in ALLOWED["draft"] /\ "approved" \in ALLOWED["awaiting_review"]
        /\ "published" \in ALLOWED["approved"]
    BY DEF ALLOWED
  <2>2. CASE place = 1
    BY <1>1, <2>1, <2>2, SpinePositions DEF ReviewItemTransition
  <2>3. CASE place = 2
    BY <1>1, <2>1, <2>3, SpinePositions DEF ReviewItemTransition
  <2>4. CASE place = 3
    BY <1>1, <2>1, <2>4, SpinePositions DEF ReviewItemTransition
  <2>5. QED
    BY <2>2, <2>3, <2>4
<1> HIDE DEF to
<1>4. EdgeMade(mid, next, i, to, actor, NoItem)
  BY <1>2, <1>3, SubmitEdge, ApproveEdge, PublishEdge
<1> HIDE DEF next
<1>5. /\ RowsOK(next) /\ Elsewhere(mid, next, a)
      /\ ShadowsIn(next, a) = ShadowsIn(mid, a)
      /\ LiveIn(next, a) = IF to = "superseded" THEN {} ELSE LiveIn(mid, a)
      /\ next.items[i].state = to
  <2>1. to # "superseded" /\ to \in {"awaiting_review", "approved", "published", "superseded"}
    BY <1>3
  <2>2. QED
    BY <1>1, <1>2, <1>3, <1>4, <2>1, EdgeKeepsRows
<1>6. Elsewhere(rc, next, a)
  BY <1>1, <1>5, ElsewhereOnward
<1>7. /\ \A j \in ItemIds \ {i} : next.items[j] = mid.items[j]
      /\ to # "approved" => next.items[i].reviewedBy = mid.items[i].reviewedBy
  BY <1>4 DEF EdgeMade
<1>8. /\ rc.items[i].state = "approved" => place + 1 >= 3
      /\ place + 1 <= 2 \/ rc.items[i].state = "approved" =>
           next.items[i].reviewedBy = rc.items[i].reviewedBy
  <2>1. place + 1 <= 2 \/ place >= 3 => to # "approved"
    BY SpinePositions DEF to
  <2>2. QED
    BY <1>7, <2>1 DEF At
<1>9. \A j \in ItemIds \ {i} : next.items[j] = rc.items[j]
  BY <1>7 DEF At
<1>10. QED
  BY <1>1, <1>3, <1>5, <1>6, <1>8, <1>9 DEF At, next, to

\* The forward walk reaches every later place of the spine.
LEMMA WalkArrives ==
  ASSUME NEW rc, RowsOK(rc), NEW a \in Rows, NEW i \in LiveIn(rc, a), NEW actor \in Members,
         NEW from \in {1, 2, 3}, rc.items[i].state = SPINE[from],
         NEW goal \in {2, 3, 4}, from < goal
  PROVE  At(rc, Walk(rc, i, SPINE[goal], actor), a, i, goal)
<1> DEFINE Leg(r, k) == IF from < k /\ k <= goal
                        THEN ApplyEdge(r, i, SPINE[k], actor, NoItem) ELSE r
           r2 == Leg(rc, 2)
           r3 == Leg(r2, 3)
           r4 == Leg(r3, 4)
<1>1. Walk(rc, i, SPINE[goal], actor) = r4
  <2>1. Position(SPINE[goal]) = goal /\ Position(rc.items[i].state) = from
    BY SpinePositions
  <2>2. QED
    BY <2>1 DEF Walk
<1>2. At(rc, rc, a, i, from)
  BY LiveIsLast, ElsewhereStill, SpinePositions DEF At
<1>3. At(rc, r2, a, i, IF from = 1 THEN 2 ELSE from)
  BY <1>2, OneLeg
<1> HIDE DEF r2
<1>4. At(rc, r3, a, i, IF goal = 2 THEN 2 ELSE 3)
  <2>1. CASE from = 3
    BY <1>3, <2>1
  <2>2. CASE from # 3 /\ goal = 2
    BY <1>3, <2>2
  <2>3. CASE from # 3 /\ goal # 2
    <3>1. At(rc, r2, a, i, 2) /\ r3 = ApplyEdge(r2, i, SPINE[2 + 1], actor, NoItem)
      BY <1>3, <2>3
    <3> HIDE DEF r3
    <3>2. At(rc, r3, a, i, 2 + 1)
      BY <3>1, OneLeg
    <3>3. QED
      BY <2>3, <3>2
  <2>4. QED
    BY <2>1, <2>2, <2>3
<1> HIDE DEF r3
<1>5. CASE goal # 4
  BY <1>1, <1>4, <1>5
<1>6. CASE goal = 4
  <2>1. At(rc, r3, a, i, 3) /\ r4 = ApplyEdge(r3, i, SPINE[3 + 1], actor, NoItem)
    BY <1>4, <1>6
  <2> HIDE DEF r4
  <2>2. At(rc, r4, a, i, 3 + 1)
    BY <2>1, OneLeg
  <2>3. QED
    BY <1>1, <1>6, <2>2
<1>7. QED
  BY <1>5, <1>6

\* From which state of the live shadow a domain move may ask for which.
Follows(from, target) ==
  \/ target = from
  \/ target = "superseded" /\ from \in {"draft", "published"}
  \/ target = "draft" /\ from \in {"awaiting_review", "approved"}
  \/ target = "awaiting_review" /\ from = "draft"
  \/ target = "approved" /\ from \in {"draft", "awaiting_review"}
  \/ target = "published" /\ from \in {"draft", "awaiting_review", "approved"}

\* Row a and its shadow are in one state, or the shadow is closed.
Synced(rc, next, a, target) ==
  /\ RowsOK(next) /\ Elsewhere(rc, next, a)
  /\ \A k \in LiveIn(next, a) : next.items[k].state = target
  /\ LiveIn(next, a) = {} => target = "superseded"

\* A shadow of a row that was approved was approved by a member.
LEMMA ApproverIsMember ==
  ASSUME NEW rc, RowsOK(rc), NEW a \in Rows, NEW i \in ShadowsIn(rc, a),
         rc.items[i].state \in {"approved", "published"}
  PROVE  rc.items[i].reviewedBy \in Members
<1>1. /\ i \in ItemIds /\ ShadowStory(rc.items[i], rc.decisions[i], rc.outbox[i])
      /\ rc.decisions[i] \in Seq(Decision)
  BY Ids DEF RowsOK, RowOK, RecordsOK, ReviewRecords, ShadowsIn
<1>2. rc.decisions[i] # << >> /\ rc.items[i].reviewedBy = rc.decisions[i][Len(rc.decisions[i])].by
  BY <1>1 DEF ShadowStory, ApprovalStands
<1>3. rc.decisions[i][Len(rc.decisions[i])] \in Decision
  BY <1>1, <1>2
<1>4. QED
  BY <1>2, <1>3 DEF Decision

\* The move keeps what the Review Center promises of every item.
Promised(rc, next) == \A j \in ItemIds : Kept(rc.items[j], next.items[j])

LEMMA MovedShadowIsSynced ==
  ASSUME NEW rc, RowsOK(rc), NEW a \in Rows, NEW i \in LiveIn(rc, a), NEW actor \in Members,
         artifact \in [Artifacts -> Revisions],
         NEW target \in LiveStates \cup {"superseded"}, Follows(rc.items[i].state, target),
         target = "draft" /\ rc.items[i].state # "draft" => rc.count < MaxItems
  PROVE  LET next == MoveShadow(rc, i, a, target, actor)
         IN  /\ Synced(rc, next, a, target) /\ Promised(rc, next)
             /\ target # "draft" => \A j \in ItemIds \ {i} : next.items[j] = rc.items[j]
             /\ target = rc.items[i].state => next = rc
<1> DEFINE from == rc.items[i].state
           next == MoveShadow(rc, i, a, target, actor)
<1>1. /\ LiveIn(rc, a) = {i} /\ i \in 1..rc.count /\ from \in LiveStates
      /\ RecordsOK(rc) /\ Unused(rc) /\ rc.count \in Nat
      /\ 1..rc.count \subseteq ItemIds /\ rc.items[i] \in Item
  BY LiveIsLast, Ids DEF RowsOK
<1>0. /\ \A x, y : x = y => Kept(x, y)
      /\ from = "draft" \/ from = "awaiting_review" => Phase(rc.items[i]) = "open"
      /\ from = "approved" \/ from = "published" => Phase(rc.items[i]) = from
      /\ Approver(rc.items[i]) = rc.items[i].reviewedBy
  <2>1. \A x, y : x = y => Kept(x, y)
    BY DEF Kept
  <2>2. QED
    BY <1>1, <2>1, PhaseOfItem DEF OpenStates
<1>2. CASE target = from
  <2>1. next = rc
    BY <1>2 DEF MoveShadow
  <2>2. QED
    BY <1>0, <1>1, <1>2, <2>1, ElsewhereStill DEF Synced, Promised
<1>3. CASE target # from /\ target = "superseded"
  <2>1. next = ApplyEdge(rc, i, "superseded", actor, NoItem)
    BY <1>3 DEF MoveShadow
  <2>2. from \in {"draft", "published"} /\ ReviewItemTransition(from, "superseded")
    BY <1>3 DEF Follows, ReviewItemTransition, ALLOWED
  <2>3. EdgeMade(rc, next, i, "superseded", actor, NoItem)
    BY <1>1, <2>1, <2>2, CloseEdge
  <2> HIDE DEF next
  <2>4. RowsOK(next) /\ Elsewhere(rc, next, a) /\ LiveIn(next, a) = {}
    BY <2>2, <2>3, EdgeKeepsRows
  <2>5. /\ \A j \in ItemIds \ {i} : next.items[j] = rc.items[j]
        /\ next.items[i] \in Item /\ next.items[i].state = "superseded"
        /\ next.items[i].reviewedBy = rc.items[i].reviewedBy
    BY <2>3 DEF EdgeMade
  <2>6. Kept(rc.items[i], next.items[i])
    <3>1. Phase(next.items[i]) = "closed" /\ Approver(next.items[i]) = next.items[i].reviewedBy
      BY <2>5, PhaseOfItem
    <3>2. QED
      BY <1>0, <2>2, <2>5, <3>1 DEF Kept
  <2>7. QED
    BY <1>0, <1>3, <2>4, <2>5, <2>6 DEF Synced, Promised, next
<1>4. CASE target # from /\ target = "draft"
  <2> DEFINE n == rc.count + 1
             mid == Mint(rc, a, "draft", i)
  <2>1. from \in {"awaiting_review", "approved"} /\ ReviewItemTransition(from, "superseded")
    BY <1>4 DEF Follows, ReviewItemTransition, ALLOWED
  <2>2. next = ApplyEdge(mid, i, "superseded", actor, n)
    BY <1>4, <2>1 DEF MoveShadow
  <2>3. Minted(rc, mid, a, "draft", i)
    BY <1>1, <1>4, MintMakes DEF ShadowBirths
  <2> HIDE DEF mid
  <2>4. /\ RecordsOK(mid) /\ n \in ItemIds /\ mid.count = n /\ i \in 1..mid.count
        /\ mid.items[i] = rc.items[i]
    BY <1>1, <2>3 DEF Minted
  <2>5. EdgeMade(mid, next, i, "superseded", actor, n)
    BY <2>1, <2>2, <2>4, CloseEdge
  <2> HIDE DEF next
  <2>6. /\ RowsOK(next) /\ Elsewhere(rc, next, a)
        /\ LiveIn(next, a) = {n} /\ next.items[n].state = "draft"
    BY <2>1, <2>3, <2>5, ReplacedShadow
  <2>7. /\ \A j \in ItemIds \ {i, n} : next.items[j] = rc.items[j]
        /\ next.items[n] = mid.items[n] /\ mid.items[n] \in Item
        /\ mid.items[n].state = "draft" /\ mid.items[n].reviewedBy = Null
        /\ next.items[i] \in Item /\ next.items[i].state = "superseded"
        /\ next.items[i].reviewedBy = rc.items[i].reviewedBy
    BY <1>1, <2>3, <2>4, <2>5 DEF EdgeMade, Minted
  <2>8. Kept(rc.items[i], next.items[i])
    <3>1. Phase(next.items[i]) = "closed" /\ Approver(next.items[i]) = next.items[i].reviewedBy
      BY <2>7, PhaseOfItem
    <3>2. QED
      BY <1>0, <2>1, <2>7, <3>1 DEF Kept
  <2>9. Kept(rc.items[n], next.items[n])
    <3>1. Phase(next.items[n]) = "open" /\ Approver(next.items[n]) = Null
      BY <2>7, PhaseOfItem DEF OpenStates
    <3>2. rc.items[n] = Absent
      BY <1>1, <2>4 DEF RecordsOK
    <3>3. QED
      BY <3>1, <3>2, PhaseOfAbsent DEF Kept
  <2>10. Promised(rc, next)
    BY <1>0, <2>7, <2>8, <2>9 DEF Promised
  <2>11. QED
    BY <1>4, <2>6, <2>10 DEF Synced, next
<1>5. CASE target # from /\ target \notin {"draft", "superseded"}
  <2>1. next = Walk(rc, i, target, actor)
    BY <1>5 DEF MoveShadow
  <2>2. PICK f \in {1, 2, 3}, g \in {2, 3, 4} : f < g /\ from = SPINE[f] /\ target = SPINE[g]
    BY <1>1, <1>5, SpinePositions DEF Follows, LiveStates
  <2> HIDE DEF next
  <2>3. At(rc, next, a, i, g)
    BY <2>1, <2>2, WalkArrives
  <2>4. /\ RowsOK(next) /\ i \in LiveIn(next, a) /\ next.items[i].state = target
        /\ \A j \in ItemIds \ {i} : next.items[j] = rc.items[j]
        /\ i \in ShadowsIn(next, a) /\ next.items[i] \in Item
    <3>1. RowsOK(next) /\ i \in LiveIn(next, a) /\ next.items[i].state = target
      BY <2>2, <2>3 DEF At
    <3>2. next.items[i] \in Item /\ i \in ShadowsIn(next, a)
      BY <3>1, Ids DEF RowsOK, LiveIn, ShadowsIn
    <3>3. QED
      BY <2>3, <3>1, <3>2 DEF At
  <2>5. Kept(rc.items[i], next.items[i])
    <3>1. /\ Approver(next.items[i]) = next.items[i].reviewedBy
          /\ target = "awaiting_review" => Phase(next.items[i]) = "open"
          /\ target = "approved" \/ target = "published" => Phase(next.items[i]) = target
      BY <2>4, PhaseOfItem DEF OpenStates
    <3>2. target = "approved" \/ target = "published" => next.items[i].reviewedBy \in Members
      BY <2>4, ApproverIsMember
    <3>3. CASE g = 2
      <4>1. from = "draft" /\ target = "awaiting_review"
        BY <2>2, <3>3, SpinePositions
      <4>2. next.items[i].reviewedBy = rc.items[i].reviewedBy
        BY <2>3, <3>3 DEF At
      <4>3. QED
        BY <1>0, <3>1, <4>1, <4>2 DEF Kept
    <3>4. CASE g # 2 /\ f # 3
      <4>1. /\ from = "draft" \/ from = "awaiting_review"
            /\ target = "approved" \/ target = "published"
        BY <2>2, <3>4, SpinePositions
      <4>2. QED
        BY <1>0, <3>1, <3>2, <4>1 DEF Kept
    <3>5. CASE f = 3
      <4>1. from = "approved" /\ target = "published"
        BY <2>2, <3>5, SpinePositions
      <4>2. next.items[i].reviewedBy = rc.items[i].reviewedBy
        BY <2>3, <4>1 DEF At
      <4>3. QED
        BY <1>0, <3>1, <4>1, <4>2 DEF Kept
    <3>6. QED
      BY <3>3, <3>4, <3>5
  <2>6. QED
    BY <1>0, <1>5, <2>2, <2>3, <2>4, <2>5 DEF At, Synced, Promised, next
<1>6. QED
  BY <1>2, <1>3, <1>4, <1>5

\* The moves of the two workflows, seen through the state they map to.
LEMMA MovesOfRows ==
  ASSUME NEW a \in Rows, NEW s, NEW to,
         \/ IsRoadmap(a) /\ s \in DOMAIN ROADMAP_ALLOWED /\ to \in ROADMAP_ALLOWED[s]
         \/ ~IsRoadmap(a) /\ s \in DOMAIN REPORT_ALLOWED /\ to \in REPORT_ALLOWED[s]
  PROVE  /\ s # "archived" /\ s # "missing" /\ to # "missing" /\ to # s
         /\ to \in StatusesOf(a)
         /\ MappedState(a, to) \in LiveStates \cup {"superseded"}
         /\ MappedState(a, to) = "superseded" <=> to = "archived"
         /\ Follows(MappedState(a, s), MappedState(a, to))
<1>1. DOMAIN ROADMAP_ALLOWED = {"draft", "staff_review", "approved", "published", "archived"}
  BY DEF ROADMAP_ALLOWED
<1>2. DOMAIN REPORT_ALLOWED = {"draft", "ready_for_review", "published"}
  BY DEF REPORT_ALLOWED
<1>3. CASE IsRoadmap(a)
  <2>1. \/ s = "draft" /\ to \in {"staff_review", "archived"}
        \/ s = "staff_review" /\ to \in {"approved", "draft"}
        \/ s = "approved" /\ to \in {"published", "draft"}
        \/ s = "published" /\ to = "archived"
    BY <1>1, <1>3 DEF ROADMAP_ALLOWED
  <2>2. \A t : MappedState(a, t) = ReviewStateForRoadmapStatus[t]
    BY <1>3 DEF MappedState
  <2>3. QED
    BY <1>1, <1>3, <2>1, <2>2
    DEF ReviewStateForRoadmapStatus, StatusesOf, LiveStates, Follows
<1>4. CASE ~IsRoadmap(a)
  <2>1. \/ s = "draft" /\ to = "ready_for_review"
        \/ s = "ready_for_review" /\ to \in {"published", "draft"}
    BY <1>2, <1>4 DEF REPORT_ALLOWED
  <2>2. \A t : MappedState(a, t) = ReviewStateForReportStatus[t]
    BY <1>4 DEF MappedState
  <2>3. QED
    BY <1>2, <1>4, <2>1, <2>2
    DEF ReviewStateForReportStatus, StatusesOf, LiveStates, Follows
<1>5. QED
  BY <1>3, <1>4

RowMoves(a, to) ==
  \/ IsRoadmap(a) /\ to \in ROADMAP_ALLOWED[status[a]]
  \/ ~IsRoadmap(a) /\ status[a] # "missing" /\ to \in REPORT_ALLOWED[status[a]]

\* One domain move: the row and its shadows agree again, and no other moved.
LEMMA SyncedAfterMove ==
  ASSUME BridgedInv, NEW a \in Rows, NEW actor \in Members, NEW to, RowMoves(a, to),
         MintsShadow(a, MappedState(a, to)) => count < MaxItems
  PROVE  LET next == SyncBridgedShadow(a, MappedState(a, to), actor)
         IN  /\ RowsOK(next) /\ Elsewhere(Records, next, a) /\ InStep(next, a, to)
             /\ Promised(Records, next)
<1> DEFINE s == status[a]
           target == MappedState(a, to)
           next == SyncBridgedShadow(a, target, actor)
<1>1. /\ RowsOK(Records) /\ RecordsOK(Records) /\ Unused(Records) /\ InStep(Records, a, s)
      /\ artifact \in [Artifacts -> Revisions] /\ s \in StatusesOf(a)
  BY DEF BridgedInv, RowsOK
<1>2. LiveShadows(a) = LiveIn(Records, a) /\ Records.count = count /\ Records.items = items
  BY TypedRecords DEF Records
<1>3. /\ s # "archived" /\ s # "missing" /\ to # "missing"
      /\ target \in LiveStates \cup {"superseded"}
      /\ target = "superseded" <=> to = "archived"
      /\ Follows(MappedState(a, s), target)
  BY <1>1, MovesOfRows DEF RowMoves, StatusesOf
<1> HIDE DEF target, s
<1>4. ASSUME NEW r, Synced(Records, r, a, target)
      PROVE  RowsOK(r) /\ Elsewhere(Records, r, a) /\ InStep(r, a, to)
  BY <1>3, <1>4 DEF Synced, InStep, target
<1>5. CASE LiveShadows(a) # {}
  <2> DEFINE i == CHOOSE k \in LiveShadows(a) : TRUE
  <2>1. i \in LiveIn(Records, a) /\ \A k \in LiveShadows(a) : k = i
    <3>1. i \in LiveIn(Records, a)
      BY <1>2, <1>5
    <3> HIDE DEF i
    <3>2. QED
      BY <1>1, <1>2, <3>1, LiveIsLast
  <2>2. next = MoveShadow(Records, i, a, target, actor)
    BY <1>5 DEF SyncBridgedShadow, WithShadow
  <2> HIDE DEF i, next
  <2>3. Records.items[i].state = MappedState(a, s)
    BY <1>1, <2>1 DEF InStep
  <2>4. target = "draft" /\ Records.items[i].state # "draft" => Records.count < MaxItems
    BY <1>2, <1>5, <2>1 DEF MintsShadow, target
  <2>5. Synced(Records, next, a, target) /\ Promised(Records, next)
    BY <1>1, <1>3, <2>1, <2>2, <2>3, <2>4, MovedShadowIsSynced
  <2>6. QED
    BY <1>4, <2>5 DEF next, target
<1>6. CASE LiveShadows(a) = {} /\ target = "superseded"
  <2>1. next = Records
    BY <1>6 DEF SyncBridgedShadow
  <2>2. Synced(Records, Records, a, target) /\ Promised(Records, Records)
    BY <1>1, <1>2, <1>6, ElsewhereStill DEF Synced, Promised, Kept
  <2>3. QED
    BY <1>4, <2>1, <2>2 DEF target
<1>7. CASE LiveShadows(a) = {} /\ target # "superseded"
  <2> DEFINE birth == IF target = "draft" THEN "draft" ELSE "awaiting_review"
             mid == Mint(Records, a, birth, NoItem)
             n == count + 1
  <2>1. ShadowsIn(Records, a) = {} /\ birth \in ShadowBirths /\ count < MaxItems
    BY <1>1, <1>2, <1>3, <1>7 DEF InStep, ShadowBirths, MintsShadow, target
  <2>2. Minted(Records, mid, a, birth, NoItem)
    BY <1>1, <1>2, <2>1, MintMakes
  <2>3. next = MoveShadow(mid, mid.count, a, target, actor)
    BY <1>7 DEF SyncBridgedShadow, WithShadow
  <2> HIDE DEF birth, mid, next
  <2>4. /\ RowsOK(mid) /\ Elsewhere(Records, mid, a) /\ mid.count = n
        /\ n \in LiveIn(mid, a) /\ mid.items[n].state = birth
    BY <1>1, <1>2, <2>1, <2>2, FirstShadow DEF Minted
  <2>5. Follows(birth, target) /\ (target = "draft" => birth = "draft")
    BY <1>3, <1>7 DEF Follows, LiveStates, birth
  <2> HIDE DEF n
  <2>6. Synced(mid, next, a, target)
    BY <1>1, <1>3, <2>3, <2>4, <2>5, MovedShadowIsSynced
  <2>7. Synced(Records, next, a, target)
    BY <2>4, <2>6, ElsewhereOnward DEF Synced
  <2>8. Promised(Records, next)
    <3>1. /\ target # "draft" => \A j \in ItemIds \ {n} : next.items[j] = mid.items[j]
          /\ target = birth => next = mid
      BY <1>1, <1>3, <2>3, <2>4, <2>5, MovedShadowIsSynced
    <3>2. \A j \in ItemIds \ {n} : next.items[j] = Records.items[j]
      <4>1. \A j \in ItemIds \ {n} : mid.items[j] = Records.items[j]
        BY <1>2, <2>2 DEF Minted, n
      <4>2. QED
        BY <2>5, <3>1, <4>1
    <3>3. /\ Records.items[n] = Absent /\ n \in ItemIds /\ mid.items[n] \in Item
          /\ mid.items[n].state = birth /\ mid.items[n].reviewedBy = Null
      <4>1. n \in ItemIds /\ ~(n <= Records.count)
        BY <1>1, <1>2, <2>2, Ids DEF Minted, n
      <4>2. \A j \in ItemIds : Records.items[j] # Absent <=> j <= Records.count
        BY <1>1 DEF RecordsOK
      <4>2a. Records.items[n] = Absent
        BY <4>1, <4>2
      <4>3. QED
        BY <1>2, <2>2, <4>1, <4>2a DEF Minted, n
    <3>4. CASE target = birth
      <4>1. Phase(mid.items[n]) = "open" /\ Approver(mid.items[n]) = Null
        BY <2>1, <3>3, PhaseOfItem DEF ShadowBirths, OpenStates
      <4>2. Kept(Records.items[n], next.items[n])
        BY <3>1, <3>3, <3>4, <4>1, PhaseOfAbsent DEF Kept
      <4>3. QED
        BY <3>2, <4>2 DEF Promised, Kept
    <3>5. CASE target # birth
      <4>1. target = "approved" \/ target = "published"
        BY <1>3, <1>7, <3>5 DEF LiveStates, birth
      <4>2. PICK k \in LiveIn(next, a) : next.items[k].state = target
        BY <1>7, <2>6 DEF Synced
      <4>3. k \in ShadowsIn(next, a) /\ next.items[k] \in Item /\ k \in ItemIds
            /\ RowsOK(next)
        BY <2>6, Ids DEF Synced, RowsOK, LiveIn, ShadowsIn
      <4>4. next.items[k].reviewedBy \in Members
        BY <4>1, <4>2, <4>3, ApproverIsMember
      <4>5. k = n
        <5>1. ASSUME k # n PROVE FALSE
          <6>1. next.items[k] = Records.items[k] /\ Records.items[k].artifact = a
            BY <3>2, <4>3, <5>1 DEF ShadowsIn
          <6>2. k \in 1..Records.count
            BY <4>3, <6>1, <1>1, ItemIsNotAbsent, Ids DEF RecordsOK, ItemIds
          <6>3. QED
            BY <2>1, <6>1, <6>2 DEF ShadowsIn
        <5>2. QED
          BY <5>1
      <4>6. Phase(next.items[n]) = target /\ Approver(next.items[n]) \in Members
        BY <4>1, <4>2, <4>3, <4>4, <4>5, PhaseOfItem
      <4>7. Kept(Records.items[n], next.items[n])
        BY <3>3, <4>1, <4>6, PhaseOfAbsent DEF Kept
      <4>8. QED
        BY <3>2, <4>7 DEF Promised, Kept
    <3>6. QED
      BY <3>4, <3>5
  <2>9. QED
    BY <1>4, <2>7, <2>8 DEF next, target
<1>8. QED
  BY <1>5, <1>6, <1>7 DEF target

-----------------------------------------------------------------------------
(***************************************************************************)
(* The native operations beside the bridge.                                *)
(***************************************************************************)

\* What matters of a shadow is what it was.
Rests(rc, next, i) ==
  LET x == rc.items[i]
      y == next.items[i]
  IN  /\ y.state = x.state /\ y.artifact = x.artifact /\ y.prev = x.prev
      /\ y.supersededBy = x.supersededBy /\ y.reviewedBy = x.reviewedBy
      /\ next.decisions[i] = rc.decisions[i]
      /\ Published(next.outbox[i]) <=> Published(rc.outbox[i])

ShadowsRest(rc, next) ==
  \A a \in Rows :
    ShadowsIn(next, a) = ShadowsIn(rc, a) /\ \A i \in ShadowsIn(rc, a) : Rests(rc, next, i)

LEMMA RestingRows ==
  ASSUME NEW rc, NEW next, RowsOK(rc), RecordsOK(next), Unused(next), ShadowsRest(rc, next)
  PROVE  /\ RowsOK(next)
         /\ \A a \in Rows : \A s : InStep(rc, a, s) => InStep(next, a, s)
<1>1. \A a \in Rows : LiveIn(next, a) = LiveIn(rc, a)
  BY DEF ShadowsRest, Rests, LiveIn
<1>2. ASSUME NEW a \in Rows PROVE RowOK(next, a)
  <2>1. RowOK(rc, a) /\ ShadowsIn(next, a) = ShadowsIn(rc, a) /\ LiveIn(next, a) = LiveIn(rc, a)
    BY <1>1 DEF RowsOK, ShadowsRest
  <2>2. \A i \in ShadowsIn(rc, a) : ShadowStory(next.items[i], next.decisions[i], next.outbox[i])
    BY <2>1 DEF RowOK, ShadowsRest, Rests, ShadowStory, ApprovalStands
  <2>3. InOneChain(next, a)
    BY <2>1 DEF RowOK, ShadowsRest, Rests, InOneChain
  <2>4. QED
    BY <2>1, <2>2, <2>3 DEF RowOK
<1>3. ASSUME NEW a \in Rows, NEW s, InStep(rc, a, s) PROVE InStep(next, a, s)
  <2>1. LiveIn(rc, a) \subseteq ShadowsIn(rc, a)
    BY DEF LiveIn
  <2>2. QED
    BY <1>1, <1>3, <2>1 DEF InStep, ShadowsRest, Rests
<1>4. QED
  BY <1>2, <1>3 DEF RowsOK

\* An item of a bridged type, across a native step.
Rested(i) ==
  /\ items'[i].state = items[i].state /\ items'[i].supersededBy = items[i].supersededBy
  /\ items'[i].reviewedBy = items[i].reviewedBy /\ decisions'[i] = decisions[i]
  /\ Published(outbox'[i]) <=> Published(outbox[i])

LEMMA StillRests == ASSUME NEW i, Still(i) PROVE Rested(i) /\ LeftAlone(i)
BY DEF Still, Rested, LeftAlone

\* The operations a shadow may be addressed by: assignment and outcomes.
LEMMA AssignedRests ==
  ASSUME TypeOK, NEW i \in ItemIds, NEW actor \in Members, NEW reviewer \in Members,
         AssignReviewer(i, actor, reviewer), NEW j \in 1..count
  PROVE  Rested(j) /\ LeftAlone(j)
<1> DEFINE y == [items[i] EXCEPT !.assigned = reviewer]
<1>1. /\ i \in 1..count /\ items' = [items EXCEPT ![i] = y] /\ decisions' = decisions
      /\ outbox' = outbox /\ items[i] \in Item /\ 1..count \subseteq ItemIds
      /\ items[i].state \in OpenStates
      /\ items \in [ItemIds -> Item \cup {Absent}]
  BY BoundsAssumption DEF AssignReviewer, IsItem, TypeOK, ItemIds
<1>2. /\ y.state = items[i].state /\ y.supersededBy = items[i].supersededBy
      /\ y.reviewedBy = items[i].reviewedBy
      /\ y = [items[i] EXCEPT !.assigned = y.assigned]
  BY <1>1 DEF Item
<1> HIDE DEF y
<1>3. items'[i] = y /\ (j # i => items'[j] = items[j])
  BY <1>1
<1>4. ReviewerAssigned(i)
  BY <1>1, <1>2, <1>3 DEF ReviewerAssigned
<1>5. QED
  BY <1>1, <1>2, <1>3, <1>4 DEF Rested, LeftAlone

LEMMA OutcomeRests ==
  ASSUME TypeOK, NEW i \in ItemIds, NEW actor \in Members, RecordReviewOutcome(i, actor),
         NEW j \in 1..count
  PROVE  Rested(j) /\ LeftAlone(j)
<1> DEFINE y == [items[i] EXCEPT !.outcome = TRUE]
           event == [type |-> "ReviewOutcomeRecorded", state |-> "published", by |-> Null]
<1>1. /\ i \in 1..count /\ items' = [items EXCEPT ![i] = y] /\ decisions' = decisions
      /\ outbox' = Announce(outbox, i, "ReviewOutcomeRecorded", "published", Null)
      /\ outbox \in [ItemIds -> Seq(Event)] /\ items[i] \in Item /\ 1..count \subseteq ItemIds
      /\ items \in [ItemIds -> Item \cup {Absent}]
  BY BoundsAssumption DEF RecordReviewOutcome, IsItem, TypeOK, ItemIds
<1>2. /\ y.state = items[i].state /\ y.supersededBy = items[i].supersededBy
      /\ y.reviewedBy = items[i].reviewedBy
  BY <1>1 DEF Item
<1>3. event \in Event /\ event.type = "ReviewOutcomeRecorded"
  BY DEF Event, REVIEW_ITEM_STATES, Actors
<1> HIDE DEF y
<1>4. items'[i] = y /\ (j # i => items'[j] = items[j])
  BY <1>1
<1>5. outbox'[i] = Append(outbox[i], event) /\ (j # i => outbox'[j] = outbox[j])
  <2> DEFINE type == "ReviewOutcomeRecorded"
             state == "published"
  <2>1. /\ Announce(outbox, i, type, state, Null)[i] =
             Append(outbox[i], [type |-> type, state |-> state, by |-> Null])
        /\ \A k \in ItemIds \ {i} : Announce(outbox, i, type, state, Null)[k] = outbox[k]
    BY <1>1, AnnouncedEvent
  <2>2. QED
    BY <1>1, <2>1
<1> HIDE DEF event
<1>6. Published(outbox'[i]) <=> Published(outbox[i])
  <2>1. outbox[i] \in Seq(Event) /\ event \in Event /\ event.type # "ReviewItemPublished"
    BY <1>1, <1>3
  <2>2. Published(Append(outbox[i], event)) <=> Published(outbox[i])
    BY <2>1, PublishedEvents
  <2>3. QED
    BY <1>5, <2>2
<1>7. OutcomeReported(i)
  BY <1>1, <1>4, <1>5 DEF OutcomeReported, RecordReviewOutcome, y, event
<1>8. QED
  BY <1>1, <1>2, <1>4, <1>5, <1>6, <1>7 DEF Rested, LeftAlone

\* The others address native items only.
LEMMA NativeOnly ==
  ASSUME TypeOK, NEW j \in 1..count, Bridged(items[j].artifact),
         \/ \E i \in ItemIds, actor \in Members : SubmitReviewItem(i, actor)
         \/ \E i \in ItemIds, actor \in Members : PublishReviewItem(i, actor)
         \/ \E i \in ItemIds, actor \in Members : WithdrawReviewItem(i, actor)
         \/ Decides
  PROVE  Still(j)
<1>0. j \in ItemIds
  BY BoundsAssumption DEF TypeOK, ItemIds
<1>1. ASSUME NEW i \in ItemIds, Reviewable(i) PROVE j # i
  BY <1>1 DEF Reviewable
<1>2. ASSUME NEW i \in ItemIds, NEW actor \in Members, SubmitReviewItem(i, actor) PROVE Still(j)
  <2>1. Reviewable(i)
    BY <1>2 DEF SubmitReviewItem
  <2>2. QED
    BY <1>0, <1>1, <1>2, <2>1 DEF SubmitReviewItem, Still, TypeOK, Announce
<1>3. ASSUME NEW i \in ItemIds, NEW actor \in Members, PublishReviewItem(i, actor) PROVE Still(j)
  <2>1. Reviewable(i)
    BY <1>3 DEF PublishReviewItem
  <2>2. QED
    BY <1>0, <1>1, <1>3, <2>1 DEF PublishReviewItem, Still, TypeOK, Announce
<1>4. ASSUME NEW i \in ItemIds, NEW actor \in Members, WithdrawReviewItem(i, actor) PROVE Still(j)
  <2>1. Reviewable(i)
    BY <1>4 DEF WithdrawReviewItem
  <2>2. QED
    BY <1>0, <1>1, <1>4, <2>1 DEF WithdrawReviewItem, Still, TypeOK, Announce
<1>5. CASE Decides
  <2>1. PICK i \in ItemIds, actor \in Members, decision \in REVIEW_DECISIONS,
             reason \in Reasons, edits \in EditCounts, digest \in Digests :
               RecordReviewDecision(i, actor, decision, reason, edits, digest)
    BY <1>5 DEF Decides
  <2>2. Reviewable(i)
    BY <2>1 DEF RecordReviewDecision
  <2>3. QED
    BY <1>0, <1>1, <2>1, <2>2 DEF RecordReviewDecision, Still, TypeOK, Announce
<1>6. QED
  BY <1>2, <1>3, <1>4, <1>5

\* Neither a creation nor a supersession touches a shadow or makes one.
LEMMA BornNative ==
  ASSUME TypeOK, Creates \/ Supersedes
  PROVE  /\ count' = count + 1 /\ count' \in ItemIds /\ ~Bridged(items'[count'].artifact)
         /\ \A j \in 1..count : Bridged(items[j].artifact) => Still(j)
<1>0. 1..count \subseteq ItemIds /\ count \in Nat
  BY BoundsAssumption DEF TypeOK, ItemIds
<1>1. CASE Creates
  <2>1. PICK actor \in Actors, a \in Artifacts, r \in Revisions, w \in WorkflowTypes,
             ask \in Overrides, birth \in REVIEW_ITEM_STATES,
             prev \in ItemIds \cup {NoItem}, envelopeBlocked \in BOOLEAN :
               CreateReviewItem(actor, a, r, w, ask, birth, prev, envelopeBlocked)
    BY <1>1, Zenon DEF Creates
  <2>2. OneIsBorn
    BY <1>1, CreateStep
  <2>3. ~Bridged(a) /\ count' = count + 1
    BY <2>1, Zenon DEF CreateReviewItem, MayCreate
  <2>4. items'[count'].artifact = a
    <3> DEFINE x == NewItem(a, r, w, ResolveRisk(TypeOf[a], ask.risk),
                            ResolveRole(TypeOf[a], ask.role), actor, birth, prev)
    <3>1. items' = [items EXCEPT ![count + 1] = x]
      BY <2>1, Zenon DEF CreateReviewItem
    <3>2. x.artifact = a
      BY NewItemFields
    <3> HIDE DEF x
    <3>3. QED
      BY <2>2, <2>3, <3>1, <3>2 DEF OneIsBorn, TypeOK
  <2>5. QED
    BY <1>0, <2>2, <2>3, <2>4 DEF OneIsBorn
<1>2. CASE Supersedes
  <2>1. PICK i \in ItemIds, actor \in Actors, r \in Revisions,
             birth \in REVIEW_ITEM_STATES, envelopeBlocked \in BOOLEAN :
               SupersedeReviewItem(i, actor, r, birth, envelopeBlocked)
    BY <1>2 DEF Supersedes
  <2>2. PICK k \in 1..count :
          /\ items'[k].state = "superseded" /\ items'[k].supersededBy = count'
          /\ Succeeds(items[k], k, items'[count'])
          /\ \A j \in ItemIds \ {k, count'} : Still(j)
    BY <1>2, SupersedeStep DEF OneIsReplaced
  <2>3. count' = count + 1 /\ count' \in ItemIds
    BY <1>2, SupersedeStep DEF OneIsReplaced
  <2>4. /\ i \in 1..count /\ ~Bridged(items[i].artifact)
        /\ items' = [items EXCEPT ![count + 1] = Replacement(items[i], i, actor, r, birth),
                                  ![i].state = "superseded", ![i].supersededBy = count + 1]
        /\ decisions' = decisions
        /\ outbox' = Announce(Announce(outbox, count + 1, "ReviewItemCreated", birth, Null),
                              i, "ReviewItemSuperseded", "superseded", Null)
    BY <2>1 DEF SupersedeReviewItem, Reviewable, IsItem
  <2>5. \A j \in ItemIds \ {i, count + 1} : Still(j)
    BY <2>4, <2>3 DEF Still, TypeOK, Announce
  <2>6. items'[count + 1].artifact = items[i].artifact
    <3>1. Replacement(items[i], i, actor, r, birth).artifact = items[i].artifact
      BY NewItemFields DEF Replacement
    <3>2. i # count + 1
      BY <1>0, <2>4
    <3> DEFINE x == Replacement(items[i], i, actor, r, birth)
    <3>3. items'[count + 1] = x
      <4> HIDE DEF x
      <4>1. items' = [items EXCEPT ![count + 1] = x, ![i].state = "superseded",
                                   ![i].supersededBy = count + 1]
        BY <2>4 DEF x
      <4>2. QED
        BY <2>3, <3>2, <4>1 DEF TypeOK
    <3>4. QED
      BY <3>1, <3>3
  <2>7. QED
    BY <1>0, <2>3, <2>4, <2>5, <2>6
<1>3. QED
  BY <1>1, <1>2

LEMMA NativeRests ==
  ASSUME TypeOK, [Next]_vars
  PROVE  /\ \A j \in 1..count : Bridged(items[j].artifact) => Rested(j) /\ LeftAlone(j)
         /\ \/ count' = count
            \/ count' = count + 1 /\ ~Bridged(items'[count'].artifact)
<1>1. CASE Creates \/ Supersedes
  BY <1>1, BornNative, StillRests
<1>2. ASSUME NEW i \in ItemIds, NEW actor \in Members, NEW reviewer \in Members,
             AssignReviewer(i, actor, reviewer)
      PROVE  count' = count /\ \A j \in 1..count : Rested(j) /\ LeftAlone(j)
  <2>1. count' = count
    BY <1>2 DEF AssignReviewer
  <2>2. QED
    BY <1>2, <2>1, AssignedRests
<1>3. ASSUME NEW i \in ItemIds, NEW actor \in Members, RecordReviewOutcome(i, actor)
      PROVE  count' = count /\ \A j \in 1..count : Rested(j) /\ LeftAlone(j)
  <2>1. count' = count
    BY <1>3 DEF RecordReviewOutcome
  <2>2. QED
    BY <1>3, <2>1, OutcomeRests
<1>4. CASE UNCHANGED <<items, count, decisions, outbox>>
  BY <1>4 DEF Rested, LeftAlone
<1>5. CASE \/ \E i \in ItemIds, actor \in Members : SubmitReviewItem(i, actor)
           \/ \E i \in ItemIds, actor \in Members : PublishReviewItem(i, actor)
           \/ \E i \in ItemIds, actor \in Members : WithdrawReviewItem(i, actor)
           \/ Decides
  <2>1. count' = count
    BY <1>5 DEF SubmitReviewItem, PublishReviewItem, WithdrawReviewItem, Decides,
               RecordReviewDecision
  <2>2. QED
    BY <1>5, <2>1, NativeOnly, StillRests
<1>6. CASE \E a \in Artifacts, r \in Revisions : EditArtifact(a, r)
  BY <1>4, <1>6 DEF EditArtifact
<1>7. QED
  BY <1>1, <1>2, <1>3, <1>4, <1>5, <1>6 DEF Next, vars

-----------------------------------------------------------------------------
(***************************************************************************)
(* The invariant, and what follows from it.                                *)
(***************************************************************************)

LEMMA RecordsNext ==
  /\ Records.items = items /\ Records.count = count
  /\ Records.decisions = decisions /\ Records.outbox = outbox
  /\ Records'.items = items' /\ Records'.count = count'
  /\ Records'.decisions = decisions' /\ Records'.outbox = outbox'
BY DEF Records

LEMMA BridgedInitInv == BridgedInit => BridgedInv
<1> SUFFICES ASSUME BridgedInit PROVE BridgedInv
  OBVIOUS
<1>1. TypeOK
  BY InitType DEF BridgedInit
<1>2. RecordsOK(Records) /\ artifact \in [Artifacts -> Revisions]
  BY <1>1, TypedRecords
<1>3. count = 0 /\ \A i \in ItemIds : outbox[i] = << >>
  BY DEF BridgedInit, Init
<1>4. \A a \in Rows : ShadowsIn(Records, a) = {} /\ LiveIn(Records, a) = {}
  BY <1>3, RecordsNext DEF ShadowsIn, LiveIn
<1>5. Unused(Records)
  BY <1>3, RecordsNext DEF Unused, Published
<1>6. RowsOK(Records)
  BY <1>2, <1>4, <1>5 DEF RowsOK, RowOK, InOneChain
<1>7. \A a \in Rows : InStep(Records, a, status[a])
  BY <1>4 DEF InStep
<1>8. DOMAIN status = Rows /\ \A a \in Rows : status[a] \in StatusesOf(a)
  BY DEF BridgedInit
<1>9. QED
  BY <1>2, <1>6, <1>7, <1>8 DEF BridgedInv

LEMMA BridgedTypes == BridgedInv => TypeOK /\ BridgedTypeOK
BY TypedRecords DEF BridgedInv, RowsOK, BridgedTypeOK

\* A native step.
LEMMA NativeInv ==
  ASSUME BridgedInv, [Next]_vars, UNCHANGED status
  PROVE  BridgedInv' /\ ShadowsRest(Records, Records')
<1>0. TypeOK /\ TypeOK' /\ RowsOK(Records) /\ Unused(Records)
  BY BridgedTypes, NextType DEF BridgedInv, RowsOK
<1>1. /\ \A j \in 1..count : Bridged(items[j].artifact) => Rested(j)
      /\ \/ count' = count
         \/ count' = count + 1 /\ ~Bridged(items'[count'].artifact)
  BY <1>0, NativeRests
<1>2. \A j \in 1..count : Pinned(items[j], items'[j])
  BY <1>0, NextItems DEF ItemsStep, HeadStep
<1>3. count \in Nat /\ ItemIds \subseteq Nat
  BY <1>0, BoundsAssumption DEF TypeOK, ItemIds
<1>4. \A a \in Rows : Bridged(a)
  BY DEF Rows
<1>5. ShadowsRest(Records, Records')
  <2>1. ASSUME NEW a \in Rows PROVE ShadowsIn(Records', a) = ShadowsIn(Records, a)
    <3>1. \A j \in 1..count : items'[j].artifact = items[j].artifact
      BY <1>2 DEF Pinned
    <3>2. CASE count' = count
      BY <3>1, <3>2, RecordsNext DEF ShadowsIn
    <3>3. CASE count' = count + 1 /\ ~Bridged(items'[count'].artifact)
      <4>1. 1..count' = (1..count) \cup {count'}
        BY <1>3, <3>3
      <4>2. items'[count'].artifact # a
        BY <1>4, <3>3
      <4>3. QED
        BY <3>1, <4>1, <4>2, RecordsNext DEF ShadowsIn
    <3>4. QED
      BY <1>1, <3>2, <3>3
  <2>2. ASSUME NEW a \in Rows, NEW i \in ShadowsIn(Records, a)
        PROVE  Rests(Records, Records', i)
    <3>1. i \in 1..count /\ items[i].artifact = a
      BY RecordsNext DEF ShadowsIn
    <3>2. Rested(i) /\ Pinned(items[i], items'[i])
      BY <1>1, <1>2, <1>4, <3>1
    <3>3. QED
      BY <3>2, RecordsNext DEF Rested, Pinned, Rests
  <2>3. QED
    BY <2>1, <2>2 DEF ShadowsRest
<1>6. RecordsOK(Records')
  <2>1. (TypeOK <=> RecordsOK(Records) /\ artifact \in [Artifacts -> Revisions])'
    BY TypedRecords, PTL
  <2>2. QED
    BY <1>0, <2>1
<1>7. Unused(Records')
  <2>1. \A i \in ItemIds : i > count' => Still(i)
    BY <1>0, ReviewSteps
  <2>2. \A i \in ItemIds : i > count' => i > count
    BY <1>1, <1>3
  <2>3. \A i \in ItemIds : i > count => ~Published(outbox[i])
    BY <1>0, RecordsNext DEF Unused
  <2>4. QED
    BY <2>1, <2>2, <2>3, RecordsNext DEF Unused, Still
<1>8. /\ RowsOK(Records')
      /\ \A a \in Rows : \A s : InStep(Records, a, s) => InStep(Records', a, s)
  <2>1. PICK rc : rc = Records
    OBVIOUS
  <2>2. PICK next : next = Records'
    OBVIOUS
  <2>3. /\ RowsOK(next)
        /\ \A a \in Rows : \A s : InStep(rc, a, s) => InStep(next, a, s)
    BY <1>0, <1>5, <1>6, <1>7, <2>1, <2>2, RestingRows
  <2>4. QED
    BY <2>1, <2>2, <2>3
<1>9. artifact' \in [Artifacts -> Revisions]
  BY <1>0 DEF TypeOK
<1>10. BridgedInv'
  BY <1>8, <1>9 DEF BridgedInv
<1>11. QED
  BY <1>5, <1>10

\* A domain move: the row, its shadows, and what stays as it was.
LEMMA RowInv ==
  ASSUME BridgedInv, NEW a \in Rows, NEW actor \in Members, NEW to, RowMoves(a, to),
         TransitionRow(a, to, actor)
  PROVE  /\ BridgedInv' /\ Elsewhere(Records, Records', a) /\ Promised(Records, Records')
         /\ status' = [status EXCEPT ![a] = to] /\ to # status[a]
<1>1. PICK rc : rc = SyncBridgedShadow(a, MappedState(a, to), actor)
  OBVIOUS
<1>2. /\ RowsOK(rc) /\ Elsewhere(Records, rc, a) /\ InStep(rc, a, to) /\ Promised(Records, rc)
  BY <1>1, SyncedAfterMove DEF TransitionRow
<1>3. /\ items' = rc.items /\ count' = rc.count /\ decisions' = rc.decisions
      /\ outbox' = rc.outbox /\ artifact' = artifact /\ status' = [status EXCEPT ![a] = to]
  BY <1>1 DEF TransitionRow
<1>4. Records' = rc
  <2>1. rc \in ReviewRecords
    BY <1>2 DEF RowsOK, RecordsOK
  <2>2. rc = [items |-> rc.items, count |-> rc.count, decisions |-> rc.decisions,
              outbox |-> rc.outbox]
    BY <2>1, RecordsAre
  <2>3. QED
    BY <1>3, <2>2 DEF Records
<1>5. to # status[a] /\ to \in StatusesOf(a)
  BY MovesOfRows DEF BridgedInv, RowMoves, StatusesOf
<1>6. /\ DOMAIN status = Rows /\ \A b \in Rows : status[b] \in StatusesOf(b)
      /\ \A b \in Rows : InStep(Records, b, status[b])
      /\ artifact \in [Artifacts -> Revisions]
  BY DEF BridgedInv
<1>7. /\ DOMAIN status' = Rows /\ \A b \in Rows : status'[b] = IF b = a THEN to ELSE status[b]
  BY <1>3, <1>6
<1>8. \A b \in Rows : InStep(rc, b, status'[b])
  <2>1. ASSUME NEW b \in Rows, b # a PROVE InStep(rc, b, status[b])
    <3>1. /\ InStep(Records, b, status[b]) /\ ShadowsIn(rc, b) = ShadowsIn(Records, b)
          /\ LiveIn(rc, b) = LiveIn(Records, b)
          /\ \A i \in ShadowsIn(Records, b) : rc.items[i] = Records.items[i]
      BY <1>2, <1>6, <2>1 DEF Elsewhere
    <3>2. LiveIn(Records, b) \subseteq ShadowsIn(Records, b)
      BY DEF LiveIn
    <3>3. QED
      BY <3>1, <3>2 DEF InStep
  <2>2. QED
    BY <1>2, <1>7, <2>1
<1>9. BridgedInv'
  <2>1. RowsOK(Records') /\ \A b \in Rows : InStep(Records', b, status'[b])
    BY <1>2, <1>4, <1>8
  <2>2. \A b \in Rows : status'[b] \in StatusesOf(b)
    BY <1>5, <1>6, <1>7
  <2>3. QED
    BY <1>3, <1>6, <1>7, <2>1, <2>2 DEF BridgedInv
<1>10. QED
  BY <1>2, <1>3, <1>4, <1>5, <1>9

\* A report is generated: a row that has no shadow enters draft.
LEMMA GenerateInv ==
  ASSUME BridgedInv, NEW a \in Rows, GenerateQuarterlyReport(a)
  PROVE  BridgedInv' /\ Records' = Records
<1>1. /\ status[a] = "missing" /\ status' = [status EXCEPT ![a] = "draft"]
      /\ items' = items /\ count' = count /\ decisions' = decisions /\ outbox' = outbox
      /\ artifact' = artifact
  BY DEF GenerateQuarterlyReport, vars
<1>2. Records' = Records
  BY <1>1 DEF Records
<1>3. /\ RowsOK(Records) /\ artifact \in [Artifacts -> Revisions] /\ DOMAIN status = Rows
      /\ \A b \in Rows : status[b] \in StatusesOf(b) /\ InStep(Records, b, status[b])
  BY DEF BridgedInv
<1>4. \A b \in Rows : status'[b] = IF b = a THEN "draft" ELSE status[b]
  BY <1>1, <1>3
<1>5. "draft" \in StatusesOf(a)
  BY DEF StatusesOf, ROADMAP_ALLOWED, REPORT_ALLOWED
<1>6. InStep(Records, a, "draft")
  <2>1. ShadowsIn(Records, a) = {}
    BY <1>1, <1>3 DEF InStep
  <2>2. QED
    BY <2>1 DEF InStep, LiveIn
<1>7. \A b \in Rows : status'[b] \in StatusesOf(b) /\ InStep(Records, b, status'[b])
  BY <1>3, <1>4, <1>5, <1>6
<1>8. DOMAIN status' = Rows
  BY <1>1, <1>3
<1>9. QED
  BY <1>1, <1>2, <1>3, <1>7, <1>8 DEF BridgedInv

\* Every step is native, a generation, or the move of one row.
LEMMA BridgedSteps ==
  ASSUME [BridgedNext]_bridgedVars
  PROVE  \/ [Next]_vars /\ UNCHANGED status
         \/ \E a \in Rows : GenerateQuarterlyReport(a)
         \/ \E a \in Rows, actor \in Members,
                   to \in DOMAIN ROADMAP_ALLOWED \cup DOMAIN REPORT_ALLOWED :
              RowMoves(a, to) /\ TransitionRow(a, to, actor)
<1>1. CASE UNCHANGED bridgedVars
  BY <1>1 DEF bridgedVars, vars
<1>2. CASE Next /\ UNCHANGED status
  BY <1>2
<1>3. CASE \E a \in Rows, actor \in Members, to \in DOMAIN ROADMAP_ALLOWED :
             TransitionRoadmap(a, to, actor)
  BY <1>3 DEF TransitionRoadmap, RowMoves
<1>4. CASE \E a \in Rows, actor \in Members, to \in DOMAIN REPORT_ALLOWED :
             TransitionReport(a, to, actor)
  BY <1>4 DEF TransitionReport, RowMoves
<1>5. QED
  BY <1>1, <1>2, <1>3, <1>4 DEF BridgedNext

LEMMA BridgedStep == BridgedInv /\ [BridgedNext]_bridgedVars => BridgedInv'
<1> SUFFICES ASSUME BridgedInv, [BridgedNext]_bridgedVars PROVE BridgedInv'
  OBVIOUS
<1>1. CASE [Next]_vars /\ UNCHANGED status
  BY <1>1, NativeInv
<1>2. CASE \E a \in Rows : GenerateQuarterlyReport(a)
  BY <1>2, GenerateInv
<1>3. CASE \E a \in Rows, actor \in Members,
                   to \in DOMAIN ROADMAP_ALLOWED \cup DOMAIN REPORT_ALLOWED :
             RowMoves(a, to) /\ TransitionRow(a, to, actor)
  BY <1>3, RowInv
<1>4. QED
  BY <1>1, <1>2, <1>3, BridgedSteps

LEMMA BridgedAlways == BridgedSpec => []BridgedInv
BY BridgedInitInv, BridgedStep, PTL DEF BridgedSpec

-----------------------------------------------------------------------------
(***************************************************************************)
(* The theorems.                                                           *)
(***************************************************************************)

\* The items, decisions and events keep their types beside the bridge, and a
\* row only ever has a status of its own workflow: transitionRoadmap and
\* transitionReport never write the other's.
THEOREM BridgedTypeCorrect == BridgedSpec => []BridgedTypeOK
BY BridgedAlways, BridgedTypes, PTL

LEMMA LockstepOfInv == BridgedInv => ShadowLockstep
<1> SUFFICES ASSUME BridgedInv, NEW a \in Rows
             PROVE  /\ Cardinality(LiveShadows(a)) <= 1
                    /\ \A i \in LiveShadows(a) : items[i].state = MappedState(a, status[a])
                    /\ Shadows(a) # {} /\ status[a] # "archived" => LiveShadows(a) # {}
  BY DEF ShadowLockstep
<1>1. /\ LiveShadows(a) = LiveIn(Records, a) /\ Shadows(a) = ShadowsIn(Records, a)
      /\ RowsOK(Records) /\ InStep(Records, a, status[a])
  BY TypedRecords DEF BridgedInv
<1>2. Cardinality(LiveShadows(a)) <= 1
  <2>1. CASE LiveShadows(a) = {}
    BY <2>1, FS_EmptySet
  <2>2. ASSUME NEW i \in LiveShadows(a) PROVE Cardinality(LiveShadows(a)) <= 1
    <3>1. PICK rc : rc = Records
      OBVIOUS
    <3>2. LiveIn(rc, a) = {i}
      BY <1>1, <2>2, <3>1, LiveIsLast
    <3>3. Cardinality({i}) = 1
      BY FS_Singleton
    <3>4. QED
      BY <1>1, <3>1, <3>2, <3>3
  <2>3. QED
    BY <2>1, <2>2
<1>3. QED
  BY <1>1, <1>2, RecordsNext DEF InStep

\* Whatever members and native operations do, in whichever order, a row has at
\* most one live shadow, in the state its status maps to, and a row once in
\* review keeps one until it is archived: no call of syncBridgedShadow meets a
\* shadow it cannot move.
THEOREM RowsAndShadowsInLockstep == BridgedSpec => []ShadowLockstep
BY BridgedAlways, LockstepOfInv, PTL

LEMMA ApprovedOfInv == BridgedInv => PublishedShadowWasApproved
<1> SUFFICES ASSUME BridgedInv, NEW a \in Rows, NEW i \in Shadows(a), WasPublished(i)
             PROVE  /\ decisions[i] # << >>
                    /\ decisions[i][Len(decisions[i])].decision \in Approvals
                    /\ items[i].reviewedBy = decisions[i][Len(decisions[i])].by
                    /\ items[i].supersededBy = NoItem
  BY DEF PublishedShadowWasApproved
<1>1. i \in ShadowsIn(Records, a) /\ RowOK(Records, a)
  BY TypedRecords DEF BridgedInv, RowsOK
<1>2. ShadowStory(items[i], decisions[i], outbox[i])
  BY <1>1, RecordsNext DEF RowOK
<1>3. Published(outbox[i])
  BY DEF WasPublished, EventsOf, Published
<1>4. QED
  BY <1>2, <1>3 DEF ShadowStory, ApprovalStands

\* A shadow announced as published carries the approval of the member who moved
\* its row, on every path of the bridge, the two-leg walk of a report included.
THEOREM PublishedShadowsApproved == BridgedSpec => []PublishedShadowWasApproved
BY BridgedAlways, ApprovedOfInv, PTL

LEMMA ChainOfInv == BridgedInv => RevisionsFormAChain
<1> SUFFICES ASSUME BridgedInv PROVE RevisionsFormAChain
  OBVIOUS
<1>1. \A a \in Rows : InOneChain(Records, a) /\ Shadows(a) = ShadowsIn(Records, a)
  BY TypedRecords DEF BridgedInv, RowsOK, RowOK
<1>2. QED
  BY <1>1, RecordsNext DEF InOneChain, RevisionsFormAChain

\* The shadows of a row are the links of one chain, in the order the bridge
\* minted them, each naming its neighbours.
THEOREM RevisionsChained == BridgedSpec => []RevisionsFormAChain
BY BridgedAlways, ChainOfInv, PTL

LEMMA MovesWithRow ==
  ASSUME BridgedInv, [BridgedNext]_bridgedVars, NEW a \in Rows, NEW i \in Shadows(a),
         status'[a] = status[a]
  PROVE  LeftAlone(i)
<1>1. i \in ShadowsIn(Records, a) /\ i \in 1..count /\ Bridged(items[i].artifact)
  BY TypedRecords DEF Shadows, Rows
<1>2. CASE [Next]_vars /\ UNCHANGED status
  BY <1>1, <1>2, BridgedTypes, NativeRests
<1>3. CASE \E b \in Rows : GenerateQuarterlyReport(b)
  BY <1>3 DEF GenerateQuarterlyReport, vars, LeftAlone
<1>4. ASSUME NEW b \in Rows, NEW actor \in Members, NEW to, RowMoves(b, to),
             TransitionRow(b, to, actor)
      PROVE  LeftAlone(i)
  <2>1. /\ Elsewhere(Records, Records', b) /\ status' = [status EXCEPT ![b] = to]
        /\ to # status[b]
    BY <1>4, RowInv
  <2>2. a # b
    BY <2>1 DEF BridgedInv
  <2>3. items'[i] = items[i] /\ decisions'[i] = decisions[i] /\ outbox'[i] = outbox[i]
    BY <1>1, <2>1, <2>2, RecordsNext DEF Elsewhere
  <2>4. QED
    BY <2>3 DEF LeftAlone
<1>5. QED
  BY <1>2, <1>3, <1>4, BridgedSteps

\* No native operation of the Review Center, and no move of another row, changes
\* a shadow, its decisions or its events, except that a reviewer is assigned
\* while it is open and an outcome is reported once it is published.
THEOREM ShadowsFollowTheirRow == BridgedSpec => ShadowsMoveWithTheirRow
<1> DEFINE Moves == \A a \in Rows : \A i \in Shadows(a) :
                      status'[a] = status[a] => LeftAlone(i)
<1>1. BridgedInv /\ [BridgedNext]_bridgedVars => Moves
  BY MovesWithRow
<1>2. BridgedInv /\ [BridgedNext]_bridgedVars => [Moves]_bridgedVars
  BY <1>1
<1>3. QED
  BY <1>2, BridgedAlways, PTL DEF BridgedSpec, ShadowsMoveWithTheirRow

LEMMA PromiseOfMove ==
  TypeOK /\ TypeOK' /\ Promised(Records, Records') => Promise!Next
<1> SUFFICES ASSUME TypeOK, TypeOK', Promised(Records, Records') PROVE Promise!Next
  OBVIOUS
<1>1. \A i \in ItemIds : Kept(items[i], items'[i])
  BY RecordsNext DEF Promised
<1>2. \A i \in ItemIds :
        Phase(items'[i]) \in Promise!Phases /\ Approver(items'[i]) \in Members \cup {Null}
  <2> SUFFICES ASSUME NEW i \in ItemIds
               PROVE  /\ Phase(items'[i]) \in Promise!Phases
                      /\ Approver(items'[i]) \in Members \cup {Null}
    OBVIOUS
  <2>1. items'[i] \in Item \/ items'[i] = Absent
    BY DEF TypeOK
  <2>2. QED
    BY <2>1, PhaseOfItem, PhaseOfAbsent DEF Promise!Phases, Actors
<1>3. QED
  BY <1>1, <1>2 DEF Kept, Phase, Approver, Promise!Next, Promise!Approval, Promise!Opening,
                    Promise!Publication, Promise!Closing, Promise!Rest

\* The bridge keeps the promise of ReviewPromise beside the native lifecycle:
\* walking a shadow over several edges in one call publishes nothing without the
\* name of a human, and replacing or archiving a row closes its shadow for good.
THEOREM BridgeKeepsPromise == BridgedSpec => ImplementsPromise
<1>1. BridgedInit => Promise!Init
  BY PromiseInit DEF BridgedInit
<1>2. ASSUME BridgedInv, BridgedInv', [BridgedNext]_bridgedVars PROVE Promise!Next
  <2>1. TypeOK
    BY <1>2, BridgedTypes
  <2>2. TypeOK'
    <3>1. (BridgedInv => TypeOK /\ BridgedTypeOK)'
      BY BridgedTypes, PTL
    <3>2. QED
      BY <1>2, <3>1
  <2>3. CASE [Next]_vars /\ UNCHANGED status
    BY <2>1, <2>3, PromiseNext
  <2>4. CASE \E a \in Rows : GenerateQuarterlyReport(a)
    <3>1. [Next]_vars
      BY <2>4 DEF GenerateQuarterlyReport
    <3>2. QED
      BY <2>1, <3>1, PromiseNext
  <2>5. ASSUME NEW a \in Rows, NEW actor \in Members, NEW to, RowMoves(a, to),
               TransitionRow(a, to, actor)
        PROVE  Promise!Next
    <3>1. Promised(Records, Records')
      BY <1>2, <2>5, RowInv
    <3>2. QED
      BY <2>1, <2>2, <3>1, PromiseOfMove
  <2>6. QED
    BY <1>2, <2>3, <2>4, <2>5, BridgedSteps
<1>3. BridgedInv /\ BridgedInv' /\ [BridgedNext]_bridgedVars => Promise!Next
  BY <1>2
<1>4. QED
  BY <1>1, <1>3, BridgedAlways, PTL DEF BridgedSpec, ImplementsPromise, Promise!Spec

===============================================================================
