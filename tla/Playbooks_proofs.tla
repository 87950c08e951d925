--------------------------- MODULE Playbooks_proofs --------------------------
(***************************************************************************)
(* Proofs about Playbooks and PlaybookRepository, for any number of        *)
(* playbooks, versions, members, contents, saves and concurrent requests.  *)
(* Every operation rewrites rows by one of Drafted, Revised, Moved and     *)
(* Superseded, so an invariant of rows is proved once for each of them.    *)
(***************************************************************************)
EXTENDS PlaybookRepository, SequenceTheorems, TLAPS

-----------------------------------------------------------------------------
(***************************************************************************)
(* The kernel and the policy.                                              *)
(***************************************************************************)

\* The moves of a version other than superseding it: published only after
\* approval, approved only in review, and nothing leads back to draft.
LEMMA MovesOfAVersion ==
  ASSUME NEW v \in Version, NEW to, NEW m \in Members, NEW override,
         MayTransition(v, to, m, override)
  PROVE  /\ to \in REVIEW_ITEM_STATES \ {"draft", "superseded"}
         /\ v.status \in {"draft", "awaiting_review", "approved"}
         /\ to = "awaiting_review" => v.status = "draft"
         /\ to \in {"approved", "rejected", "deferred"} => v.status = "awaiting_review"
         /\ (to = "published") <=> (v.status = "approved")
         /\ to = "withdrawn" => v.status \in {"draft", "awaiting_review"}
         /\ to \in {"approved", "published"} => v.content \notin Unresolved
<1>1. v.status \in REVIEW_ITEM_STATES
  BY DEF Version
<1>2. to \in PLAYBOOK_ALLOWED[v.status] /\ to # "superseded"
  BY DEF MayTransition, PlaybookVersionTransition
<1>3. QED
  BY <1>1, <1>2 DEF MayTransition, PLAYBOOK_ALLOWED, REVIEW_ITEM_STATES

\* Who may approve and publish.
LEMMA WhoMayMove ==
  ASSUME NEW v \in Version, NEW to, NEW m \in Members, NEW override,
         MayTransition(v, to, m, override)
  PROVE  /\ to = "published" => RoleOf[m] = "organization_owner"
         /\ to = "approved" => AdminPlus(RoleOf[m])
         /\ Separated(v, to, m) => RoleOf[m] = "organization_owner" /\ PermitsOverride
<1>1. CASE to \in DOMAIN KernelAction
  <2>1. CanActOnPlaybookVersion(KernelAction[to], RoleOf[m], v.author = m,
          v.content \in HighImpact, override, PermitsOverride)
    BY <1>1 DEF MayTransition, MayMove
  <2>2. /\ RoleOf[m] \in REVIEWER_ROLES
        /\ ROLE_RANK[RoleOf[m]] >= ROLE_RANK[PLAYBOOK_ACTION_FLOOR[KernelAction[to]]]
    BY <2>1 DEF CanActOnPlaybookVersion
  <2>3. to = "published" => RoleOf[m] = "organization_owner"
    BY <2>2 DEF KernelAction, PLAYBOOK_ACTION_FLOOR, ROLE_RANK, REVIEWER_ROLES
  <2>4. to = "approved" => AdminPlus(RoleOf[m])
    BY <2>2 DEF KernelAction, PLAYBOOK_ACTION_FLOOR, ROLE_RANK, REVIEWER_ROLES, AdminPlus
  <2>5. Separated(v, to, m) => RoleOf[m] = "organization_owner" /\ PermitsOverride
    BY <2>1 DEF CanActOnPlaybookVersion, Separated
  <2>6. QED
    BY <2>3, <2>4, <2>5
<1>2. CASE to \notin DOMAIN KernelAction
  <2>1. to # "approved" /\ to # "published"
    BY <1>2 DEF KernelAction
  <2>2. ~Separated(v, to, m)
    BY <1>2 DEF Separated
  <2>3. QED
    BY <2>1, <2>2
<1>3. QED
  BY <1>1, <1>2

-----------------------------------------------------------------------------
(***************************************************************************)
(* Rows.                                                                   *)
(***************************************************************************)

\* The last entry of the history tells the status.
Tells(v) == v.status = StatusAfter(v.reviewHistory[Len(v.reviewHistory)].action)

\* Before its approval nobody has approved a version, and before its
\* publication nobody has published it.
Early(v) ==
  \A i \in 1..Len(v.reviewHistory) :
    /\ v.status \in {"draft", "awaiting_review"} => v.reviewHistory[i].action # "approved"
    /\ v.status \in {"draft", "awaiting_review", "approved"} =>
         v.reviewHistory[i].action # "published"

\* One entry of the history keeps the separation of duties.
Dutiful(v, e) ==
  /\ e.action = "published" => RoleOf[e.by] = "organization_owner"
  /\ e.action = "approved"  => AdminPlus(RoleOf[e.by]) /\ v.approver = e.by
  /\ /\ e.by = v.author
     /\ e.action = "published" \/ (e.action = "approved" /\ v.content \in HighImpact)
     => e.ownerOverride /\ PermitsOverride /\ RoleOf[e.by] = "organization_owner"

Duties(v) == \A i \in 1..Len(v.reviewHistory) : Dutiful(v, v.reviewHistory[i])

Answered(v) ==
  v.status \in {"approved", "published", "superseded"} => v.content \notin Unresolved

Good(v) ==
  /\ v \in Version
  /\ v.reviewHistory # <<>>
  /\ Tells(v)
  /\ Early(v)
  /\ Duties(v)
  /\ Answered(v)

\* A history entry is one.
LEMMA EntryType ==
  ASSUME NEW action \in HistoryActions,
         NEW m \in Members, NEW o \in BOOLEAN
  PROVE  /\ Entry(action, m, o) \in HistoryEntry
         /\ Entry(action, m, o).action = action
         /\ Entry(action, m, o).by = m
         /\ Entry(action, m, o).ownerOverride = o
BY DEF Entry, HistoryEntry

\* An appended history: its new last entry, and the entries it had.
LEMMA AppendedHistory ==
  ASSUME NEW h \in Seq(HistoryEntry), NEW e \in HistoryEntry
  PROVE  /\ Append(h, e) \in Seq(HistoryEntry)
         /\ Append(h, e) # <<>>
         /\ Len(Append(h, e)) = Len(h) + 1
         /\ Append(h, e)[Len(Append(h, e))] = e
         /\ \A i \in 1..Len(Append(h, e)) :
              Append(h, e)[i] = e \/ (i \in 1..Len(h) /\ Append(h, e)[i] = h[i])
BY AppendProperties

\* A new draft.
LEMMA DraftedIsGood ==
  ASSUME NEW m \in Members, NEW c \in Contents
  PROVE  Good(Drafted(m, c)) /\ Drafted(m, c).status = "draft"
<1> DEFINE e == Entry("saved", m, FALSE)
           v == Drafted(m, c)
<1>1. e \in HistoryEntry /\ e.action = "saved"
  <2>1. "saved" \in HistoryActions
    BY DEF HistoryActions
  <2>2. QED
    BY <2>1, EntryType
<1> HIDE DEF e
<1>2. /\ v.status = "draft" /\ v.author = m /\ v.approver = NoMember
      /\ v.content = c /\ v.reviewHistory = <<e>>
  BY DEF Drafted, e
<1>3. v \in Version
  <2>1. <<e>> \in Seq(HistoryEntry)
    BY <1>1
  <2>2. QED
    BY <2>1 DEF Drafted, e, Version, REVIEW_ITEM_STATES
<1>4. /\ Len(v.reviewHistory) = 1 /\ v.reviewHistory # <<>>
      /\ \A i \in 1..Len(v.reviewHistory) : v.reviewHistory[i] = e
      /\ v.reviewHistory[Len(v.reviewHistory)] = e
  BY <1>1, <1>2
<1> HIDE DEF v
<1>5. Tells(v) /\ Early(v) /\ Answered(v)
  BY <1>1, <1>2, <1>4 DEF Tells, Early, Answered, StatusAfter
<1>6. Duties(v)
  BY <1>1, <1>4 DEF Duties, Dutiful
<1>7. QED
  BY <1>2, <1>3, <1>4, <1>5, <1>6 DEF Good, v

\* A draft that is revised: its history has saves only, so nobody approved the
\* content that is replaced.
LEMMA RevisedIsGood ==
  ASSUME NEW v, Good(v), Revisable(v), NEW m \in Members, NEW c \in Contents
  PROVE  Good(Revised(v, m, c)) /\ Revised(v, m, c).status = "draft"
<1> DEFINE e == Entry("saved", m, FALSE)
           w == Revised(v, m, c)
<1>1. e \in HistoryEntry /\ e.action = "saved"
  <2>1. "saved" \in HistoryActions
    BY DEF HistoryActions
  <2>2. QED
    BY <2>1, EntryType
<1>2. /\ v \in Version /\ v.status = "draft" /\ Early(v)
      /\ v.reviewHistory \in Seq(HistoryEntry)
  BY DEF Good, Revisable, Version
<1> HIDE DEF e
<1>3. /\ w.status = "draft" /\ w.content = c
      /\ w.reviewHistory = Append(v.reviewHistory, e)
  BY <1>2 DEF Revised, e
<1>4. w \in Version
  <2>1. Append(v.reviewHistory, e) \in Seq(HistoryEntry)
    BY <1>1, <1>2, AppendedHistory
  <2>2. QED
    BY <1>2, <2>1 DEF Revised, Version, e
<1> HIDE DEF w
<1>5. /\ w.reviewHistory # <<>>
      /\ w.reviewHistory[Len(w.reviewHistory)] = e
      /\ \A i \in 1..Len(w.reviewHistory) :
           w.reviewHistory[i].action # "approved" /\ w.reviewHistory[i].action # "published"
  BY <1>1, <1>2, <1>3, AppendedHistory DEF Early
<1>6. Tells(w) /\ Early(w) /\ Answered(w) /\ Duties(w)
  BY <1>1, <1>3, <1>5 DEF Tells, Early, Answered, StatusAfter, Duties, Dutiful
<1>7. QED
  BY <1>3, <1>4, <1>5, <1>6 DEF Good, w

\* A version that is moved by someone who may.
LEMMA MovedIsGood ==
  ASSUME NEW v, Good(v), NEW m \in Members, NEW to, NEW override,
         MayTransition(v, to, m, override)
  PROVE  Good(Moved(v, to, m)) /\ Moved(v, to, m).status = to
<1> DEFINE e == Entry(HistoryAction(to), m, Separated(v, to, m))
           w == Moved(v, to, m)
<1>1. v \in Version /\ Early(v) /\ Duties(v) /\ v.reviewHistory \in Seq(HistoryEntry)
  BY DEF Good, Version
<1>2. /\ to \in REVIEW_ITEM_STATES \ {"draft", "superseded"}
      /\ v.status \in {"draft", "awaiting_review", "approved"}
      /\ to \in {"approved", "rejected", "deferred"} => v.status = "awaiting_review"
      /\ (to = "published") <=> (v.status = "approved")
      /\ to = "awaiting_review" => v.status = "draft"
      /\ to \in {"approved", "published"} => v.content \notin Unresolved
  BY <1>1, MovesOfAVersion
<1>3. /\ HistoryAction(to) \in HistoryActions
      /\ HistoryAction(to) = "approved" => to = "approved"
      /\ HistoryAction(to) = "published" => to = "published"
      /\ StatusAfter(HistoryAction(to)) = to
  BY <1>2 DEF HistoryAction, HistoryActions, StatusAfter, REVIEW_ITEM_STATES
<1>4. Separated(v, to, m) \in BOOLEAN
  BY DEF Separated, SeparationViolated
<1>5. /\ e \in HistoryEntry /\ e.action = HistoryAction(to)
      /\ e.by = m /\ e.ownerOverride = Separated(v, to, m)
  BY <1>3, <1>4, EntryType
<1> HIDE DEF e
<1>6. /\ w.status = to /\ w.content = v.content /\ w.author = v.author
      /\ w.approver = IF to = "approved" THEN m ELSE v.approver
      /\ w.reviewHistory = Append(v.reviewHistory, e)
  BY DEF Moved, e
<1>7. w \in Version
  <2>1. Append(v.reviewHistory, e) \in Seq(HistoryEntry)
    BY <1>1, <1>5, AppendedHistory
  <2>2. QED
    BY <1>1, <1>2, <2>1 DEF Moved, Version, e
<1> HIDE DEF w
<1>8. /\ w.reviewHistory # <<>>
      /\ w.reviewHistory[Len(w.reviewHistory)] = e
      /\ \A i \in 1..Len(w.reviewHistory) :
           w.reviewHistory[i] = e \/
             (i \in 1..Len(v.reviewHistory) /\ w.reviewHistory[i] = v.reviewHistory[i])
  BY <1>1, <1>5, <1>6, AppendedHistory
<1>9. Tells(w) /\ Answered(w)
  BY <1>2, <1>3, <1>5, <1>6, <1>8 DEF Tells, Answered
<1>10. Early(w)
  BY <1>1, <1>2, <1>3, <1>5, <1>6, <1>8 DEF Early
<1>11. Dutiful(w, e)
  <2>1. /\ to = "published" => RoleOf[m] = "organization_owner"
        /\ to = "approved" => AdminPlus(RoleOf[m])
        /\ Separated(v, to, m) => RoleOf[m] = "organization_owner" /\ PermitsOverride
    BY <1>1, WhoMayMove
  <2>2. /\ m = v.author
        /\ to = "published" \/ (to = "approved" /\ v.content \in HighImpact)
        => Separated(v, to, m)
    BY DEF Separated, SeparationViolated, KernelAction
  <2>3. QED
    BY <1>3, <1>5, <1>6, <2>1, <2>2 DEF Dutiful
<1>12. Duties(w)
  <2> SUFFICES ASSUME NEW i \in 1..Len(w.reviewHistory)
               PROVE  Dutiful(w, w.reviewHistory[i])
    BY DEF Duties
  <2>1. CASE w.reviewHistory[i] = e
    BY <2>1, <1>11
  <2>2. CASE i \in 1..Len(v.reviewHistory) /\ w.reviewHistory[i] = v.reviewHistory[i]
    <3>1. Dutiful(v, v.reviewHistory[i])
      BY <1>1, <2>2 DEF Duties
    <3>2. to = "approved" => v.reviewHistory[i].action # "approved"
      BY <1>1, <1>2, <2>2 DEF Early
    <3>3. QED
      BY <1>6, <2>2, <3>1, <3>2 DEF Dutiful
  <2>3. QED
    BY <1>8, <2>1, <2>2
<1>13. QED
  BY <1>6, <1>7, <1>8, <1>9, <1>10, <1>12 DEF Good, w

\* A published version that is superseded.
LEMMA SupersededIsGood ==
  ASSUME NEW v, Good(v), v.status = "published", NEW m \in Members
  PROVE  Good(Superseded(v, m)) /\ Superseded(v, m).status = "superseded"
<1> DEFINE e == Entry("superseded", m, FALSE)
           w == Superseded(v, m)
<1>1. v \in Version /\ Duties(v) /\ Answered(v) /\ v.reviewHistory \in Seq(HistoryEntry)
  BY DEF Good, Version
<1>2. e \in HistoryEntry /\ e.action = "superseded"
  BY EntryType DEF HistoryActions
<1> HIDE DEF e
<1>3. /\ w.status = "superseded" /\ w.content = v.content /\ w.author = v.author
      /\ w.approver = v.approver /\ w.reviewHistory = Append(v.reviewHistory, e)
  BY DEF Superseded, e
<1>4. w \in Version
  <2>1. Append(v.reviewHistory, e) \in Seq(HistoryEntry)
    BY <1>1, <1>2, AppendedHistory
  <2>2. QED
    BY <1>1, <2>1 DEF Superseded, Version, e, REVIEW_ITEM_STATES
<1> HIDE DEF w
<1>5. /\ w.reviewHistory # <<>>
      /\ w.reviewHistory[Len(w.reviewHistory)] = e
      /\ \A i \in 1..Len(w.reviewHistory) :
           w.reviewHistory[i] = e \/
             (i \in 1..Len(v.reviewHistory) /\ w.reviewHistory[i] = v.reviewHistory[i])
  BY <1>1, <1>2, <1>3, AppendedHistory
<1>6. Tells(w) /\ Early(w) /\ Answered(w)
  BY <1>1, <1>2, <1>3, <1>5 DEF Tells, Early, Answered, StatusAfter
<1>7. Duties(w)
  <2> SUFFICES ASSUME NEW i \in 1..Len(w.reviewHistory)
               PROVE  Dutiful(w, w.reviewHistory[i])
    BY DEF Duties
  <2>1. CASE w.reviewHistory[i] = e
    BY <2>1, <1>2 DEF Dutiful
  <2>2. CASE i \in 1..Len(v.reviewHistory) /\ w.reviewHistory[i] = v.reviewHistory[i]
    BY <1>1, <1>3, <2>2 DEF Duties, Dutiful
  <2>3. QED
    BY <1>5, <2>1, <2>2
<1>8. QED
  BY <1>3, <1>4, <1>5, <1>6, <1>7 DEF Good, w

-----------------------------------------------------------------------------
(***************************************************************************)
(* Steps, row by row.                                                      *)
(***************************************************************************)

\* What may become of one row in a step.
RowStep(p, l) ==
  LET v == versions[p][l]
      w == versions'[p][l]
  IN  \/ w = v
      \/ v.status = "none" /\ \E m \in Members, c \in Contents : w = Drafted(m, c)
      \/ Exists(p, l) /\ Revisable(v)
           /\ \E m \in Members, c \in Contents : w = Revised(v, m, c)
      \/ Exists(p, l) /\ \E m \in Members, to \in REVIEW_ITEM_STATES, override \in BOOLEAN :
           MayTransition(v, to, m, override) /\ w = Moved(v, to, m)
      \/ v.status = "published" /\ \E m \in Members : w = Superseded(v, m)

Shape ==
  /\ versions \in [Books -> [Labels -> Version \cup {NoVersion}]]
  /\ head \in [Books -> Labels \cup {NoLabel}]

\* A publication rewrites its own row and those it supersedes.
LEMMA PublishRows ==
  ASSUME Shape, NEW p \in Books, NEW l \in Labels, NEW v, NEW m \in Members,
         NEW prior \in SUBSET Labels, Publish(p, l, v, m, prior)
  PROVE  /\ versions'[p][l] = Moved(v, "published", m)
         /\ \A k \in Labels \ {l} : versions'[p][k] =
              IF k \in prior THEN Superseded(versions[p][k], m) ELSE versions[p][k]
         /\ \A q \in Books \ {p} : versions'[q] = versions[q]
         /\ DOMAIN versions' = Books
         /\ \A q \in Books : DOMAIN versions'[q] = Labels
         /\ versions' = [q \in Books |-> [k \in Labels |-> versions'[q][k]]]
         /\ head' = [head EXCEPT ![p] = l]
<1> DEFINE f == [k \in Labels |->
                   IF k = l THEN Moved(v, "published", m)
                   ELSE IF k \in prior THEN Superseded(versions[p][k], m)
                   ELSE versions[p][k]]
<1>1. versions' = [versions EXCEPT ![p] = f] /\ head' = [head EXCEPT ![p] = l]
  BY DEF Publish, Shape
<1>2. versions'[p] = f /\ \A q \in Books \ {p} : versions'[q] = versions[q]
  BY <1>1 DEF Shape
<1>3. DOMAIN versions' = Books /\ \A q \in Books : DOMAIN versions'[q] = Labels
  BY <1>1, <1>2 DEF Shape
<1>4. versions' = [q \in Books |-> [k \in Labels |-> versions'[q][k]]]
  <2>1. \A q \in Books : versions'[q] = [k \in Labels |-> versions'[q][k]]
    BY <1>2 DEF Shape
  <2>2. versions' = [q \in Books |-> versions'[q]]
    BY <1>1 DEF Shape
  <2>3. QED
    BY <2>1, <2>2
<1>5. QED
  BY <1>1, <1>2, <1>3, <1>4

\* Rows are empty or good, and a step keeps them so.
Sound(v) == v = NoVersion \/ Good(v)

LEMMA SoundRows ==
  ASSUME NEW v, Sound(v)
  PROVE  /\ v.status = "none" => v = NoVersion
         /\ v.status # "none" => Good(v) /\ v \in Version /\ v.status \in REVIEW_ITEM_STATES
BY DEF Sound, Good, NoVersion, Version, REVIEW_ITEM_STATES

LEMMA RowStepKeepsSound ==
  ASSUME NEW p \in Books, NEW l \in Labels, Sound(versions[p][l]), RowStep(p, l)
  PROVE  Sound(versions'[p][l])
<1> DEFINE v == versions[p][l]
           w == versions'[p][l]
<1>1. CASE w = v
  BY <1>1
<1>2. ASSUME NEW m \in Members, NEW c \in Contents, w = Drafted(m, c)
      PROVE  Sound(w)
  BY <1>2, DraftedIsGood DEF Sound
<1>3. ASSUME Exists(p, l), Revisable(v), NEW m \in Members, NEW c \in Contents,
             w = Revised(v, m, c)
      PROVE  Sound(w)
  BY <1>3, SoundRows, RevisedIsGood DEF Sound, Exists
<1>4. ASSUME Exists(p, l), NEW m \in Members, NEW to \in REVIEW_ITEM_STATES,
             NEW override \in BOOLEAN, MayTransition(v, to, m, override), w = Moved(v, to, m)
      PROVE  Sound(w)
  <2>1. Good(v)
    BY <1>4, SoundRows DEF Exists
  <2> HIDE DEF v, w
  <2>2. QED
    BY <1>4, <2>1, MovedIsGood DEF Sound
<1>5. ASSUME v.status = "published", NEW m \in Members, w = Superseded(v, m)
      PROVE  Sound(w)
  <2>1. Good(v)
    BY <1>5, SoundRows
  <2> HIDE DEF v, w
  <2>2. QED
    BY <1>5, <2>1, SupersededIsGood DEF Sound
<1>6. QED
  BY <1>1, <1>2, <1>3, <1>4, <1>5 DEF RowStep

\* The inductive invariant of the store: the types, and every row sound.
StoreInv ==
  /\ books \subseteq Books
  /\ Shape
  /\ events \in [Books -> Seq(Event)]
  /\ \A p \in Books, l \in Labels : Sound(versions[p][l])

\* What a save and a publication append to the events are events.
LEMMA SavedEventType ==
  ASSUME NEW l \in Labels, NEW m \in Members
  PROVE  [type |-> "PlaybookVersionSaved", version |-> l, by |-> m,
          superseded |-> NoLabel, ownerOverride |-> FALSE] \in Event
BY DEF Event

LEMMA PublishedEventType ==
  ASSUME NEW l \in Labels, NEW m \in Members, NEW k \in Labels \cup {NoLabel},
         NEW o \in BOOLEAN
  PROVE  [type |-> "PlaybookVersionPublished", version |-> l, by |-> m,
          superseded |-> k, ownerOverride |-> o] \in Event
BY DEF Event

\* A publication keeps the types of the rest.
LEMMA PublishTypes ==
  ASSUME StoreInv, NEW p \in Books, NEW l \in Labels, NEW v, NEW m \in Members,
         NEW prior \in SUBSET Labels, Publish(p, l, v, m, prior)
  PROVE  /\ books' \subseteq Books
         /\ head' \in [Books -> Labels \cup {NoLabel}]
         /\ events' \in [Books -> Seq(Event)]
<1>1. books' \subseteq Books /\ head' \in [Books -> Labels \cup {NoLabel}]
  BY DEF Publish, StoreInv, Shape
<1>2. PICK k \in IF prior = {} THEN {NoLabel} ELSE prior :
        events' = [events EXCEPT ![p] = Append(@,
          [type |-> "PlaybookVersionPublished", version |-> l, by |-> m,
           superseded |-> k, ownerOverride |-> Separated(v, "published", m)])]
  BY DEF Publish
<1> DEFINE e == [type |-> "PlaybookVersionPublished", version |-> l, by |-> m,
                 superseded |-> k, ownerOverride |-> Separated(v, "published", m)]
<1>3. e \in Event
  <2>1. k \in Labels \cup {NoLabel}
    BY <1>2
  <2>2. Separated(v, "published", m) \in BOOLEAN
    BY DEF Separated, SeparationViolated
  <2>3. QED
    BY <2>1, <2>2, PublishedEventType
<1>4. events' = [events EXCEPT ![p] = Append(@, e)]
  BY <1>2
<1> HIDE DEF e
<1>5. events' \in [Books -> Seq(Event)]
  BY <1>3, <1>4, AppendProperties DEF StoreInv
<1>6. QED
  BY <1>1, <1>5

\* A publication moves every row by a row step.
LEMMA PublishIsRowStep ==
  ASSUME Shape, NEW p \in Books, NEW l \in Labels, Exists(p, l),
         NEW m \in Members, NEW override \in BOOLEAN,
         MayTransition(versions[p][l], "published", m, override),
         NEW prior \in SUBSET PublishedLabels(p),
         Publish(p, l, versions[p][l], m, prior)
  PROVE  \A q \in Books, k \in Labels : RowStep(q, k)
<1>1. prior \in SUBSET Labels
  BY DEF PublishedLabels
<1>2. /\ versions'[p][l] = Moved(versions[p][l], "published", m)
      /\ \A k \in Labels \ {l} : versions'[p][k] =
           IF k \in prior THEN Superseded(versions[p][k], m) ELSE versions[p][k]
      /\ \A q \in Books \ {p} : versions'[q] = versions[q]
  BY <1>1, PublishRows
<1>3. RowStep(p, l)
  BY <1>2 DEF RowStep, REVIEW_ITEM_STATES
<1>4. \A k \in Labels \ {l} : RowStep(p, k)
  BY <1>2 DEF RowStep, PublishedLabels
<1>5. \A q \in Books \ {p}, k \in Labels : RowStep(q, k)
  BY <1>2 DEF RowStep
<1>6. QED
  BY <1>3, <1>4, <1>5

\* One row rewritten by a row step.
LEMMA RewriteIsRowStep ==
  ASSUME Shape, NEW p \in Books, NEW l \in Labels, NEW w,
         versions' = [versions EXCEPT ![p][l] = w],
         \/ versions[p][l].status = "none" /\ \E m \in Members, c \in Contents : w = Drafted(m, c)
         \/ /\ Exists(p, l) /\ Revisable(versions[p][l])
            /\ \E m \in Members, c \in Contents : w = Revised(versions[p][l], m, c)
         \/ /\ Exists(p, l)
            /\ \E m \in Members, to \in REVIEW_ITEM_STATES, override \in BOOLEAN :
                 /\ MayTransition(versions[p][l], to, m, override)
                 /\ w = Moved(versions[p][l], to, m)
  PROVE  /\ \A q \in Books, k \in Labels : RowStep(q, k)
         /\ versions'[p][l] = w
         /\ \A q \in Books, k \in Labels :
              q # p \/ k # l => versions'[q][k] = versions[q][k]
         /\ versions' = [q \in Books |-> [k \in Labels |-> versions'[q][k]]]
<1>1. /\ versions'[p][l] = w
      /\ \A q \in Books, k \in Labels : q # p \/ k # l => versions'[q][k] = versions[q][k]
  BY DEF Shape
<1>2. versions' = [q \in Books |-> [k \in Labels |-> versions'[q][k]]]
  <2>1. \A q \in Books : versions'[q] = [k \in Labels |-> versions'[q][k]]
    BY DEF Shape
  <2>2. versions' = [q \in Books |-> versions'[q]]
    BY DEF Shape
  <2>3. QED
    BY <2>1, <2>2
<1>3. RowStep(p, l)
  BY <1>1 DEF RowStep
<1>4. \A q \in Books, k \in Labels : q # p \/ k # l => RowStep(q, k)
  BY <1>1 DEF RowStep
<1>5. QED
  BY <1>1, <1>2, <1>3, <1>4

\* Sound rows give a well-shaped table.
LEMMA SoundTable ==
  ASSUME NEW t, t = [q \in Books |-> [k \in Labels |-> t[q][k]]],
         \A q \in Books, k \in Labels : Sound(t[q][k])
  PROVE  t \in [Books -> [Labels -> Version \cup {NoVersion}]]
<1>1. \A q \in Books, k \in Labels : t[q][k] \in Version \cup {NoVersion}
  BY DEF Sound, Good
<1>2. QED
  BY <1>1

-----------------------------------------------------------------------------
(***************************************************************************)
(* Steps of the store.                                                     *)
(***************************************************************************)

\* What the operations do to a table of the right shape.
LEMMA SaveStep ==
  ASSUME Shape, NEW p \in Books, NEW l \in Labels, NEW m \in Members, NEW c \in Contents,
         SavePlaybookVersion(p, l, m, c)
  PROVE  /\ \A q \in Books, k \in Labels : RowStep(q, k)
         /\ versions' = [q \in Books |-> [k \in Labels |-> versions'[q][k]]]
         /\ \A q \in Books, k \in Labels :
              q # p \/ k # l => versions'[q][k] = versions[q][k]
         /\ versions[p][l].status \in {"none", "draft"}
         /\ versions'[p][l] = IF Exists(p, l) THEN Revised(versions[p][l], m, c)
                              ELSE Drafted(m, c)
<1> DEFINE w == IF Exists(p, l) THEN Revised(versions[p][l], m, c) ELSE Drafted(m, c)
<1>1. versions' = [versions EXCEPT ![p][l] = w]
  BY DEF SavePlaybookVersion
<1>2. /\ ~Exists(p, l) => versions[p][l].status = "none" /\ w = Drafted(m, c)
      /\ Exists(p, l) => Revisable(versions[p][l]) /\ w = Revised(versions[p][l], m, c)
  BY DEF SavePlaybookVersion, Exists
<1> HIDE DEF w
<1>3. /\ \A q \in Books, k \in Labels : RowStep(q, k)
      /\ versions'[p][l] = w
      /\ \A q \in Books, k \in Labels : q # p \/ k # l => versions'[q][k] = versions[q][k]
      /\ versions' = [q \in Books |-> [k \in Labels |-> versions'[q][k]]]
  BY <1>1, <1>2, RewriteIsRowStep
<1>4. QED
  BY <1>2, <1>3 DEF w, Revisable

LEMMA MoveStep ==
  ASSUME Shape, NEW p \in Books, NEW l \in Labels, NEW to \in REVIEW_ITEM_STATES,
         NEW m \in Members, NEW override \in BOOLEAN, Exists(p, l),
         MayTransition(versions[p][l], to, m, override),
         versions' = [versions EXCEPT ![p][l] = Moved(versions[p][l], to, m)]
  PROVE  /\ \A q \in Books, k \in Labels : RowStep(q, k)
         /\ versions' = [q \in Books |-> [k \in Labels |-> versions'[q][k]]]
         /\ \A q \in Books, k \in Labels :
              q # p \/ k # l => versions'[q][k] = versions[q][k]
         /\ versions'[p][l] = Moved(versions[p][l], to, m)
<1> DEFINE w == Moved(versions[p][l], to, m)
<1>1. versions' = [versions EXCEPT ![p][l] = w]
  OBVIOUS
<1>2. \E n \in Members, t \in REVIEW_ITEM_STATES, o \in BOOLEAN :
        MayTransition(versions[p][l], t, n, o) /\ w = Moved(versions[p][l], t, n)
  OBVIOUS
<1> HIDE DEF w
<1>3. /\ \A q \in Books, k \in Labels : RowStep(q, k)
      /\ versions'[p][l] = w
      /\ \A q \in Books, k \in Labels : q # p \/ k # l => versions'[q][k] = versions[q][k]
      /\ versions' = [q \in Books |-> [k \in Labels |-> versions'[q][k]]]
  BY <1>1, <1>2, RewriteIsRowStep
<1>4. QED
  BY <1>3 DEF w

\* A publication supersedes at most one other published version.
LEMMA PublicationOf ==
  ASSUME NEW p \in Books, NEW l \in Labels, NEW m \in Members, NEW override \in BOOLEAN,
         TransitionPlaybookVersion(p, l, "published", m, override)
  PROVE  /\ Exists(p, l)
         /\ MayTransition(versions[p][l], "published", m, override)
         /\ \E prior \in SUBSET (PublishedLabels(p) \ {l}) :
              /\ Publish(p, l, versions[p][l], m, prior)
              /\ PublishedLabels(p) \ {l} # {} => prior # {}
BY DEF TransitionPlaybookVersion, Prior

LEMMA StoreStep ==
  ASSUME StoreInv, [Next]_vars
  PROVE  StoreInv' /\ \A q \in Books, k \in Labels : RowStep(q, k)
<1> USE DEF StoreInv
<1>1. CASE UNCHANGED vars
  <2>1. \A q \in Books, k \in Labels : RowStep(q, k)
    BY <1>1 DEF vars, RowStep
  <2>2. QED
    BY <1>1, <2>1 DEF vars, Shape
<1>2. ASSUME NEW p \in Books, NEW m \in Members, CreatePlaybookDraft(p, m)
      PROVE  StoreInv' /\ \A q \in Books, k \in Labels : RowStep(q, k)
  <2>1. \A q \in Books, k \in Labels : RowStep(q, k)
    BY <1>2 DEF CreatePlaybookDraft, RowStep
  <2>2. QED
    BY <1>2, <2>1 DEF CreatePlaybookDraft, Shape
<1>3. ASSUME NEW p \in Books, NEW m \in Members, NEW l \in Labels, NEW c \in Contents,
             SavePlaybookVersion(p, l, m, c)
      PROVE  StoreInv' /\ \A q \in Books, k \in Labels : RowStep(q, k)
  <2>1. /\ \A q \in Books, k \in Labels : RowStep(q, k)
        /\ versions' = [q \in Books |-> [k \in Labels |-> versions'[q][k]]]
    BY <1>3, SaveStep
  <2>2. \A q \in Books, k \in Labels : Sound(versions'[q][k])
    BY <2>1, RowStepKeepsSound
  <2>3. versions' \in [Books -> [Labels -> Version \cup {NoVersion}]]
    BY <2>1, <2>2, SoundTable
  <2>4. events' \in [Books -> Seq(Event)]
    <3> DEFINE e == [type |-> "PlaybookVersionSaved", version |-> l, by |-> m,
                     superseded |-> NoLabel, ownerOverride |-> FALSE]
    <3>1. e \in Event
      BY SavedEventType
    <3>2. events' = [events EXCEPT ![p] = Append(@, e)]
      BY <1>3 DEF SavePlaybookVersion
    <3> HIDE DEF e
    <3>3. QED
      BY <3>1, <3>2, AppendProperties
  <2>5. books' = books /\ head' = head
    BY <1>3 DEF SavePlaybookVersion
  <2>6. QED
    BY <2>1, <2>2, <2>3, <2>4, <2>5 DEF Shape
<1>4. ASSUME NEW p \in Books, NEW m \in Members, NEW l \in Labels,
             NEW to \in REVIEW_ITEM_STATES, NEW override \in BOOLEAN, to # "published",
             TransitionPlaybookVersion(p, l, to, m, override)
      PROVE  StoreInv' /\ \A q \in Books, k \in Labels : RowStep(q, k)
  <2>1. /\ Exists(p, l)
        /\ MayTransition(versions[p][l], to, m, override)
        /\ versions' = [versions EXCEPT ![p][l] = Moved(versions[p][l], to, m)]
        /\ books' = books /\ head' = head /\ events' = events
    BY <1>4 DEF TransitionPlaybookVersion
  <2>2. /\ \A q \in Books, k \in Labels : RowStep(q, k)
        /\ versions' = [q \in Books |-> [k \in Labels |-> versions'[q][k]]]
    BY <2>1, MoveStep
  <2>3. \A q \in Books, k \in Labels : Sound(versions'[q][k])
    BY <2>2, RowStepKeepsSound
  <2>4. versions' \in [Books -> [Labels -> Version \cup {NoVersion}]]
    BY <2>2, <2>3, SoundTable
  <2>5. QED
    BY <2>1, <2>2, <2>3, <2>4 DEF Shape
<1>5. ASSUME NEW p \in Books, NEW m \in Members, NEW l \in Labels, NEW override \in BOOLEAN,
             TransitionPlaybookVersion(p, l, "published", m, override)
      PROVE  StoreInv' /\ \A q \in Books, k \in Labels : RowStep(q, k)
  <2>1. PICK prior \in SUBSET (PublishedLabels(p) \ {l}) :
          Publish(p, l, versions[p][l], m, prior)
    BY <1>5, PublicationOf
  <2>2. /\ Exists(p, l) /\ MayTransition(versions[p][l], "published", m, override)
        /\ prior \in SUBSET PublishedLabels(p) /\ prior \in SUBSET Labels
    BY <1>5, <2>1, PublicationOf DEF PublishedLabels
  <2>3. \A q \in Books, k \in Labels : RowStep(q, k)
    BY <2>1, <2>2, PublishIsRowStep
  <2>4. versions' = [q \in Books |-> [k \in Labels |-> versions'[q][k]]]
    BY <2>1, <2>2, PublishRows
  <2>5. \A q \in Books, k \in Labels : Sound(versions'[q][k])
    BY <2>3, RowStepKeepsSound
  <2>6. versions' \in [Books -> [Labels -> Version \cup {NoVersion}]]
    BY <2>4, <2>5, SoundTable
  <2>7. /\ books' \subseteq Books
        /\ head' \in [Books -> Labels \cup {NoLabel}]
        /\ events' \in [Books -> Seq(Event)]
    BY <2>1, <2>2, PublishTypes
  <2>8. QED
    BY <2>3, <2>5, <2>6, <2>7 DEF Shape
<1>6. QED
  BY <1>1, <1>2, <1>3, <1>4, <1>5 DEF Next

LEMMA StoreInvHolds == Spec => []StoreInv
<1>1. Init => StoreInv
  BY DEF Init, StoreInv, Shape, Sound
<1>2. StoreInv /\ [Next]_vars => StoreInv'
  BY StoreStep
<1>3. QED
  BY <1>1, <1>2, PTL DEF Spec

-----------------------------------------------------------------------------
(***************************************************************************)
(* Theorems.                                                               *)
(***************************************************************************)

\* The state keeps its type.
THEOREM TypeCorrect == Spec => []TypeOK
<1>1. StoreInv => TypeOK
  BY DEF StoreInv, Shape, TypeOK
<1>2. QED
  BY <1>1, StoreInvHolds, PTL

\* The history of a version tells how it came to its status.
THEOREM HistoryIsTruthful == Spec => []HistoryTellsStatus
<1>1. StoreInv => HistoryTellsStatus
  BY SoundRows DEF StoreInv, HistoryTellsStatus, Exists, Good, Tells
<1>2. QED
  BY <1>1, StoreInvHolds, PTL

\* Authors neither publish nor, for high impact, approve, but by an owner's
\* override on record that the organization permits.
THEOREM DutiesAreSeparated == Spec => []SeparationOfDuties
<1>1. StoreInv => SeparationOfDuties
  <2> SUFFICES ASSUME StoreInv, NEW p \in Books, NEW l \in Labels, Exists(p, l)
               PROVE  \A i \in 1..Len(versions[p][l].reviewHistory) :
                        Dutiful(versions[p][l], versions[p][l].reviewHistory[i])
    BY DEF SeparationOfDuties, Dutiful
  <2>1. Good(versions[p][l])
    BY SoundRows DEF StoreInv, Exists
  <2>2. QED
    BY <2>1 DEF Good, Duties
<1>2. QED
  BY <1>1, StoreInvHolds, PTL

\* Nothing approved or in force has an open question in it.
THEOREM NoQuestionIsApproved == Spec => []NoOpenQuestionApproved
<1>1. StoreInv => NoOpenQuestionApproved
  <2> SUFFICES ASSUME StoreInv, NEW p \in Books, NEW l \in Labels,
                      versions[p][l].status \in {"approved", "published", "superseded"}
               PROVE  versions[p][l].content \notin Unresolved
    BY DEF NoOpenQuestionApproved
  <2>1. Good(versions[p][l])
    BY SoundRows DEF StoreInv
  <2>2. QED
    BY <2>1 DEF Good, Answered
<1>2. QED
  BY <1>1, StoreInvHolds, PTL

\* A row that moves without a publication is published neither before nor after.
LEMMA OnlyPublishingPublishes ==
  ASSUME NEW v, Good(v), NEW m \in Members, NEW to, NEW override,
         MayTransition(v, to, m, override)
  PROVE  /\ v.status # "published"
         /\ to # "published" => Moved(v, to, m).status # "published"
         /\ Moved(v, to, m).status = to
<1>1. v \in Version
  BY DEF Good
<1>2. v.status # "published"
  BY <1>1, MovesOfAVersion
<1>3. Moved(v, to, m).status = to
  BY DEF Moved
<1>4. QED
  BY <1>2, <1>3

LEMMA HeadStep ==
  ASSUME StoreInv, HeadIsPublished, [Next]_vars
  PROVE  HeadIsPublished'
<1>0. Shape /\ \A q \in Books, k \in Labels : Sound(versions[q][k])
  BY DEF StoreInv
<1>1. ASSUME \A q \in Books, k \in Labels :
               (versions'[q][k].status = "published") <=> (versions[q][k].status = "published"),
             head' = head
      PROVE  HeadIsPublished'
  <2>1. \A q \in Books : PublishedLabels(q)' = PublishedLabels(q)
    BY <1>1 DEF PublishedLabels
  <2>2. QED
    BY <1>1, <2>1 DEF HeadIsPublished
<1>2. CASE UNCHANGED vars
  BY <1>1, <1>2 DEF vars
<1>3. ASSUME NEW p \in Books, NEW m \in Members, CreatePlaybookDraft(p, m)
      PROVE  HeadIsPublished'
  BY <1>1, <1>3 DEF CreatePlaybookDraft
<1>4. ASSUME NEW p \in Books, NEW m \in Members, NEW l \in Labels, NEW c \in Contents,
             SavePlaybookVersion(p, l, m, c)
      PROVE  HeadIsPublished'
  <2>1. /\ \A q \in Books, k \in Labels : q # p \/ k # l => versions'[q][k] = versions[q][k]
        /\ versions[p][l].status \in {"none", "draft"}
        /\ versions'[p][l] = IF Exists(p, l) THEN Revised(versions[p][l], m, c)
                             ELSE Drafted(m, c)
    BY <1>0, <1>4, SaveStep
  <2>2. versions'[p][l].status = versions[p][l].status \/ versions'[p][l].status = "draft"
    BY <2>1 DEF Revised, Drafted
  <2>3. head' = head
    BY <1>4 DEF SavePlaybookVersion
  <2>4. \A q \in Books, k \in Labels :
          (versions'[q][k].status = "published") <=> (versions[q][k].status = "published")
    BY <2>1, <2>2
  <2>5. QED
    BY <1>1, <2>3, <2>4
<1>5. ASSUME NEW p \in Books, NEW m \in Members, NEW l \in Labels,
             NEW to \in REVIEW_ITEM_STATES, NEW override \in BOOLEAN, to # "published",
             TransitionPlaybookVersion(p, l, to, m, override)
      PROVE  HeadIsPublished'
  <2>1. /\ Exists(p, l)
        /\ MayTransition(versions[p][l], to, m, override)
        /\ versions' = [versions EXCEPT ![p][l] = Moved(versions[p][l], to, m)]
        /\ head' = head
    BY <1>5 DEF TransitionPlaybookVersion
  <2>2. /\ \A q \in Books, k \in Labels : q # p \/ k # l => versions'[q][k] = versions[q][k]
        /\ versions'[p][l] = Moved(versions[p][l], to, m)
    BY <1>0, <2>1 DEF Shape
  <2>3. Good(versions[p][l])
    BY <2>1, <1>0, SoundRows DEF Exists
  <2>4. versions[p][l].status # "published" /\ versions'[p][l].status # "published"
    BY <1>5, <2>1, <2>2, <2>3, OnlyPublishingPublishes
  <2>5. QED
    BY <1>1, <2>1, <2>2, <2>4
<1>6. ASSUME NEW p \in Books, NEW m \in Members, NEW l \in Labels, NEW override \in BOOLEAN,
             TransitionPlaybookVersion(p, l, "published", m, override)
      PROVE  HeadIsPublished'
  <2>1. PICK prior \in SUBSET (PublishedLabels(p) \ {l}) :
          /\ Publish(p, l, versions[p][l], m, prior)
          /\ PublishedLabels(p) \ {l} # {} => prior # {}
    BY <1>6, PublicationOf
  <2>2. /\ Exists(p, l) /\ MayTransition(versions[p][l], "published", m, override)
        /\ prior \in SUBSET Labels
    BY <1>6, <2>1, PublicationOf DEF PublishedLabels
  <2>3. /\ versions'[p][l] = Moved(versions[p][l], "published", m)
        /\ \A k \in Labels \ {l} : versions'[p][k] =
             IF k \in prior THEN Superseded(versions[p][k], m) ELSE versions[p][k]
        /\ \A q \in Books \ {p} : versions'[q] = versions[q]
        /\ head' = [head EXCEPT ![p] = l]
    <3> DEFINE v == versions[p][l]
    <3>1. Shape /\ Publish(p, l, v, m, prior) /\ prior \in SUBSET Labels
      BY <1>0, <2>1, <2>2
    <3> HIDE DEF v
    <3>2. /\ versions'[p][l] = Moved(v, "published", m)
          /\ \A k \in Labels \ {l} : versions'[p][k] =
               IF k \in prior THEN Superseded(versions[p][k], m) ELSE versions[p][k]
          /\ \A q \in Books \ {p} : versions'[q] = versions[q]
          /\ head' = [head EXCEPT ![p] = l]
      BY <3>1, PublishRows
    <3>3. QED
      BY <3>2 DEF v
  <2>4. Good(versions[p][l])
    BY <2>2, <1>0, SoundRows DEF Exists
  <2>5. versions[p][l].status # "published" /\ versions'[p][l].status = "published"
    BY <2>2, <2>3, <2>4, OnlyPublishingPublishes
  <2>6. \A j, k \in PublishedLabels(p) : j = k
    BY DEF HeadIsPublished
  <2>7. prior = PublishedLabels(p)
    BY <2>1, <2>5, <2>6 DEF PublishedLabels
  <2>8. \A k \in Labels \ {l} : versions'[p][k].status # "published"
    <3>1. \A k \in prior : Superseded(versions[p][k], m).status = "superseded"
      BY DEF Superseded
    <3>2. QED
      BY <2>3, <2>7, <3>1 DEF PublishedLabels
  <2>9. PublishedLabels(p)' = {l}
    BY <2>5, <2>8 DEF PublishedLabels
  <2>10. head'[p] = l /\ \A q \in Books \ {p} : head'[q] = head[q]
    BY <1>0, <2>3 DEF Shape
  <2>11. \A q \in Books \ {p} : PublishedLabels(q)' = PublishedLabels(q)
    BY <2>3 DEF PublishedLabels
  <2>12. l # NoLabel
    BY PlaybooksAssumption
  <2>13. QED
    BY <2>9, <2>10, <2>11, <2>12 DEF HeadIsPublished
<1>7. QED
  BY <1>2, <1>3, <1>4, <1>5, <1>6 DEF Next

\* The head of a playbook is its one published version.
THEOREM OneVersionInForce == Spec => []HeadIsPublished
<1>1. Init => HeadIsPublished
  BY DEF Init, HeadIsPublished, PublishedLabels, NoVersion
<1>2. StoreInv /\ HeadIsPublished /\ [Next]_vars => HeadIsPublished'
  BY HeadStep
<1>3. QED
  BY <1>1, <1>2, StoreInvHolds, PTL DEF Spec

-----------------------------------------------------------------------------
(***************************************************************************)
(* The chain of publications.  Saving leaves the head alone; publishing    *)
(* supersedes the head, the one version in force, and names it.            *)
(***************************************************************************)

\* What the first n events put in force does not depend on later ones.
LEMMA PastIsKept ==
  ASSUME NEW log, NEW longer, NEW n \in Nat, NEW l,
         \A k \in 1..n : longer[k] = log[k], PutInForce(log, n, l)
  PROVE  PutInForce(longer, n, l)
<1>1. PublicationsUpTo(longer, n) = PublicationsUpTo(log, n)
  BY DEF PublicationsUpTo
<1>2. \A k \in PublicationsUpTo(log, n) : longer[k] = log[k]
  BY DEF PublicationsUpTo
<1>3. QED
  BY <1>1, <1>2 DEF PutInForce

\* An event that is no publication puts nothing in force; a publication, its version.
LEMMA OneMoreEvent ==
  ASSUME NEW log, NEW n \in Nat, NEW l, PutInForce(log, n, l)
  PROVE  PutInForce(log, n + 1,
           IF log[n + 1].type = "PlaybookVersionPublished" THEN log[n + 1].version ELSE l)
<1>1. CASE log[n + 1].type = "PlaybookVersionPublished"
  <2>1. n + 1 \in PublicationsUpTo(log, n + 1)
    BY <1>1 DEF PublicationsUpTo
  <2>2. \A j \in PublicationsUpTo(log, n + 1) : j <= n + 1
    BY DEF PublicationsUpTo
  <2>3. QED
    BY <1>1, <2>1, <2>2 DEF PutInForce
<1>2. CASE log[n + 1].type # "PlaybookVersionPublished"
  <2>1. PublicationsUpTo(log, n + 1) = PublicationsUpTo(log, n)
    BY <1>2 DEF PublicationsUpTo
  <2>2. QED
    BY <1>2, <2>1 DEF PutInForce
<1>3. QED
  BY <1>1, <1>2

Chain(log, h) ==
  /\ \A k \in PublicationsUpTo(log, Len(log)) : PutInForce(log, k - 1, log[k].superseded)
  /\ PutInForce(log, Len(log), h)

\* A publication names what was in force and becomes it.
LEMMA ChainGrows ==
  ASSUME NEW log \in Seq(Event), NEW h, NEW e \in Event, Chain(log, h),
         e.type = "PlaybookVersionPublished" => e.superseded = h
  PROVE  Chain(Append(log, e), IF e.type = "PlaybookVersionPublished" THEN e.version ELSE h)
<1> DEFINE n == Len(log)
           longer == Append(log, e)
<1>1. /\ n \in Nat /\ Len(longer) = n + 1 /\ longer[n + 1] = e
      /\ \A k \in 1..n : longer[k] = log[k]
  BY AppendProperties
<1> HIDE DEF n, longer
<1>2. PutInForce(longer, n, h)
  <2>1. PutInForce(log, n, h)
    BY DEF Chain, n
  <2>2. QED
    BY <1>1, <2>1, PastIsKept
<1>3. ASSUME NEW k \in PublicationsUpTo(longer, n + 1)
      PROVE  PutInForce(longer, k - 1, longer[k].superseded)
  <2>1. CASE k = n + 1
    <3>1. e.type = "PlaybookVersionPublished" /\ k - 1 = n /\ longer[k].superseded = h
      BY <1>1, <1>3, <2>1 DEF PublicationsUpTo
    <3>2. QED
      BY <1>2, <3>1
  <2>2. CASE k # n + 1
    <3>1. k \in 1..n /\ k \in PublicationsUpTo(log, n)
      BY <1>1, <1>3, <2>2 DEF PublicationsUpTo
    <3>2. PutInForce(log, k - 1, log[k].superseded)
      BY <3>1 DEF Chain, n
    <3>3. k - 1 \in Nat /\ \A j \in 1..(k - 1) : longer[j] = log[j]
      BY <1>1, <3>1
    <3>4. PutInForce(longer, k - 1, log[k].superseded)
      BY <3>2, <3>3, PastIsKept
    <3>5. QED
      BY <1>1, <3>1, <3>4
  <2>3. QED
    BY <2>1, <2>2
<1>4. PutInForce(longer, n + 1, IF e.type = "PlaybookVersionPublished" THEN e.version ELSE h)
  BY <1>1, <1>2, OneMoreEvent
<1>5. QED
  BY <1>1, <1>3, <1>4 DEF Chain, longer

LEMMA ChainStep ==
  ASSUME StoreInv, HeadIsPublished, PublicationsChain, [Next]_vars
  PROVE  PublicationsChain'
<1>0. /\ head \in [Books -> Labels \cup {NoLabel}] /\ events \in [Books -> Seq(Event)]
      /\ \A q \in Books, k \in Labels : Sound(versions[q][k])
      /\ \A q \in Books : Chain(events[q], head[q])
  BY DEF StoreInv, Shape, PublicationsChain, Chain
<1>1. ASSUME \A q \in Books : Chain(events'[q], head'[q])
      PROVE  PublicationsChain'
  BY <1>1 DEF PublicationsChain, Chain
<1>2. ASSUME events' = events, head' = head PROVE PublicationsChain'
  BY <1>0, <1>1, <1>2
<1>3. ASSUME NEW p \in Books, NEW e \in Event, NEW h, Chain(Append(events[p], e), h),
             events' = [events EXCEPT ![p] = Append(@, e)], head' = [head EXCEPT ![p] = h]
      PROVE  PublicationsChain'
  <2>1. \A q \in Books : Chain(events'[q], head'[q])
    BY <1>0, <1>3
  <2>2. QED
    BY <1>1, <2>1
<1>4. ASSUME NEW p \in Books, NEW m \in Members, NEW l \in Labels, NEW c \in Contents,
             SavePlaybookVersion(p, l, m, c)
      PROVE  PublicationsChain'
  <2> DEFINE e == [type |-> "PlaybookVersionSaved", version |-> l, by |-> m,
                   superseded |-> NoLabel, ownerOverride |-> FALSE]
  <2>1. e \in Event /\ e.type # "PlaybookVersionPublished"
    BY SavedEventType
  <2>2. events' = [events EXCEPT ![p] = Append(@, e)] /\ head' = head
    BY <1>4 DEF SavePlaybookVersion
  <2> HIDE DEF e
  <2>3. Chain(Append(events[p], e), head[p])
    BY <1>0, <2>1, ChainGrows
  <2>4. head' = [head EXCEPT ![p] = head[p]]
    BY <1>0, <2>2
  <2>5. QED
    BY <1>3, <2>1, <2>2, <2>3, <2>4
<1>5. ASSUME NEW p \in Books, NEW m \in Members, NEW l \in Labels, NEW override \in BOOLEAN,
             TransitionPlaybookVersion(p, l, "published", m, override)
      PROVE  PublicationsChain'
  <2>1. PICK prior \in SUBSET (PublishedLabels(p) \ {l}) :
          /\ Publish(p, l, versions[p][l], m, prior)
          /\ PublishedLabels(p) \ {l} # {} => prior # {}
    BY <1>5, PublicationOf
  <2>2. PICK named \in IF prior = {} THEN {NoLabel} ELSE prior :
          events' = [events EXCEPT ![p] = Append(@,
            [type |-> "PlaybookVersionPublished", version |-> l, by |-> m,
             superseded |-> named, ownerOverride |-> Separated(versions[p][l], "published", m)])]
    BY <2>1 DEF Publish
  <2> DEFINE e == [type |-> "PlaybookVersionPublished", version |-> l, by |-> m,
                   superseded |-> named,
                   ownerOverride |-> Separated(versions[p][l], "published", m)]
  <2>3. named = head[p]
    <3>1. Good(versions[p][l])
      BY <1>0, <1>5, PublicationOf, SoundRows DEF Exists
    <3>2. versions[p][l].status # "published"
      BY <1>5, <3>1, PublicationOf, OnlyPublishingPublishes
    <3>3. PublishedLabels(p) \ {l} = PublishedLabels(p)
      BY <3>2 DEF PublishedLabels
    <3>4. PublishedLabels(p) = IF head[p] = NoLabel THEN {} ELSE {head[p]}
      BY DEF HeadIsPublished
    <3>5. QED
      BY <2>1, <2>2, <3>3, <3>4
  <2>4. e \in Event /\ e.type = "PlaybookVersionPublished" /\ e.superseded = head[p] /\ e.version = l
    <3>1. named \in Labels \cup {NoLabel}
      BY <1>0, <2>3
    <3>2. Separated(versions[p][l], "published", m) \in BOOLEAN
      BY DEF Separated, SeparationViolated
    <3>3. QED
      BY <2>3, <3>1, <3>2, PublishedEventType
  <2>5. events' = [events EXCEPT ![p] = Append(@, e)] /\ head' = [head EXCEPT ![p] = l]
    BY <2>1, <2>2 DEF Publish
  <2> HIDE DEF e
  <2>6. Chain(Append(events[p], e), l)
    BY <1>0, <2>4, ChainGrows
  <2>7. QED
    BY <1>3, <2>4, <2>5, <2>6
<1>6. ASSUME NEW p \in Books, NEW m \in Members, CreatePlaybookDraft(p, m)
      PROVE  PublicationsChain'
  BY <1>2, <1>6 DEF CreatePlaybookDraft
<1>7. ASSUME NEW p \in Books, NEW m \in Members, NEW l \in Labels, NEW to \in REVIEW_ITEM_STATES,
             NEW override \in BOOLEAN, to # "published",
             TransitionPlaybookVersion(p, l, to, m, override)
      PROVE  PublicationsChain'
  BY <1>2, <1>7 DEF TransitionPlaybookVersion
<1>8. CASE UNCHANGED vars
  BY <1>2, <1>8 DEF vars
<1>9. QED
  BY <1>4, <1>5, <1>6, <1>7, <1>8 DEF Next

\* The audit trail of a playbook tells which version was in force when: each
\* publication names the one it replaced, and the last is the head
\* (transitionPlaybookVersion looks for the prior before it moves the row).
THEOREM PublicationsAreChained == Spec => []PublicationsChain
<1>1. Init => PublicationsChain
  BY DEF Init, PublicationsChain, PutInForce, PublicationsUpTo
<1>2. StoreInv /\ HeadIsPublished /\ PublicationsChain /\ [Next]_vars => PublicationsChain'
  BY ChainStep
<1>3. QED
  BY <1>1, <1>2, StoreInvHolds, OneVersionInForce, PTL DEF Spec

-----------------------------------------------------------------------------
\* What a row step may do to a row that exists.
AppendOnly(v, w) ==
  /\ w.author = v.author
  /\ v.status # "draft" => w.content = v.content
  /\ Len(v.reviewHistory) <= Len(w.reviewHistory)
  /\ SubSeq(w.reviewHistory, 1, Len(v.reviewHistory)) = v.reviewHistory

LEMMA AppendedPrefix ==
  ASSUME NEW h \in Seq(HistoryEntry), NEW e \in HistoryEntry
  PROVE  Len(h) <= Len(Append(h, e)) /\ SubSeq(Append(h, e), 1, Len(h)) = h
<1>1. Len(h) \in Nat /\ Len(Append(h, e)) = Len(h) + 1
  BY AppendProperties
<1>2. SubSeq(Append(h, e), 1, Len(h)) = h
  BY <1>1
<1>3. QED
  BY <1>1, <1>2

LEMMA RowStepAppends ==
  ASSUME NEW p \in Books, NEW l \in Labels, Sound(versions[p][l]), Exists(p, l), RowStep(p, l)
  PROVE  AppendOnly(versions[p][l], versions'[p][l])
<1> DEFINE v == versions[p][l]
           w == versions'[p][l]
<1>1. Good(v) /\ v \in Version /\ v.status # "none" /\ v.reviewHistory \in Seq(HistoryEntry)
  BY SoundRows DEF Exists, Version
<1>2. RowStep(p, l)
  OBVIOUS
<1>3. CASE w = v
  BY <1>1, <1>3 DEF AppendOnly
<1>4. ASSUME Revisable(v), NEW m \in Members, NEW c \in Contents, w = Revised(v, m, c)
      PROVE  AppendOnly(v, w)
  <2>1. Entry("saved", m, FALSE) \in HistoryEntry
    BY EntryType DEF HistoryActions
  <2> HIDE DEF v, w
  <2>2. QED
    BY <1>1, <1>4, <2>1, AppendedPrefix DEF AppendOnly, Revised, Revisable
<1>5. ASSUME NEW m \in Members, NEW to \in REVIEW_ITEM_STATES, NEW override \in BOOLEAN,
             MayTransition(v, to, m, override), w = Moved(v, to, m)
      PROVE  AppendOnly(v, w)
  <2> HIDE DEF v, w
  <2>1. Entry(HistoryAction(to), m, Separated(v, to, m)) \in HistoryEntry
    <3>1. to \in REVIEW_ITEM_STATES \ {"draft", "superseded"}
      BY <1>1, <1>5, MovesOfAVersion
    <3>2. HistoryAction(to) \in HistoryActions
      BY <3>1 DEF HistoryAction, HistoryActions, REVIEW_ITEM_STATES
    <3>3. Separated(v, to, m) \in BOOLEAN
      BY DEF Separated, SeparationViolated
    <3>4. QED
      BY <3>2, <3>3, EntryType
  <2>2. QED
    BY <1>1, <1>5, <2>1, AppendedPrefix DEF AppendOnly, Moved
<1>6. ASSUME NEW m \in Members, w = Superseded(v, m)
      PROVE  AppendOnly(v, w)
  <2>1. Entry("superseded", m, FALSE) \in HistoryEntry
    BY EntryType DEF HistoryActions
  <2> HIDE DEF v, w
  <2>2. QED
    BY <1>1, <1>6, <2>1, AppendedPrefix DEF AppendOnly, Superseded
<1>7. QED
  BY <1>1, <1>2, <1>3, <1>4, <1>5, <1>6 DEF RowStep

\* A version is append-only once it leaves draft.
THEOREM VersionsOnlyGrow == Spec => VersionsAreAppendOnly
<1>1. ASSUME StoreInv, [Next]_vars, NEW p \in Books, NEW l \in Labels, Exists(p, l)
      PROVE  AppendOnly(versions[p][l], versions'[p][l])
  <2>1. RowStep(p, l) /\ Sound(versions[p][l])
    BY <1>1, StoreStep DEF StoreInv
  <2>2. QED
    BY <1>1, <2>1, RowStepAppends
<1> DEFINE Grow == \A p \in Books, l \in Labels : Exists(p, l) =>
             AppendOnly(versions[p][l], versions'[p][l])
<1>2. StoreInv /\ [Next]_vars => [Grow]_vars
  BY <1>1
<1>3. VersionsAreAppendOnly <=> [][Grow]_vars
  BY DEF VersionsAreAppendOnly, AppendOnly
<1> HIDE DEF Grow
<1>4. QED
  BY <1>2, <1>3, StoreInvHolds, PTL DEF Spec

-----------------------------------------------------------------------------
(***************************************************************************)
(* The store implements PlaybookPromise.                                   *)
(***************************************************************************)

Phase == [p \in Books |-> [l \in Labels |-> PhaseOf[versions[p][l].status]]]

\* A step that rewrites one row changes the phase of that version alone.
LEMMA OnePhaseMoves ==
  ASSUME NEW p \in Books, NEW l \in Labels,
         \A q \in Books, k \in Labels : q # p \/ k # l => versions'[q][k] = versions[q][k]
  PROVE  /\ Phase' = [Phase EXCEPT ![p][l] = PhaseOf[versions'[p][l].status]]
         /\ Phase[p][l] = PhaseOf[versions[p][l].status]
         /\ PhaseOf[versions'[p][l].status] = Phase[p][l] => Phase' = Phase
<1> DEFINE f == [Phase EXCEPT ![p][l] = PhaseOf[versions'[p][l].status]]
<1>1. \A q \in Books, k \in Labels : Phase'[q][k] = PhaseOf[versions'[q][k].status]
  BY DEF Phase
<1>2. \A q \in Books, k \in Labels : f[q][k] =
        IF q = p /\ k = l THEN PhaseOf[versions'[p][l].status] ELSE PhaseOf[versions[q][k].status]
  BY DEF Phase
<1>3. \A q \in Books, k \in Labels : Phase'[q][k] = f[q][k]
  BY <1>1, <1>2
<1>4. /\ Phase' = [q \in Books |-> [k \in Labels |-> Phase'[q][k]]]
      /\ f = [q \in Books |-> [k \in Labels |-> f[q][k]]]
      /\ Phase = [q \in Books |-> [k \in Labels |-> Phase[q][k]]]
  <2>1. /\ Phase' = [q \in Books |-> Phase'[q]]
        /\ \A q \in Books : Phase'[q] = [k \in Labels |-> Phase'[q][k]]
    BY DEF Phase
  <2>2. /\ Phase = [q \in Books |-> Phase[q]]
        /\ \A q \in Books : Phase[q] = [k \in Labels |-> Phase[q][k]]
    BY DEF Phase
  <2>3. /\ f = [q \in Books |-> f[q]]
        /\ \A q \in Books : f[q] = [k \in Labels |-> f[q][k]]
    BY <2>2
  <2> HIDE DEF f
  <2>4. QED
    BY <2>1, <2>2, <2>3
<1>5. Phase' = f
  <2> HIDE DEF f
  <2>1. QED
    BY <1>3, <1>4
<1>6. Phase[p][l] = PhaseOf[versions[p][l].status]
  BY DEF Phase
<1>7. ASSUME PhaseOf[versions'[p][l].status] = Phase[p][l]
      PROVE  Phase' = Phase
  <2>1. \A q \in Books, k \in Labels : f[q][k] = Phase[q][k]
    BY <1>2, <1>6, <1>7 DEF Phase
  <2> HIDE DEF f
  <2>2. QED
    BY <1>4, <1>5, <2>1
<1>8. QED
  BY <1>5, <1>6, <1>7

\* A version that goes from one phase to another, as a review may.
LEMMA ReviewMoves ==
  ASSUME NEW p \in Books, NEW l \in Labels, NEW to,
         \/ Phase[p][l] = "none" /\ to = "open"
         \/ Phase[p][l] = "open" /\ to \in {"approved", "closed"},
         Phase' = [Phase EXCEPT ![p][l] = to], head' = head
  PROVE  Promise!Review(p, l)
<1>1. to \in Promise!Phases
  BY DEF Promise!Phases
<1>2. /\ <<Phase[p][l], to>> \in {<<"none", "open">>, <<"open", "approved">>, <<"open", "closed">>}
      /\ Phase' = [Phase EXCEPT ![p][l] = to]
  OBVIOUS
<1>3. QED
  BY <1>1, <1>2 DEF Promise!Review, Phase

LEMMA PromiseStep ==
  ASSUME StoreInv, HeadIsPublished, [Next]_vars
  PROVE  Promise!Next \/ (Phase' = Phase /\ head' = head)
<1>0. Shape /\ \A q \in Books, k \in Labels : Sound(versions[q][k])
  BY DEF StoreInv
<1>1. CASE UNCHANGED vars
  BY <1>1 DEF vars, Phase
<1>2. ASSUME NEW p \in Books, NEW m \in Members, CreatePlaybookDraft(p, m)
      PROVE  Phase' = Phase /\ head' = head
  BY <1>2 DEF CreatePlaybookDraft, Phase
<1>3. ASSUME NEW p \in Books, NEW m \in Members, NEW l \in Labels, NEW c \in Contents,
             SavePlaybookVersion(p, l, m, c)
      PROVE  Promise!Next \/ (Phase' = Phase /\ head' = head)
  <2>1. /\ \A q \in Books, k \in Labels : q # p \/ k # l => versions'[q][k] = versions[q][k]
        /\ versions[p][l].status \in {"none", "draft"}
        /\ versions'[p][l] = IF Exists(p, l) THEN Revised(versions[p][l], m, c)
                             ELSE Drafted(m, c)
    BY <1>0, <1>3, SaveStep
  <2>2. versions'[p][l].status = "draft"
    BY <2>1 DEF Revised, Drafted, Exists
  <2>3. head' = head
    BY <1>3 DEF SavePlaybookVersion
  <2>4. PhaseOf[versions'[p][l].status] = "open"
    BY <2>2 DEF PhaseOf
  <2>5. CASE versions[p][l].status = "draft"
    <3>1. PhaseOf[versions[p][l].status] = "open"
      BY <2>5 DEF PhaseOf
    <3>2. QED
      BY <2>1, <2>3, <2>4, <3>1, OnePhaseMoves
  <2>6. CASE versions[p][l].status = "none"
    <3>1. PhaseOf[versions[p][l].status] = "none"
      BY <2>6 DEF PhaseOf
    <3>2. Phase[p][l] = "none" /\ Phase' = [Phase EXCEPT ![p][l] = "open"]
      BY <2>1, <2>4, <3>1, OnePhaseMoves
    <3>3. Promise!Review(p, l)
      BY <2>3, <3>2, ReviewMoves
    <3>4. QED
      BY <3>3 DEF Promise!Next
  <2>7. QED
    BY <2>1, <2>5, <2>6
<1>4. ASSUME NEW p \in Books, NEW m \in Members, NEW l \in Labels,
             NEW to \in REVIEW_ITEM_STATES, NEW override \in BOOLEAN, to # "published",
             TransitionPlaybookVersion(p, l, to, m, override)
      PROVE  Promise!Next \/ (Phase' = Phase /\ head' = head)
  <2>1. /\ Exists(p, l)
        /\ MayTransition(versions[p][l], to, m, override)
        /\ versions' = [versions EXCEPT ![p][l] = Moved(versions[p][l], to, m)]
        /\ head' = head
    BY <1>4 DEF TransitionPlaybookVersion
  <2>2. /\ \A q \in Books, k \in Labels : q # p \/ k # l => versions'[q][k] = versions[q][k]
        /\ versions'[p][l].status = to
    BY <1>0, <2>1 DEF Shape, Moved
  <2>3. versions[p][l] \in Version
    BY <1>0, <2>1, SoundRows DEF Exists
  <2>4. /\ to \in {"awaiting_review", "approved", "rejected", "deferred", "withdrawn"}
        /\ versions[p][l].status \in {"draft", "awaiting_review"}
    <3>1. /\ to \in REVIEW_ITEM_STATES \ {"draft", "superseded"}
          /\ to = "awaiting_review" => versions[p][l].status = "draft"
          /\ to \in {"approved", "rejected", "deferred"} =>
               versions[p][l].status = "awaiting_review"
          /\ to = "withdrawn" => versions[p][l].status \in {"draft", "awaiting_review"}
      BY <2>1, <2>3, MovesOfAVersion
    <3>2. QED
      BY <1>4, <3>1 DEF REVIEW_ITEM_STATES
  <2>5. PhaseOf[versions[p][l].status] = "open"
    BY <2>4 DEF PhaseOf
  <2>6. CASE to = "awaiting_review"
    <3>1. PhaseOf[versions'[p][l].status] = "open"
      BY <2>2, <2>6 DEF PhaseOf
    <3>2. QED
      BY <2>1, <2>2, <2>5, <3>1, OnePhaseMoves
  <2>7. CASE to # "awaiting_review"
    <3>1. PhaseOf[to] \in {"approved", "closed"}
      BY <2>4, <2>7 DEF PhaseOf
    <3>2. Phase[p][l] = "open" /\ Phase' = [Phase EXCEPT ![p][l] = PhaseOf[to]]
      BY <2>2, <2>5, OnePhaseMoves
    <3> DEFINE t == PhaseOf[to]
    <3> HIDE DEF t
    <3>3. Promise!Review(p, l)
      <4>1. t \in {"approved", "closed"} /\ Phase' = [Phase EXCEPT ![p][l] = t]
        BY <3>1, <3>2 DEF t
      <4>2. QED
        BY <2>1, <3>2, <4>1, ReviewMoves
    <3>4. QED
      BY <3>3 DEF Promise!Next
  <2>8. QED
    BY <2>6, <2>7
<1>5. ASSUME NEW p \in Books, NEW m \in Members, NEW l \in Labels, NEW override \in BOOLEAN,
             TransitionPlaybookVersion(p, l, "published", m, override)
      PROVE  Promise!Next
  <2> DEFINE v == versions[p][l]
  <2>1. PICK prior \in SUBSET (PublishedLabels(p) \ {l}) :
          /\ Publish(p, l, v, m, prior)
          /\ PublishedLabels(p) \ {l} # {} => prior # {}
    BY <1>5, PublicationOf
  <2>2. /\ Exists(p, l) /\ MayTransition(v, "published", m, override)
        /\ prior \in SUBSET Labels
    BY <1>5, <2>1, PublicationOf DEF PublishedLabels
  <2>3. v \in Version
    BY <1>0, <2>2, SoundRows DEF Exists
  <2>4. v.status = "approved"
    BY <2>2, <2>3, MovesOfAVersion
  <2> HIDE DEF v
  <2>5. /\ versions'[p][l] = Moved(v, "published", m)
        /\ \A k \in Labels \ {l} : versions'[p][k] =
             IF k \in prior THEN Superseded(versions[p][k], m) ELSE versions[p][k]
        /\ \A q \in Books \ {p} : versions'[q] = versions[q]
        /\ head' = [head EXCEPT ![p] = l]
    BY <1>0, <2>1, <2>2, PublishRows
  <2>6. \A k \in Labels \ {l} : (k \in prior) <=> (k = head[p])
    <3>1. PublishedLabels(p) = IF head[p] = NoLabel THEN {} ELSE {head[p]}
      BY DEF HeadIsPublished
    <3>2. \A k \in Labels : k # NoLabel
      BY PlaybooksAssumption
    <3>3. QED
      BY <2>1, <3>1, <3>2
  <2>7. /\ versions'[p][l].status = "published"
        /\ \A k \in Labels \ {l} : versions'[p][k].status =
             IF k = head[p] THEN "superseded" ELSE versions[p][k].status
    <3>1. \A k \in Labels : Superseded(versions[p][k], m).status = "superseded"
      BY DEF Superseded
    <3>2. Moved(v, "published", m).status = "published"
      BY DEF Moved
    <3>3. QED
      BY <2>5, <2>6, <3>1, <3>2
  <2> DEFINE g == [k \in Labels |->
               IF k = l THEN "inForce" ELSE IF k = head[p] THEN "retired" ELSE Phase[p][k]]
  <2>8. Phase'[p] = g
    <3>1. \A k \in Labels : PhaseOf[versions'[p][k].status] = g[k]
      BY <2>7 DEF PhaseOf, Phase
    <3>2. Phase'[p] = [k \in Labels |-> PhaseOf[versions'[p][k].status]]
      BY DEF Phase
    <3>3. QED
      BY <3>1, <3>2
  <2>9. \A q \in Books \ {p} : Phase'[q] = Phase[q]
    BY <2>5 DEF Phase
  <2>10. Phase' = [Phase EXCEPT ![p] = g]
    <3> HIDE DEF g
    <3>1. Phase' = [q \in Books |-> Phase'[q]] /\ DOMAIN Phase = Books
      BY DEF Phase
    <3>2. QED
      BY <2>8, <2>9, <3>1
  <2>11. Phase[p][l] = "approved"
    BY <2>4 DEF Phase, v, PhaseOf
  <2>12. Promise!Publish(p, l)
    BY <2>5, <2>10, <2>11 DEF Promise!Publish, Phase
  <2>13. QED
    BY <2>12 DEF Promise!Next
<1>6. QED
  BY <1>1, <1>2, <1>3, <1>4, <1>5 DEF Next

\* Seen through the phases of its versions, the store does what PlaybookPromise says.
THEOREM StoreKeepsPromise == Spec => PromiseKept
<1>1. Init => Promise!Init
  <2>1. PhaseOf["none"] = "none"
    BY DEF PhaseOf
  <2>2. QED
    BY <2>1 DEF Init, Promise!Init, NoVersion
<1>2. StoreInv /\ HeadIsPublished /\ [Next]_vars => [Promise!Next]_<<Phase, head>>
  BY PromiseStep
<1>3. QED
  BY <1>1, <1>2, StoreInvHolds, OneVersionInForce, PTL
     DEF Spec, PromiseKept, Promise!Spec, Phase

-----------------------------------------------------------------------------
(***************************************************************************)
(* The repository.  What carries its proofs is the row lock: the row a     *)
(* publication has checked is still the row of the table when it writes.   *)
(***************************************************************************)

\* The publication a request carries out holds the lock of a row that is as it
\* read it, that its actor may publish, and that no other request holds.
TxInv ==
  /\ tx \in [Requests -> Publication \cup {NoTx}]
  /\ \A r \in Requests : Busy(r) =>
       /\ tx[r] \in Publication
       /\ versions[tx[r].book][tx[r].label] = tx[r].row
       /\ \E override \in BOOLEAN : MayTransition(tx[r].row, "published", tx[r].by, override)
  /\ \A r, s \in Requests : Busy(r) /\ Busy(s) /\ r # s =>
       tx[r].book # tx[s].book \/ tx[r].label # tx[s].label

RepositoryInv == StoreInv /\ TxInv

\* Rows that are locked stay as they are.
LockedRowsStay ==
  \A p \in Books, l \in Labels : Locked(p, l) => versions'[p][l] = versions[p][l]

LEMMA TxUntouched ==
  ASSUME TxInv, LockedRowsStay, tx' = tx
  PROVE  TxInv'
<1>1. \A r \in Requests : Busy(r) =>
        versions'[tx[r].book][tx[r].label] = versions[tx[r].book][tx[r].label]
  BY DEF TxInv, LockedRowsStay, Locked, Publication
<1>2. QED
  BY <1>1 DEF TxInv, Busy

\* A request that ends, or leaves its lock in place, keeps the others' locks.
LEMMA TxEnded ==
  ASSUME TxInv, NEW r \in Requests, tx' = [tx EXCEPT ![r] = NoTx],
         \A s \in Requests \ {r} : Busy(s) =>
           versions'[tx[s].book][tx[s].label] = versions[tx[s].book][tx[s].label]
  PROVE  TxInv'
<1>1. /\ tx'[r] = NoTx
      /\ \A s \in Requests \ {r} : tx'[s] = tx[s]
      /\ tx' \in [Requests -> Publication \cup {NoTx}]
  BY DEF TxInv
<1>2. ~Busy(r)' /\ \A s \in Requests \ {r} : Busy(s)' = Busy(s)
  BY <1>1 DEF Busy, NoTx
<1>3. QED
  BY <1>1, <1>2 DEF TxInv

\* What one step of the repository preserves, and does to each row.
Preserved ==
  /\ RepositoryInv'
  /\ \A q \in Books, k \in Labels : RowStep(q, k)

\* A lone row that is rewritten by a row step, while no request has it locked.
LEMMA LoneRow ==
  ASSUME RepositoryInv, NEW p \in Books, NEW l \in Labels, ~Locked(p, l),
         \A q \in Books, k \in Labels : RowStep(q, k),
         versions' = [q \in Books |-> [k \in Labels |-> versions'[q][k]]],
         \A q \in Books, k \in Labels : q # p \/ k # l => versions'[q][k] = versions[q][k],
         books' = books, head' = head, events' = events, tx' = tx
  PROVE  Preserved
<1>1. \A q \in Books, k \in Labels : Sound(versions'[q][k])
  BY RowStepKeepsSound DEF RepositoryInv, StoreInv
<1>2. versions' \in [Books -> [Labels -> Version \cup {NoVersion}]]
  BY <1>1, SoundTable
<1>3. StoreInv'
  BY <1>1, <1>2 DEF RepositoryInv, StoreInv, Shape
<1>4. LockedRowsStay
  BY DEF LockedRowsStay
<1>5. TxInv'
  BY <1>4, TxUntouched DEF RepositoryInv
<1>6. QED
  BY <1>3, <1>5 DEF Preserved, RepositoryInv

LEMMA SaveDraftStep ==
  ASSUME RepositoryInv, NEW p \in Books, NEW l \in Labels, NEW m \in Members,
         NEW c \in Contents, SaveDraftVersion(p, l, m, c)
  PROVE  Preserved
<1>1. Shape /\ versions[p][l].status = "none"
  BY DEF RepositoryInv, StoreInv, SaveDraftVersion, Exists
<1>2. ~Locked(p, l)
  <2> SUFFICES ASSUME NEW r \in Requests, Busy(r), tx[r].book = p, tx[r].label = l
               PROVE  FALSE
    BY DEF Locked
  <2>1. tx[r] \in Publication /\ versions[p][l] = tx[r].row
    BY DEF RepositoryInv, TxInv
  <2>2. versions[p][l].status \in REVIEW_ITEM_STATES
    BY <2>1 DEF Publication, Version
  <2>3. QED
    BY <1>1, <2>2 DEF REVIEW_ITEM_STATES
<1> DEFINE w == Drafted(m, c)
<1>3. /\ versions' = [versions EXCEPT ![p][l] = w]
      /\ books' = books /\ head' = head /\ events' = events /\ tx' = tx
      /\ \E n \in Members, d \in Contents : w = Drafted(n, d)
  BY DEF SaveDraftVersion
<1> HIDE DEF w
<1>4. /\ \A q \in Books, k \in Labels : RowStep(q, k)
      /\ versions'[p][l] = w
      /\ \A q \in Books, k \in Labels : q # p \/ k # l => versions'[q][k] = versions[q][k]
      /\ versions' = [q \in Books |-> [k \in Labels |-> versions'[q][k]]]
  BY <1>1, <1>3, RewriteIsRowStep
<1>5. QED
  BY <1>2, <1>3, <1>4, LoneRow

LEMMA TransitionStep ==
  ASSUME RepositoryInv, NEW p \in Books, NEW l \in Labels, NEW m \in Members,
         NEW to \in REVIEW_ITEM_STATES, NEW override \in BOOLEAN,
         TransitionVersion(p, l, to, m, override)
  PROVE  Preserved
<1>1. /\ Shape /\ Exists(p, l) /\ ~Locked(p, l)
      /\ MayTransition(versions[p][l], to, m, override)
      /\ versions' = [versions EXCEPT ![p][l] = Moved(versions[p][l], to, m)]
      /\ books' = books /\ head' = head /\ events' = events /\ tx' = tx
  BY DEF RepositoryInv, StoreInv, TransitionVersion
<1>2. /\ \A q \in Books, k \in Labels : RowStep(q, k)
      /\ versions' = [q \in Books |-> [k \in Labels |-> versions'[q][k]]]
      /\ \A q \in Books, k \in Labels : q # p \/ k # l => versions'[q][k] = versions[q][k]
      /\ versions'[p][l] = Moved(versions[p][l], to, m)
  BY <1>1, MoveStep
<1>3. QED
  BY <1>1, <1>2, LoneRow

\* Nothing of the table changes.
LEMMA StoreUntouched ==
  ASSUME RepositoryInv, UNCHANGED vars, TxInv'
  PROVE  Preserved
<1>1. StoreInv'
  BY DEF RepositoryInv, StoreInv, Shape, vars
<1>2. \A q \in Books, k \in Labels : RowStep(q, k)
  BY DEF RowStep, vars
<1>3. QED
  BY <1>1, <1>2 DEF Preserved, RepositoryInv

LEMMA BeginStep ==
  ASSUME RepositoryInv, NEW r \in Requests, NEW p \in Books, NEW l \in Labels,
         NEW m \in Members, NEW override \in BOOLEAN, BeginPublish(r, p, l, m, override)
  PROVE  Preserved
<1> DEFINE t == [stage |-> "locked", book |-> p, label |-> l, row |-> versions[p][l],
                 by |-> m, prior |-> {}]
<1>1. /\ ~Busy(r) /\ ~Locked(p, l) /\ UNCHANGED vars
      /\ MayTransition(versions[p][l], "published", m, override)
      /\ tx' = [tx EXCEPT ![r] = t]
  BY DEF BeginPublish
<1>2. versions[p][l] \in Version
  BY SoundRows DEF RepositoryInv, StoreInv, BeginPublish, Exists
<1>3. /\ t \in Publication /\ t.stage # "idle" /\ t.book = p /\ t.label = l
      /\ t.row = versions[p][l] /\ t.by = m
  BY <1>2 DEF Publication
<1> HIDE DEF t
<1>4. /\ tx'[r] = t /\ \A s \in Requests \ {r} : tx'[s] = tx[s]
      /\ tx' \in [Requests -> Publication \cup {NoTx}]
  BY <1>1, <1>3 DEF RepositoryInv, TxInv
<1>5. \A s \in Requests \ {r} : Busy(s)' = Busy(s)
  BY <1>4 DEF Busy
<1>6. \A s \in Requests \ {r} : Busy(s) => tx[s].book # p \/ tx[s].label # l
  BY <1>1 DEF Locked
<1>7. versions' = versions
  BY <1>1 DEF vars
<1>8. \A s \in Requests : Busy(s)' =>
        /\ tx'[s] \in Publication
        /\ versions'[tx'[s].book][tx'[s].label] = tx'[s].row
        /\ \E o \in BOOLEAN : MayTransition(tx'[s].row, "published", tx'[s].by, o)
  <2> SUFFICES ASSUME NEW s \in Requests, Busy(s)'
               PROVE  /\ tx'[s] \in Publication
                      /\ versions'[tx'[s].book][tx'[s].label] = tx'[s].row
                      /\ \E o \in BOOLEAN : MayTransition(tx'[s].row, "published", tx'[s].by, o)
    OBVIOUS
  <2>1. CASE s = r
    BY <1>1, <1>3, <1>4, <1>7, <2>1
  <2>2. CASE s # r
    BY <1>4, <1>5, <1>7, <2>2 DEF RepositoryInv, TxInv
  <2>3. QED
    BY <2>1, <2>2
<1>9. \A s, u \in Requests : Busy(s)' /\ Busy(u)' /\ s # u =>
        tx'[s].book # tx'[u].book \/ tx'[s].label # tx'[u].label
  BY <1>3, <1>4, <1>5, <1>6 DEF RepositoryInv, TxInv
<1>10. TxInv'
  BY <1>4, <1>8, <1>9 DEF TxInv
<1>11. QED
  BY <1>1, <1>10, StoreUntouched

LEMMA SelectStep ==
  ASSUME RepositoryInv, NEW r \in Requests, SelectPrior(r)
  PROVE  Preserved
<1> DEFINE prior == PublishedLabels(tx[r].book)
           t == [[tx[r] EXCEPT !.stage = "selected"] EXCEPT !.prior = prior]
<1>1. Busy(r) /\ UNCHANGED vars
  BY DEF SelectPrior, Busy
<1>2. tx[r] \in Publication
  BY <1>1 DEF RepositoryInv, TxInv
<1>3. tx' = [tx EXCEPT ![r] = t]
  BY DEF SelectPrior
<1>4. /\ t \in Publication /\ t.book = tx[r].book /\ t.label = tx[r].label
      /\ t.row = tx[r].row /\ t.by = tx[r].by
  BY <1>2 DEF Publication, PublishedLabels
<1> HIDE DEF t
<1>5. /\ tx'[r] = t /\ \A s \in Requests \ {r} : tx'[s] = tx[s]
      /\ tx' \in [Requests -> Publication \cup {NoTx}]
  BY <1>3, <1>4 DEF RepositoryInv, TxInv
<1>6. \A s \in Requests : /\ Busy(s)' => Busy(s)
                          /\ Busy(s) => /\ tx'[s].book = tx[s].book
                                        /\ tx'[s].label = tx[s].label
                                        /\ tx'[s].row = tx[s].row
                                        /\ tx'[s].by = tx[s].by
                                        /\ tx'[s] \in Publication
  BY <1>1, <1>4, <1>5 DEF Busy, RepositoryInv, TxInv
<1>7. versions' = versions
  BY <1>1 DEF vars
<1>8. TxInv'
  BY <1>5, <1>6, <1>7 DEF RepositoryInv, TxInv
<1>9. QED
  BY <1>1, <1>8, StoreUntouched

LEMMA RollbackStep ==
  ASSUME RepositoryInv, NEW r \in Requests, Rollback(r)
  PROVE  Preserved
<1>1. UNCHANGED vars /\ tx' = [tx EXCEPT ![r] = NoTx]
  BY DEF Rollback
<1>2. versions' = versions
  BY <1>1 DEF vars
<1>3. TxInv'
  BY <1>1, <1>2, TxEnded DEF RepositoryInv
<1>4. QED
  BY <1>1, <1>3, StoreUntouched

\* What a commit publishes: the row of the table, which is the row it locked.
LEMMA CommitOf ==
  ASSUME RepositoryInv, NEW r \in Requests, CommitPublish(r)
  PROVE  \E p \in Books, l \in Labels, m \in Members, override \in BOOLEAN,
            prior \in SUBSET Labels :
           /\ p = tx[r].book /\ l = tx[r].label
           /\ prior \subseteq PublishedLabels(p)
           /\ Exists(p, l)
           /\ MayTransition(versions[p][l], "published", m, override)
           /\ Publish(p, l, versions[p][l], m, prior)
<1>1. Busy(r) /\ Publish(tx[r].book, tx[r].label, tx[r].row, tx[r].by,
                         tx[r].prior \cap PublishedLabels(tx[r].book))
  BY DEF CommitPublish, Busy
<1>2. /\ tx[r] \in Publication
      /\ versions[tx[r].book][tx[r].label] = tx[r].row
      /\ \E override \in BOOLEAN : MayTransition(tx[r].row, "published", tx[r].by, override)
  BY <1>1 DEF RepositoryInv, TxInv
<1>3. /\ tx[r].book \in Books /\ tx[r].label \in Labels /\ tx[r].by \in Members
      /\ tx[r].row \in Version
  BY <1>2 DEF Publication
<1>4. Exists(tx[r].book, tx[r].label)
  BY <1>2, <1>3 DEF Exists, Version, REVIEW_ITEM_STATES
<1>5. QED
  BY <1>1, <1>2, <1>3, <1>4 DEF PublishedLabels

LEMMA CommitStep ==
  ASSUME RepositoryInv, NEW r \in Requests, CommitPublish(r)
  PROVE  Preserved
<1>1. PICK p \in Books, l \in Labels, m \in Members, override \in BOOLEAN,
           prior \in SUBSET Labels :
        /\ p = tx[r].book /\ l = tx[r].label
        /\ prior \subseteq PublishedLabels(p)
        /\ Exists(p, l)
        /\ MayTransition(versions[p][l], "published", m, override)
        /\ Publish(p, l, versions[p][l], m, prior)
  BY CommitOf
<1>2. Shape /\ prior \in SUBSET Labels /\ StoreInv
  BY DEF RepositoryInv, StoreInv, PublishedLabels
<1>3. \A q \in Books, k \in Labels : RowStep(q, k)
  BY <1>1, <1>2, PublishIsRowStep
<1> DEFINE v == versions[p][l]
<1>4. Publish(p, l, v, m, prior)
  BY <1>1
<1> HIDE DEF v
<1>5. /\ \A k \in Labels \ {l} : versions'[p][k] =
           IF k \in prior THEN Superseded(versions[p][k], m) ELSE versions[p][k]
      /\ \A q \in Books \ {p} : versions'[q] = versions[q]
      /\ versions' = [q \in Books |-> [k \in Labels |-> versions'[q][k]]]
  BY <1>2, <1>4, PublishRows
<1>6. \A q \in Books, k \in Labels : Sound(versions'[q][k])
  BY <1>2, <1>3, RowStepKeepsSound DEF StoreInv
<1>7. versions' \in [Books -> [Labels -> Version \cup {NoVersion}]]
  BY <1>5, <1>6, SoundTable
<1>8. /\ books' \subseteq Books
      /\ head' \in [Books -> Labels \cup {NoLabel}]
      /\ events' \in [Books -> Seq(Event)]
  BY <1>2, <1>4, PublishTypes
<1>9. StoreInv'
  BY <1>6, <1>7, <1>8 DEF StoreInv, Shape
<1>10. \A s \in Requests \ {r} : Busy(s) =>
         versions'[tx[s].book][tx[s].label] = versions[tx[s].book][tx[s].label]
  <2> SUFFICES ASSUME NEW s \in Requests \ {r}, Busy(s)
               PROVE  versions'[tx[s].book][tx[s].label] = versions[tx[s].book][tx[s].label]
    OBVIOUS
  <2>1. /\ tx[s] \in Publication
        /\ versions[tx[s].book][tx[s].label] = tx[s].row
        /\ \E o \in BOOLEAN : MayTransition(tx[s].row, "published", tx[s].by, o)
    BY DEF RepositoryInv, TxInv
  <2>2. /\ tx[s].row \in Version /\ tx[s].by \in Members
        /\ tx[s].book \in Books /\ tx[s].label \in Labels
    BY <2>1 DEF Publication
  <2>3. versions[tx[s].book][tx[s].label].status = "approved"
    BY <2>1, <2>2, MovesOfAVersion
  <2>4. tx[s].book # p \/ tx[s].label # l
    <3>1. Busy(r)
      BY DEF CommitPublish, Busy
    <3>2. QED
      BY <1>1, <3>1 DEF RepositoryInv, TxInv
  <2>5. tx[s].book = p => tx[s].label \notin prior
    BY <1>1, <2>3 DEF PublishedLabels
  <2>6. QED
    BY <1>5, <2>2, <2>4, <2>5
<1>11. tx' = [tx EXCEPT ![r] = NoTx]
  BY DEF CommitPublish
<1>12. TxInv'
  BY <1>10, <1>11, TxEnded DEF RepositoryInv
<1>13. QED
  BY <1>3, <1>9, <1>12 DEF Preserved, RepositoryInv

LEMMA RepositoryStep ==
  ASSUME RepositoryInv, [RepositoryNext]_repositoryVars
  PROVE  Preserved
<1>1. CASE UNCHANGED repositoryVars
  <2>1. UNCHANGED vars /\ tx' = tx /\ LockedRowsStay
    BY <1>1 DEF repositoryVars, vars, LockedRowsStay
  <2>2. TxInv'
    BY <2>1, TxUntouched DEF RepositoryInv
  <2>3. QED
    BY <2>1, <2>2, StoreUntouched
<1>2. ASSUME NEW p \in Books, CreatePlaybook(p)
      PROVE  Preserved
  <2>1. LockedRowsStay /\ tx' = tx
    BY <1>2 DEF CreatePlaybook, LockedRowsStay
  <2>2. TxInv'
    BY <2>1, TxUntouched DEF RepositoryInv
  <2>3. StoreInv' /\ \A q \in Books, k \in Labels : RowStep(q, k)
    BY <1>2 DEF CreatePlaybook, RepositoryInv, StoreInv, Shape, RowStep
  <2>4. QED
    BY <2>2, <2>3 DEF Preserved, RepositoryInv
<1>3. QED
  BY <1>1, <1>2, SaveDraftStep, TransitionStep, BeginStep, SelectStep, CommitStep,
     RollbackStep DEF RepositoryNext

LEMMA RepositoryInvHolds == RepositorySpec => []RepositoryInv
<1>1. RepositoryInit => RepositoryInv
  <2> SUFFICES ASSUME RepositoryInit PROVE RepositoryInv
    OBVIOUS
  <2>1. StoreInv
    BY DEF RepositoryInit, Init, StoreInv, Shape, Sound
  <2>2. TxInv
    BY DEF RepositoryInit, TxInv, Busy, NoTx
  <2>3. QED
    BY <2>1, <2>2 DEF RepositoryInv
<1>2. RepositoryInv /\ [RepositoryNext]_repositoryVars => RepositoryInv'
  BY RepositoryStep DEF Preserved
<1>3. QED
  BY <1>1, <1>2, PTL DEF RepositorySpec

-----------------------------------------------------------------------------
(***************************************************************************)
(* Theorems.                                                               *)
(***************************************************************************)

\* The state keeps its type.
THEOREM RepositoryTypeCorrect == RepositorySpec => []RepositoryTypeOK
<1>1. RepositoryInv => RepositoryTypeOK
  BY DEF RepositoryInv, StoreInv, TxInv, Shape, TypeOK, RepositoryTypeOK
<1>2. QED
  BY <1>1, RepositoryInvHolds, PTL

\* Concurrent publications and all, histories still tell the status ...
THEOREM RepositoryHistoryIsTruthful == RepositorySpec => []HistoryTellsStatus
<1>1. RepositoryInv => HistoryTellsStatus
  BY SoundRows DEF RepositoryInv, StoreInv, HistoryTellsStatus, Exists, Good, Tells
<1>2. QED
  BY <1>1, RepositoryInvHolds, PTL

\* ... duties stay separated ...
THEOREM RepositoryDutiesAreSeparated == RepositorySpec => []SeparationOfDuties
<1>1. RepositoryInv => SeparationOfDuties
  <2> SUFFICES ASSUME RepositoryInv, NEW p \in Books, NEW l \in Labels, Exists(p, l)
               PROVE  \A i \in 1..Len(versions[p][l].reviewHistory) :
                        Dutiful(versions[p][l], versions[p][l].reviewHistory[i])
    BY DEF SeparationOfDuties, Dutiful
  <2>1. Good(versions[p][l])
    BY SoundRows DEF RepositoryInv, StoreInv, Exists
  <2>2. QED
    BY <2>1 DEF Good, Duties
<1>2. QED
  BY <1>1, RepositoryInvHolds, PTL

\* ... and no history loses an entry, because the row that is written back is
\* locked from when it was read.
THEOREM HistoriesGrow == RepositorySpec => HistoriesOnlyGrow
<1> DEFINE Grow == \A p \in Books, l \in Labels : Exists(p, l) =>
             LET before == versions[p][l].reviewHistory
                 after  == versions'[p][l].reviewHistory
             IN  Len(before) <= Len(after) /\ SubSeq(after, 1, Len(before)) = before
<1>1. RepositoryInv /\ [RepositoryNext]_repositoryVars => [Grow]_repositoryVars
  <2> SUFFICES ASSUME RepositoryInv, [RepositoryNext]_repositoryVars,
                      NEW p \in Books, NEW l \in Labels, Exists(p, l)
               PROVE  AppendOnly(versions[p][l], versions'[p][l])
    BY DEF AppendOnly
  <2>1. RowStep(p, l)
    BY RepositoryStep DEF Preserved
  <2>2. Sound(versions[p][l])
    BY DEF RepositoryInv, StoreInv
  <2>3. QED
    BY <2>1, <2>2, RowStepAppends
<1>2. HistoriesOnlyGrow <=> [][Grow]_repositoryVars
  BY DEF HistoriesOnlyGrow
<1> HIDE DEF Grow
<1>3. QED
  BY <1>1, <1>2, RepositoryInvHolds, PTL DEF RepositorySpec

\* A published row stays published but when a publication supersedes it.
LEMMA OthersKeepPublished ==
  ASSUME RepositoryInv, [RepositoryNext]_repositoryVars,
         \A r \in Requests : ~CommitPublish(r)
  PROVE  /\ head' = head
         /\ \A p \in Books, l \in Labels :
              versions[p][l].status = "published" => versions'[p][l].status = "published"
<1>0. Shape /\ \A q \in Books, k \in Labels : Sound(versions[q][k])
  BY DEF RepositoryInv, StoreInv
<1>1. ASSUME NEW p \in Books, NEW l \in Labels, NEW m \in Members, NEW c \in Contents,
             SaveDraftVersion(p, l, m, c)
      PROVE  /\ head' = head
             /\ \A q \in Books, k \in Labels :
                  versions[q][k].status = "published" => versions'[q][k].status = "published"
  BY <1>0, <1>1 DEF SaveDraftVersion, Exists, Shape
<1>2. ASSUME NEW p \in Books, NEW l \in Labels, NEW m \in Members,
             NEW to \in REVIEW_ITEM_STATES, NEW override \in BOOLEAN,
             TransitionVersion(p, l, to, m, override)
      PROVE  /\ head' = head
             /\ \A q \in Books, k \in Labels :
                  versions[q][k].status = "published" => versions'[q][k].status = "published"
  <2>1. versions[p][l].status # "published"
    <3>1. Exists(p, l) /\ MayTransition(versions[p][l], to, m, override)
      BY <1>2 DEF TransitionVersion
    <3>2. versions[p][l] \in Version
      BY <1>0, <3>1, SoundRows DEF Exists
    <3>3. QED
      BY <3>1, <3>2, MovesOfAVersion
  <2>2. QED
    BY <1>0, <1>2, <2>1 DEF TransitionVersion, Shape
<1>3. CASE UNCHANGED vars
  BY <1>3 DEF vars
<1>4. ASSUME NEW p \in Books, CreatePlaybook(p)
      PROVE  /\ head' = head
             /\ \A q \in Books, k \in Labels :
                  versions[q][k].status = "published" => versions'[q][k].status = "published"
  BY <1>4 DEF CreatePlaybook
<1>5. ASSUME NEW r \in Requests,
             SelectPrior(r) \/ Rollback(r) \/
             \E p \in Books, l \in Labels, m \in Members, override \in BOOLEAN :
               BeginPublish(r, p, l, m, override)
      PROVE  UNCHANGED vars
  BY <1>5 DEF SelectPrior, Rollback, BeginPublish
<1>6. UNCHANGED repositoryVars => UNCHANGED vars
  BY DEF repositoryVars, vars
<1>7. QED
  BY <1>1, <1>2, <1>3, <1>4, <1>5, <1>6 DEF RepositoryNext

\* However publications overlap, a head names a published version.
THEOREM HeadsStayPublished == RepositorySpec => []HeadStaysPublished
<1>1. RepositoryInit => HeadStaysPublished
  BY DEF RepositoryInit, Init, HeadStaysPublished
<1>2. RepositoryInv /\ HeadStaysPublished /\ [RepositoryNext]_repositoryVars
        => HeadStaysPublished'
  <2> SUFFICES ASSUME RepositoryInv, HeadStaysPublished, [RepositoryNext]_repositoryVars
               PROVE  HeadStaysPublished'
    OBVIOUS
  <2>1. CASE \A r \in Requests : ~CommitPublish(r)
    <3>1. /\ head' = head
          /\ \A p \in Books, l \in Labels :
               versions[p][l].status = "published" => versions'[p][l].status = "published"
      BY <2>1, OthersKeepPublished
    <3>2. QED
      BY <3>1 DEF HeadStaysPublished, PublishedLabels
  <2>2. ASSUME NEW r \in Requests, CommitPublish(r)
        PROVE  HeadStaysPublished'
    <3>1. PICK p \in Books, l \in Labels, m \in Members, override \in BOOLEAN,
               prior \in SUBSET Labels :
            /\ Exists(p, l)
            /\ Publish(p, l, versions[p][l], m, prior)
      BY <2>2, CommitOf
    <3> DEFINE v == versions[p][l]
    <3>2. Shape /\ Publish(p, l, v, m, prior) /\ prior \in SUBSET Labels
      BY <3>1 DEF RepositoryInv, StoreInv
    <3> HIDE DEF v
    <3>3. /\ versions'[p][l] = Moved(v, "published", m)
          /\ \A k \in Labels \ {l} : versions'[p][k] =
               IF k \in prior THEN Superseded(versions[p][k], m) ELSE versions[p][k]
          /\ \A q \in Books \ {p} : versions'[q] = versions[q]
          /\ head' = [head EXCEPT ![p] = l]
      BY <3>2, PublishRows
    <3>4. versions'[p][l].status = "published" /\ head'[p] = l
      BY <3>2, <3>3 DEF Moved, Shape
    <3>5. \A q \in Books \ {p} : head'[q] = head[q]
      BY <3>2, <3>3 DEF Shape
    <3>6. QED
      BY <3>3, <3>4, <3>5 DEF HeadStaysPublished, PublishedLabels
  <2>3. QED
    BY <2>1, <2>2
<1>3. QED
  BY <1>1, <1>2, RepositoryInvHolds, PTL DEF RepositorySpec

-----------------------------------------------------------------------------
(***************************************************************************)
(* A version is published once.  The row lock keeps its history and the    *)
(* audit trail in step: both grow in the one commit that moves the row     *)
(* from approved to published, and no row comes back to approved.          *)
(***************************************************************************)

WasInForce(v) == v.status \in {"published", "superseded"}

PublishedEntries(h) == {k \in DOMAIN h : h[k].action = "published"}

EventsNaming(h, l) == {k \in DOMAIN h : h[k].version = l}

AtMostOne(S) == \A j, k \in S : j = k

\* One row: a history with one publication exactly if the version came into force.
Once(v) ==
  v.status # "none" =>
    /\ AtMostOne(PublishedEntries(v.reviewHistory))
    /\ PublishedEntries(v.reviewHistory) # {} <=> WasInForce(v)

\* One version in the audit trail of its playbook.
ToldOnce(p, l) ==
  /\ AtMostOne(EventsNaming(events[p], l))
  /\ EventsNaming(events[p], l) # {} <=> WasInForce(versions[p][l])

OnceInv ==
  \A p \in Books, l \in Labels : Once(versions[p][l]) /\ ToldOnce(p, l)

LEMMA AppendedEntries ==
  ASSUME NEW h \in Seq(HistoryEntry), NEW e \in HistoryEntry
  PROVE  PublishedEntries(Append(h, e)) =
           PublishedEntries(h) \cup (IF e.action = "published" THEN {Len(h) + 1} ELSE {})
<1>1. DOMAIN h = 1..Len(h) /\ DOMAIN Append(h, e) = 1..(Len(h) + 1) /\ Len(h) \in Nat
  BY AppendProperties
<1>2. Append(h, e)[Len(h) + 1] = e /\ \A k \in 1..Len(h) : Append(h, e)[k] = h[k]
  BY AppendProperties
<1>3. 1..(Len(h) + 1) = (1..Len(h)) \cup {Len(h) + 1} /\ Len(h) + 1 \notin 1..Len(h)
  BY <1>1
<1>4. QED
  BY <1>1, <1>2, <1>3 DEF PublishedEntries

LEMMA AppendedNaming ==
  ASSUME NEW h \in Seq(Event), NEW e \in Event, NEW l
  PROVE  EventsNaming(Append(h, e), l) =
           EventsNaming(h, l) \cup (IF e.version = l THEN {Len(h) + 1} ELSE {})
<1>1. DOMAIN h = 1..Len(h) /\ DOMAIN Append(h, e) = 1..(Len(h) + 1) /\ Len(h) \in Nat
  BY AppendProperties
<1>2. Append(h, e)[Len(h) + 1] = e /\ \A k \in 1..Len(h) : Append(h, e)[k] = h[k]
  BY AppendProperties
<1>3. 1..(Len(h) + 1) = (1..Len(h)) \cup {Len(h) + 1} /\ Len(h) + 1 \notin 1..Len(h)
  BY <1>1
<1>4. QED
  BY <1>1, <1>2, <1>3 DEF EventsNaming

\* A row comes into force only when it is published, and stays so.
ComesIntoForce(v, w) == v.status = "approved" /\ w.status = "published"

LEMMA OnceAppended ==
  ASSUME NEW v, Good(v), Once(v), NEW e \in HistoryEntry, NEW w, w.status # "none",
         w.reviewHistory = Append(v.reviewHistory, e),
         e.action = "published" <=> ComesIntoForce(v, w),
         WasInForce(w) <=> WasInForce(v) \/ ComesIntoForce(v, w)
  PROVE  Once(w)
<1>1. v.reviewHistory \in Seq(HistoryEntry) /\ v.status # "none"
  BY DEF Good, Version, REVIEW_ITEM_STATES
<1>2. PublishedEntries(w.reviewHistory) = PublishedEntries(v.reviewHistory) \cup
        (IF e.action = "published" THEN {Len(v.reviewHistory) + 1} ELSE {})
  BY <1>1, AppendedEntries
<1>3. e.action = "published" => PublishedEntries(v.reviewHistory) = {}
  BY <1>1 DEF Once, ComesIntoForce, WasInForce
<1>4. QED
  BY <1>1, <1>2, <1>3 DEF Once, AtMostOne

LEMMA RowStepOnce ==
  ASSUME NEW p \in Books, NEW l \in Labels, Sound(versions[p][l]), Once(versions[p][l]),
         RowStep(p, l)
  PROVE  /\ Once(versions'[p][l])
         /\ WasInForce(versions'[p][l]) <=>
              WasInForce(versions[p][l]) \/ ComesIntoForce(versions[p][l], versions'[p][l])
<1> DEFINE v == versions[p][l]
           w == versions'[p][l]
           Goal == Once(w) /\ (WasInForce(w) <=> WasInForce(v) \/ ComesIntoForce(v, w))
<1> SUFFICES Goal
  OBVIOUS
<1>1. CASE w = v
  BY <1>1 DEF ComesIntoForce, WasInForce
<1>2. ASSUME v.status = "none", NEW m \in Members, NEW c \in Contents, w = Drafted(m, c)
      PROVE  Goal
  <2>0. v.status = "none" /\ w = Drafted(m, c)
    BY <1>2
  <2> HIDE DEF v, w
  <2> DEFINE e == Entry("saved", m, FALSE)
  <2>1. w.status = "draft" /\ w.reviewHistory = <<e>>
    BY <2>0 DEF Drafted
  <2>2. e.action = "saved"
    BY DEF Entry
  <2> HIDE DEF e
  <2>3. PublishedEntries(w.reviewHistory) = {}
    BY <2>1, <2>2 DEF PublishedEntries
  <2>4. QED
    BY <2>0, <2>1, <2>3 DEF Once, AtMostOne, WasInForce, ComesIntoForce
<1>3. ASSUME Exists(p, l), Revisable(v), NEW m \in Members, NEW c \in Contents,
             w = Revised(v, m, c)
      PROVE  Goal
  <2>1. Good(v) /\ v.status = "draft" /\ Once(v)
    BY <1>3, SoundRows DEF Exists, Revisable
  <2> DEFINE e == Entry("saved", m, FALSE)
  <2> HIDE DEF v, w
  <2>2. e \in HistoryEntry /\ e.action = "saved"
    <3>1. "saved" \in HistoryActions
      BY DEF HistoryActions
    <3>2. QED
      BY <3>1, EntryType
  <2>3. w.status = v.status /\ w.reviewHistory = Append(v.reviewHistory, e)
    BY <1>3 DEF Revised
  <2> HIDE DEF e
  <2>4. (WasInForce(w) <=> WasInForce(v) \/ ComesIntoForce(v, w)) /\ ~ComesIntoForce(v, w)
    BY <2>1, <2>3 DEF WasInForce, ComesIntoForce
  <2>5. w.status # "none"
    BY <2>1, <2>3
  <2>6. QED
    BY <2>1, <2>2, <2>3, <2>4, <2>5, OnceAppended
<1>4. ASSUME Exists(p, l), NEW m \in Members, NEW to \in REVIEW_ITEM_STATES,
             NEW override \in BOOLEAN, MayTransition(v, to, m, override), w = Moved(v, to, m)
      PROVE  Goal
  <2>1. Good(v) /\ v \in Version
    BY <1>4, SoundRows DEF Exists
  <2> DEFINE e == Entry(HistoryAction(to), m, Separated(v, to, m))
  <2>2. w.status = to /\ w.reviewHistory = Append(v.reviewHistory, e)
    BY <1>4 DEF Moved
  <2>3. Once(v)
    OBVIOUS
  <2>4. MayTransition(v, to, m, override)
    BY <1>4
  <2> HIDE DEF v, w
  <2>5. /\ to \in REVIEW_ITEM_STATES \ {"draft", "superseded"}
        /\ (to = "published") <=> (v.status = "approved")
        /\ v.status \in {"draft", "awaiting_review", "approved"}
    BY <2>1, <2>4, MovesOfAVersion
  <2>6. HistoryAction(to) \in HistoryActions /\ Separated(v, to, m) \in BOOLEAN
    BY <2>5 DEF HistoryAction, HistoryActions, Separated, SeparationViolated, REVIEW_ITEM_STATES
  <2>7. e \in HistoryEntry /\ (e.action = "published" <=> to = "published")
    <3>1. e \in HistoryEntry /\ e.action = HistoryAction(to)
      BY <2>6, EntryType
    <3>2. HistoryAction(to) = "published" <=> to = "published"
      BY DEF HistoryAction
    <3>3. QED
      BY <3>1, <3>2
  <2> HIDE DEF e
  <2>8. /\ WasInForce(w) <=> WasInForce(v) \/ ComesIntoForce(v, w)
        /\ e.action = "published" <=> ComesIntoForce(v, w)
    BY <2>2, <2>5, <2>7 DEF WasInForce, ComesIntoForce
  <2>9. w.status # "none"
    BY <2>2, <2>5 DEF REVIEW_ITEM_STATES
  <2>10. QED
    BY <2>1, <2>2, <2>3, <2>7, <2>8, <2>9, OnceAppended
<1>5. ASSUME v.status = "published", NEW m \in Members, w = Superseded(v, m)
      PROVE  Goal
  <2>1. Good(v) /\ v.status = "published" /\ Once(v)
    BY <1>5, SoundRows
  <2> DEFINE e == Entry("superseded", m, FALSE)
  <2> HIDE DEF v, w
  <2>2. e \in HistoryEntry /\ e.action = "superseded"
    <3>1. "superseded" \in HistoryActions
      BY DEF HistoryActions
    <3>2. QED
      BY <3>1, EntryType
  <2>3. w.status = "superseded" /\ w.reviewHistory = Append(v.reviewHistory, e)
    BY <1>5 DEF Superseded
  <2> HIDE DEF e
  <2>4. (WasInForce(w) <=> WasInForce(v) \/ ComesIntoForce(v, w)) /\ ~ComesIntoForce(v, w)
    BY <2>1, <2>3 DEF WasInForce, ComesIntoForce
  <2>5. w.status # "none"
    BY <2>3
  <2>6. QED
    BY <2>1, <2>2, <2>3, <2>4, <2>5, OnceAppended
<1>6. QED
  BY <1>1, <1>2, <1>3, <1>4, <1>5 DEF RowStep

\* Without a commit nothing comes into force and nothing is told.
LEMMA QuietStep ==
  ASSUME RepositoryInv, [RepositoryNext]_repositoryVars,
         \A r \in Requests : ~CommitPublish(r)
  PROVE  /\ events' = events
         /\ \A p \in Books, l \in Labels : ~ComesIntoForce(versions[p][l], versions'[p][l])
<1>0. Shape
  BY DEF RepositoryInv, StoreInv
<1>1. UNCHANGED <<versions, events>> =>
        /\ events' = events
        /\ \A p \in Books, l \in Labels : ~ComesIntoForce(versions[p][l], versions'[p][l])
  BY DEF ComesIntoForce
<1>2. ASSUME NEW p \in Books, NEW l \in Labels, NEW m \in Members, NEW c \in Contents,
             SaveDraftVersion(p, l, m, c)
      PROVE  /\ events' = events
             /\ \A q \in Books, k \in Labels :
                  ~ComesIntoForce(versions[q][k], versions'[q][k])
  BY <1>0, <1>2 DEF SaveDraftVersion, Exists, Shape, ComesIntoForce
<1>3. ASSUME NEW p \in Books, NEW l \in Labels, NEW m \in Members,
             NEW to \in REVIEW_ITEM_STATES, NEW override \in BOOLEAN,
             TransitionVersion(p, l, to, m, override)
      PROVE  /\ events' = events
             /\ \A q \in Books, k \in Labels :
                  ~ComesIntoForce(versions[q][k], versions'[q][k])
  <2>1. /\ to # "published" /\ events' = events
        /\ versions' = [versions EXCEPT ![p][l] = Moved(versions[p][l], to, m)]
    BY <1>3 DEF TransitionVersion
  <2>2. Moved(versions[p][l], to, m).status = to
    BY DEF Moved
  <2>3. QED
    BY <1>0, <2>1, <2>2 DEF Shape, ComesIntoForce
<1>4. ASSUME NEW p \in Books, CreatePlaybook(p) PROVE UNCHANGED <<versions, events>>
  BY <1>4 DEF CreatePlaybook
<1>5. ASSUME NEW r \in Requests,
             SelectPrior(r) \/ Rollback(r) \/
             \E p \in Books, l \in Labels, m \in Members, override \in BOOLEAN :
               BeginPublish(r, p, l, m, override)
      PROVE  UNCHANGED <<versions, events>>
  BY <1>5 DEF SelectPrior, Rollback, BeginPublish, vars
<1>6. UNCHANGED repositoryVars => UNCHANGED <<versions, events>>
  BY DEF repositoryVars
<1>7. QED
  BY <1>1, <1>2, <1>3, <1>4, <1>5, <1>6 DEF RepositoryNext

\* A commit tells of the one version that comes into force.
LEMMA CommitTells ==
  ASSUME RepositoryInv, OnceInv, NEW r \in Requests, CommitPublish(r),
         NEW q \in Books, NEW k \in Labels
  PROVE  /\ AtMostOne(EventsNaming(events'[q], k))
         /\ EventsNaming(events'[q], k) # {} <=>
              WasInForce(versions[q][k]) \/ ComesIntoForce(versions[q][k], versions'[q][k])
<1>1. PICK p \in Books, l \in Labels, m \in Members, override \in BOOLEAN,
           prior \in SUBSET Labels :
        /\ Exists(p, l) /\ prior \subseteq PublishedLabels(p)
        /\ MayTransition(versions[p][l], "published", m, override)
        /\ Publish(p, l, versions[p][l], m, prior)
  BY CommitOf
<1> DEFINE v == versions[p][l]
<1>2. Shape /\ StoreInv /\ Publish(p, l, v, m, prior)
  BY <1>1 DEF RepositoryInv, StoreInv
<1>3. v.status = "approved"
  BY <1>1, <1>2, SoundRows, MovesOfAVersion DEF StoreInv, Exists
<1> HIDE DEF v
<1>4. /\ versions'[p][l] = Moved(v, "published", m)
      /\ \A j \in Labels \ {l} : versions'[p][j] =
           IF j \in prior THEN Superseded(versions[p][j], m) ELSE versions[p][j]
      /\ \A b \in Books \ {p} : versions'[b] = versions[b]
  BY <1>2, PublishRows
<1>5. ComesIntoForce(v, versions'[p][l])
  BY <1>3, <1>4 DEF Moved, ComesIntoForce
<1>6. q # p \/ k # l => ~ComesIntoForce(versions[q][k], versions'[q][k])
  <2>1. CASE q # p
    BY <1>4, <2>1 DEF ComesIntoForce
  <2>2. CASE q = p /\ k # l
    <3>1. Superseded(versions[p][k], m).status = "superseded"
      BY DEF Superseded
    <3>2. \/ versions'[q][k] = Superseded(versions[p][k], m)
          \/ versions'[q][k] = versions[q][k]
      BY <1>4, <2>2
    <3>3. QED
      BY <2>2, <3>1, <3>2 DEF ComesIntoForce
  <2>3. QED
    BY <2>1, <2>2
<1>7. PICK named \in IF prior = {} THEN {NoLabel} ELSE prior :
        events' = [events EXCEPT ![p] = Append(@,
          [type |-> "PlaybookVersionPublished", version |-> l, by |-> m,
           superseded |-> named, ownerOverride |-> Separated(v, "published", m)])]
  BY <1>2 DEF Publish
<1> DEFINE e == [type |-> "PlaybookVersionPublished", version |-> l, by |-> m,
                 superseded |-> named, ownerOverride |-> Separated(v, "published", m)]
<1>8. e \in Event /\ e.version = l
  <2>1. named \in Labels \cup {NoLabel} /\ Separated(v, "published", m) \in BOOLEAN
    BY <1>7 DEF Separated, SeparationViolated
  <2>2. QED
    BY <2>1, PublishedEventType
<1>9. events' = [events EXCEPT ![p] = Append(@, e)]
  BY <1>7
<1> HIDE DEF e
<1>10. ToldOnce(q, k) /\ events[q] \in Seq(Event)
  BY <1>2 DEF OnceInv, StoreInv
<1>11. CASE q # p
  BY <1>2, <1>6, <1>9, <1>10, <1>11 DEF StoreInv, ToldOnce
<1>12. CASE q = p
  <2>1. EventsNaming(events'[q], k) =
          EventsNaming(events[q], k) \cup (IF l = k THEN {Len(events[q]) + 1} ELSE {})
    BY <1>2, <1>8, <1>9, <1>10, <1>12, AppendedNaming DEF StoreInv
  <2>2. CASE k # l
    BY <1>6, <1>10, <2>1, <2>2 DEF ToldOnce
  <2>3. CASE k = l
    <3>1. EventsNaming(events[q], k) = {}
      BY <1>3, <1>10, <1>12, <2>3 DEF ToldOnce, WasInForce, v
    <3>2. ComesIntoForce(versions[q][k], versions'[q][k])
      BY <1>5, <1>12, <2>3 DEF v
    <3>3. QED
      BY <2>1, <2>3, <3>1, <3>2 DEF AtMostOne
  <2>4. QED
    BY <2>2, <2>3
<1>13. QED
  BY <1>11, <1>12

LEMMA OnceStep ==
  ASSUME RepositoryInv, OnceInv, [RepositoryNext]_repositoryVars
  PROVE  OnceInv'
<1> SUFFICES ASSUME NEW p \in Books, NEW l \in Labels
             PROVE  Once(versions'[p][l]) /\ ToldOnce(p, l)'
  BY DEF OnceInv
<1>1. /\ Once(versions'[p][l])
      /\ WasInForce(versions'[p][l]) <=>
           WasInForce(versions[p][l]) \/ ComesIntoForce(versions[p][l], versions'[p][l])
  <2>1. RowStep(p, l) /\ Sound(versions[p][l]) /\ Once(versions[p][l])
    BY RepositoryStep DEF Preserved, RepositoryInv, StoreInv, OnceInv
  <2>2. QED
    BY <2>1, RowStepOnce
<1>2. CASE \A r \in Requests : ~CommitPublish(r)
  <2>1. events' = events /\ ~ComesIntoForce(versions[p][l], versions'[p][l])
    BY <1>2, QuietStep
  <2>2. QED
    BY <1>1, <2>1 DEF OnceInv, ToldOnce
<1>3. ASSUME NEW r \in Requests, CommitPublish(r) PROVE ToldOnce(p, l)'
  <2>1. /\ AtMostOne(EventsNaming(events'[p], l))
        /\ EventsNaming(events'[p], l) # {} <=>
             WasInForce(versions[p][l]) \/ ComesIntoForce(versions[p][l], versions'[p][l])
    BY <1>3, CommitTells
  <2>2. QED
    BY <1>1, <2>1 DEF ToldOnce
<1>4. QED
  BY <1>1, <1>2, <1>3

\* However many requests publish it at once, a version is published by one of
\* them: the row stays locked from the check to the commit (transitionVersion).
THEOREM VersionsArePublishedOnce == RepositorySpec => []PublishedOnce
<1>1. RepositoryInit => OnceInv
  BY DEF RepositoryInit, Init, OnceInv, Once, ToldOnce, AtMostOne, EventsNaming, WasInForce,
         NoVersion
<1>2. RepositoryInv /\ OnceInv /\ [RepositoryNext]_repositoryVars => OnceInv'
  BY OnceStep
<1>3. OnceInv => PublishedOnce
  BY DEF OnceInv, Once, ToldOnce, AtMostOne, PublishedOnce, PublicationsOf, PublicationEvents,
         PublishedEntries, EventsNaming, WasInForce, Exists
<1>4. QED
  BY <1>1, <1>2, <1>3, RepositoryInvHolds, PTL DEF RepositorySpec

=============================================================================
