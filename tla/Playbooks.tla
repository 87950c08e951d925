------------------------------ MODULE Playbooks -----------------------------
(***************************************************************************)
(* Playbooks and their versions in the store (packages/shared/src/store/   *)
(* store.ts, createPlaybookDraft, savePlaybookVersion and                  *)
(* transitionPlaybookVersion).  A version is found by its playbook and its *)
(* label; a method is synchronous, so it is one action, and a denied call  *)
(* is the action not being enabled.  A content is what the policies read   *)
(* of it: whether it is of high impact and whether a field of it is still  *)
(* discovery_required.                                                     *)
(***************************************************************************)
EXTENDS PlaybookKernel, Sequences

CONSTANTS
  Books,            \* playbook keys
  Labels,           \* version labels
  NoLabel,          \* null
  Contents,
  HighImpact,       \* contents with a high-risk review checkpoint
  Unresolved,       \* contents with a discovery_required field
  Members,
  NoMember,         \* null
  RoleOf,           \* the reviewer role of each member, or "null"
  PermitsOverride,  \* allowSingleOperatorPlaybookOverride
  MaxSaves          \* bound: times the content of one version is saved

ASSUME PlaybooksAssumption ==
  /\ NoLabel \notin Labels
  /\ NoMember \notin Members
  /\ HighImpact \subseteq Contents /\ Unresolved \subseteq Contents
  /\ RoleOf \in [Members -> REVIEWER_ROLES \cup {"null"}]
  /\ PermitsOverride \in BOOLEAN
  /\ MaxSaves \in Nat

VARIABLES
  books,     \* the playbooks that exist
  versions,  \* [Books -> [Labels -> Version]]
  head,      \* currentVersionId of each playbook
  events     \* the outbox events of each playbook

vars == <<books, versions, head, events>>

HistoryActions ==
  {"saved", "submitted", "approved", "rejected", "deferred", "published", "withdrawn",
   "superseded"}

HistoryEntry == [action : HistoryActions, by : Members, ownerOverride : BOOLEAN]

Version ==
  [status : REVIEW_ITEM_STATES, author : Members, approver : Members \cup {NoMember},
   content : Contents, reviewHistory : Seq(HistoryEntry)]

NoVersion == [status |-> "none"]

Event ==
  [type : {"PlaybookVersionSaved", "PlaybookVersionPublished"}, version : Labels,
   by : Members, superseded : Labels \cup {NoLabel}, ownerOverride : BOOLEAN]

TypeOK ==
  /\ books \subseteq Books
  /\ versions \in [Books -> [Labels -> Version \cup {NoVersion}]]
  /\ head \in [Books -> Labels \cup {NoLabel}]
  /\ events \in [Books -> Seq(Event)]

Init ==
  /\ books = {}
  /\ versions = [p \in Books |-> [l \in Labels |-> NoVersion]]
  /\ head = [p \in Books |-> NoLabel]
  /\ events = [p \in Books |-> <<>>]

Exists(p, l) == versions[p][l].status # "none"

PublishedLabels(p) == {l \in Labels : versions[p][l].status = "published"}

Entry(action, m, override) == [action |-> action, by |-> m, ownerOverride |-> override]

-----------------------------------------------------------------------------
(***************************************************************************)
(* createPlaybookDraft and savePlaybookVersion.                            *)
(***************************************************************************)
CreatePlaybookDraft(p, m) ==
  /\ CanActOnPlaybookVersion("draft", RoleOf[m], TRUE, FALSE, FALSE, PermitsOverride)
  /\ p \notin books
  /\ books' = books \cup {p}
  /\ UNCHANGED <<versions, head, events>>

Drafted(m, c) ==
  [status |-> "draft", author |-> m, approver |-> NoMember, content |-> c,
   reviewHistory |-> <<Entry("saved", m, FALSE)>>]

\* A revision keeps the author, whoever revises.
Revised(v, m, c) ==
  [status |-> v.status, author |-> v.author, approver |-> v.approver, content |-> c,
   reviewHistory |-> Append(v.reviewHistory, Entry("saved", m, FALSE))]

\* Mutant: content may still be revised while it awaits review.
RevisableLate(v) == v.status \in {"draft", "awaiting_review"}

\* A version is append-only once it leaves draft.
Revisable(v) == v.status = "draft"

SavePlaybookVersion(p, l, m, c) ==
  LET v == versions[p][l] IN
  /\ p \in books
  /\ Exists(p, l) => Revisable(v) /\ Len(v.reviewHistory) < MaxSaves
  /\ CanActOnPlaybookVersion(IF Exists(p, l) THEN "revise" ELSE "draft", RoleOf[m],
       Exists(p, l) => v.author = m, c \in HighImpact, FALSE, PermitsOverride)
  /\ versions' = [versions EXCEPT ![p][l] =
       IF Exists(p, l) THEN Revised(v, m, c) ELSE Drafted(m, c)]
  /\ events' = [events EXCEPT ![p] = Append(@,
       [type |-> "PlaybookVersionSaved", version |-> l, by |-> m,
        superseded |-> NoLabel, ownerOverride |-> FALSE])]
  /\ UNCHANGED <<books, head>>

-----------------------------------------------------------------------------
(***************************************************************************)
(* transitionPlaybookVersion.                                              *)
(***************************************************************************)
KernelAction == [awaiting_review |-> "submit", approved |-> "approve", published |-> "publish"]

Separated(v, to, m) ==
  /\ to \in DOMAIN KernelAction
  /\ SeparationViolated(KernelAction[to], v.author = m, v.content \in HighImpact)

MayMove(v, to, m, override) ==
  IF to \in DOMAIN KernelAction
  THEN CanActOnPlaybookVersion(KernelAction[to], RoleOf[m], v.author = m,
         v.content \in HighImpact, override, PermitsOverride)
  ELSE AdminPlus(RoleOf[m]) \/ (to = "withdrawn" /\ v.author = m)

\* Mutant: supersession is a move like any other.
MayTransitionDirectly(v, to, m, override) ==
  /\ PlaybookVersionTransition(v.status, to)
  /\ MayMove(v, to, m, override)
  /\ to \in {"approved", "published"} => v.content \notin Unresolved

\* Superseding happens only through publishing a newer version.
MayTransition(v, to, m, override) ==
  /\ to # "superseded"
  /\ PlaybookVersionTransition(v.status, to)
  /\ MayMove(v, to, m, override)
  /\ to \in {"approved", "published"} => v.content \notin Unresolved

HistoryAction(to) == IF to = "awaiting_review" THEN "submitted" ELSE to

\* Mutant: the history is written anew instead of appended to.
MovedAfresh(v, to, m) ==
  [status |-> to, author |-> v.author, content |-> v.content,
   approver |-> IF to = "approved" THEN m ELSE v.approver,
   reviewHistory |-> <<Entry(HistoryAction(to), m, Separated(v, to, m))>>]

Moved(v, to, m) ==
  [status |-> to, author |-> v.author, content |-> v.content,
   approver |-> IF to = "approved" THEN m ELSE v.approver,
   reviewHistory |->
     Append(v.reviewHistory, Entry(HistoryAction(to), m, Separated(v, to, m)))]

Superseded(v, m) ==
  [status |-> "superseded", author |-> v.author, approver |-> v.approver,
   content |-> v.content,
   reviewHistory |-> Append(v.reviewHistory, Entry("superseded", m, FALSE))]

\* Publishing supersedes the prior version and moves the head in one step;
\* v is the row of version l as the operation read it.
Publish(p, l, v, m, prior) ==
  /\ versions' = [versions EXCEPT ![p] = [k \in Labels |->
       IF k = l THEN Moved(v, "published", m)
       ELSE IF k \in prior THEN Superseded(@[k], m) ELSE @[k]]]
  /\ head' = [head EXCEPT ![p] = l]
  /\ \E named \in IF prior = {} THEN {NoLabel} ELSE prior :
       events' = [events EXCEPT ![p] = Append(@,
         [type |-> "PlaybookVersionPublished", version |-> l, by |-> m,
          superseded |-> named, ownerOverride |-> Separated(v, "published", m)])]
  /\ UNCHANGED books

\* Mutant: the prior version is looked for after the status has changed.
PriorMissed(p, l) == {{}}

\* The first other published version of the playbook, if there is one.
Prior(p, l) ==
  LET others == PublishedLabels(p) \ {l}
  IN  IF others = {} THEN {{}} ELSE {{k} : k \in others}

TransitionPlaybookVersion(p, l, to, m, override) ==
  LET v == versions[p][l] IN
  /\ Exists(p, l)
  /\ MayTransition(v, to, m, override)
  /\ \/ /\ to = "published"
        /\ \E prior \in Prior(p, l) : Publish(p, l, v, m, prior)
     \/ /\ to # "published"
        /\ versions' = [versions EXCEPT ![p][l] = Moved(v, to, m)]
        /\ UNCHANGED <<books, head, events>>

Next ==
  \E p \in Books, m \in Members :
    \/ CreatePlaybookDraft(p, m)
    \/ \E l \in Labels :
         \/ \E c \in Contents : SavePlaybookVersion(p, l, m, c)
         \/ \E to \in REVIEW_ITEM_STATES, override \in BOOLEAN :
              TransitionPlaybookVersion(p, l, to, m, override)

Spec == Init /\ [][Next]_vars

-----------------------------------------------------------------------------
(***************************************************************************)
(* Properties.                                                             *)
(***************************************************************************)

\* The head of a playbook names its one published version, and a playbook
\* without a head has none: transitionPlaybookVersion publishes, supersedes and
\* moves the head together, and nothing else leaves `published`.
HeadIsPublished ==
  \A p \in Books :
    PublishedLabels(p) = IF head[p] = NoLabel THEN {} ELSE {head[p]}

\* The publications among the first n events of a log, and whether the last of
\* them put version l in force.
PublicationsUpTo(log, n) == {k \in 1..n : log[k].type = "PlaybookVersionPublished"}

PutInForce(log, n, l) ==
  LET past == PublicationsUpTo(log, n)
  IN  IF past = {} THEN l = NoLabel
      ELSE \E k \in past : (\A j \in past : j <= k) /\ log[k].version = l

\* The publication events of a playbook form a chain: each names the version
\* the one before it put in force, and the last put the head in force.
PublicationsChain ==
  \A p \in Books :
    /\ \A k \in PublicationsUpTo(events[p], Len(events[p])) :
         PutInForce(events[p], k - 1, events[p][k].superseded)
    /\ PutInForce(events[p], Len(events[p]), head[p])

\* The status a version has after an entry of its history.
StatusAfter(action) ==
  IF action = "saved" THEN "draft"
  ELSE IF action = "submitted" THEN "awaiting_review" ELSE action

\* The last entry of the review history of a version is the one that brought it
\* to the status it has, also when another version's publication did.
HistoryTellsStatus ==
  \A p \in Books, l \in Labels :
    Exists(p, l) =>
      LET v == versions[p][l]
      IN  v.status = StatusAfter(v.reviewHistory[Len(v.reviewHistory)].action)

\* The founder's separation of duties, read off the review history: an author
\* publishes, or approves a version of high impact, only as an owner by an
\* override on record where the organization permits it; the approver on the
\* row is the one who approved, and only owners publish.
SeparationOfDuties ==
  \A p \in Books, l \in Labels :
    Exists(p, l) =>
      LET v == versions[p][l] IN
      \A i \in 1..Len(v.reviewHistory) :
        LET e == v.reviewHistory[i] IN
        /\ e.action = "published" => RoleOf[e.by] = "organization_owner"
        /\ e.action = "approved"  => AdminPlus(RoleOf[e.by]) /\ v.approver = e.by
        /\ /\ e.by = v.author
           /\ e.action = "published" \/ (e.action = "approved" /\ v.content \in HighImpact)
           => e.ownerOverride /\ PermitsOverride /\ RoleOf[e.by] = "organization_owner"

\* What is in force, or approved to be, has no open question in it, whatever was
\* saved before and after the version was submitted.
NoOpenQuestionApproved ==
  \A p \in Books, l \in Labels :
    versions[p][l].status \in {"approved", "published", "superseded"} =>
      versions[p][l].content \notin Unresolved

\* A version is append-only once it leaves draft: its content and its author
\* stay, and so does every entry of its history.
VersionsAreAppendOnly ==
  [][\A p \in Books, l \in Labels :
       Exists(p, l) =>
         LET v == versions[p][l]
             w == versions'[p][l]
         IN  /\ w.author = v.author
             /\ v.status # "draft" => w.content = v.content
             /\ Len(v.reviewHistory) <= Len(w.reviewHistory)
             /\ SubSeq(w.reviewHistory, 1, Len(v.reviewHistory)) = v.reviewHistory]_vars

-----------------------------------------------------------------------------
(***************************************************************************)
(* The store implements PlaybookPromise.                                   *)
(***************************************************************************)
PhaseOf ==
  [none |-> "none", draft |-> "open", awaiting_review |-> "open", approved |-> "approved",
   published |-> "inForce", superseded |-> "retired",
   rejected |-> "closed", deferred |-> "closed", withdrawn |-> "closed"]

Promise == INSTANCE PlaybookPromise WITH
  Playbooks <- Books,
  phase <- [p \in Books |-> [l \in Labels |-> PhaseOf[versions[p][l].status]]],
  inForce <- head

\* Whoever moves which version when, a playbook has one version in force from
\* its first publication on, and it retires as its successor comes into force.
PromiseKept == Promise!Spec

=============================================================================
