-------------------------- MODULE PlaybookRepository ------------------------
(***************************************************************************)
(* Playbook versions in PostgreSQL: DrizzlePlaybookRepository of           *)
(* packages/database/src/repositories/review-center.ts, several requests   *)
(* at a time.                                                              *)
(*                                                                         *)
(* A method is a transaction at READ COMMITTED, PostgreSQL's default; what *)
(* it writes is seen when it commits.  transitionVersion locks the row of  *)
(* its version FOR UPDATE before it reads it.  A transition other than a   *)
(* publication touches that row only, so it is one action.  A publication  *)
(* also reads the published versions, each statement seeing what was       *)
(* committed when it began, so it is three: it locks and checks its own    *)
(* version, it looks for the published ones, and, those locked and checked *)
(* again, it writes and commits.  Nobody else waits for a lock it then     *)
(* holds but for the time of that last step.  A request may die, and its   *)
(* transaction is rolled back.                                             *)
(*                                                                         *)
(* The rules are those of Playbooks, and so is the state; `events` are the *)
(* playbook.version_published audit rows.  Members do not change role.     *)
(***************************************************************************)
EXTENDS Playbooks

CONSTANT Requests  \* transactions that may publish at the same time

VARIABLE tx        \* the publication each request is carrying out

repositoryVars == <<books, versions, head, events, tx>>

NoTx == [stage |-> "idle"]

Publication ==
  [stage : {"locked", "selected"}, book : Books, label : Labels, row : Version,
   by : Members, prior : SUBSET Labels]

RepositoryTypeOK ==
  /\ TypeOK
  /\ tx \in [Requests -> Publication \cup {NoTx}]

RepositoryInit ==
  /\ Init
  /\ tx = [r \in Requests |-> NoTx]

Busy(r) == tx[r].stage # "idle"

\* Mutant: the row is read without FOR UPDATE.
NeverLocked(p, l) == FALSE

Locked(p, l) == \E r \in Requests : Busy(r) /\ tx[r].book = p /\ tx[r].label = l

-----------------------------------------------------------------------------
\* createPlaybook: any caller; the key is unique.
CreatePlaybook(p) ==
  /\ p \notin books
  /\ books' = books \cup {p}
  /\ UNCHANGED <<versions, head, events, tx>>

\* saveDraftVersion inserts; a label already taken is a unique violation.
SaveDraftVersion(p, l, m, c) ==
  /\ p \in books
  /\ ~Exists(p, l)
  /\ CanActOnPlaybookVersion("draft", RoleOf[m], TRUE, c \in HighImpact, FALSE, FALSE)
  /\ versions' = [versions EXCEPT ![p][l] = Drafted(m, c)]
  /\ UNCHANGED <<books, head, events, tx>>

TransitionVersion(p, l, to, m, override) ==
  /\ Exists(p, l) /\ ~Locked(p, l)
  /\ to # "published"
  /\ MayTransition(versions[p][l], to, m, override)
  /\ versions' = [versions EXCEPT ![p][l] = Moved(versions[p][l], to, m)]
  /\ UNCHANGED <<books, head, events, tx>>

\* The version is locked, read, and checked against the rules.
BeginPublish(r, p, l, m, override) ==
  /\ ~Busy(r)
  /\ Exists(p, l) /\ ~Locked(p, l)
  /\ MayTransition(versions[p][l], "published", m, override)
  /\ tx' = [tx EXCEPT ![r] =
       [stage |-> "locked", book |-> p, label |-> l, row |-> versions[p][l],
        by |-> m, prior |-> {}]]
  /\ UNCHANGED vars

\* The versions published when the statement begins.
SelectPrior(r) ==
  /\ tx[r].stage = "locked"
  /\ tx' = [tx EXCEPT ![r].stage = "selected", ![r].prior = PublishedLabels(tx[r].book)]
  /\ UNCHANGED vars

\* A row that another publication superseded meanwhile no longer qualifies.
CommitPublish(r) ==
  LET t == tx[r] IN
  /\ t.stage = "selected"
  /\ Publish(t.book, t.label, t.row, t.by, t.prior \cap PublishedLabels(t.book))
  /\ tx' = [tx EXCEPT ![r] = NoTx]

Rollback(r) ==
  /\ Busy(r)
  /\ tx' = [tx EXCEPT ![r] = NoTx]
  /\ UNCHANGED vars

RepositoryNext ==
  \/ \E p \in Books :
       \/ CreatePlaybook(p)
       \/ \E l \in Labels, m \in Members :
            \/ \E c \in Contents : SaveDraftVersion(p, l, m, c)
            \/ \E to \in REVIEW_ITEM_STATES, override \in BOOLEAN :
                 TransitionVersion(p, l, to, m, override)
            \/ \E r \in Requests, override \in BOOLEAN : BeginPublish(r, p, l, m, override)
  \/ \E r \in Requests : SelectPrior(r) \/ CommitPublish(r) \/ Rollback(r)

RepositorySpec == RepositoryInit /\ [][RepositoryNext]_repositoryVars

-----------------------------------------------------------------------------
(***************************************************************************)
(* Properties.  SeparationOfDuties, HistoryTellsStatus and PromiseKept are *)
(* those of Playbooks.                                                     *)
(***************************************************************************)

\* However publications overlap, the head of a playbook is a published version:
\* the last publication to commit moved it, and superseded its predecessor.
HeadStaysPublished ==
  \A p \in Books : head[p] # NoLabel => head[p] \in PublishedLabels(p)

\* No publication, overlapping others, loses an entry of a review history or
\* rewrites one: each history only grows.
HistoriesOnlyGrow ==
  [][\A p \in Books, l \in Labels :
       Exists(p, l) =>
         LET before == versions[p][l].reviewHistory
             after  == versions'[p][l].reviewHistory
         IN  Len(before) <= Len(after) /\ SubSeq(after, 1, Len(before)) = before]_repositoryVars

\* Where the review history of a version, and the audit trail of its playbook,
\* record that it was published.
PublicationsOf(p, l) ==
  {k \in DOMAIN versions[p][l].reviewHistory : versions[p][l].reviewHistory[k].action = "published"}

PublicationEvents(p, l) == {k \in DOMAIN events[p] : events[p][k].version = l}

\* However transitions overlap, a version is published once: two publications of
\* it, the second begun before the first committed, leave one entry in its
\* history and one audit row; and it has them exactly if it is in force or was
\* superseded (the row lock of transitionVersion).
PublishedOnce ==
  \A p \in Books, l \in Labels :
    Exists(p, l) =>
      /\ \A j, k \in PublicationsOf(p, l) : j = k
      /\ \A j, k \in PublicationEvents(p, l) : j = k
      /\ PublicationsOf(p, l) # {} <=> PublicationEvents(p, l) # {}
      /\ PublicationsOf(p, l) # {} <=> versions[p][l].status \in {"published", "superseded"}

\* What the comment on supersession says of the flow (review-center.ts:1390): a
\* playbook has at most one published version, whoever publishes concurrently.
AtMostOnePublished ==
  \A p \in Books : \A k, l \in PublishedLabels(p) : k = l

=============================================================================
