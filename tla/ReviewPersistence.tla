-------------------------- MODULE ReviewPersistence -------------------------
(***************************************************************************)
(* Review items and their decision log in PostgreSQL:                      *)
(* DrizzleReviewItemRepository and DrizzleReviewDecisionRepository of      *)
(* packages/database/src/repositories/review-center.ts, several requests   *)
(* at a time.                                                              *)
(*                                                                         *)
(* The repository persists what its caller has decided: a request reads an *)
(* item (getById), runs the kernel on what it read, and calls              *)
(* saveTransition or recordDecisionAndTransition.  Either is a transaction *)
(* at READ COMMITTED that writes WHERE id, without a lock or an expected   *)
(* state, so other requests come between the read and the write.  Of the   *)
(* head it reads again only a time stamp and the revision, which nothing   *)
(* changes; what it writes is seen when it commits, and a second UPDATE of *)
(* a row waits for the first, so a transaction is one step.  A request may *)
(* die, and is rolled back.                                                *)
(*                                                                         *)
(* The items are reviews of one artifact in one workflow, of one           *)
(* organization; the members and rows a caller names are visible to it.    *)
(* The links between items, the time stamps and the provenance columns,    *)
(* which no check reads, are left out.                                     *)
(***************************************************************************)
EXTENDS ReviewKernel, Sequences, FiniteSets

CONSTANTS
  Reviewers,     \* organization members who decide
  Null,          \* no reviewer
  Writers,       \* requests that run at the same time
  Revisions,     \* contents of the artifact: the sha256 digest
  VersionOf,     \* the version label of a revision
  Reasons,       \* structured reason codes reviewers use
  Floors,        \* reviewer floors items are created with
  Imported,      \* decisions a log backfill appends
  ItemIds,       \* bound: the items ever created
  MaxDecisions,  \* bound: decisions logged for one item
  MaxImported    \* bound: decisions imported for one item, before the others

ASSUME PersistenceAssumption ==
  /\ Null \notin Reviewers
  /\ Reasons \subseteq DOMAIN REVIEW_DECISION_REASON_CODES
  /\ Floors \subseteq REVIEWER_ROLES /\ Imported \subseteq REVIEW_DECISIONS
  /\ MaxDecisions \in Nat /\ MaxImported \in Nat

VARIABLES
  rows,   \* review_items, by id
  log,    \* review_decisions of an item, in commit order
  calls   \* what each request is doing

persistenceVars == <<rows, log, calls>>

NoRow == [state |-> "absent"]
Idle == [stage |-> "idle"]
OpenStates == {"draft", "awaiting_review"}
DecidedStates == {"approved", "rejected", "deferred"}

ReviewItemRecord ==
  [state : REVIEW_ITEM_STATES, revision : Revisions, floor : REVIEWER_ROLES,
   reviewedBy : Reviewers \cup {Null}, latestDecision : REVIEW_DECISIONS \cup {"none"}]

ReviewDecisionRecord == [decision : REVIEW_DECISIONS, by : Reviewers]

\* What the kernel's check depends on, of an item read.
Checked == [state : REVIEW_ITEM_STATES, revision : Revisions, floor : REVIEWER_ROLES]

Call ==
  {Idle} \cup [stage : {"fetched"}, item : ItemIds, read : Checked]

PersistenceTypeOK ==
  /\ rows \in [ItemIds -> ReviewItemRecord \cup {NoRow}]
  /\ log \in [ItemIds -> Seq(ReviewDecisionRecord)]
  /\ calls \in [Writers -> Call]

PersistenceInit ==
  /\ rows = [i \in ItemIds |-> NoRow]
  /\ log = [i \in ItemIds |-> << >>]
  /\ calls = [r \in Writers |-> Idle]

Created(i) == rows[i] # NoRow

\* uq_review_items_open: one open row for a version of the artifact.
Indexed(i, row) ==
  row.state \in OpenStates =>
    \A j \in ItemIds \ {i} :
      Created(j) /\ rows[j].state \in OpenStates =>
        VersionOf[rows[j].revision] # VersionOf[row.revision]

-----------------------------------------------------------------------------
\* create: in one of the two birth states.
Create(i, rev, birth, floor) ==
  LET row == [state |-> birth, revision |-> rev, floor |-> floor, reviewedBy |-> Null,
              latestDecision |-> "none"]
  IN  /\ ~Created(i)
      /\ birth \in {"draft", "awaiting_review"}
      /\ Indexed(i, row)
      /\ rows' = [rows EXCEPT ![i] = row]
      /\ UNCHANGED <<log, calls>>

\* The caller reads the item it is about to move.
GetById(r, i) ==
  /\ calls[r].stage = "idle"
  /\ Created(i)
  /\ calls' = [calls EXCEPT ![r] = 
       [stage |-> "fetched", item |-> i,
        read |-> [state |-> rows[i].state, revision |-> rows[i].revision,
                  floor |-> rows[i].floor]]]
  /\ UNCHANGED <<rows, log>>

\* Mutant: the reviewer stamped is the first one, as the submission time is.
TransitionSetFirstReviewer(row, w) ==
  [row EXCEPT
     !.state = w.to,
     !.reviewedBy = IF w.to \in DecidedStates /\ @ = Null THEN w.by ELSE @,
     !.latestDecision = IF w.decision # "none" THEN w.decision ELSE @,
     !.floor = IF w.decision = "escalated" THEN w.floor ELSE @]

\* buildTransitionSet: the columns the UPDATE sets; the others stay as they are
\* when it runs.
TransitionSet(row, w) ==
  [row EXCEPT
     !.state = w.to,
     !.reviewedBy = IF w.to \in DecidedStates THEN w.by ELSE @,
     !.latestDecision = IF w.decision # "none" THEN w.decision ELSE @,
     !.floor = IF w.decision = "escalated" THEN w.floor ELSE @]

InsertDecisionRow(i, w) ==
  IF w.decision = "none" THEN log
  ELSE [log EXCEPT ![i] = Append(@, [decision |-> w.decision, by |-> w.by])]

\* The transaction of either call.  The decision row and the head are committed
\* together; a row the index refuses fails both.
Commit(r, w) ==
  LET i == calls[r].item
      row == TransitionSet(rows[i], w)
  IN  /\ w.decision # "none" => Len(log[i]) < MaxDecisions
      /\ Indexed(i, row)
      /\ rows' = [rows EXCEPT ![i] = row]
      /\ log' = InsertDecisionRow(i, w)
      /\ calls' = [calls EXCEPT ![r] = Idle]

\* saveTransition: the paths that are not decisions.  A publication states the
\* artifact's current digest, which must be the reviewed one; neither changes.
SaveTransition(r, to, current) ==
  LET read == calls[r].read IN
  /\ calls[r].stage = "fetched"
  /\ to \in {"awaiting_review", "withdrawn", "superseded", "published"}
  /\ ReviewItemTransition(read.state, to)
  /\ to = "published" => current = read.revision
  /\ Commit(r, [to |-> to, decision |-> "none", by |-> Null, floor |-> read.floor])

\* recordDecisionAndTransition, as the kernel allows it on the item read.
RecordDecisionAndTransition(r, decision, reason, edits, m) ==
  LET read == calls[r].read IN
  /\ calls[r].stage = "fetched"
  /\ DecisionAllowed(decision, read.state, edits, reason, read.floor)
  /\ Commit(r, [to |-> DECISION_TO_STATE[decision], decision |-> decision, by |-> m,
                floor |-> FloorAfter(decision, read.floor)])

\* The caller's check denied, the transaction failed, or the process died.
Abandon(r) ==
  /\ calls[r].stage # "idle"
  /\ calls' = [calls EXCEPT ![r] = Idle]
  /\ UNCHANGED <<rows, log>>

\* DrizzleReviewDecisionRepository.append: an import into the log only.
AppendDecision(i, decision, m) ==
  /\ Created(i)
  /\ Len(log[i]) < MaxImported
  /\ log' = [log EXCEPT ![i] = Append(@, [decision |-> decision, by |-> m])]
  /\ UNCHANGED <<rows, calls>>

PersistenceNext ==
  \/ \E i \in ItemIds :
       \/ \E rev \in Revisions, birth \in OpenStates, floor \in Floors :
            Create(i, rev, birth, floor)
       \/ \E r \in Writers : GetById(r, i)
       \/ \E decision \in Imported, m \in Reviewers : AppendDecision(i, decision, m)
  \/ \E r \in Writers :
       \/ \E to \in REVIEW_ITEM_STATES, current \in Revisions : SaveTransition(r, to, current)
       \/ \E decision \in REVIEW_DECISIONS, reason \in Reasons, edits \in {0, 1}, m \in Reviewers :
            RecordDecisionAndTransition(r, decision, reason, edits, m)
       \/ Abandon(r)

PersistenceSpec == PersistenceInit /\ [][PersistenceNext]_persistenceVars

-----------------------------------------------------------------------------
(***************************************************************************)
(* Properties.                                                             *)
(***************************************************************************)

\* A head left approved, rejected or deferred names the reviewer and the
\* decision of one row of its log, whoever else decided at the same time, and
\* nothing is published that no logged decision approved, even when a stale
\* write has moved the item since.
HeadIsBacked ==
  \A i \in ItemIds : Created(i) =>
    /\ rows[i].state \in DecidedStates =>
         \E n \in DOMAIN log[i] :
           /\ log[i][n].by = rows[i].reviewedBy
           /\ log[i][n].decision = rows[i].latestDecision
           /\ DECISION_TO_STATE[log[i][n].decision] = rows[i].state
    /\ rows[i].state = "published" =>
         \E n \in DOMAIN log[i] : DECISION_TO_STATE[log[i][n].decision] = "approved"
=============================================================================
