-------------------------- MODULE Repositories_proofs -------------------------
(***************************************************************************)
(* Proofs about ReviewPersistence and WorkflowDiscovery, two repositories  *)
(* of one file that read a row, decide, and write it by its id later: for  *)
(* any number of requests, items, reviewers, questions and contents.       *)
(***************************************************************************)
EXTENDS ReviewPersistence, WorkflowDiscovery, TLAPS

-----------------------------------------------------------------------------
(***************************************************************************)
(* What a transaction may write.                                           *)
(***************************************************************************)

Writes ==
  [to : REVIEW_ITEM_STATES, decision : REVIEW_DECISIONS \cup {"none"},
   by : Reviewers \cup {Null}, floor : REVIEWER_ROLES]

\* A state that takes a decision comes with the decision that leads there; a
\* publication comes from an item read as approved.
LegalWrite(r, w) ==
  /\ w \in Writes
  /\ w.decision = "none" =>
       w.to \notin DecidedStates /\ (w.to = "published" => calls[r].read.state = "approved")
  /\ w.decision # "none" => w.by \in Reviewers /\ w.to = DECISION_TO_STATE[w.decision]

Fetched(r) == calls[r].stage = "fetched"

LEMMA CallOfFetched ==
  ASSUME PersistenceTypeOK, NEW r \in Writers, Fetched(r)
  PROVE  calls[r].item \in ItemIds /\ calls[r].read \in Checked
BY DEF PersistenceTypeOK, Fetched, Call, Idle

LEMMA OnlyApprovedIsPublished ==
  ASSUME NEW from \in REVIEW_ITEM_STATES, ReviewItemTransition(from, "published")
  PROVE  from = "approved"
BY DEF ReviewItemTransition, ALLOWED, REVIEW_ITEM_STATES

LEMMA SavesAreLegal ==
  ASSUME PersistenceTypeOK, NEW r \in Writers, NEW to, NEW current,
         SaveTransition(r, to, current)
  PROVE  Fetched(r) /\ \E w \in Writes : LegalWrite(r, w) /\ Commit(r, w)
<1> DEFINE w == [to |-> to, decision |-> "none", by |-> Null, floor |-> calls[r].read.floor]
<1>1. Fetched(r)
  BY DEF SaveTransition, Fetched
<1>2. calls[r].read \in Checked
  BY <1>1, CallOfFetched
<1>3. to \in {"awaiting_review", "withdrawn", "superseded", "published"}
  BY DEF SaveTransition
<1>4. w \in Writes
  BY <1>2, <1>3 DEF Writes, Checked, REVIEW_ITEM_STATES
<1>5. to = "published" => calls[r].read.state = "approved"
  <2> SUFFICES ASSUME to = "published" PROVE calls[r].read.state = "approved"
    OBVIOUS
  <2>1. ReviewItemTransition(calls[r].read.state, "published")
    BY DEF SaveTransition
  <2>2. calls[r].read.state \in REVIEW_ITEM_STATES
    BY <1>2 DEF Checked
  <2>3. QED
    BY <2>1, <2>2, OnlyApprovedIsPublished
<1>6. LegalWrite(r, w)
  BY <1>3, <1>4, <1>5 DEF LegalWrite, DecidedStates
<1>7. Commit(r, w)
  BY DEF SaveTransition
<1>8. QED
  BY <1>1, <1>4, <1>6, <1>7

LEMMA DecisionsAreLegal ==
  ASSUME PersistenceTypeOK, NEW r \in Writers, NEW decision \in REVIEW_DECISIONS, NEW reason,
         NEW edits, NEW m \in Reviewers,
         RecordDecisionAndTransition(r, decision, reason, edits, m)
  PROVE  Fetched(r) /\ \E w \in Writes : LegalWrite(r, w) /\ Commit(r, w)
<1> DEFINE floor == FloorAfter(decision, calls[r].read.floor)
           w == [to |-> DECISION_TO_STATE[decision], decision |-> decision, by |-> m,
                 floor |-> floor]
<1>1. Fetched(r)
  BY DEF RecordDecisionAndTransition, Fetched
<1>2. calls[r].read.floor \in REVIEWER_ROLES
  BY <1>1, CallOfFetched DEF Checked
<1>3. floor \in REVIEWER_ROLES
  BY <1>2 DEF RecordDecisionAndTransition, DecisionAllowed, FloorAfter, EscalateReviewerRole,
              REVIEWER_ROLES
<1>4. DECISION_TO_STATE[decision] \in REVIEW_ITEM_STATES /\ decision # "none"
  BY DEF REVIEW_DECISIONS, DECISION_TO_STATE, REVIEW_ITEM_STATES
<1>5. w \in Writes
  BY <1>3, <1>4 DEF Writes
<1>6. LegalWrite(r, w)
  BY <1>4, <1>5 DEF LegalWrite
<1>7. Commit(r, w)
  BY DEF RecordDecisionAndTransition
<1>8. QED
  BY <1>1, <1>5, <1>6, <1>7

\* Every step creates, reads, commits a legal write, gives up, or imports.
LEMMA StepsOf ==
  ASSUME PersistenceTypeOK, PersistenceNext
  PROVE  \/ \E i \in ItemIds, rev \in Revisions, birth \in OpenStates, floor \in Floors :
              Create(i, rev, birth, floor)
         \/ \E r \in Writers, i \in ItemIds : GetById(r, i)
         \/ \E r \in Writers : Fetched(r) /\ \E w \in Writes : LegalWrite(r, w) /\ Commit(r, w)
         \/ \E r \in Writers : Abandon(r)
         \/ \E i \in ItemIds, decision \in Imported, m \in Reviewers :
              AppendDecision(i, decision, m)
BY SavesAreLegal, DecisionsAreLegal, Zenon DEF PersistenceNext

-----------------------------------------------------------------------------
(***************************************************************************)
(* Types.                                                                  *)
(***************************************************************************)

NamesRows == \A r \in Writers : Fetched(r) => Created(calls[r].item)

TypeInv == PersistenceTypeOK /\ NamesRows

\* The row a legal write leaves.
LEMMA RowWritten ==
  ASSUME NEW r, NEW row \in ReviewItemRecord, NEW w, LegalWrite(r, w)
  PROVE  /\ TransitionSet(row, w) \in ReviewItemRecord
         /\ TransitionSet(row, w).state = w.to
         /\ TransitionSet(row, w).revision = row.revision
         /\ w.decision # "none" => TransitionSet(row, w).latestDecision = w.decision
         /\ w.to \in DecidedStates => TransitionSet(row, w).reviewedBy = w.by
<1> DEFINE by == IF w.to \in DecidedStates THEN w.by ELSE row.reviewedBy
           latest == IF w.decision # "none" THEN w.decision ELSE row.latestDecision
           floor == IF w.decision = "escalated" THEN w.floor ELSE row.floor
           r1 == [row EXCEPT !.state = w.to]
           r2 == [r1 EXCEPT !.reviewedBy = by]
           r3 == [r2 EXCEPT !.latestDecision = latest]
           r4 == [r3 EXCEPT !.floor = floor]
<1>1. w \in Writes
  BY DEF LegalWrite
<1>2. TransitionSet(row, w) = r4
  BY Zenon DEF TransitionSet
<1>3. /\ by \in Reviewers \cup {Null} /\ latest \in REVIEW_DECISIONS \cup {"none"}
      /\ floor \in REVIEWER_ROLES /\ w.to \in REVIEW_ITEM_STATES
  BY <1>1 DEF Writes, ReviewItemRecord
<1> HIDE DEF by, latest, floor
<1>4. r1 \in ReviewItemRecord /\ r1.state = w.to /\ r1.revision = row.revision
  BY <1>3 DEF ReviewItemRecord
<1> HIDE DEF r1
<1>5. /\ r2 \in ReviewItemRecord /\ r2.state = w.to /\ r2.revision = row.revision
      /\ r2.reviewedBy = by
  BY <1>3, <1>4 DEF ReviewItemRecord
<1> HIDE DEF r2
<1>6. /\ r3 \in ReviewItemRecord /\ r3.state = w.to /\ r3.revision = row.revision
      /\ r3.reviewedBy = by /\ r3.latestDecision = latest
  BY <1>3, <1>5 DEF ReviewItemRecord
<1> HIDE DEF r3
<1>7. /\ r4 \in ReviewItemRecord /\ r4.state = w.to /\ r4.revision = row.revision
      /\ r4.reviewedBy = by /\ r4.latestDecision = latest
  BY <1>3, <1>6 DEF ReviewItemRecord
<1> HIDE DEF r4
<1>8. QED
  BY <1>2, <1>7 DEF by, latest

LEMMA TypesInit == PersistenceInit => TypeInv
BY DEF PersistenceInit, TypeInv, PersistenceTypeOK, NamesRows, Fetched, Call, Idle

LEMMA TypesNext == TypeInv /\ [PersistenceNext]_persistenceVars => TypeInv'
<1> SUFFICES ASSUME TypeInv, [PersistenceNext]_persistenceVars PROVE TypeInv'
  OBVIOUS
<1>0. PersistenceTypeOK /\ NamesRows
  BY DEF TypeInv
<1>1. ASSUME NEW i \in ItemIds, NEW rev \in Revisions, NEW birth \in OpenStates,
             NEW floor \in Floors, Create(i, rev, birth, floor)
      PROVE  TypeInv'
  <2> DEFINE row == [state |-> birth, revision |-> rev, floor |-> floor, reviewedBy |-> Null,
                     latestDecision |-> "none"]
  <2>1. row \in ReviewItemRecord
    BY PersistenceAssumption DEF ReviewItemRecord, OpenStates, REVIEW_ITEM_STATES
  <2>2. rows' = [rows EXCEPT ![i] = row] /\ log' = log /\ calls' = calls
    BY <1>1 DEF Create
  <2>3. row # NoRow
    BY DEF NoRow, OpenStates
  <2>4. PersistenceTypeOK'
    BY <1>0, <2>1, <2>2 DEF PersistenceTypeOK
  <2>5. NamesRows'
    BY <1>0, <2>2, <2>3 DEF NamesRows, Fetched, Created, PersistenceTypeOK
  <2>6. QED
    BY <2>4, <2>5 DEF TypeInv
<1>2. ASSUME NEW r \in Writers, NEW i \in ItemIds, GetById(r, i)
      PROVE  TypeInv'
  <2> DEFINE call == [stage |-> "fetched", item |-> i,
                      read |-> [state |-> rows[i].state, revision |-> rows[i].revision,
                                floor |-> rows[i].floor]]
  <2>1. calls' = [calls EXCEPT ![r] = call] /\ rows' = rows /\ log' = log /\ Created(i)
    BY <1>2 DEF GetById
  <2>2. rows[i] \in ReviewItemRecord
    BY <1>0, <2>1 DEF PersistenceTypeOK, Created
  <2>3. call \in Call
    BY <2>2 DEF ReviewItemRecord, Call, Checked
  <2>4. PersistenceTypeOK'
    BY <1>0, <2>1, <2>3 DEF PersistenceTypeOK
  <2>5. NamesRows'
    BY <1>0, <2>1 DEF NamesRows, Fetched, Created, PersistenceTypeOK
  <2>6. QED
    BY <2>4, <2>5 DEF TypeInv
<1>3. ASSUME NEW r \in Writers, Fetched(r), NEW w \in Writes, LegalWrite(r, w), Commit(r, w)
      PROVE  TypeInv'
  <2> DEFINE i == calls[r].item
             row == TransitionSet(rows[i], w)
  <2>1. i \in ItemIds /\ Created(i)
    BY <1>0, <1>3, CallOfFetched DEF NamesRows
  <2>2. rows[i] \in ReviewItemRecord
    BY <1>0, <2>1 DEF PersistenceTypeOK, Created
  <2>3. row \in ReviewItemRecord
    BY <1>3, <2>2, RowWritten
  <2>4. /\ rows' = [rows EXCEPT ![i] = row] /\ log' = InsertDecisionRow(i, w)
        /\ calls' = [calls EXCEPT ![r] = Idle]
    BY <1>3 DEF Commit
  <2>5. log' \in [ItemIds -> Seq(ReviewDecisionRecord)]
    <3>1. CASE w.decision = "none"
      BY <1>0, <2>4, <3>1 DEF InsertDecisionRow, PersistenceTypeOK
    <3>2. CASE w.decision # "none"
      <4>1. [decision |-> w.decision, by |-> w.by] \in ReviewDecisionRecord
        BY <1>3, <3>2 DEF LegalWrite, Writes, ReviewDecisionRecord
      <4>2. log[i] \in Seq(ReviewDecisionRecord)
        BY <1>0, <2>1 DEF PersistenceTypeOK
      <4>3. Append(log[i], [decision |-> w.decision, by |-> w.by]) \in Seq(ReviewDecisionRecord)
        BY <4>1, <4>2
      <4>4. QED
        BY <1>0, <2>4, <3>2, <4>3 DEF InsertDecisionRow, PersistenceTypeOK
    <3>3. QED
      BY <3>1, <3>2
  <2>6. row # NoRow
    BY <2>3 DEF ReviewItemRecord, NoRow, REVIEW_ITEM_STATES
  <2>7. PersistenceTypeOK'
    BY <1>0, <2>3, <2>4, <2>5 DEF PersistenceTypeOK, Call
  <2>8. NamesRows'
    BY <1>0, <2>1, <2>4, <2>6 DEF NamesRows, Fetched, Created, PersistenceTypeOK, Idle
  <2>9. QED
    BY <2>7, <2>8 DEF TypeInv
<1>4. ASSUME NEW r \in Writers, Abandon(r)
      PROVE  TypeInv'
  BY <1>0, <1>4 DEF Abandon, TypeInv, PersistenceTypeOK, NamesRows, Fetched, Created, Call, Idle
<1>5. ASSUME NEW i \in ItemIds, NEW decision \in Imported, NEW m \in Reviewers,
             AppendDecision(i, decision, m)
      PROVE  TypeInv'
  <2> DEFINE entry == [decision |-> decision, by |-> m]
  <2>1. entry \in ReviewDecisionRecord
    BY PersistenceAssumption DEF ReviewDecisionRecord
  <2>2. log[i] \in Seq(ReviewDecisionRecord)
    BY <1>0 DEF PersistenceTypeOK
  <2>3. Append(log[i], entry) \in Seq(ReviewDecisionRecord)
    BY <2>1, <2>2
  <2>4. log' = [log EXCEPT ![i] = Append(@, entry)] /\ rows' = rows /\ calls' = calls
    BY <1>5 DEF AppendDecision
  <2>5. QED
    BY <1>0, <2>3, <2>4 DEF TypeInv, PersistenceTypeOK, NamesRows, Fetched, Created
<1>6. CASE UNCHANGED persistenceVars
  BY <1>0, <1>6 DEF persistenceVars, TypeInv, PersistenceTypeOK, NamesRows, Fetched, Created
<1>7. CASE PersistenceNext
  BY <1>0, <1>1, <1>2, <1>3, <1>4, <1>5, <1>7, StepsOf, Zenon
<1>8. QED
  BY <1>6, <1>7

\* The rows, the log and the calls keep their types: a transaction writes a
\* record of the table and an entry of the log (buildTransitionSet).
THEOREM PersistenceTypeCorrect == PersistenceSpec => []PersistenceTypeOK
<1>1. TypeInv => PersistenceTypeOK
  BY DEF TypeInv
<1>2. QED
  BY <1>1, TypesInit, TypesNext, PTL DEF PersistenceSpec

-----------------------------------------------------------------------------
(***************************************************************************)
(* Heads are backed by their log.                                          *)
(***************************************************************************)

Approves(decision) == DECISION_TO_STATE[decision] = "approved"

ApprovedIn(entries) == \E n \in DOMAIN entries : Approves(entries[n].decision)

VerdictOf(entry, row) ==
  /\ entry.by = row.reviewedBy
  /\ entry.decision = row.latestDecision
  /\ DECISION_TO_STATE[entry.decision] = row.state

\* The head of one item and its log.
Backed(entries, row) ==
  /\ row.state \in DecidedStates => \E n \in DOMAIN entries : VerdictOf(entries[n], row)
  /\ row.state = "published" => ApprovedIn(entries)

\* What a request has read as approved was: the log keeps its entries.
ReadsAreBacked ==
  \A r \in Writers :
    Fetched(r) /\ calls[r].read.state = "approved" => ApprovedIn(log[calls[r].item])

BackedInv == HeadIsBacked /\ ReadsAreBacked

LEMMA BackedRows == HeadIsBacked <=> \A i \in ItemIds : Created(i) => Backed(log[i], rows[i])
BY DEF HeadIsBacked, Backed, VerdictOf, ApprovedIn, Approves

\* A log that gains an entry keeps the others and their places.
LEMMA LogKeeps ==
  ASSUME NEW entries \in Seq(ReviewDecisionRecord), NEW entry \in ReviewDecisionRecord
  PROVE  /\ \A n \in DOMAIN entries :
              n \in DOMAIN Append(entries, entry) /\ Append(entries, entry)[n] = entries[n]
         /\ \E n \in DOMAIN Append(entries, entry) : Append(entries, entry)[n] = entry
<1>1. /\ Len(entries) + 1 \in DOMAIN Append(entries, entry)
      /\ Append(entries, entry)[Len(entries) + 1] = entry
  OBVIOUS
<1>2. \A n \in DOMAIN entries :
        n \in DOMAIN Append(entries, entry) /\ Append(entries, entry)[n] = entries[n]
  OBVIOUS
<1>3. QED
  BY <1>1, <1>2

LEMMA LogBacksMore ==
  ASSUME NEW entries \in Seq(ReviewDecisionRecord), NEW entry \in ReviewDecisionRecord, NEW row
  PROVE  /\ ApprovedIn(entries) => ApprovedIn(Append(entries, entry))
         /\ Backed(entries, row) => Backed(Append(entries, entry), row)
<1> DEFINE longer == Append(entries, entry)
<1>1. \A n \in DOMAIN entries : n \in DOMAIN longer /\ longer[n] = entries[n]
  BY LogKeeps
<1> HIDE DEF longer
<1>2. ApprovedIn(entries) => ApprovedIn(longer)
  BY <1>1 DEF ApprovedIn
<1>3. Backed(entries, row) => Backed(longer, row)
  BY <1>1, <1>2 DEF Backed
<1>4. QED
  BY <1>2, <1>3 DEF longer

\* An item approved by its head is approved by its log.
LEMMA VerdictApproves ==
  ASSUME NEW entries, NEW row, Backed(entries, row), row.state = "approved"
  PROVE  ApprovedIn(entries)
BY DEF Backed, DecidedStates, VerdictOf, ApprovedIn, Approves

\* A legal write leaves its item backed: a decision enters the log with the
\* head, and a publication was read from an approved item.
LEMMA WriteIsBacked ==
  ASSUME NEW r, NEW w, LegalWrite(r, w), NEW row \in ReviewItemRecord,
         NEW entries \in Seq(ReviewDecisionRecord), Backed(entries, row),
         calls[r].read.state = "approved" => ApprovedIn(entries)
  PROVE  /\ w.decision = "none" => Backed(entries, TransitionSet(row, w))
         /\ w.decision # "none" =>
              Backed(Append(entries, [decision |-> w.decision, by |-> w.by]),
                     TransitionSet(row, w))
<1> DEFINE after == TransitionSet(row, w)
           entry == [decision |-> w.decision, by |-> w.by]
<1>1. /\ after.state = w.to
      /\ w.decision # "none" => after.latestDecision = w.decision
      /\ w.to \in DecidedStates => after.reviewedBy = w.by
  BY RowWritten
<1> HIDE DEF after
<1>2. ASSUME w.decision = "none" PROVE Backed(entries, after)
  BY <1>1, <1>2 DEF LegalWrite, Backed
<1>3. ASSUME w.decision # "none" PROVE Backed(Append(entries, entry), after)
  <2>1. entry \in ReviewDecisionRecord
    BY <1>3 DEF LegalWrite, Writes, ReviewDecisionRecord
  <2>2. w.to = DECISION_TO_STATE[w.decision] /\ w.decision \in REVIEW_DECISIONS
    BY <1>3 DEF LegalWrite, Writes
  <2>3. w.to # "published"
    BY <2>2 DEF DECISION_TO_STATE, REVIEW_DECISIONS
  <2>4. after.state \in DecidedStates => VerdictOf(entry, after)
    BY <1>1, <1>3, <2>2 DEF VerdictOf
  <2> HIDE DEF entry
  <2>5. \E n \in DOMAIN Append(entries, entry) : Append(entries, entry)[n] = entry
    BY <2>1, LogKeeps
  <2>6. QED
    BY <1>1, <2>3, <2>4, <2>5 DEF Backed
<1>4. QED
  BY <1>2, <1>3 DEF after

LEMMA BackedInit == PersistenceInit => BackedInv
BY DEF PersistenceInit, BackedInv, HeadIsBacked, ReadsAreBacked, Fetched, Created, Idle

LEMMA BackedNext ==
  TypeInv /\ BackedInv /\ [PersistenceNext]_persistenceVars => BackedInv'
<1> SUFFICES ASSUME TypeInv, BackedInv, [PersistenceNext]_persistenceVars PROVE BackedInv'
  OBVIOUS
<1>0. /\ PersistenceTypeOK /\ NamesRows /\ ReadsAreBacked
      /\ \A j \in ItemIds : Created(j) => Backed(log[j], rows[j])
  BY BackedRows DEF TypeInv, BackedInv
<1>a. ASSUME \A j \in ItemIds : Created(j)' => Backed(log'[j], rows'[j]) PROVE HeadIsBacked'
  BY <1>a DEF HeadIsBacked, Backed, VerdictOf, ApprovedIn, Approves
<1>b. \A j \in ItemIds : log[j] \in Seq(ReviewDecisionRecord)
  BY <1>0 DEF PersistenceTypeOK
<1>1. ASSUME NEW i \in ItemIds, NEW rev \in Revisions, NEW birth \in OpenStates,
             NEW floor \in Floors, Create(i, rev, birth, floor)
      PROVE  BackedInv'
  <2> DEFINE row == [state |-> birth, revision |-> rev, floor |-> floor, reviewedBy |-> Null,
                     latestDecision |-> "none"]
  <2>1. rows' = [rows EXCEPT ![i] = row] /\ log' = log /\ calls' = calls
    BY <1>1 DEF Create
  <2>2. Backed(log[i], row)
    BY DEF Backed, OpenStates, DecidedStates
  <2> HIDE DEF row
  <2>3. \A j \in ItemIds : Created(j)' => Backed(log'[j], rows'[j])
    BY <1>0, <2>1, <2>2 DEF Created, PersistenceTypeOK
  <2>4. ReadsAreBacked'
    BY <1>0, <2>1 DEF ReadsAreBacked, Fetched
  <2>5. QED
    BY <1>a, <2>3, <2>4 DEF BackedInv
<1>2. ASSUME NEW r \in Writers, NEW i \in ItemIds, GetById(r, i)
      PROVE  BackedInv'
  <2> DEFINE call == [stage |-> "fetched", item |-> i,
                      read |-> [state |-> rows[i].state, revision |-> rows[i].revision,
                                floor |-> rows[i].floor]]
  <2>1. calls' = [calls EXCEPT ![r] = call] /\ rows' = rows /\ log' = log /\ Created(i)
    BY <1>2 DEF GetById
  <2>2. rows[i].state = "approved" => ApprovedIn(log[i])
    BY <1>0, <2>1, VerdictApproves
  <2>3. call.item = i /\ call.read.state = rows[i].state
    OBVIOUS
  <2> HIDE DEF call
  <2>4. ASSUME NEW q \in Writers, Fetched(q)', calls'[q].read.state = "approved"
        PROVE  ApprovedIn(log'[calls'[q].item])
    <3>1. CASE q = r
      BY <1>0, <2>1, <2>2, <2>3, <2>4, <3>1 DEF PersistenceTypeOK
    <3>2. CASE q # r
      BY <1>0, <2>1, <2>4, <3>2 DEF PersistenceTypeOK, ReadsAreBacked, Fetched
    <3>3. QED
      BY <3>1, <3>2
  <2>5. ReadsAreBacked'
    BY <2>4 DEF ReadsAreBacked
  <2>6. QED
    BY <1>0, <1>a, <2>1, <2>5 DEF BackedInv, Created
<1>3. ASSUME NEW r \in Writers, Fetched(r), NEW w \in Writes, LegalWrite(r, w), Commit(r, w)
      PROVE  BackedInv'
  <2> DEFINE i == calls[r].item
             row == TransitionSet(rows[i], w)
             entry == [decision |-> w.decision, by |-> w.by]
  <2>1. i \in ItemIds /\ Created(i)
    BY <1>0, <1>3, CallOfFetched DEF NamesRows
  <2>2. rows[i] \in ReviewItemRecord
    BY <1>0, <2>1 DEF PersistenceTypeOK, Created
  <2>3. /\ rows' = [rows EXCEPT ![i] = row] /\ log' = InsertDecisionRow(i, w)
        /\ calls' = [calls EXCEPT ![r] = Idle]
    BY <1>3 DEF Commit
  <2>4. calls[r].read.state = "approved" => ApprovedIn(log[i])
    BY <1>0, <1>3 DEF ReadsAreBacked
  <2>5. /\ w.decision = "none" => Backed(log[i], row)
        /\ w.decision # "none" => Backed(Append(log[i], entry), row)
    BY <1>0, <1>3, <1>b, <2>1, <2>2, <2>4, WriteIsBacked
  <2>6. /\ w.decision = "none" => log' = log
        /\ w.decision # "none" => log' = [log EXCEPT ![i] = Append(@, entry)]
    BY <2>3 DEF InsertDecisionRow
  <2>7. w.decision # "none" => entry \in ReviewDecisionRecord
    BY <1>3 DEF LegalWrite, Writes, ReviewDecisionRecord
  <2> HIDE DEF i, row, entry
  <2>8. Backed(log'[i], rows'[i])
    BY <1>0, <2>1, <2>3, <2>5, <2>6 DEF PersistenceTypeOK
  <2>9. \A j \in ItemIds : ApprovedIn(log[j]) => ApprovedIn(log'[j])
    BY <1>0, <1>b, <2>1, <2>6, <2>7, LogBacksMore DEF PersistenceTypeOK
  <2>10. \A j \in ItemIds \ {i} : log'[j] = log[j] /\ rows'[j] = rows[j]
    BY <1>0, <2>1, <2>3, <2>6 DEF PersistenceTypeOK
  <2>11. \A j \in ItemIds : Created(j)' => Backed(log'[j], rows'[j])
    BY <1>0, <2>8, <2>10 DEF Created
  <2>12. \A q \in Writers : Fetched(q)' => Fetched(q) /\ calls'[q] = calls[q]
    BY <1>0, <2>3 DEF PersistenceTypeOK, Fetched, Idle
  <2>13. \A q \in Writers : Fetched(q) => calls[q].item \in ItemIds
    BY <1>0, CallOfFetched
  <2>14. ReadsAreBacked'
    BY <1>0, <2>9, <2>12, <2>13 DEF ReadsAreBacked
  <2>15. QED
    BY <1>a, <2>11, <2>14 DEF BackedInv
<1>4. ASSUME NEW r \in Writers, Abandon(r)
      PROVE  BackedInv'
  <2>1. calls' = [calls EXCEPT ![r] = Idle] /\ rows' = rows /\ log' = log
    BY <1>4 DEF Abandon
  <2>2. ReadsAreBacked'
    BY <1>0, <2>1 DEF PersistenceTypeOK, ReadsAreBacked, Fetched, Idle
  <2>3. QED
    BY <1>0, <1>a, <2>1, <2>2 DEF BackedInv, Created
<1>5. ASSUME NEW i \in ItemIds, NEW decision \in Imported, NEW m \in Reviewers,
             AppendDecision(i, decision, m)
      PROVE  BackedInv'
  <2> DEFINE entry == [decision |-> decision, by |-> m]
  <2>1. entry \in ReviewDecisionRecord
    BY PersistenceAssumption DEF ReviewDecisionRecord
  <2>2. /\ log' = [log EXCEPT ![i] = Append(@, entry)] /\ rows' = rows /\ calls' = calls
        /\ Created(i)
    BY <1>5 DEF AppendDecision
  <2> HIDE DEF entry
  <2>3. \A j \in ItemIds : ApprovedIn(log[j]) => ApprovedIn(log'[j])
    BY <1>0, <1>b, <2>1, <2>2, LogBacksMore DEF PersistenceTypeOK
  <2>4. \A j \in ItemIds : Backed(log[j], rows[j]) => Backed(log'[j], rows'[j])
    BY <1>0, <1>b, <2>1, <2>2, LogBacksMore DEF PersistenceTypeOK
  <2>5. \A j \in ItemIds : Created(j)' => Backed(log'[j], rows'[j])
    BY <1>0, <2>2, <2>4 DEF Created
  <2>6. \A q \in Writers : Fetched(q) => calls[q].item \in ItemIds
    BY <1>0, CallOfFetched
  <2>7. ReadsAreBacked'
    BY <1>0, <2>2, <2>3, <2>6 DEF ReadsAreBacked, Fetched
  <2>8. QED
    BY <1>a, <2>5, <2>7 DEF BackedInv
<1>6. CASE UNCHANGED persistenceVars
  BY <1>0, <1>6, <1>a DEF persistenceVars, BackedInv, ReadsAreBacked, Fetched, Created
<1>7. CASE PersistenceNext
  BY <1>0, <1>1, <1>2, <1>3, <1>4, <1>5, <1>7, StepsOf, Zenon
<1>8. QED
  BY <1>6, <1>7

\* Whatever is read and written in between, a decided head names the decision
\* of a row of its log, and nothing is published that no decision approved
\* (recordDecisionAndTransition and saveTransition).
THEOREM HeadsAreBacked == PersistenceSpec => []HeadIsBacked
<1>1. BackedInv => HeadIsBacked
  BY DEF BackedInv
<1>2. QED
  BY <1>1, TypesInit, TypesNext, BackedInit, BackedNext, PTL DEF PersistenceSpec

-----------------------------------------------------------------------------
(***************************************************************************)
(* The discovery queue.                                                    *)
(***************************************************************************)

LEMMA DiscoveryNextCases ==
  DiscoveryNext =>
    \/ \E i \in Items : Raise(i)
    \/ \E i \in Items, c \in Changes : ResolveWorkflowDiscoveryItem(i, c)
    \/ \E i \in Items, c \in Changes, r \in Resolvers : BeginTransition(r, i, c)
    \/ \E r \in Resolvers : FinishTransition(r)
    \/ \E r \in Resolvers : AbandonTransition(r)
BY Zenon DEF DiscoveryNext

LEMMA ChangesAreWellFormed ==
  ASSUME NEW c \in Changes
  PROVE  /\ c \in Change
         /\ (c.to = "answered") <=> (c.answer # NoAnswer)
         /\ c.by # NoActor => c.to = "answered"
         /\ (c.to = "converted") <=> (c.version # NoAbsorber)
BY DEF Changes

\* No move makes a question absent, and each field keeps its type.
LEMMA ResolvedIsItem ==
  ASSUME NEW d \in Item, NEW c \in Change
  PROVE  Resolved(d, c) \in Item
BY DEF Resolved, Item, Change

LEMMA DiscoveryTypesNext ==
  ASSUME DiscoveryTypeOK, [DiscoveryNext]_discoveryVars
  PROVE  DiscoveryTypeOK'
<1>1. ASSUME NEW i \in Items, Raise(i) PROVE DiscoveryTypeOK'
  <2>1. backend' \in {"store", "database"}
    BY DEF DiscoveryTypeOK, DiscoveryNext, discoveryVars
  <2>2. [item[i] EXCEPT !.status = "open"] \in Item
    BY DEF DiscoveryTypeOK, Item, WORKFLOW_DISCOVERY_STATUSES, DISCOVERY_ALLOWED
  <2>3. QED
    BY <1>1, <2>1, <2>2 DEF DiscoveryTypeOK, Raise
<1>2. ASSUME NEW i \in Items, NEW c \in Changes, ResolveWorkflowDiscoveryItem(i, c) PROVE DiscoveryTypeOK'
  <2>1. backend' \in {"store", "database"}
    BY DEF DiscoveryTypeOK, DiscoveryNext, discoveryVars
  <2>2. Resolved(item[i], c) \in Item
    BY ResolvedIsItem, ChangesAreWellFormed DEF DiscoveryTypeOK
  <2>3. QED
    BY <1>2, <2>1, <2>2 DEF DiscoveryTypeOK, ResolveWorkflowDiscoveryItem
<1>3. ASSUME NEW i \in Items, NEW c \in Changes, NEW r \in Resolvers, BeginTransition(r, i, c)
      PROVE  DiscoveryTypeOK'
  <2>1. backend' \in {"store", "database"}
    BY DEF DiscoveryTypeOK, DiscoveryNext, discoveryVars
  <2>2. /\ [item |-> i, change |-> c] \in [item : Items, change : Change]
        /\ c.to = "converted" => c.version # NoAbsorber
    BY ChangesAreWellFormed
  <2>3. QED
    BY <1>3, <2>1, <2>2 DEF DiscoveryTypeOK, BeginTransition
<1>4. ASSUME NEW r \in Resolvers, FinishTransition(r) PROVE DiscoveryTypeOK'
  <2>1. backend' \in {"store", "database"}
    BY DEF DiscoveryTypeOK, DiscoveryNext, discoveryVars
  <2>2. pending[r].item \in Items /\ pending[r].change \in Change
    BY <1>4 DEF DiscoveryTypeOK, FinishTransition
  <2>3. Resolved(item[pending[r].item], pending[r].change) \in Item
    BY <2>2, ResolvedIsItem DEF DiscoveryTypeOK
  <2>4. QED
    BY <1>4, <2>1, <2>2, <2>3 DEF DiscoveryTypeOK, FinishTransition
<1>5. ASSUME NEW r \in Resolvers, AbandonTransition(r) PROVE DiscoveryTypeOK'
  BY <1>5 DEF DiscoveryTypeOK, AbandonTransition, DiscoveryNext, discoveryVars
<1>6. CASE UNCHANGED discoveryVars
  BY <1>6 DEF discoveryVars, DiscoveryTypeOK
<1>7. CASE DiscoveryNext
  BY <1>1, <1>2, <1>3, <1>4, <1>5, <1>7, DiscoveryNextCases, Zenon
<1>8. QED
  BY <1>6, <1>7

LEMMA DiscoveryTypesInit == DiscoveryInit => DiscoveryTypeOK
BY DEF DiscoveryInit, DiscoveryTypeOK, Item, NothingPending

\* An answer is given before a question leaves for `converted`, and never taken
\* back; a conversion in flight has checked one.  In the store nothing is in
\* flight, and only a conversion names a version.
Answered(d) == d.answer # NoAnswer
AnswersLast ==
  /\ \A i \in Items : item[i].status \in {"answered", "converted"} => Answered(item[i])
  /\ \A i \in Items : item[i].status = "converted" => item[i].version # NoAbsorber
  /\ \A r \in Resolvers :
       pending[r] # NothingPending /\ pending[r].change.to = "converted" =>
         Answered(item[pending[r].item])
  /\ \A r \in Resolvers :
       pending[r] # NothingPending /\ pending[r].change.to = "answered" =>
         pending[r].change.answer # NoAnswer

StoreAbsorbs ==
  backend = "store" =>
    /\ \A r \in Resolvers : pending[r] = NothingPending
    /\ \A i \in Items :
         /\ (item[i].status = "converted") <=> (item[i].version # NoAbsorber)
         /\ item[i].status \in {"answered", "converted"} => item[i].answeredBy # NoActor

DiscoveryInv == AnswersLast /\ StoreAbsorbs

LEMMA ConversionFollowsAnswer ==
  ASSUME NEW i \in Items, NEW c, DiscoveryTypeOK, Legal(i, c)
  PROVE  /\ c.to \in WORKFLOW_DISCOVERY_STATUSES
         /\ c.to = "converted" => item[i].status = "answered"
         /\ item[i].status # "converted"
<1>1. item[i].status \in WORKFLOW_DISCOVERY_STATUSES
  BY DEF DiscoveryTypeOK, Item, Legal
<1>2. QED
  BY <1>1 DEF Legal, WorkflowDiscoveryTransition, DISCOVERY_ALLOWED, WORKFLOW_DISCOVERY_STATUSES

\* What any resolution keeps, whichever row it finds.
LEMMA ResolutionKeeps ==
  ASSUME NEW d \in Item, NEW c \in Change,
         d.status \in {"answered", "converted"} => Answered(d),
         c.to = "answered" => c.answer # NoAnswer,
         c.to = "converted" => Answered(d) /\ c.version # NoAbsorber
  PROVE  LET e == Resolved(d, c) IN
         /\ Answered(d) => Answered(e)
         /\ e.status = c.to
         /\ e.status \in {"answered", "converted"} => Answered(e)
         /\ e.status = "converted" => e.version # NoAbsorber
BY DEF Resolved, Item, Change, Answered

LEMMA DiscoveryNextInv ==
  ASSUME DiscoveryTypeOK, DiscoveryInv, [DiscoveryNext]_discoveryVars
  PROVE  DiscoveryInv'
<1>a. \A i \in Items : item[i] \in Item
  BY DEF DiscoveryTypeOK
<1>b. DOMAIN item = Items /\ item \in [Items -> Item]
  BY DEF DiscoveryTypeOK
<1>c. \A r \in Resolvers : pending[r] # NothingPending =>
        /\ pending[r].item \in Items /\ pending[r].change \in Change
        /\ pending[r].change.to = "converted" => pending[r].change.version # NoAbsorber
  BY DEF DiscoveryTypeOK
<1>d. backend' = backend
  BY DEF DiscoveryNext, discoveryVars
<1>1. ASSUME NEW i \in Items, Raise(i) PROVE DiscoveryInv'
  <2>1. pending' = pending /\ item[i].status = "absent"
    BY <1>1 DEF Raise
  <2>2. \A j \in Items : item'[j] = IF j = i THEN [item[i] EXCEPT !.status = "open"] ELSE item[j]
    BY <1>1, <1>b DEF Raise
  <2>3. /\ [item[i] EXCEPT !.status = "open"].status = "open"
        /\ [item[i] EXCEPT !.status = "open"].answer = item[i].answer
        /\ [item[i] EXCEPT !.status = "open"].version = item[i].version
        /\ [item[i] EXCEPT !.status = "open"].answeredBy = item[i].answeredBy
    BY <1>a DEF Item
  <2>4. AnswersLast'
    <3>1. \A j \in Items : Answered(item[j]) => Answered(item[j])'
      BY <2>2, <2>3 DEF Answered
    <3>2. \A j \in Items : item'[j].status \in {"answered", "converted"} => item'[j] = item[j]
      BY <2>2, <2>3
    <3>3. QED
      BY <1>c, <2>1, <3>1, <3>2 DEF DiscoveryInv, AnswersLast, Answered
  <2>5. StoreAbsorbs'
    BY <1>d, <2>1, <2>2, <2>3 DEF DiscoveryInv, StoreAbsorbs
  <2>6. QED
    BY <2>4, <2>5 DEF DiscoveryInv
<1>2. ASSUME NEW i \in Items, NEW c \in Changes, ResolveWorkflowDiscoveryItem(i, c) PROVE DiscoveryInv'
  <2> DEFINE e == Resolved(item[i], c)
  <2>1. /\ pending' = pending /\ backend = "store" /\ Legal(i, c)
        /\ c.to = "answered" => c.by # NoActor
    BY <1>2 DEF ResolveWorkflowDiscoveryItem
  <2>2. \A j \in Items : item'[j] = IF j = i THEN e ELSE item[j]
    BY <1>2, <1>b DEF ResolveWorkflowDiscoveryItem
  <2>3. c.to = "converted" => item[i].status = "answered"
    BY <2>1, ConversionFollowsAnswer
  <2>4. /\ Answered(item[i]) => Answered(e)
        /\ e.status \in {"answered", "converted"} => Answered(e)
        /\ e.status = "converted" => e.version # NoAbsorber
    <3>1. item[i].status \in {"answered", "converted"} => Answered(item[i])
      BY DEF DiscoveryInv, AnswersLast
    <3>2. QED
      BY <1>a, <2>3, <3>1, ChangesAreWellFormed, ResolutionKeeps
  <2>5. /\ (e.status = "converted") <=> (e.version # NoAbsorber)
        /\ e.status \in {"answered", "converted"} => e.answeredBy # NoActor
    <3>1. item[i].status # "converted" /\ item[i].version = NoAbsorber
      BY <2>1, ConversionFollowsAnswer DEF DiscoveryInv, StoreAbsorbs
    <3>2. item[i].status = "answered" => item[i].answeredBy # NoActor
      BY <2>1 DEF DiscoveryInv, StoreAbsorbs
    <3>3. QED
      BY <2>1, <2>3, <3>1, <3>2, ChangesAreWellFormed DEF Resolved
  <2> HIDE DEF e
  <2>6. AnswersLast'
    BY <1>c, <2>1, <2>2, <2>4 DEF DiscoveryInv, AnswersLast
  <2>7. StoreAbsorbs'
    BY <1>d, <2>1, <2>2, <2>5 DEF DiscoveryInv, StoreAbsorbs
  <2>8. QED
    BY <2>6, <2>7 DEF DiscoveryInv
<1>3. ASSUME NEW i \in Items, NEW c \in Changes, NEW r \in Resolvers, BeginTransition(r, i, c)
      PROVE  DiscoveryInv'
  <2>1. item' = item /\ backend = "database" /\ Legal(i, c)
    BY <1>3 DEF BeginTransition
  <2>2. \A q \in Resolvers :
          pending'[q] = IF q = r THEN [item |-> i, change |-> c] ELSE pending[q]
    <3>1. pending' = [pending EXCEPT ![r] = [item |-> i, change |-> c]]
      BY <1>3 DEF BeginTransition
    <3>2. QED
      BY <3>1 DEF DiscoveryTypeOK
  <2>3. c.to = "converted" => Answered(item[i])
    BY <2>1, ConversionFollowsAnswer DEF DiscoveryInv, AnswersLast
  <2>4. AnswersLast'
    BY <2>1, <2>2, <2>3, ChangesAreWellFormed DEF DiscoveryInv, AnswersLast
  <2>5. StoreAbsorbs'
    BY <1>d, <2>1 DEF StoreAbsorbs
  <2>6. QED
    BY <2>4, <2>5 DEF DiscoveryInv
<1>4. ASSUME NEW r \in Resolvers, FinishTransition(r) PROVE DiscoveryInv'
  <2> DEFINE i == pending[r].item
             c == pending[r].change
             e == Resolved(item[i], c)
  <2>1. pending[r] # NothingPending /\ i \in Items /\ c \in Change
    BY <1>4, <1>c DEF FinishTransition
  <2>2. \A j \in Items : item'[j] = IF j = i THEN e ELSE item[j]
    BY <1>4, <1>b, <2>1 DEF FinishTransition
  <2>3. \A q \in Resolvers : pending'[q] = IF q = r THEN NothingPending ELSE pending[q]
    BY <1>4 DEF FinishTransition, DiscoveryTypeOK
  <2>4. /\ c.to = "converted" => Answered(item[i]) /\ c.version # NoAbsorber
        /\ c.to = "answered" => c.answer # NoAnswer
        /\ item[i].status \in {"answered", "converted"} => Answered(item[i])
    BY <1>c, <2>1 DEF DiscoveryInv, AnswersLast
  <2>5. /\ Answered(item[i]) => Answered(e)
        /\ e.status \in {"answered", "converted"} => Answered(e)
        /\ e.status = "converted" => e.version # NoAbsorber
    BY <1>a, <2>1, <2>4, ResolutionKeeps
  <2>6. backend # "store"
    BY <2>1 DEF DiscoveryInv, StoreAbsorbs
  <2> HIDE DEF i, c, e
  <2>7. AnswersLast'
    BY <1>c, <2>1, <2>2, <2>3, <2>5 DEF DiscoveryInv, AnswersLast
  <2>8. StoreAbsorbs'
    BY <1>d, <2>6 DEF StoreAbsorbs
  <2>9. QED
    BY <2>7, <2>8 DEF DiscoveryInv
<1>5. ASSUME NEW r \in Resolvers, AbandonTransition(r) PROVE DiscoveryInv'
  <2>1. item' = item
    BY <1>5 DEF AbandonTransition
  <2>2. \A q \in Resolvers : pending'[q] = IF q = r THEN NothingPending ELSE pending[q]
    BY <1>5 DEF AbandonTransition, DiscoveryTypeOK
  <2>3. QED
    BY <1>d, <2>1, <2>2 DEF DiscoveryInv, AnswersLast, StoreAbsorbs
<1>6. CASE UNCHANGED discoveryVars
  BY <1>6 DEF discoveryVars, DiscoveryInv, AnswersLast, StoreAbsorbs
<1>7. CASE DiscoveryNext
  BY <1>1, <1>2, <1>3, <1>4, <1>5, <1>7, DiscoveryNextCases, Zenon
<1>8. QED
  BY <1>6, <1>7

LEMMA DiscoveryInvInit == DiscoveryInit => DiscoveryInv
BY DEF DiscoveryInit, DiscoveryInv, AnswersLast, StoreAbsorbs, NothingPending

\* Questions and the transitions in flight keep their types, in either back end.
THEOREM DiscoveryTypeCorrect == DiscoverySpec => []DiscoveryTypeOK
BY DiscoveryTypesInit, DiscoveryTypesNext, PTL DEF DiscoverySpec

LEMMA DiscoveryHolds == DiscoverySpec => []DiscoveryInv
BY DiscoveryTypeCorrect, DiscoveryInvInit, DiscoveryNextInv, PTL DEF DiscoverySpec

\* In the store a question is converted exactly when it names the version that
\* absorbed it, and an answer somebody gave was there to absorb
\* (resolveWorkflowDiscoveryItem).
THEOREM StoreConversionsAbsorb == DiscoverySpec => []ConversionAbsorbsAnAnswer
<1>1. DiscoveryInv => ConversionAbsorbsAnAnswer
  BY DEF DiscoveryInv, AnswersLast, StoreAbsorbs, Answered, ConversionAbsorbsAnAnswer
<1>2. QED
  BY <1>1, DiscoveryHolds, PTL

\* However transitions overlap, no converted question is without an answer or
\* without its version: a stale write replaces answers only by answers
\* (DrizzleWorkflowDiscoveryRepository).
THEOREM ConversionsAreComplete == DiscoverySpec => []ConvertedIsComplete
<1>1. DiscoveryInv => ConvertedIsComplete
  BY DEF DiscoveryInv, AnswersLast, Answered, ConvertedIsComplete
<1>2. QED
  BY <1>1, DiscoveryHolds, PTL

\* What the store converted stays as it is; in the database a stale transition
\* may reopen it.
THEOREM StoreConversionsAreFinal == DiscoverySpec => StoreConversionIsFinal
<1> DEFINE Final == \A i \in Items :
      backend = "store" /\ item[i].status = "converted" => item'[i] = item[i]
<1>1. ASSUME DiscoveryTypeOK, DiscoveryInv, [DiscoveryNext]_discoveryVars
      PROVE  Final
  <2>1. ASSUME NEW i \in Items, Raise(i) PROVE Final
    BY <1>1, <2>1 DEF Raise, DiscoveryTypeOK
  <2>2. ASSUME NEW i \in Items, NEW c \in Changes, ResolveWorkflowDiscoveryItem(i, c)
        PROVE  Final
    <3>1. item[i].status # "converted" /\ \A j \in Items : j # i => item'[j] = item[j]
      BY <1>1, <2>2, ConversionFollowsAnswer DEF ResolveWorkflowDiscoveryItem, DiscoveryTypeOK
    <3>2. QED
      BY <3>1
  <2>3. ASSUME NEW i \in Items, NEW c \in Changes, NEW r \in Resolvers, BeginTransition(r, i, c)
        PROVE  Final
    BY <2>3 DEF BeginTransition
  <2>4. ASSUME NEW r \in Resolvers, FinishTransition(r) PROVE Final
    BY <1>1, <2>4 DEF FinishTransition, DiscoveryInv, StoreAbsorbs
  <2>5. ASSUME NEW r \in Resolvers, AbandonTransition(r) PROVE Final
    BY <2>5 DEF AbandonTransition
  <2>6. CASE UNCHANGED discoveryVars
    BY <2>6 DEF discoveryVars
  <2> HIDE DEF Final
  <2>7. CASE DiscoveryNext
    BY <2>1, <2>2, <2>3, <2>4, <2>5, <2>7, DiscoveryNextCases, Zenon
  <2>8. QED
    BY <1>1, <2>6, <2>7
<1>2. QED
  BY <1>1, DiscoveryTypeCorrect, DiscoveryHolds, PTL DEF DiscoverySpec, StoreConversionIsFinal

=============================================================================
