-------------------------- MODULE WorkflowDiscovery -------------------------
(***************************************************************************)
(* The workflow discovery queue: questions raised about the real process,  *)
(* answered, and converted into a playbook version that absorbs the        *)
(* answer.  A back end keeps them: the store (store.ts,                    *)
(* raiseWorkflowDiscoveryItem and resolveWorkflowDiscoveryItem), whose     *)
(* methods are synchronous, or the database                                *)
(* (DrizzleWorkflowDiscoveryRepository of packages/database,               *)
(* review-center.ts), whose transition reads the row, checks the move, and *)
(* updates the row by its id, in a transaction at READ COMMITTED that      *)
(* locks nothing between the read and the update.                          *)
(***************************************************************************)
EXTENDS PlaybookKernel

CONSTANTS
  Items,
  Actors,     \* staff and members who resolve
  NoActor,    \* null
  Answers,    \* texts
  NoAnswer,   \* null
  Absorbers,  \* playbook versions of the organization
  NoAbsorber, \* null
  Resolvers   \* transitions in flight in the repository

ASSUME DiscoveryAssumption ==
  NoActor \notin Actors /\ NoAnswer \notin Answers /\ NoAbsorber \notin Absorbers

VARIABLES
  backend,  \* which of the two keeps the items
  item,     \* [Items -> Item]
  pending   \* the transition each request has read and checked

discoveryVars == <<backend, item, pending>>

Item ==
  [status : WORKFLOW_DISCOVERY_STATUSES \cup {"absent"},
   answer : Answers \cup {NoAnswer}, answeredBy : Actors \cup {NoActor},
   version : Absorbers \cup {NoAbsorber}]

Change ==
  [to : WORKFLOW_DISCOVERY_STATUSES, answer : Answers \cup {NoAnswer},
   by : Actors \cup {NoActor}, version : Absorbers \cup {NoAbsorber}]

NothingPending == [item |-> "none"]

\* A conversion in flight names the version that absorbs the answer.
DiscoveryTypeOK ==
  /\ backend \in {"store", "database"}
  /\ item \in [Items -> Item]
  /\ pending \in [Resolvers -> {NothingPending} \cup [item : Items, change : Change]]
  /\ \A r \in Resolvers : pending[r] # NothingPending /\ pending[r].change.to = "converted" =>
       pending[r].change.version # NoAbsorber

DiscoveryInit ==
  /\ backend \in {"store", "database"}
  /\ item = [i \in Items |->
       [status |-> "absent", answer |-> NoAnswer, answeredBy |-> NoActor,
        version |-> NoAbsorber]]
  /\ pending = [r \in Resolvers |-> NothingPending]

Raise(i) ==
  /\ item[i].status = "absent"
  /\ item' = [item EXCEPT ![i].status = "open"]
  /\ UNCHANGED pending

\* The changes asked for: an answer for `answered`, a version for `converted`.
Changes ==
  {c \in Change :
     /\ (c.to = "answered") <=> (c.answer # NoAnswer)
     /\ c.by # NoActor => c.to = "answered"
     /\ (c.to = "converted") <=> (c.version # NoAbsorber)}

Legal(i, c) ==
  /\ item[i].status # "absent"
  /\ WorkflowDiscoveryTransition(item[i].status, c.to)

\* Mutant: a move that gives no answer clears the one there was.
ResolvedClearing(d, c) ==
  [status |-> c.to, answer |-> c.answer, answeredBy |-> c.by,
   version |-> IF c.to = "converted" THEN c.version ELSE d.version]

\* Only an answer overwrites the answer, only a conversion names a version.
Resolved(d, c) ==
  [status |-> c.to,
   answer |-> IF c.to = "answered" THEN c.answer ELSE d.answer,
   answeredBy |-> IF c.to = "answered" THEN c.by ELSE d.answeredBy,
   version |-> IF c.to = "converted" THEN c.version ELSE d.version]

-----------------------------------------------------------------------------
\* The store: one synchronous call, by a member of staff.
ResolveWorkflowDiscoveryItem(i, c) ==
  /\ backend = "store"
  /\ c.to = "answered" => c.by # NoActor
  /\ Legal(i, c)
  /\ item' = [item EXCEPT ![i] = Resolved(@, c)]
  /\ UNCHANGED pending

\* The database: the row is read and the change checked ...
BeginTransition(r, i, c) ==
  /\ backend = "database"
  /\ pending[r] = NothingPending
  /\ Legal(i, c)
  /\ pending' = [pending EXCEPT ![r] = [item |-> i, change |-> c]]
  /\ UNCHANGED item

\* ... and the row of that id updated, whatever it has become.
FinishTransition(r) ==
  /\ pending[r] # NothingPending
  /\ item' = [item EXCEPT ![pending[r].item] = Resolved(@, pending[r].change)]
  /\ pending' = [pending EXCEPT ![r] = NothingPending]

AbandonTransition(r) ==
  /\ pending[r] # NothingPending
  /\ pending' = [pending EXCEPT ![r] = NothingPending]
  /\ UNCHANGED item

DiscoveryNext ==
  /\ \/ \E i \in Items :
          \/ Raise(i)
          \/ \E c \in Changes :
               \/ ResolveWorkflowDiscoveryItem(i, c)
               \/ \E r \in Resolvers : BeginTransition(r, i, c)
     \/ \E r \in Resolvers : FinishTransition(r) \/ AbandonTransition(r)
  /\ UNCHANGED backend

DiscoverySpec == DiscoveryInit /\ [][DiscoveryNext]_discoveryVars

-----------------------------------------------------------------------------
(***************************************************************************)
(* Properties.                                                             *)
(***************************************************************************)

\* In the store a question is converted exactly when it names the version that
\* absorbed it, and what was absorbed is an answer somebody gave, though it may
\* have been reopened and revised on the way.
ConversionAbsorbsAnAnswer ==
  backend = "store" => \A i \in Items :
    /\ (item[i].status = "converted") <=> (item[i].version # NoAbsorber)
    /\ item[i].status \in {"answered", "converted"} =>
         item[i].answer # NoAnswer /\ item[i].answeredBy # NoActor

\* However transitions overlap, a converted question still has an answer, and the
\* version that absorbed one: no transition in flight takes either away.
ConvertedIsComplete ==
  \A i \in Items : item[i].status = "converted" =>
    item[i].answer # NoAnswer /\ item[i].version # NoAbsorber

\* A converted question of the store stays so, absorbed by the version it names.
StoreConversionIsFinal ==
  [][\A i \in Items :
       backend = "store" /\ item[i].status = "converted" => item'[i] = item[i]]_discoveryVars

\* The same of either back end, as the comment on the machine says (playbook.ts:538,
\* `converted: {}, // terminal`).
ConvertedIsTerminal ==
  [][\A i \in Items : item[i].status = "converted" => item'[i] = item[i]]_discoveryVars

=============================================================================
