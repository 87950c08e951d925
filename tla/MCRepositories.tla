--------------------------- MODULE MCRepositories ---------------------------
(***************************************************************************)
(* The instance of the repositories of one file, review-center.ts of       *)
(* packages/database: playbook versions, discovery items, and review items *)
(* with their decision log.  They share no table, so each is explored by   *)
(* itself: the table chosen at the start says which.                       *)
(***************************************************************************)
EXTENDS PlaybookRepository, WorkflowDiscovery, ReviewPersistence, TLC

CONSTANTS
  p1, l1, l2, l3, plain, sam, olga, r1, r2,     \* playbooks
  i1, yes, no, v1, v2, q1, q2,                  \* discovery
  alice, bob, first, w1, w2, item1, item2       \* review items

VARIABLE table

MCRoleOf == [m \in Members |-> IF m = sam THEN "staff" ELSE "organization_owner"]

MCVersionOf == [r \in Revisions |-> "v1"]

\* One reason for each decision.
MCReasons == {"RVD_ACCURATE", "RVD_INACCURATE_FACTS", "RVD_NEEDS_SENIOR_REVIEW"}

Symmetry == Permutations(Writers) \cup Permutations(Reviewers) \cup Permutations(ItemIds)

tablesVars == <<table, repositoryVars, discoveryVars, persistenceVars>>

TablesInit ==
  /\ table \in {"playbook_versions", "workflow_discovery_items", "review_items"}
  /\ RepositoryInit /\ DiscoveryInit /\ PersistenceInit
  /\ table # "workflow_discovery_items" => backend = "database"

TablesNext ==
  /\ UNCHANGED table
  /\ \/ /\ table = "playbook_versions" /\ RepositoryNext
        /\ UNCHANGED <<discoveryVars, persistenceVars>>
     \/ /\ table = "workflow_discovery_items" /\ DiscoveryNext
        /\ UNCHANGED <<repositoryVars, persistenceVars>>
     \/ /\ table = "review_items" /\ PersistenceNext
        /\ UNCHANGED <<repositoryVars, discoveryVars>>

TablesSpec == TablesInit /\ [][TablesNext]_tablesVars

=============================================================================
