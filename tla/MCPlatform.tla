----------------------------- MODULE MCPlatform -----------------------------
(***************************************************************************)
(* The instance of what a request stands on: who it acts as (Sessions),    *)
(* which runtime the process serves (Deployment), and whether the database *)
(* was fit to be used (Acceptance).  They share no state, and each is      *)
(* explored by itself: the area chosen at the start says which.            *)
(***************************************************************************)
EXTENDS Sessions, Deployment, Acceptance, TLC

CONSTANTS
  ann, north, south, kid, d1, d2,     \* sessions
  v1, v2                              \* deployment

VARIABLE area

MCClientOrg == [c \in Clients |-> north]

\* Every selection of modes; production as well with one thing missing or wrong.
Configured ==
  {"DATABASE_URL", "DIRECT_DATABASE_URL", "AUTH_RESOLVER_DATABASE_URL", "FIELD_ENCRYPTION_KEY",
   "CLERK_SECRET_KEY", "NEXT_PUBLIC_CLERK_PUBLISHABLE_KEY", "CLERK_WEBHOOK_SECRET",
   "STORAGE_PROVIDER", "STORAGE_BUCKET", "STORAGE_SIGNING_SECRET",
   "RESEND_API_KEY", "RESEND_FROM_EMAIL", "ENCRYPTION_KEY_REFERENCE", "WORKER_SECRET",
   "SENTRY_DSN", "NEXT_PUBLIC_SENTRY_DSN"}
Modes ==
  [app : {"", "test", "demo", "production"}, node : {"test", "production"}, vercel : {"", "preview"},
   auth : {"clerk", "demo"}, repo : {"postgres", "memory"}, seed : {""},
   email : {"resend"}, storage : {"private"}, branch : {""}, urlLooksPreview : {FALSE},
   set : {Configured}, keyWellFormed : {TRUE}, tenantUrl : {"a"}, resolverUrl : {"a"}]
Production ==
  CHOOSE e \in Modes : /\ e.app = "production" /\ e.node = "production" /\ e.vercel = ""
                       /\ e.auth = "clerk" /\ e.repo = "postgres"
MCEnvironments ==
  Modes \cup {[Production EXCEPT !.set = Configured \ {key}] : key \in Configured}
        \cup {[Production EXCEPT !.branch = "preview"], [Production EXCEPT !.seed = "synthetic"],
              [Production EXCEPT !.resolverUrl = "b"], [Production EXCEPT !.keyWellFormed = FALSE]}

\* A branch, and the main database behind a harmless authority.
Url(params, authority, host) ==
  [parses |-> TRUE, postgres |-> TRUE, params |-> params, authority |-> authority,
   host |-> host, database |-> "aflo"]
MCTargets == {Url({}, "ep-preview", "ep-preview"), Url({"host"}, "ep-preview", "ep-main")}
MCGrants == {<<"clients", "DELETE">>, <<"session_revocations", "SELECT">>}
MCSecurities == {Bare, [enabled |-> TRUE, forced |-> TRUE, policy |-> "other"]}

Symmetry == Permutations(Deliveries) \cup Permutations(Visits)

platformVars == <<area, sessionVars, deploymentVars, acceptanceVars>>

Init ==
  /\ area \in {"sessions", "deployment", "acceptance"}
  /\ SessionsInit /\ DeploymentInit /\ AcceptanceInit
  \* Hired nowhere, in south, or in both.
  /\ members[north][ann] # NoRow => members[south][ann] # NoRow
  /\ area # "sessions" => members = [o \in Orgs |-> [u \in Users |-> NoRow]]
  /\ area # "deployment" => environment = Production
  /\ area # "acceptance" => applied = 0

\* Bound: two deliveries overlap beside one change at most.
Busy == changes + Cardinality({d \in Deliveries : deliveries[d] # Idle})

Next ==
  /\ UNCHANGED area
  /\ \/ area = "sessions" /\ SessionsNext /\ Busy' <= 3 /\ UNCHANGED <<deploymentVars, acceptanceVars>>
     \/ area = "deployment" /\ DeploymentNext /\ UNCHANGED <<sessionVars, acceptanceVars>>
     \/ area = "acceptance" /\ AcceptanceNext /\ UNCHANGED <<sessionVars, deploymentVars>>

Spec == Init /\ [][Next]_platformVars
=============================================================================
