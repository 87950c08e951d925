----------------------------- MODULE Acceptance -----------------------------
(***************************************************************************)
(* The acceptance suite of packages/database: the gate a database passes   *)
(* before it is used.  Operators provision roles, apply the migrations and *)
(* change things by hand, in any order; the suite is pointed at the result *)
(* and passes it or not.                                                   *)
(*                                                                         *)
(* PostgreSQL is external, and the migrations are modelled by what they    *)
(* grant and guard: a table has row level security and policies, a role    *)
(* has privileges, and Visible says what a query sees.  A policy           *)
(* expression is the one the migrations write ("org": rows of the          *)
(* organization in the session's setting, none when it is unset or         *)
(* cleared) or another.                                                    *)
(***************************************************************************)
EXTENDS Integers, Sequences

CONSTANTS
  Tenants,         \* organizations
  TenantTables,    \* tables with a NOT NULL organization_id (deriveTenantTables)
  GlobalTables,    \* the others, the resolver-only tables aside
  Targets,         \* URLs the suite may be pointed at: [parses, postgres, params, authority, host, database]
  MainLike,        \* names that contain a marker of a main database
  NonMain,         \* names with a token of a branch that is not
  HandGrants,      \* bound: table privileges operators grant and revoke by hand
  HandSecurities,  \* bound: row level security they give a table by hand
  MaxEdits         \* bound: changes an operator makes to a database

RESOLVER_ONLY_TABLES == {"identity_provider_accounts", "provider_webhook_events", "session_revocations"}

RESOLVER_PRINCIPAL_TABLES == {"users", "organization_members", "client_user_links"}

Tables == TenantTables \cup GlobalTables \cup RESOLVER_ONLY_TABLES

App == "aflo_app"
Resolver == "aflo_auth_resolver"
Roles == {App, Resolver}
ALL_PRIVILEGES == {"SELECT", "INSERT", "UPDATE", "DELETE"}
Grants == Tables \X ALL_PRIVILEGES

Securities == [enabled : BOOLEAN, forced : BOOLEAN, policy : {"none", "org", "other"}]

ASSUME AcceptanceAssumption ==
  /\ "users" \in GlobalTables /\ MaxEdits \in Nat /\ "" \notin Tenants
  /\ HandGrants \subseteq Grants /\ HandSecurities \subseteq Securities
  /\ {"clients", "audit_events", "invitations", "organization_members", "client_user_links"}
       \subseteq TenantTables
  /\ TenantTables \cap (GlobalTables \cup RESOLVER_ONLY_TABLES) = {}

\* What the migrations grant the resolver.
RESOLVER_GRANT_WHITELIST ==
  (RESOLVER_ONLY_TABLES \X ALL_PRIVILEGES)
    \cup (({"invitations"} \cup RESOLVER_PRINCIPAL_TABLES) \X {"SELECT"})

(***************************************************************************)
(* The database.  The journal of migrations in three parts: the tables     *)
(* with their policies, the wall around the resolver's tables (0007), and  *)
(* its reads of principals (0008).                                         *)
(***************************************************************************)
Journal == <<"tables", "wall", "principals">>

Postures == {"absent", "plain", "bypassrls", "superuser"}

VARIABLES
  roles,      \* the posture of each role
  applied,    \* how many parts of the journal are applied
  defaults,   \* ALTER DEFAULT PRIVILEGES: tables to come are aflo_app's
  rls,        \* row level security of each table
  grants,     \* privileges of each role
  lookup,     \* find_invitation_by_token: its owner, and who may execute it
  drifted,    \* which of the indexes and enums are no longer as declared
  edits,      \* changes operators made
  suite,      \* the run of the suite: its phase, URL and flags
  touched     \* what the runs of the suite did to the database

postureVars == <<roles, applied, defaults, rls, grants, lookup, drifted>>
acceptanceVars == <<postureVars, edits, suite, touched>>

NoLookup == [owner |-> "nobody", executors |-> {}]
NoRun == [phase |-> "none"]
Bare == [enabled |-> FALSE, forced |-> FALSE, policy |-> "none"]
Walled == [enabled |-> TRUE, forced |-> TRUE, policy |-> "org"]

Empty ==
  /\ roles = [r \in Roles |-> "absent"] /\ applied = 0 /\ defaults = FALSE
  /\ rls = [t \in Tables |-> Bare] /\ grants = [r \in Roles |-> {}]
  /\ lookup = NoLookup

\* bootstrapAcceptancePGlite: the roles and the baseline before the migrations.
Bootstrapped ==
  /\ roles = [r \in Roles |-> IF r = App THEN "plain" ELSE "bypassrls"]
  /\ applied = Len(Journal) /\ defaults = TRUE
  /\ rls = [t \in Tables |-> IF t \in TenantTables THEN Walled ELSE Bare]
  /\ grants = [r \in Roles |-> IF r = Resolver THEN RESOLVER_GRANT_WHITELIST
                               ELSE Grants \ (RESOLVER_ONLY_TABLES \X ALL_PRIVILEGES)]
  /\ lookup = [owner |-> Resolver, executors |-> {Resolver}]

AcceptanceInit ==
  /\ Empty \/ Bootstrapped
  /\ drifted = {} /\ edits = 0 /\ suite = NoRun /\ touched = {}

(***************************************************************************)
(* What operators do to it, between runs of the suite: a change voids the  *)
(* verdict of an earlier run.                                              *)
(***************************************************************************)
Between == suite.phase \in {"none", "refused", "passed", "failed"} /\ suite' = NoRun /\ touched' = {}

Edit == Between /\ edits < MaxEdits /\ edits' = edits + 1

CreateRole(r, posture) ==
  /\ roles[r] = "absent" /\ posture # "absent"
  /\ roles' = [roles EXCEPT ![r] = posture]
  /\ Edit /\ UNCHANGED <<applied, defaults, rls, grants, lookup, drifted>>

\* The runbook's baseline: the tables there are, and those to come.
GrantBaseline ==
  /\ roles[App] # "absent"
  /\ defaults' = TRUE
  /\ grants' = [grants EXCEPT ![App] = IF applied = 0 THEN @ ELSE Grants]
  /\ Edit /\ UNCHANGED <<roles, applied, rls, lookup, drifted>>

GrantTable(r, g) ==
  /\ roles[r] # "absent" /\ applied > 0 /\ g \notin grants[r]
  /\ grants' = [grants EXCEPT ![r] = @ \cup {g}]
  /\ Edit /\ UNCHANGED <<roles, applied, defaults, rls, lookup, drifted>>

RevokeTable(r, g) ==
  /\ g \in grants[r]
  /\ grants' = [grants EXCEPT ![r] = @ \ {g}]
  /\ Edit /\ UNCHANGED <<roles, applied, defaults, rls, lookup, drifted>>

AlterSecurity(t, security) ==
  /\ applied > 0 /\ rls[t] # security
  /\ rls' = [rls EXCEPT ![t] = security]
  /\ Edit /\ UNCHANGED <<roles, applied, defaults, grants, lookup, drifted>>

GrantLookup ==
  /\ lookup # NoLookup /\ roles[App] # "absent"
  /\ lookup' = [lookup EXCEPT !.executors = @ \cup {App}]
  /\ Edit /\ UNCHANGED <<roles, applied, defaults, rls, grants, drifted>>

Drift(what) ==
  /\ applied > 0 /\ what \notin drifted
  /\ drifted' = drifted \cup {what}
  /\ Edit /\ UNCHANGED <<roles, applied, defaults, rls, grants, lookup>>

(***************************************************************************)
(* The migrator applies the next part.  Statements about a role do nothing *)
(* where the role is absent, and are not made up for later.                *)
(***************************************************************************)
Granted(r, gs) == IF roles[r] = "absent" THEN {} ELSE gs

ApplyTables ==
  /\ rls' = [t \in Tables |-> IF t \in TenantTables THEN Walled ELSE Bare]
  /\ grants' = IF defaults THEN [grants EXCEPT ![App] = Grants] ELSE grants
  /\ UNCHANGED lookup

ApplyWall ==
  /\ lookup' = IF roles[Resolver] = "absent" THEN [owner |-> "migrator", executors |-> {}]
               ELSE [owner |-> Resolver, executors |-> {Resolver}]
  /\ grants' = [r \in Roles |->
       IF r = App THEN grants[App] \ (RESOLVER_ONLY_TABLES \X ALL_PRIVILEGES)
       ELSE grants[r] \cup Granted(r, (RESOLVER_ONLY_TABLES \X ALL_PRIVILEGES)
                                        \cup {<<"invitations", "SELECT">>})]
  /\ UNCHANGED rls

ApplyPrincipals ==
  /\ grants' = [grants EXCEPT ![Resolver] =
                  @ \cup Granted(Resolver, RESOLVER_PRINCIPAL_TABLES \X {"SELECT"})]
  /\ UNCHANGED <<rls, lookup>>

ApplyNext ==
  /\ applied < Len(Journal) /\ applied' = applied + 1
  /\ CASE applied = 0 -> ApplyTables [] applied = 1 -> ApplyWall [] applied = 2 -> ApplyPrincipals
  /\ UNCHANGED <<roles, defaults, drifted>>

Migrate == ApplyNext /\ Edit

(***************************************************************************)
(* The guard on a remote target (guard.ts).  pg connects to url.host; the  *)
(* URL shows url.authority.                                                *)
(***************************************************************************)
FORBIDDEN_CONNECTION_PARAMS == {"host", "hostaddr", "options"}

EvaluateRemoteTargetGuard(url, confirmed) ==
  /\ url.parses /\ url.postgres
  /\ url.params \cap FORBIDDEN_CONNECTION_PARAMS = {}
  /\ url.host = url.authority
  /\ {url.host, url.database} \cap MainLike = {}
  /\ {url.host, url.database} \cap NonMain # {}
  /\ confirmed = url.host

(***************************************************************************)
(* The checks (checks.ts), each TRUE when it passes.  Those of the journal *)
(* and snapshot files look at the repository, not at the target.           *)
(***************************************************************************)
CheckMigrationsApplied == applied = Len(Journal)

CheckTenantTableRls ==
  /\ \A t \in TenantTables : rls[t] = Walled
  /\ \A t \in Tables : rls[t].enabled \/ rls[t].policy # "none" => t \in TenantTables

CheckTenantRolePosture == roles[App] = "plain"

CheckResolverRolePosture == roles[Resolver] = "bypassrls"

\* has_table_privilege.
Holds(r, g) == g \in grants[r] \/ roles[r] = "superuser"

\* Mutant: only the grants the resolver needs are looked for.
CheckResolverRequiredPaths ==
  \A g \in RESOLVER_GRANT_WHITELIST : Holds(Resolver, g)

CheckResolverReadPaths ==
  \A g \in Grants : Holds(Resolver, g) <=> g \in RESOLVER_GRANT_WHITELIST

MayExecuteLookup(r) == r \in lookup.executors \/ roles[r] = "superuser"

CheckTenantRoleWalledOff ==
  /\ \A g \in RESOLVER_ONLY_TABLES \X ALL_PRIVILEGES : ~Holds(App, g)
  /\ lookup # NoLookup /\ ~MayExecuteLookup(App)

CheckTenantAuditInsert == Holds(App, <<"audit_events", "INSERT">>)

CheckResolverFunction == lookup.owner = Resolver /\ MayExecuteLookup(Resolver)

CheckKeyIndexes == "indexes" \notin drifted

CheckEnumLockstep == "enums" \notin drifted

\* What SELECT shows a role of a table's rows, one row of each organization,
\* with the session's setting: an organization, or "" when unset or cleared.
Visible(r, t, setting) ==
  IF ~Holds(r, <<t, "SELECT">>) THEN {}
  ELSE IF roles[r] \in {"bypassrls", "superuser"} \/ ~rls[t].enabled THEN Tenants
  ELSE CASE rls[t].policy = "none" -> {}
         [] rls[t].policy = "org" -> Tenants \cap {setting}
         [] OTHER -> Tenants

\* Needs the tenant role's SELECT, and sees no client without a setting.
CheckFailClosedSmoke ==
  /\ roles[App] # "absent" /\ Holds(App, <<"clients", "SELECT">>)
  /\ Visible(App, "clients", "") = {}

(***************************************************************************)
(* A run of the suite.                                                     *)
(***************************************************************************)
\* runRemote: refused without connecting, or connected.
Point(url, confirmed, migrate, smoke) ==
  /\ suite.phase \in {"none", "refused", "passed", "failed"}
  /\ suite' = [phase |-> IF EvaluateRemoteTargetGuard(url, confirmed)
                         THEN IF migrate THEN "migrating" ELSE "checking" ELSE "refused",
               url |-> url, confirmed |-> confirmed, migrate |-> migrate, smoke |-> smoke]
  /\ touched' = {}
  /\ UNCHANGED <<postureVars, edits>>

\* applyMigrations: every part that is missing.
ApplyMigrations ==
  /\ suite.phase = "migrating"
  /\ \/ ApplyNext /\ touched' = touched \cup {"ddl"} /\ UNCHANGED suite
     \/ /\ applied = Len(Journal) /\ suite' = [suite EXCEPT !.phase = "checking"]
        /\ UNCHANGED <<postureVars, touched>>
  /\ UNCHANGED edits

\* runAcceptance: every check, the smoke only when asked for; skipped is not failed.
RunAcceptance ==
  /\ suite.phase = "checking"
  /\ suite' = [suite EXCEPT !.phase =
       IF /\ CheckMigrationsApplied /\ CheckTenantTableRls
          /\ CheckTenantRolePosture /\ CheckResolverRolePosture
          /\ CheckResolverReadPaths /\ CheckTenantRoleWalledOff /\ CheckTenantAuditInsert
          /\ CheckResolverFunction /\ CheckKeyIndexes /\ CheckEnumLockstep
          /\ suite.smoke => CheckFailClosedSmoke
       THEN "passed" ELSE "failed"]
  /\ touched' = touched \cup (IF suite.smoke THEN {"rolled back"} ELSE {})
  /\ UNCHANGED <<postureVars, edits>>

AcceptanceNext ==
  \/ \E r \in Roles :
       \/ \E p \in Postures : CreateRole(r, p)
       \/ \E g \in HandGrants : GrantTable(r, g) \/ RevokeTable(r, g)
  \/ \E t \in Tables, s \in HandSecurities : AlterSecurity(t, s)
  \/ \E what \in {"indexes", "enums"} : Drift(what)
  \/ GrantBaseline \/ GrantLookup \/ Migrate
  \/ \E u \in Targets, migrate, smoke \in BOOLEAN :
       \E confirmed \in {u.host, u.authority, ""} : Point(u, confirmed, migrate, smoke)
  \/ ApplyMigrations \/ RunAcceptance

AcceptanceSpec == AcceptanceInit /\ [][AcceptanceNext]_acceptanceVars

(***************************************************************************)
(* Properties.                                                             *)
(***************************************************************************)
\* The postures, privileges and runs there are.
AcceptanceTypeOK ==
  /\ roles \in [Roles -> Postures] /\ applied \in 0..Len(Journal) /\ defaults \in BOOLEAN
  /\ rls \in [Tables -> Securities] /\ grants \in [Roles -> SUBSET Grants]
  /\ lookup.executors \subseteq Roles /\ drifted \subseteq {"indexes", "enums"}
  /\ edits \in 0..MaxEdits /\ touched \subseteq {"ddl", "rolled back"}

\* What the two roles can do in the database as it is.
Isolated ==
  /\ \A t \in TenantTables :
       /\ Visible(App, t, "") = {}
       /\ \A o \in Tenants : Visible(App, t, o) \subseteq {o}
  /\ \A t \in RESOLVER_ONLY_TABLES, p \in ALL_PRIVILEGES : ~Holds(App, <<t, p>>)
  /\ \A t \in TenantTables, p \in ALL_PRIVILEGES \ {"SELECT"} : ~Holds(Resolver, <<t, p>>)
  /\ ~MayExecuteLookup(App)

\* A database the suite passed is isolated, in whatever order it was
\* provisioned, migrated and edited by hand: the tenant role sees the rows of
\* the organization in its setting and nothing without one, the resolver's
\* tables and lookup are out of its reach, and the resolver, whom policies do
\* not bind, writes no tenant table.
AcceptedIsIsolated == suite.phase = "passed" => Isolated

\* The suite never goes to a host other than the one the operator confirmed,
\* to one that looks like the main database, or changes a target it was not
\* told to change (guard.ts, "NON-NEGOTIABLE").
RemoteStaysWithinConsent ==
  suite.phase \in {"migrating", "checking", "passed", "failed"} =>
    /\ suite.confirmed = suite.url.host
    /\ suite.url.host \notin MainLike /\ suite.url.database \notin MainLike
    /\ "ddl" \in touched => suite.migrate
    /\ "rolled back" \in touched => suite.smoke

=============================================================================
