---------------------------- MODULE Platform_proofs ----------------------------
(***************************************************************************)
(* Proofs about what a process and its database must be before they serve: *)
(* Deployment, for every set of environments, any number of requests and   *)
(* of changes of the environment; and Acceptance, for every set of tenants *)
(* and tables, every URL and every change by hand.                         *)
(***************************************************************************)
EXTENDS Deployment, Acceptance, TLAPS

-----------------------------------------------------------------------------
(***************************************************************************)
(* One runtime.                                                            *)
(***************************************************************************)

\* What the boot gate lets through.
Booted(env) == ResolveRuntimeMode(env) # "test" /\ Problems(env) = {}

\* An environment that boots is not both: the demonstration mode refuses the
\* real authentication.
LEMMA BootedIsOne ==
  ASSUME NEW env, Booted(env), IsDemoRuntimePermitted(env)
  PROVE  ~RealRuntime(env)
<1>1. ResolveRuntimeMode(env) = "demo"
  BY DEF Booted, IsDemoRuntimePermitted
<1>2. DemoProblems(env) = {}
  BY <1>1 DEF Booted, Problems
<1>3. env.auth # "clerk"
  BY <1>2 DEF DemoProblems
<1>4. ResolveAuthMode(env) = "demo"
  BY <1>3 DEF ResolveAuthMode
<1>5. QED
  BY <1>4 DEF RealRuntime

\* A surface answers from the demonstration, or with the real runtime, only
\* where the contract permits it.
LEMMA RuntimeIsPermitted ==
  ASSUME NEW surface \in Surfaces, NEW env
  PROVE  /\ Runtime(surface, env) = "demo" => IsDemoRuntimePermitted(env)
         /\ Runtime(surface, env) = "real" => RealRuntime(env)
         /\ Runtime(surface, env) \in {"demo", "real", "refused"}
BY DEF Surfaces, Runtime, ResolveMessagingUiRuntime, ComposeMessagingDeps,
       InvitationsConfigured, WebhookConfigured

RealAnswers == {"signed_out", "real", "failed"}

\* While the environment is the one the process booted with, every answer and
\* every request in flight bears witness to it.
BootInv ==
  /\ DOMAIN visits = Visits /\ reloads \in Nat
  /\ process = "serving" /\ reloads = 0 => Booted(environment)
  /\ process # "serving" => served = {} /\ \A v \in Visits : visits[v] = NoVisit
  /\ reloads = 0 =>
       /\ "demo" \in served => IsDemoRuntimePermitted(environment)
       /\ served \cap RealAnswers # {} => RealRuntime(environment)
       /\ \A v \in Visits : visits[v] # NoVisit => RealRuntime(environment)

LEMMA BootInvInit == DeploymentInit => BootInv
BY DEF DeploymentInit, BootInv

LEMMA BootInvNext == BootInv /\ [DeploymentNext]_deploymentVars => BootInv'
<1> SUFFICES ASSUME BootInv, [DeploymentNext]_deploymentVars PROVE BootInv'
  OBVIOUS
<1>1. CASE UNCHANGED deploymentVars
  BY <1>1 DEF deploymentVars, BootInv
<1>2. CASE Register
  BY <1>2 DEF Register, BootInv, Booted
<1>3. ASSUME NEW env \in Environments, Reload(env) PROVE BootInv'
  BY <1>3 DEF Reload, BootInv
<1>4. ASSUME NEW env \in Environments, Exit(env) PROVE BootInv'
  BY <1>4 DEF Exit, BootInv
<1>5. ASSUME NEW v \in Visits, NEW surface \in Surfaces, Arrive(v, surface) PROVE BootInv'
  <2>1. process = "serving" /\ UNCHANGED <<environment, process, reloads>>
    BY <1>5 DEF Arrive
  <2>2. CASE Runtime(surface, environment) = "real"
    <3>1. RealRuntime(environment)
      BY <2>2, RuntimeIsPermitted
    <3>2. DOMAIN visits' = Visits /\ UNCHANGED served
      BY <1>5, <2>2 DEF Arrive, BootInv
    <3>3. QED
      BY <2>1, <3>1, <3>2 DEF BootInv
  <2>3. CASE Runtime(surface, environment) # "real"
    <3>1. served' = served \cup {Runtime(surface, environment)} /\ UNCHANGED visits
      BY <1>5, <2>3 DEF Arrive
    <3>2. Runtime(surface, environment) \notin RealAnswers
      BY <2>3, RuntimeIsPermitted DEF RealAnswers
    <3>3. Runtime(surface, environment) = "demo" => IsDemoRuntimePermitted(environment)
      BY RuntimeIsPermitted
    <3>4. QED
      BY <2>1, <3>1, <3>2, <3>3 DEF BootInv
  <2>4. QED
    BY <2>2, <2>3
<1>6. ASSUME NEW v \in Visits, Finish(v) PROVE BootInv'
  <2>1. visits[v] # NoVisit /\ UNCHANGED <<environment, process, reloads>>
    BY <1>6 DEF Finish
  <2>2. process = "serving" /\ (reloads = 0 => RealRuntime(environment))
    BY <2>1 DEF BootInv
  <2>3. visits' = [visits EXCEPT ![v] = NoVisit]
    BY <1>6 DEF Finish
  <2>4. PICK answer \in RealAnswers : served' = served \cup {answer}
    BY <1>6 DEF Finish, RealAnswers
  <2>5. "demo" \in served' => "demo" \in served
    BY <2>4 DEF RealAnswers
  <2>6. QED
    BY <2>1, <2>2, <2>3, <2>4, <2>5 DEF BootInv
<1>7. QED
  BY <1>1, <1>2, <1>3, <1>4, <1>5, <1>6 DEF DeploymentNext

LEMMA BootInvariant == DeploymentSpec => []BootInv
BY BootInvInit, BootInvNext, PTL DEF DeploymentSpec

\* A process never mixes the demonstration with the real runtime, whatever
\* environment it is started with.
THEOREM DemoNeverMixes == DeploymentSpec => []OneRuntime
<1>1. BootInv => OneRuntime
  <2> SUFFICES ASSUME BootInv, reloads = 0, "demo" \in served
               PROVE  /\ served \cap RealAnswers = {}
                      /\ \A v \in Visits : visits[v] = NoVisit
    BY DEF OneRuntime, RealAnswers
  <2>1. process = "serving"
    BY DEF BootInv
  <2>2. ~RealRuntime(environment)
    BY <2>1, BootedIsOne DEF BootInv
  <2>3. QED
    BY <2>2 DEF BootInv
<1>2. QED
  BY <1>1, BootInvariant, PTL

-----------------------------------------------------------------------------
(***************************************************************************)
(* The pools.                                                              *)
(***************************************************************************)

\* The pool of a cache fits the environment.
Fits(c) == cached[c] # NoPool /\ cached[c].url = UrlOf(c, environment)

\* A request that came in since the last change of the environment holds the
\* pools its surface's caches hold, and they fit: nobody will replace them.
Holding(v) ==
  /\ visits[v].epoch <= reloads
  /\ visits[v].epoch = reloads =>
       \E surface \in Surfaces :
         /\ \A c \in CachesOf(surface) : Fits(c)
         /\ visits[v].pools = {cached[c] : c \in CachesOf(surface)}

PoolInv ==
  /\ reloads \in Nat
  /\ DOMAIN visits = Visits
  /\ \A v \in Visits : visits[v] # NoVisit => visits[v].epoch \in Nat /\ Holding(v)
  /\ DOMAIN cached = Caches
  /\ \A c \in Caches : cached[c] = NoPool \/ cached[c].cache = c
  /\ open = {cached[c] : c \in Caches} \ {NoPool}

LEMMA CachesOfSurface == \A surface : CachesOf(surface) \subseteq Caches
BY DEF CachesOf, Caches

\* lazyHandle leaves every cache it was asked for with a pool that fits, keeps
\* those that did, and closes what it replaces.
LEMMA LazyHandlesKeeps ==
  ASSUME PoolInv, NEW caches \in SUBSET Caches, LazyHandles(caches), UNCHANGED environment
  PROVE  /\ \A c \in caches : Fits(c)'
         /\ \A c \in Caches : Fits(c) => cached'[c] = cached[c]
         /\ DOMAIN cached' = Caches
         /\ \A c \in Caches : cached'[c] = NoPool \/ cached'[c].cache = c
         /\ open' = {cached'[c] : c \in Caches} \ {NoPool}
<1> DEFINE Handle(c) == IF Fits(c) THEN cached[c]
                        ELSE [cache |-> c, url |-> UrlOf(c, environment), since |-> arrivals]
<1>1. cached' = [c \in Caches |-> IF c \in caches THEN Handle(c) ELSE cached[c]]
  BY DEF LazyHandles, Fits
<1>2. open' = (open \ {cached[c] : c \in {d \in caches : ~Fits(d)}}) \cup {Handle(c) : c \in caches}
  BY DEF LazyHandles, Fits
<1>3. "none" \notin Caches
  BY DEF Caches
<1>4. \A c \in caches : Handle(c) # NoPool /\ Handle(c).cache = c /\ Handle(c).url = UrlOf(c, environment)
  BY <1>3 DEF PoolInv, Fits, NoPool
<1>5. \A c \in caches : cached'[c] = Handle(c)
  BY <1>1
<1>6. \A c \in Caches \ caches : cached'[c] = cached[c]
  BY <1>1
<1>7. \A c \in Caches : cached'[c] = NoPool \/ cached'[c].cache = c
  BY <1>4, <1>5, <1>6 DEF PoolInv
<1>8. \A c \in caches : Fits(c)'
  <2> SUFFICES ASSUME NEW c \in caches PROVE cached'[c] # NoPool /\ cached'[c].url = UrlOf(c, environment)
    BY DEF Fits, UrlOf
  <2>1. QED
    BY <1>4, <1>5
<1>9. \A c \in Caches : Fits(c) => cached'[c] = cached[c]
  BY <1>5, <1>6
<1>10. open' \subseteq {cached'[c] : c \in Caches} \ {NoPool}
  <2> SUFFICES ASSUME NEW pool \in open' PROVE pool # NoPool /\ \E c \in Caches : pool = cached'[c]
    OBVIOUS
  <2>1. CASE \E c \in caches : pool = Handle(c)
    BY <2>1, <1>4, <1>5
  <2>2. CASE pool \in open /\ pool \notin {cached[c] : c \in {d \in caches : ~Fits(d)}}
    <3>1. PICK c \in Caches : pool = cached[c] /\ pool # NoPool
      BY <2>2 DEF PoolInv
    <3>2. c \notin caches \/ Fits(c)
      BY <2>2, <3>1
    <3>3. QED
      BY <3>1, <3>2, <1>6, <1>9
  <2>3. QED
    BY <2>1, <2>2, <1>2
<1>11. {cached'[c] : c \in Caches} \ {NoPool} \subseteq open'
  <2> SUFFICES ASSUME NEW c \in Caches, cached'[c] # NoPool PROVE cached'[c] \in open'
    OBVIOUS
  <2>1. CASE c \in caches
    BY <2>1, <1>2, <1>5
  <2>2. CASE c \notin caches
    <3>1. cached'[c] = cached[c] /\ cached[c] \in open /\ cached[c].cache = c
      BY <2>2, <1>6 DEF PoolInv
    <3>2. \A d \in caches : ~Fits(d) => cached[d] # cached[c]
      BY <2>2, <3>1, <1>3 DEF PoolInv, NoPool
    <3>3. QED
      BY <3>1, <3>2, <1>2
  <2>3. QED
    BY <2>1, <2>2
<1>12. DOMAIN cached' = Caches
  BY <1>1
<1>13. open' = {cached'[c] : c \in Caches} \ {NoPool}
  BY <1>10, <1>11
<1>14. QED
  BY <1>7, <1>8, <1>9, <1>12, <1>13

LEMMA PoolInvInit == DeploymentInit => PoolInv
BY DEF DeploymentInit, PoolInv, Caches, NoPool

LEMMA PoolInvNext == PoolInv /\ [DeploymentNext]_deploymentVars => PoolInv'
<1> SUFFICES ASSUME PoolInv, [DeploymentNext]_deploymentVars PROVE PoolInv'
  OBVIOUS
<1>1. CASE UNCHANGED deploymentVars
  BY <1>1 DEF deploymentVars, PoolInv, Holding, Fits, UrlOf
<1>2. CASE Register
  BY <1>2 DEF Register, PoolInv, Holding, Fits, UrlOf
<1>3. ASSUME NEW env \in Environments, Reload(env) PROVE PoolInv'
  <2>1. reloads' = reloads + 1 /\ UNCHANGED <<visits, cached, open>>
    BY <1>3 DEF Reload
  <2>2. ASSUME NEW v \in Visits, visits[v] # NoVisit
        PROVE  visits'[v].epoch \in Nat /\ visits'[v].epoch < reloads'
    BY <2>1, <2>2 DEF PoolInv, Holding
  <2>3. ASSUME NEW v \in Visits, visits'[v] # NoVisit
        PROVE  visits'[v].epoch \in Nat /\ Holding(v)'
    BY <2>1, <2>2, <2>3 DEF PoolInv, Holding
  <2>4. QED
    BY <2>1, <2>3 DEF PoolInv
<1>4. ASSUME NEW env \in Environments, Exit(env) PROVE PoolInv'
  BY <1>4 DEF Exit, PoolInv
<1>5. ASSUME NEW v \in Visits, NEW surface \in Surfaces, Arrive(v, surface) PROVE PoolInv'
  <2>1. UNCHANGED <<environment, process, reloads>>
    BY <1>5 DEF Arrive
  <2>2. CASE Runtime(surface, environment) # "real"
    <3>1. UNCHANGED <<visits, cached, open>>
      BY <1>5, <2>2 DEF Arrive
    <3>2. QED
      BY <2>1, <3>1 DEF PoolInv, Holding, Fits, UrlOf
  <2>3. CASE Runtime(surface, environment) = "real"
    <3>1. LazyHandles(CachesOf(surface)) /\ CachesOf(surface) \in SUBSET Caches
      BY <1>5, <2>3, CachesOfSurface DEF Arrive
    <3>2. visits' = [visits EXCEPT ![v] =
            [surface |-> surface, pools |-> {cached'[c] : c \in CachesOf(surface)},
             epoch |-> reloads]]
      BY <1>5, <2>3 DEF Arrive
    <3>3. /\ \A c \in CachesOf(surface) : Fits(c)'
          /\ \A c \in Caches : Fits(c) => cached'[c] = cached[c]
          /\ DOMAIN cached' = Caches
          /\ \A c \in Caches : cached'[c] = NoPool \/ cached'[c].cache = c
          /\ open' = {cached'[c] : c \in Caches} \ {NoPool}
      BY <2>1, <3>1, LazyHandlesKeeps
    <3>4. \A c \in Caches : Fits(c) => Fits(c)'
      BY <2>1, <3>3 DEF Fits, UrlOf
    <3>5. visits'[v].epoch \in Nat /\ Holding(v)'
      BY <2>1, <3>2, <3>3 DEF PoolInv, Holding
    <3>6. ASSUME NEW w \in Visits \ {v}, visits'[w] # NoVisit
          PROVE  visits'[w].epoch \in Nat /\ Holding(w)'
      <4>1. visits'[w] = visits[w]
        BY <3>2 DEF PoolInv
      <4>2. visits[w].epoch \in Nat /\ Holding(w)
        BY <3>6, <4>1 DEF PoolInv
      <4>3. CASE visits[w].epoch # reloads
        BY <2>1, <4>1, <4>2, <4>3 DEF Holding
      <4>4. CASE visits[w].epoch = reloads
        <5>1. PICK s \in Surfaces :
                /\ \A c \in CachesOf(s) : Fits(c)
                /\ visits[w].pools = {cached[c] : c \in CachesOf(s)}
          BY <4>2, <4>4 DEF Holding
        <5>2. \A c \in CachesOf(s) : Fits(c)' /\ cached'[c] = cached[c]
          BY <5>1, <3>3, <3>4, CachesOfSurface
        <5>3. visits'[w].pools = {cached'[c] : c \in CachesOf(s)}
          BY <4>1, <5>1, <5>2
        <5>4. QED
          BY <2>1, <4>1, <4>2, <5>2, <5>3 DEF Holding
      <4>5. QED
        BY <4>3, <4>4
    <3>7. DOMAIN visits' = Visits
      BY <3>2 DEF PoolInv
    <3>8. QED
      BY <2>1, <3>3, <3>5, <3>6, <3>7 DEF PoolInv
  <2>4. QED
    BY <2>2, <2>3
<1>6. ASSUME NEW v \in Visits, Finish(v) PROVE PoolInv'
  <2>1. UNCHANGED <<environment, reloads, cached, open>>
    BY <1>6 DEF Finish
  <2>2. visits' = [visits EXCEPT ![v] = NoVisit]
    BY <1>6 DEF Finish
  <2>3. ASSUME NEW w \in Visits, visits'[w] # NoVisit
        PROVE  visits'[w].epoch \in Nat /\ Holding(w)'
    <3>1. visits'[w] = visits[w]
      BY <2>2, <2>3 DEF PoolInv
    <3>2. QED
      BY <2>1, <2>3, <3>1 DEF PoolInv, Holding, Fits, UrlOf
  <2>4. QED
    BY <2>1, <2>2, <2>3 DEF PoolInv
<1>7. QED
  BY <1>1, <1>2, <1>3, <1>4, <1>5, <1>6 DEF DeploymentNext

LEMMA PoolInvariant == DeploymentSpec => []PoolInv
BY PoolInvInit, PoolInvNext, PTL DEF DeploymentSpec

\* However many requests overlap, no pool is leaked and none is closed under a
\* request the environment has not changed on.
THEOREM PoolsAreNotClosedUnderRequests == DeploymentSpec => []PoolsOutliveRequests
<1>1. PoolInv => PoolsOutliveRequests
  <2> SUFFICES ASSUME PoolInv, NEW v \in Visits, visits[v] # NoVisit, visits[v].epoch = reloads
               PROVE  visits[v].pools \subseteq open
    BY DEF PoolsOutliveRequests, PoolInv
  <2>1. PICK surface \in Surfaces :
          /\ \A c \in CachesOf(surface) : Fits(c)
          /\ visits[v].pools = {cached[c] : c \in CachesOf(surface)}
    BY DEF PoolInv, Holding
  <2>2. \A c \in CachesOf(surface) : cached[c] \in open
    BY <2>1, CachesOfSurface DEF PoolInv, Fits
  <2>3. QED
    BY <2>1, <2>2
<1>2. QED
  BY <1>1, PoolInvariant, PTL

-----------------------------------------------------------------------------
(***************************************************************************)
(* What the checks show of a database, without a run of the suite.         *)
(***************************************************************************)

Checks ==
  /\ CheckTenantTableRls /\ CheckTenantRolePosture
  /\ CheckResolverReadPaths /\ CheckTenantRoleWalledOff

\* The tenant role sees its own organization's rows of a tenant table, and none
\* while no organization is set.
LEMMA TenantSeesItsOwn ==
  ASSUME CheckTenantTableRls, CheckTenantRolePosture, NEW t \in TenantTables, NEW setting
  PROVE  Visible(App, t, setting) \subseteq {setting} \cap Tenants
<1>1. rls[t] = Walled /\ roles[App] = "plain"
  BY DEF CheckTenantTableRls, CheckTenantRolePosture
<1>2. rls[t].enabled /\ rls[t].policy = "org"
  BY <1>1 DEF Walled
<1>3. roles[App] \notin {"bypassrls", "superuser"}
  BY <1>1
<1>4. CASE Holds(App, <<t, "SELECT">>)
  BY <1>2, <1>3, <1>4 DEF Visible
<1>5. CASE ~Holds(App, <<t, "SELECT">>)
  BY <1>5 DEF Visible
<1>6. QED
  BY <1>4, <1>5

\* The resolver's privileges on a tenant table stop at reading.
LEMMA ResolverOnlyReads ==
  ASSUME CheckResolverReadPaths, NEW t \in TenantTables, NEW p \in ALL_PRIVILEGES \ {"SELECT"}
  PROVE  ~Holds(Resolver, <<t, p>>)
<1>1. <<t, p>> \in Grants
  BY DEF Grants, Tables
<1>2. t \notin RESOLVER_ONLY_TABLES
  BY AcceptanceAssumption
<1>3. <<t, p>> \notin RESOLVER_ONLY_TABLES \X ALL_PRIVILEGES
  BY <1>2
<1>4. <<t, p>> \notin ({"invitations"} \cup RESOLVER_PRINCIPAL_TABLES) \X {"SELECT"}
  OBVIOUS
<1>5. <<t, p>> \notin RESOLVER_GRANT_WHITELIST
  BY <1>3, <1>4 DEF RESOLVER_GRANT_WHITELIST
<1>6. QED
  BY <1>1, <1>5 DEF CheckResolverReadPaths

\* The checks are enough: a database they pass is isolated.
THEOREM ChecksIsolate == Checks => Isolated
<1> SUFFICES ASSUME Checks PROVE Isolated
  OBVIOUS
<1> USE DEF Checks
<1>1. \A t \in TenantTables : Visible(App, t, "") = {}
  <2> SUFFICES ASSUME NEW t \in TenantTables PROVE Visible(App, t, "") = {}
    OBVIOUS
  <2>1. Visible(App, t, "") \subseteq {""} \cap Tenants
    BY TenantSeesItsOwn
  <2>2. QED
    BY <2>1, AcceptanceAssumption
<1>2. \A t \in TenantTables, o \in Tenants : Visible(App, t, o) \subseteq {o}
  <2> SUFFICES ASSUME NEW t \in TenantTables, NEW o \in Tenants
               PROVE  Visible(App, t, o) \subseteq {o}
    OBVIOUS
  <2>1. Visible(App, t, o) \subseteq {o} \cap Tenants
    BY TenantSeesItsOwn
  <2>2. QED
    BY <2>1
<1>3. \A t \in RESOLVER_ONLY_TABLES, p \in ALL_PRIVILEGES : ~Holds(App, <<t, p>>)
  BY DEF CheckTenantRoleWalledOff
<1>4. \A t \in TenantTables, p \in ALL_PRIVILEGES \ {"SELECT"} : ~Holds(Resolver, <<t, p>>)
  BY ResolverOnlyReads
<1>5. ~MayExecuteLookup(App)
  BY DEF CheckTenantRoleWalledOff
<1>6. QED
  BY <1>1, <1>2, <1>3, <1>4, <1>5 DEF Isolated

-----------------------------------------------------------------------------
(***************************************************************************)
(* Runs of the suite.                                                      *)
(***************************************************************************)

\* A change by hand voids the verdict.
LEMMA EditsVoidTheVerdict ==
  ASSUME Edit PROVE suite' = NoRun /\ touched' = {}
BY DEF Edit, Between

\* The steps of the suite; all others are changes by hand.
BySuite ==
  \/ \E u \in Targets, migrate, smoke \in BOOLEAN :
       \E confirmed \in {u.host, u.authority, ""} : Point(u, confirmed, migrate, smoke)
  \/ ApplyMigrations \/ RunAcceptance

LEMMA StepsOf == AcceptanceNext => Edit \/ BySuite
BY DEF AcceptanceNext, BySuite, CreateRole, GrantTable, RevokeTable, AlterSecurity, Drift,
       GrantBaseline, GrantLookup, Migrate

\* The invariant of a run: it keeps what it was pointed at, it changes the
\* target only within what it was asked, and its verdict is of the database as
\* it is.
Targeted ==
  /\ suite = [phase |-> suite.phase, url |-> suite.url, confirmed |-> suite.confirmed,
              migrate |-> suite.migrate, smoke |-> suite.smoke]
  /\ suite.confirmed = suite.url.host
  /\ suite.url.host \notin MainLike /\ suite.url.database \notin MainLike
  /\ suite.phase = "migrating" => suite.migrate
  /\ "ddl" \in touched => suite.migrate
  /\ "rolled back" \in touched => suite.smoke

SuiteInv ==
  /\ suite.phase \in {"migrating", "checking", "passed", "failed"} => Targeted
  /\ suite.phase = "passed" => Isolated

LEMMA SuiteInvInit == AcceptanceInit => SuiteInv
BY DEF AcceptanceInit, NoRun, SuiteInv

LEMMA SuiteInvNext == SuiteInv /\ [AcceptanceNext]_acceptanceVars => SuiteInv'
<1> SUFFICES ASSUME SuiteInv, [AcceptanceNext]_acceptanceVars PROVE SuiteInv'
  OBVIOUS
<1>1. CASE UNCHANGED acceptanceVars
  BY <1>1 DEF acceptanceVars, postureVars, SuiteInv, Targeted, Isolated, Visible, Holds, MayExecuteLookup
<1>2. CASE Edit
  BY <1>2, EditsVoidTheVerdict DEF NoRun, SuiteInv
<1>3. ASSUME NEW u \in Targets, NEW migrate \in BOOLEAN, NEW smoke \in BOOLEAN, NEW confirmed,
             Point(u, confirmed, migrate, smoke)
      PROVE  SuiteInv'
  <2>1. CASE EvaluateRemoteTargetGuard(u, confirmed)
    <3>1. suite' = [phase |-> IF migrate THEN "migrating" ELSE "checking", url |-> u,
                    confirmed |-> confirmed, migrate |-> migrate, smoke |-> smoke]
      BY <1>3, <2>1 DEF Point
    <3>2. touched' = {}
      BY <1>3 DEF Point
    <3>3. confirmed = u.host /\ u.host \notin MainLike /\ u.database \notin MainLike
      BY <2>1 DEF EvaluateRemoteTargetGuard
    <3>4. Targeted'
      BY <3>1, <3>2, <3>3 DEF Targeted
    <3>5. suite'.phase # "passed"
      BY <3>1
    <3>6. QED
      BY <3>4, <3>5 DEF SuiteInv
  <2>2. CASE ~EvaluateRemoteTargetGuard(u, confirmed)
    <3>1. suite'.phase = "refused"
      BY <1>3, <2>2 DEF Point
    <3>2. QED
      BY <3>1 DEF SuiteInv
  <2>3. QED
    BY <2>1, <2>2
<1>4. CASE ApplyMigrations
  <2>1. suite.phase = "migrating" /\ Targeted
    BY <1>4 DEF ApplyMigrations, SuiteInv
  <2>2. CASE touched' = touched \cup {"ddl"} /\ UNCHANGED suite
    BY <2>1, <2>2 DEF Targeted, SuiteInv
  <2>3. CASE suite' = [suite EXCEPT !.phase = "checking"] /\ UNCHANGED touched
    <3>1. suite' = [phase |-> "checking", url |-> suite.url, confirmed |-> suite.confirmed,
                    migrate |-> suite.migrate, smoke |-> suite.smoke]
      BY <2>1, <2>3 DEF Targeted
    <3>2. Targeted'
      BY <2>1, <2>3, <3>1 DEF Targeted
    <3>3. QED
      BY <3>1, <3>2 DEF SuiteInv
  <2>4. QED
    BY <1>4, <2>2, <2>3 DEF ApplyMigrations
<1>5. CASE RunAcceptance
  <2>1. Targeted
    BY <1>5 DEF RunAcceptance, SuiteInv
  <2>2. PICK phase : suite' = [suite EXCEPT !.phase = phase] /\ (phase = "passed" => Checks)
                     /\ phase \in {"passed", "failed"}
    BY <1>5 DEF RunAcceptance, Checks
  <2>3. suite' = [phase |-> phase, url |-> suite.url, confirmed |-> suite.confirmed,
                  migrate |-> suite.migrate, smoke |-> suite.smoke]
    BY <2>1, <2>2 DEF Targeted
  <2>4. touched' = touched \cup (IF suite.smoke THEN {"rolled back"} ELSE {})
    BY <1>5 DEF RunAcceptance
  <2>5. Targeted'
    BY <2>1, <2>2, <2>3, <2>4 DEF Targeted
  <2>6. UNCHANGED postureVars
    BY <1>5 DEF RunAcceptance
  <2>7. Isolated => Isolated'
    BY <2>6 DEF postureVars, Isolated, Visible, Holds, MayExecuteLookup
  <2>8. suite'.phase = "passed" => Isolated'
    BY <2>2, <2>3, <2>7, ChecksIsolate
  <2>9. QED
    BY <2>5, <2>8 DEF SuiteInv
<1>6. QED
  BY <1>1, <1>2, <1>3, <1>4, <1>5, StepsOf DEF BySuite

THEOREM SuiteInvariant == AcceptanceSpec => []SuiteInv
BY SuiteInvInit, SuiteInvNext, PTL DEF AcceptanceSpec

\* Whatever the order of provisioning, migrations and changes by hand, and
\* however many tables and tenants, a database the suite passed is isolated.
THEOREM AcceptanceIsolates == AcceptanceSpec => []AcceptedIsIsolated
<1>1. SuiteInv => AcceptedIsIsolated
  BY DEF SuiteInv, AcceptedIsIsolated
<1>2. QED
  BY <1>1, SuiteInvariant, PTL

\* Whatever URL it is given, the suite connects to the confirmed host only,
\* never to one that looks like the main database, and changes nothing unasked.
THEOREM ConsentBinds == AcceptanceSpec => []RemoteStaysWithinConsent
<1>1. SuiteInv => RemoteStaysWithinConsent
  BY DEF SuiteInv, Targeted, RemoteStaysWithinConsent
<1>2. QED
  BY <1>1, SuiteInvariant, PTL

=============================================================================
