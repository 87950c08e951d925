----------------------------- MODULE Deployment -----------------------------
(***************************************************************************)
(* A web process from its start to its exit: the runtime contract of       *)
(* packages/shared (runtime.ts), the boot gate (instrumentation.ts), and   *)
(* what each surface of apps/web answers with: the demonstration store,    *)
(* the real runtime, or a refusal.  Also the cached connection pools of    *)
(* auth-runtime.ts and of the webhook route.                               *)
(*                                                                         *)
(* An environment is a record: a mode variable is its trimmed, lower-case  *)
(* value, "" when unset; `set` names the variables that are not blank.     *)
(* Only the node runtime is modelled: there is no edge route.              *)
(***************************************************************************)
EXTENDS Integers, FiniteSets

CONSTANTS
  Environments,   \* the environments a process may be started or reloaded with
  Visits,         \* requests in flight at the same time
  MaxArrivals,    \* bound: requests of one process
  MaxReloads      \* bound: changes of the environment under a running process

RUNTIME_MODES == {"test", "development", "demo", "preview", "production"}

Has(env, key) == key \in env.set

(***************************************************************************)
(* runtime.ts: the modes, and the problems that keep a process from        *)
(* starting.  Production and demo are never inferred.                      *)
(***************************************************************************)
ResolveRuntimeMode(env) ==
  IF env.app \in RUNTIME_MODES THEN env.app
  ELSE IF env.node = "test" THEN "test"
  ELSE IF env.vercel = "preview" THEN "preview"
  ELSE "development"

IsDemoRuntimePermitted(env) == ResolveRuntimeMode(env) \in {"demo", "test"}

ResolveAuthMode(env) ==
  IF env.auth = "clerk" THEN "clerk"
  ELSE IF IsDemoRuntimePermitted(env) THEN "demo" ELSE "unresolved"

ResolveRepositoryMode(env) ==
  IF env.repo = "postgres" THEN "postgres"
  ELSE IF IsDemoRuntimePermitted(env) THEN "memory" ELSE "unresolved"

ResolveSeedMode(env) ==
  IF env.seed # "off" /\ IsDemoRuntimePermitted(env) THEN "synthetic" ELSE "off"

AuthConfigured(env) ==
  {"CLERK_SECRET_KEY", "NEXT_PUBLIC_CLERK_PUBLISHABLE_KEY", "CLERK_WEBHOOK_SECRET"}
    \subseteq env.set

StorageConfigured(env) ==
  /\ {"STORAGE_PROVIDER", "STORAGE_BUCKET"} \subseteq env.set
  /\ {"STORAGE_SIGNING_SECRET", "STORAGE_CREDENTIALS"} \cap env.set # {}

EmailConfigured(env) == {"RESEND_API_KEY", "RESEND_FROM_EMAIL"} \subseteq env.set

\* An explicit branch decides; without one, whether the URL looks like it.
IsPreviewDatabase(env) ==
  IF env.branch # "" THEN env.branch = "preview"
  ELSE Has(env, "DATABASE_URL") /\ env.urlLooksPreview

DemoProblems(env) ==
  {v \in {"AUTH_MODE", "REPOSITORY_MODE"} :
     \/ v = "AUTH_MODE" /\ env.auth = "clerk"
     \/ v = "REPOSITORY_MODE" /\ env.repo = "postgres"}

UnresolvedProblems(env) ==
  {v \in {"AUTH_MODE", "REPOSITORY_MODE", "SEED_MODE"} :
     \/ v = "AUTH_MODE" /\ ResolveAuthMode(env) = "unresolved"
     \/ v = "REPOSITORY_MODE" /\ ResolveRepositoryMode(env) = "unresolved"
     \/ v = "SEED_MODE" /\ env.seed = "synthetic"}

ProductionProblems(env) ==
  {v \in {"AUTH_MODE", "REPOSITORY_MODE", "SEED_MODE", "EMAIL_MODE", "STORAGE_MODE",
          "DATABASE_URL", "DATABASE_BRANCH", "CLERK", "STORAGE", "RESEND",
          "ENCRYPTION_KEY_REFERENCE", "WORKER_SECRET", "SENTRY_DSN"} :
     \/ v = "AUTH_MODE" /\ ResolveAuthMode(env) # "clerk"
     \/ v = "REPOSITORY_MODE" /\ ResolveRepositoryMode(env) # "postgres"
     \/ v = "SEED_MODE" /\ (env.seed = "synthetic" \/ ResolveSeedMode(env) # "off")
     \/ v = "EMAIL_MODE" /\ env.email # "resend"
     \/ v = "STORAGE_MODE" /\ env.storage # "private"
     \/ v = "DATABASE_URL" /\ ~({"DATABASE_URL", "DIRECT_DATABASE_URL"} \subseteq env.set)
     \/ v = "DATABASE_BRANCH" /\ IsPreviewDatabase(env)
     \/ v = "CLERK" /\ ~AuthConfigured(env)
     \/ v = "STORAGE" /\ ~StorageConfigured(env)
     \/ v = "RESEND" /\ env.email = "resend" /\ ~EmailConfigured(env)
     \/ v \in {"ENCRYPTION_KEY_REFERENCE", "WORKER_SECRET"} /\ ~Has(env, v)
     \/ v = "SENTRY_DSN" /\ ~({"SENTRY_DSN", "NEXT_PUBLIC_SENTRY_DSN"} \subseteq env.set)}

\* resolveRuntimeConfig; test mode is permissive.
Problems(env) ==
  CASE ResolveRuntimeMode(env) = "demo" -> DemoProblems(env)
    [] ResolveRuntimeMode(env) \in {"development", "preview"} -> UnresolvedProblems(env)
    [] ResolveRuntimeMode(env) = "production" -> ProductionProblems(env)
    [] OTHER -> {}

(***************************************************************************)
(* What a surface needs before it serves the real runtime.                 *)
(***************************************************************************)
RealRuntime(env) == ResolveAuthMode(env) = "clerk" /\ ResolveRepositoryMode(env) = "postgres"

\* resolveMessagingUiRuntime.
ResolveMessagingUiRuntime(env) ==
  IF RealRuntime(env) THEN "persistent"
  ELSE IF IsDemoRuntimePermitted(env) THEN "demo" ELSE "unavailable"

\* The gate of the two invitation routes.
InvitationsConfigured(env) ==
  RealRuntime(env) /\ {"DATABASE_URL", "AUTH_RESOLVER_DATABASE_URL"} \subseteq env.set

\* messagingCipherFromEnv gives a cipher.
MessagingCipherFromEnv(env) == Has(env, "FIELD_ENCRYPTION_KEY") /\ env.keyWellFormed

\* composeMessagingDeps gives dependencies, not null.
ComposeMessagingDeps(env) ==
  /\ RealRuntime(env)
  /\ {"DATABASE_URL", "AUTH_RESOLVER_DATABASE_URL", "FIELD_ENCRYPTION_KEY"} \subseteq env.set
  /\ MessagingCipherFromEnv(env)

\* The gate of the webhook route.
WebhookConfigured(env) ==
  RealRuntime(env) /\ {"CLERK_WEBHOOK_SECRET", "AUTH_RESOLVER_DATABASE_URL"} \subseteq env.set

\* Pages read lib/data.ts; `messages` is the pages' messaging gateway.
Surfaces == {"pages", "messages", "api_messages", "api_invitations", "webhook"}

\* What a surface answers with: "demo", "real", or a refusal.
Runtime(surface, env) ==
  CASE surface = "pages" -> IF IsDemoRuntimePermitted(env) THEN "demo" ELSE "refused"
    [] surface = "messages" ->
         IF ResolveMessagingUiRuntime(env) = "demo" THEN "demo"
         ELSE IF ComposeMessagingDeps(env) THEN "real" ELSE "refused"
    [] surface = "api_messages" -> IF ComposeMessagingDeps(env) THEN "real" ELSE "refused"
    [] surface = "api_invitations" -> IF InvitationsConfigured(env) THEN "real" ELSE "refused"
    [] surface = "webhook" -> IF WebhookConfigured(env) THEN "real" ELSE "refused"

(***************************************************************************)
(* The process.                                                            *)
(***************************************************************************)
VARIABLES
  environment,  \* process.env
  process,      \* "down", "refused" (exited at the boot gate) or "serving"
  reloads,      \* changes of the environment since the start
  cached,       \* the connection pool each cache holds
  open,         \* the pools that are not closed
  visits,       \* requests in flight
  arrivals,     \* requests so far
  served        \* history: what this process has answered with

deploymentVars ==
  <<environment, process, reloads, cached, open, visits, arrivals, served>>

\* tenantHandle and resolverHandle of auth-runtime.ts, and the webhook route's own.
Caches == {"tenant", "resolver", "webhook"}
NoPool == [cache |-> "none"]
NoVisit == [surface |-> "none"]

UrlOf(cache, env) == IF cache = "tenant" THEN env.tenantUrl ELSE env.resolverUrl

CachesOf(surface) == IF surface = "webhook" THEN {"webhook"} ELSE {"tenant", "resolver"}

DeploymentInit ==
  /\ environment \in Environments /\ process = "down" /\ reloads = 0
  /\ cached = [c \in Caches |-> NoPool] /\ open = {}
  /\ visits = [v \in Visits |-> NoVisit] /\ arrivals = 0 /\ served = {}

\* Mutant: the boot gate leaves test mode to the contract.
RegisterPermissively ==
  /\ process = "down"
  /\ process' = IF Problems(environment) = {} THEN "serving" ELSE "refused"
  /\ UNCHANGED <<environment, reloads, cached, open, visits, arrivals, served>>

\* register: a served process is never in test mode, and has no problem.
Register ==
  /\ process = "down"
  /\ process' = IF ResolveRuntimeMode(environment) # "test" /\ Problems(environment) = {}
                THEN "serving" ELSE "refused"
  /\ UNCHANGED <<environment, reloads, cached, open, visits, arrivals, served>>

\* A configuration change in development: the boot gate does not run again.
Reload(env) ==
  /\ process = "serving" /\ reloads < MaxReloads
  /\ environment' = env /\ reloads' = reloads + 1
  /\ UNCHANGED <<process, cached, open, visits, arrivals, served>>

\* lazyHandle: one pool for each cache, keyed by URL; a replaced one is closed.
LazyHandles(caches) ==
  LET Fits(c) == cached[c] # NoPool /\ cached[c].url = UrlOf(c, environment)
      Handle(c) == IF Fits(c) THEN cached[c]
                   ELSE [cache |-> c, url |-> UrlOf(c, environment), since |-> arrivals]
  IN  /\ cached' = [c \in Caches |-> IF c \in caches THEN Handle(c) ELSE cached[c]]
      /\ open' = (open \ {cached[c] : c \in {d \in caches : ~Fits(d)}})
                   \cup {Handle(c) : c \in caches}

\* A request that finds the real runtime takes its pools; others are answered.
Arrive(v, surface) ==
  /\ process = "serving" /\ visits[v] = NoVisit /\ arrivals < MaxArrivals
  /\ arrivals' = arrivals + 1
  /\ IF Runtime(surface, environment) = "real"
     THEN /\ LazyHandles(CachesOf(surface))
          /\ visits' = [visits EXCEPT ![v] =
               [surface |-> surface, pools |-> {cached'[c] : c \in CachesOf(surface)},
                epoch |-> reloads]]
          /\ UNCHANGED served
     ELSE /\ served' = served \cup {Runtime(surface, environment)}
          /\ UNCHANGED <<visits, cached, open>>
  /\ UNCHANGED <<environment, process, reloads>>

\* clerkSessionSource yields no session yet: the surfaces that need one answer
\* "signed_out" and query nothing.  The webhook route queries its pool.
Finish(v) ==
  /\ visits[v] # NoVisit
  /\ served' = served \cup
       {IF visits[v].surface # "webhook" THEN "signed_out"
        ELSE IF visits[v].pools \subseteq open THEN "real" ELSE "failed"}
  /\ visits' = [visits EXCEPT ![v] = NoVisit]
  /\ UNCHANGED <<environment, process, reloads, cached, open, arrivals>>

\* The process ends, started again with another environment perhaps.
Exit(env) ==
  /\ process # "down" /\ process' = "down" /\ environment' = env
  /\ reloads' = 0 /\ arrivals' = 0 /\ served' = {} /\ open' = {}
  /\ cached' = [c \in Caches |-> NoPool] /\ visits' = [v \in Visits |-> NoVisit]

DeploymentNext ==
  \/ Register
  \/ \E env \in Environments : Reload(env) \/ Exit(env)
  \/ \E v \in Visits : (\E s \in Surfaces : Arrive(v, s)) \/ Finish(v)

DeploymentSpec == DeploymentInit /\ [][DeploymentNext]_deploymentVars

(***************************************************************************)
(* Properties.                                                             *)
(***************************************************************************)
\* The states a process can be in.
DeploymentTypeOK ==
  /\ environment \in Environments /\ process \in {"down", "refused", "serving"}
  /\ reloads \in 0..MaxReloads /\ arrivals \in 0..MaxArrivals
  /\ \A c \in Caches : cached[c] = NoPool \/ cached[c].cache = c
  /\ \A v \in Visits : visits[v] = NoVisit \/ visits[v].surface \in Surfaces
  /\ served \subseteq {"demo", "refused", "signed_out", "real", "failed"}

\* "The demo runtime never mixes with real providers" (runtime.ts): a process
\* whose environment stays the one it booted with never answers one request
\* from the demonstration and another from the real runtime.
OneRuntime ==
  reloads = 0 /\ "demo" \in served =>
    /\ served \cap {"signed_out", "real", "failed"} = {}
    /\ \A v \in Visits : visits[v] = NoVisit

\* No pool is leaked, and none is closed under a request unless the
\* environment changed since it came in (lazyHandle).
PoolsOutliveRequests ==
  /\ open = {cached[c] : c \in Caches} \ {NoPool}
  /\ \A v \in Visits : visits[v] # NoVisit /\ visits[v].epoch = reloads => visits[v].pools \subseteq open

=============================================================================
