# AFLO: specifications and proofs

TLA+ modules for the parts of AFLO whose correctness depends on the order in
which things happen: the Human Review Center and the domain workflows it shadows,
playbook governance, the transactional outbox, sign-in and invitations, messaging,
a client's journey, and the process and the database it all runs on.
`tlc -config X.cfg M` checks a run of `PROJECT.json`, `tlapm M.tla` the proofs of a
`*_proofs` module. Paths below are relative to `src/`; `store.ts` is
`packages/shared/src/store/store.ts`, and `packages/` is left out of most others.

## The system

AFLO is a TypeScript monorepo. Pure rule kernels (`packages/rules`) decide; an
in-memory store (`AfloStore`, synchronous, one process) is the running back end;
a PostgreSQL layer (`packages/database`, Drizzle, row level security) holds the
durable counterparts of some of it; a Next.js application calls the store.

| Component | State | Operations | What makes it correct |
|---|---|---|---|
| Review kernel, `rules/src/review-center.ts` | none | transition table, decisions, escalation, reviewer and publication policy | an override never lowers the policy; an escalation has a role to go to |
| Native reviews, `store.ts:3533-4931` | review items, decision log, outbox events | create, submit, assign, decide, publish, withdraw, supersede, record outcome | nothing is published unapproved or changed since its review; one open review per version; closed reviews are final |
| Domain bridges, `store.ts:1364-1880, 3551-3965` | roadmaps, reports, shadow items | transition of a roadmap or a report, generation of a report | a row and its shadow never disagree, a published shadow shows an approval |
| Outbox, `shared/src/outbox`, `database/src/repositories/outbox.ts` | outbox rows | enqueue, claim, mark, reap | at least once, bounded attempts, settled rows stay settled |
| Review persistence, `database/src/repositories/review-center.ts` | review rows, decision rows | create, save a transition, record a decision | a closed head is backed by its log |
| Playbooks, `rules/src/playbook.ts`, `store.ts:5038-5440`, `review-center.ts:1117-1510` (database) | playbooks, versions, review history | draft, submit, approve, publish, withdraw, override | author is not publisher; one published version |
| Workflow discovery, `store.ts:5458-5604` | discovery items | open, answer, convert, dismiss | a converted item names the version that absorbed it |
| Sessions, `auth/src`, `database/src/repositories/principal-directory.ts` | accounts, memberships, client links, revocations | resolve a principal, authorize, change a membership | who signed out acts as nobody, whatever is granted meanwhile |
| Webhooks, `database/src/services/clerk-webhook.ts` | receipts, revocations | receive, dispatch, mark | an event is processed though delivered twice or failed once |
| Invitations, `auth/src/invitation.ts`, `database/src/services/invitation-routes.ts`, `accept-invitation.ts` | invitations, bindings, audit rows | issue, accept, revoke, expire | one binding for one invitation, none after a revocation; the trail is true |
| Messaging, `rules/src/messaging.ts`, `store.ts:2187-2483`, `database/src/services/authorized-messaging.ts` | threads, messages, read marks | open, post, read, close | only the parties take part; told and waiting messages add up |
| Intake and pipeline, `store.ts:1002-1356, 3046-3142` | leads, intakes, assessments | advance, complete a section, complete, assess | beyond intake means a complete intake |
| Client plan, `store.ts:1497-1651, 1888-2179, 5635-5730` | actions, documents, appointments, notes, preferences, communications | one method each | a client's last word governs what is sent |
| Goals, education, simulator, `store.ts:2499-2888` | goals, lessons, transactions, settings | one method each | one primary goal, one open assignment |
| Partner referrals and handoffs, `store.ts:3177-3528` | referrals, packages | present, share, record, generate, revoke, verify | what verifies was consented to and still holds |
| Runtime contract, `shared/src/runtime`, `apps/web/src/instrumentation.ts` | environment, pools | boot, serve, reload, exit | demonstration and real data never mix |
| Acceptance suite, `database/src/acceptance` | a database's roles, grants, policies | provision, migrate, check | an accepted database isolates its tenants |
| Calculation rules, `rules/src` | none | readiness, resolution, round-ups, progress | their tables |
| Billing, stubs, pages | none that anything changes | pure functions and interfaces | - |

Interactions: every store operation appends its domain events to the outbox in
the same synchronous call (in the database: the same transaction,
`commitWithOutbox`); roadmap and report transitions move their shadow review
items in the same call; the web application supplies the current revision of an
artifact at publication; workers poll the outbox. A request of the real runtime
resolves a session context from the identity provider's session, the revocations
and the membership rows, and authorizes on it; messaging and invitations act on
that context. Which runtime answers a request is read from the environment each
time. A handoff package reads what intake, goals and documents keep.

Where it is hard: the store is sequential, so what goes wrong there is a *long
sequence of legal calls* by several people, on items that replace each other
(escalate, reassign, edit, supersede, publish). The bridges run two state
machines with different edges in lockstep. The outbox and the other database
repositories are concurrent: several workers and requests, crashes, expiring
locks, late answers. A session is resolved by five separate reads while
memberships change and webhooks revoke, and each service acts on what it read
before. `PROJECT.json` lists each hazard at its line.

## Modules

| Module | Models | Depends on |
|---|---|---|
| `ReviewKernel` | the pure review kernel | - |
| `ReviewCenter` | the native review lifecycle of the store | `ReviewKernel`, implements `ReviewPromise` |
| `ReviewPromise` | what a review process promises, abstractly | - |
| `ReviewMetrics` | queue, client view and analytics over items and log | `ReviewCenter` |
| `BridgedReview` | roadmaps, reports and their shadows, composed with all of `ReviewCenter` | `ReviewCenter` |
| `ReviewPersistence` | review rows and decision log in PostgreSQL, several requests | `ReviewKernel` |
| `Outbox` | outbox rows, repository transactions, workers, time | - |
| `PlaybookKernel` | the pure playbook kernel: version lifecycle, actor policy, discovery machine | `ReviewKernel` |
| `PlaybookContent` | what a version contains: validation, impact, open questions, the seeded drafts | `ReviewKernel` |
| `Playbooks` | playbooks and versions in the store | `PlaybookKernel`, implements `PlaybookPromise` |
| `PlaybookPromise` | what the playbook lifecycle promises, abstractly | - |
| `PlaybookRepository` | the same in PostgreSQL: transactions, row locks, several requests | `Playbooks` |
| `WorkflowDiscovery` | the discovery queue in the store and in the repository | `PlaybookKernel` |
| `SessionKernel` | roles, permissions, the authorization engine, transitions of accounts and memberships | - |
| `Sessions` | resolution of a principal beside changes and webhooks | `SessionKernel` |
| `Invitations` | the invitation routes and their repository, several requests | `Sessions` |
| `Messaging` | conversations, in the real and in the demonstration runtime | `SessionKernel` |
| `ReadinessKernel` | the rules that place a client in the lifecycle, and its tables | - |
| `ClientIntake` | pipeline, intake, assessments | `ReadinessKernel` |
| `ClientPlan` | actions, documents, appointments, notices | - |
| `ClientGoals` | goals, lessons, the round-up simulator | `ReadinessKernel` |
| `PartnerSharing` | referrals and signed packages, composed with the three above | `ClientIntake`, `ClientGoals`, `ClientPlan` |
| `Deployment` | a web process: modes, boot gate, surfaces, connection pools | - |
| `Acceptance` | the database and the suite that accepts it | - |
| `MC*` | small instances for TLC | |
| `ReviewCenter_proofs` | theorems about the native lifecycle and its analytics | `ReviewMetrics` |
| `BridgedReview_proofs` | the bridges | `BridgedReview`, `ReviewCenter_proofs` |
| `Outbox_proofs` | the outbox | `Outbox` |
| `Playbooks_proofs` | playbooks in the store and in PostgreSQL | `PlaybookRepository` |
| `Repositories_proofs` | review rows and discovery items in PostgreSQL | `ReviewPersistence`, `WorkflowDiscovery` |
| `Platform_proofs` | the web process and the accepted database | `Deployment`, `Acceptance` |
| `Invitations_proofs` | sessions, webhooks, invitations | `Invitations` |
| `Workspace_proofs` | pipeline, goals, plan, packages, conversations | `PartnerSharing`, `Messaging` |

**ReviewKernel.** The tables are records over the kernel's own strings; an
operator answering `{allowed, reasonCode}` is the predicate `allowed`.

**ReviewCenter.** `items[i]` is the head of review item `i` (`ReviewItem`, the
fields a guard or a property reads), `decisions[i]` its part of the append-only
decision log, `outbox[i]` its events, `artifact` the current revision of each
artifact. A *revision* is a content, i.e. a digest; `VersionOf` gives its
version label, and two contents may share one. One action per store method; the
method is synchronous, so the whole method is one step. A denied call changes
only the audit trail and is the action not being enabled. `EditArtifact` is the
artifact changing in its own workflow. Left out: audit rows, timestamps,
provenance fields, other organizations, malformed inputs.

**BridgedReview.** Adds `status`, the status of the domain rows.
`SyncBridgedShadow` is a function on a record of the review state, made of the
steps of `syncBridgedShadow` in order: find or mint the shadow, then supersede,
replace or walk it, each edge through the kernel's transition table and refused
when the kernel has no such edge. The native operations are kept beside it with
their own guards, including the two that have no bridged guard.

**ReviewMetrics.** No state: what `listReviewItems`, `listClientPublishedReviews` and
`reviewMetricsForOrg` answer, as functions of items and log. The figures are
derived along different paths, from heads or from log rows, and
`ReadsAgree` says that they meet. Time to decision and effectiveness per
playbook are left out, as items here carry neither a clock nor a playbook.

**ReviewPersistence.** The repository trusts its caller: a request reads an item
(`GetById`), and later decides by the kernel on what it read and writes by id, with
no expected state (`SaveTransition`, `RecordDecisionAndTransition`). `calls[w]` is what
request `w` has read. The transaction itself is one step (`Commit`): of the head it
reads again only what nobody changes, and a second `UPDATE` of a row waits for the
first. The partial unique index on open reviews is checked against committed rows,
as PostgreSQL does; a legacy log may be imported under an item before decisions are
taken on it.

**Outbox.** A repository method is one transaction and one action; rows locked
by a transaction in flight are skipped in the code, and none is in flight
between actions. `held` is what each worker remembers of the rows it claimed and
`pc` where it is in its poll (external: the worker is a stub, its loop is the
one the contract of `OutboxRepository` demands). Times are relative to now. A
worker may always be slower than its lock, so a mark can come late, after the
row was reaped, claimed by another worker, or settled. `delivered` is a
history variable for the properties.

**Playbooks.** `versions[p][l]` is the version of playbook `p` with label `l`, with
its review history; `head` is `currentVersionId`, `events` the outbox events of a
playbook. A content is what the policies read of it: of high impact or not, an
open question (`discovery_required`) or none. The three store methods are three
actions. An override that is given is well formed; whether it was needed is
computed, as in the code, and recorded in the history. Members keep their roles
and the organization its policy.

**PlaybookRepository.** State and rules are those of `Playbooks`; `tx` is the
publication each request has in flight. The repository opens every transaction
at the default isolation, READ COMMITTED, and takes its locks with `FOR UPDATE`.
A publication is three steps, because it looks twice at what others commit: it
locks and reads its own version (`BeginPublish`), its statement for the published
versions takes its snapshot (`SelectPrior`), and, having waited for those rows and
checked them again, it writes and commits (`CommitPublish`). Every other method
touches one row and is one step. `Rollback` ends a request at any point; it also
stands for a deadlock PostgreSQL breaks. The store may revise a draft in place;
the repository has no such method.

**WorkflowDiscovery.** `backend` says which of the two implementations keeps the
items, once and for all: a store call is one step; a repository transition reads
and checks in one step and updates by id in a later one, since it takes no lock in
between.

**PlaybookContent.** `validatePlaybookContent`, `isHighImpactPlaybookContent` and the
conditions that block an approval, as predicates on a record of the fields they
read. The ten seeded drafts are translated too: each is valid and blocked
(`SeedsAreBlockedDrafts`, evaluated with the `playbooks` run, whose contents are one
of the seeds and variants of it).

**SessionKernel, Sessions.** `PERMISSION_MATRIX`, the steps of `authorize` and the
account and membership transitions are predicates and records. `req` is one
resolution in flight, with what its reads returned so far: users row, active
memberships, inactive memberships, links, revocations. Everything else may happen
between two of them. A resolution writes nothing, so one at a time loses nothing.
Deliveries of `user.deleted` are processes: receive, dispatch, mark, die.

**Invitations.** `calls[r]` is what request `r` has read: the session it acts on, or the
invitation row. `Claim` is the claiming transaction with its conditional update
and the conflict of its insert; `Save` writes the row it fetched before,
unconditionally, as the repository does. `audit` is the trail, each row written
in a transaction of its own (`Emit`) that may be lost. A user stands for the one
verified email the provider vouches for.

**Messaging.** `runtime` says which of the two implementations serves, once and for
all. In the real one a request authorizes on the thread it loaded and writes in
a later step; in the demonstration each call is one step. `counted` is a history
variable: the unread messages each side was told of when it opened a thread.
`ThreadsShown` and `MessagesShown` are what a caller's list and thread view return,
`UnreadForStaff`, `ClientThreadView` and `UnreadForClient` the badges.

**ReadinessKernel, ClientIntake, ClientPlan, ClientGoals, PartnerSharing.** Rows are
never removed, so a row is its place in its table (a sequence). Rates are kept as
integers in the precision the code rounds to. Each store method is one action.
`moves` are the `LeadStatusChanged` events of the pipeline; other events and the
audit log are left out. A package's payload is reduced to stage, primary goal and
number of approved documents; its signature verifies, since the key is made per
process and the payload is never altered. The program never writes consents:
they are constants.

**Deployment.** An environment is a record of its mode variables and of the names
that are set. `process` is what became of the boot, `visits` the requests in flight,
`pools` the cached connection pools with the URL they were opened for, `served`
which runtimes answered. A reload changes the environment under the running
process, which re-reads it at every request. `Runtime(surface, env)` translates the
gates of the five kinds of surface.

**Acceptance.** PostgreSQL is external, modelled by what the suite asks of it: roles
with a posture, privileges, row level security and policies, the function that
looks up an invitation. `Apply*` are the parts of the migration journal by what they
grant and guard; operators do the same by hand in any order (`Edit`), and `Drift`
loses an index or an enum member. `suite` goes through the guard on its target,
the migrations if asked for, and the verdict. Tables of later migrations are
counted with the first part of the journal; the files on disk are taken to match
the journal; privilege inheritance and `TRUNCATE` are left out. Operators do not
edit while the suite runs: the code could not notice either.

## Runs

| Run | Checks | Instance |
|---|---|---|
| `review_single` | who may approve and publish, escalation, assignment, stale artifacts | 1 item, 3 roles, 2 contents under one label, all decisions |
| `review_pair` | uniqueness of open reviews, supersession, what is fixed at birth; head, log, events and analytics agree; closed is final; refinement of `ReviewPromise` | 2 items, 2 labels, one admin |
| `bridged` | lockstep, chains of revisions, approvals shown | a roadmap and a report, 2 members, 3 items |
| `outbox` | delivery, attempts, finality; every event settles | 2 workers, 2 events, 2 attempts, 1 crash |
| `playbooks` | separation of duties, publications that link up, append-only versions, refinement of `PlaybookPromise` | 1 version, 5 members, 3 contents, 3 saves; and 3 versions, 2 members |
| `repositories` | what concurrent requests keep of playbook versions, discovery items and review rows | each table by itself: 3 versions, 2 requests; 1 question, 2 requests; 2 items, 2 requests, 2 decisions each |
| `platform` | resolution of sessions, webhooks, one runtime per process, accepted databases are isolated | each area by itself: 1 user, 2 organizations, 2 deliveries, 2 changes; 84 environments, 2 requests, 1 reload; 2 URLs, 3 edits |
| `invitations` | one binding for one invitation; status and trail are true | 2 users, 2 organizations, 2 requests; 2 invitations without a trail, and 1 with it |
| `workspace` | read receipts, privacy, intake, packages, referrals, notices | each area by itself and the four client modules together, 2 clients |

Bounds. `review_single` has one item because its properties speak of one item at
a time, and three roles because escalation has two steps and a ceiling; the two
contents share a label because only then do the version and the digest check
differ. Two items are enough for a property about pairs, also of an item and its
replacement. The bridge has three items, for a roadmap returned twice, or for a
roadmap and a report together. Two
outbox workers suffice for a late mark, and two attempts for an expired lock and
a last attempt; more of each was explored without another outcome. `MaxItems`,
`MaxOutcomes`, `MaxCrashes` and `MaxOverdue` bound the model, not the
program; the theorems hold for all values of the first three. `bridged` does
not check deadlock: all rows may be archived or published.

`playbooks` has two corners. In the first, one version is saved, revised and moved by
a member of each role, a second owner (who may publish what the first one wrote)
and a member without a reviewer role; three saves are two authors and a revision
after which a fourth action shows. In the second, three versions are a chain in
which the middle one both supersedes and is superseded, with a single content,
since contents make no difference there. Publications that race in `repositories`
do so beside a third version in force; or both go for one
version, which the row lock gives to one of them at a time. The review rows there have two items,
for a stale write beside a second open review, and two decisions each, for an
escalation followed by a verdict; two revisions, under one label or two, were
explored without another outcome, and the theorems hold for any number. `MaxSaves` is a bound, and the theorems do not
depend on it.

`platform` explores three areas that share no state, chosen by the initial state.
For sessions: one user, since a resolution reads one user's rows; two
organizations, for the selection among several memberships; two deliveries of a
deletion; two changes, which fit between any two of the five reads (its memberships begin
together, so the order among several of different age is left to the theorem
`ReadsFollowThePolicy`); the two
deliveries overlap beside at most one of the changes. For the web
process: every selection of modes, and production with any one thing
missing or wrong; two requests and one reload are a pool in use that is replaced.
For the database: three edits beside the bootstrap are a mistake, its repair and
another mistake. The URLs are a branch, and a main database behind a harmless
authority.

`invitations` has two corners, because the audit trail multiplies the states: two
invitations without denials and with every row lost, and one invitation with its
trail. Two requests are an acceptance beside a second one, a revocation or
a stale save; two organizations are a membership elsewhere. `Lifetime` 0 and one
tick let an invitation expire under a request.

`workspace` explores messaging, intake, plan and goals each as deep as their bounds
allow, and then intake, plan, goals and sharing together with at most `Budget` rows
(`Together`: the lead stays one, and the tables no package reads stay empty), enough
for a referral with its outcome, or a package whose documents, goal and assessment
are all there and change after. Two threads and three messages are a client's sum
over threads; the clients are one who starts as a new lead and one who was assessed
before.

The runs of playbooks, repositories, platform, invitations and workspace do not
check deadlock: everything may be closed, superseded, converted, expired or at its
bound.

Three runs end in a violation, each of a sentence in the repository that the code
does not keep:

* `playbook_race`: two requests publish two versions of a playbook, and both stay
  published: the locks they take have no row in common. The head still names a
  published version and no history entry is lost (proved); a lock on the
  playbook row, or a partial unique index, would close the gap.
* `discovery_reopened`: a question converted by one request is reopened by another
  that had read it before. A converted question keeps answer and version in any
  case (`ConvertedIsComplete`).
* `intake_drift`: a forward move to `intake_started` may be flagged as a reversal, and
  then opens no checklist: the lead has to go back and come again. Nobody gets
  beyond intake without one (`BeyondIntakeIsComplete`).

Disagreements between text and code seen while modelling, which no run is spent
on:

* `recordReviewDecision` takes the modifications digest beside the edited field
  names and checks the names only (`store.ts:4491`): an item may be recorded as
  approved unchanged and carry modifications (`rules/src/review-center.ts:336`).
* `store.ts:3559` says every public review operation is denied on a shadow;
  `assignReviewer` (`store.ts:4251`) and `recordReviewOutcome` (`store.ts:4869`) are
  not: the one names a reviewer on an open shadow, the other appends a
  `ReviewOutcomeRecorded` event to a published one. `ShadowsMoveWithTheirRow` names
  these two, and says that a shadow whose row rests sees nothing else: no state, no
  decision, no other field and no other event.
* After a failure and an expired lock, `lastError` is the older of the two
  reasons (`outbox/transitions.ts:131`), not the most recent one
  (`outbox/record.ts:48`).
* Who rewrites another member's draft is not its author (`store.ts:5164`) and
  publishes it without an override, where the policy the kernel quotes
  (`rules/src/playbook.ts:124`) lets nobody author and publish a version.
  Separation from the *recorded* author is proved (`SeparationOfDuties`).
* A worker may mark a row that was reaped and claimed by another worker:
  `markProcessed` and `markFailed` look at the status only
  (`database/src/repositories/outbox.ts:215`), where the contract says the row must be
  the caller's (`shared/src/outbox/repository.ts:43`). The safety properties survive
  it; a late failure costs the other worker its lock.
* Two decisions on one item may both commit; the head then shows the second with the
  first one's log row before it (`database/src/repositories/review-center.ts:59`, `694`).
  What survives is `HeadIsBacked`.
* The simulator's totals are those of the settings at the time
  (`store.ts:2831`): a later `configureSimulation` leaves stored round-ups as they are.
* Production "must be fully configured" (`shared/src/runtime/runtime.ts:320`), but the
  boot gate does not ask for `AUTH_RESOLVER_DATABASE_URL` and `FIELD_ENCRYPTION_KEY`,
  without which messaging and invitations answer 503; and the session source of the
  Clerk adapter never yields a session, so its routes answer 401.
* A pool is ended when the environment names another URL, under requests that still
  use it (`apps/web/src/lib/auth-runtime.ts:48`). Without a reload none is (proved).
* `playbook.ts:349` says the store validates calculations against the rule registry
  and vocabularies again; `savePlaybookVersion` (`store.ts:5153`) calls
  `validatePlaybookContent` only.
* `recordReferralOutcome` takes any outcome, also one that is not in
  `REFERRAL_OUTCOMES`.
* An acceptance that lost its claim to a revocation is answered `already_accepted`.
* A pending invitation that expired and was not swept blocks another one for the
  same person; a revoked member cannot be invited again; a person without any tie
  cannot resolve a session to accept with (ADR-0042); a second active membership
  locks its user out of both; a `user.deleted` that arrives before a later sign-in
  does not reach it.
* The portal names a thread by its place in the list, which is read again at the
  mutation: a reply may land in another of the client's own threads.

## Fairness

Only `outbox` assumes any (`FairSpec`). Time passes; the dispatch job runs every minute
(`apps/worker/src/jobs.ts`), and the contract obliges it to reap before it
claims, so a worker that is up reaps and claims again and again; a handler run
ends, one way or the other, and is marked; a crashed worker is restarted. All
weak fairness. Nothing obliges a handler to succeed, and a producer may never
commit. Crashes are bounded: a worker that crashes forever marks nothing.

## Proofs

Each holds for every value of the constants, under the named assumptions of the
module: roles are total, null is nobody's id, inputs come from the kernel's
vocabularies, times and bounds are naturals with a positive budget, `""` names no
organization.

`Outbox_proofs`. Every action but `Enqueue`, `Tick`, `Crash` and `Restart` replaces
rows by one of `Claimed`, `Completed`, `Failed`, `Expired`; lemmas state what each
does to a row, and each invariant is proved per action from them.
`TypeCorrect`; `AttemptsWithinBudget` (inductive given the types: a claim adds one
attempt only to a row that has one left, because a row with none was
dead-lettered); `SettledRowsStay`; `ProcessedRowsWereDelivered`, strengthened by: a
worker that remembers a success is right, `held[w][e] = "succeeded"` implies
`e \in delivered`; `LocksAgree`, strengthened by: a worker about to claim holds
nothing.

`ReviewCenter_proofs`. Every action rewrites one or two heads (`HeadStep`), so the
proofs go by what may happen to one item. `TypeCorrect` needs the guard on
escalation at the ceiling. `ReviewsAreUnique` is inductive: creation and
supersession look for an open review before they make one, and no edge of the
kernel re-enters an open state from outside. `NothingPublishedUnapproved` rests
on `PublicationInv`: an item in `approved` or beyond by way of it has an approval
at the end of its log by someone meeting its floor, open items have logged only
escalations, and whoever is named in a publication event met the publication
floor; its floor no longer moves because only a decision raises it.
`LifecycleKeepsPromise` shows that initial states and steps map to those of
`ReviewPromise`. `ClosedStaysClosed` and `PublicationIsCurrent` are action properties:
no edge leaves a closed state, and a publication compares the digest.
`EscalationsAreBinding`, `AssigneesDecide` and `HeadsTellTheLog` follow from one
invariant, `StoryInv`, about a head, its log and its events together: an open item is
undecided but for escalations, no decision was taken below the floor the escalations
before it raised, who is named was the assignee or an admin, and every log row was
announced once; a verdict can only be added, since nothing open names a reviewer yet.
`AllReadsAgree` is about derived figures: a small theory of sums (`TheSum`: a fold that
adds the sizes of disjoint sets yields the size of their union), the log split by item,
by type and by reviewer (`GroupsAddUp`), and a bijection between verdicts and the items
they closed, since by `StoryInv` only an escalation is followed by another row.
`SupersessionsLink` rests on `LinksInv`: an item is superseded if and only if it names
a successor, which names it back.

`BridgedReview_proofs`. A domain move is a function of the review records, so the
lemmas speak of records and not of states. `BridgedInv` says of every row that a live
shadow is the last of its chain (hence at most one), what each shadow tells of its
approvals (`ShadowStory`), that neighbours name each other (`InOneChain`), and that
live shadow and status agree (`InStep`). There is one lemma per kernel edge and one
for a minted shadow; the walk is composed of its three legs (`WalkArrives`), and
`SyncedAfterMove` puts the cases together. What makes them exhaustive is
`MovesOfRows`: seen through the mapped state, the two workflows never ask for a move
the kernel refuses (`Follows`), which is why the fail-closed branch of the code is
never taken. Native operations leave at rest whatever `BridgedInv` reads of a
shadow (`NativeRests`), including the two without a bridged guard.
`RowsAndShadowsInLockstep`, `PublishedShadowsApproved`, `RevisionsChained` and
`ShadowsFollowTheirRow` (events included, but for the two the code lets through)
follow, and `BridgeKeepsPromise` shows that a walk over several
edges in one call is still a step of `ReviewPromise`. The attempt found overlapping
arms in three `CASE` expressions of the model, of which TLC had picked the first;
they now exclude each other.

`Playbooks_proofs`. A step rewrites rows, and a row is rewritten by `Drafted`,
`Revised`, `Moved` or `Superseded` (`RowStep`), so what holds of one version is proved
row by row. `Good`, the invariant of a row, strengthens the properties by what a
row must satisfy before they can bite: a draft or a version under review has
nobody's approval in its history yet, so content may still change; what left
review has no open question. `TypeCorrect`, `HistoryIsTruthful`,
`DutiesAreSeparated`, `NoQuestionIsApproved` and `VersionsOnlyGrow` follow from it.
`OneVersionInForce` is inductive given the types: publication is the only way into
`published`, it empties the set of others, and the kernel's one edge out is
supersession. `PublicationsAreChained` rests on a lemma about logs: what is in force
after `n` events depends on those `n` only, so an event appended at the end links up
with what the head names (`ChainGrows`).
`StoreKeepsPromise` maps each step to one of `PlaybookPromise`. The theorems about
the repository reuse the row lemmas. What is new is `TxInv`: while a
request holds its version, that row is as it was read and no other request holds
it. So what `CommitPublish` writes from its copy extends the history that is there
(`HistoriesGrow`), and the version it writes was approved until then, so it is not
among those another publication supersedes (`HeadsStayPublished`). And whoever
publishes holds a row that is still approved, so it was never published before: the
commit that adds the one entry to its history adds the one event to the trail, and no
row comes back to `approved` (`OnceInv`, `VersionsArePublishedOnce`).

`Repositories_proofs` first says what a transaction on review rows may write
(`LegalWrite`): a state that takes a decision comes with that decision, and a
publication from an item read as approved.
`HeadsAreBacked` is strengthened by `ReadsAreBacked`: what a request holds as approved
has an approval in the log, which only grows, so a publication written long after is
backed too, whatever others wrote meanwhile. For the discovery queue,
`ConversionsAreComplete` holds in both back ends, because answers are never taken back
(`AnswersLast`); that the version absorbed what was answered, and that a conversion
is final, only in the store (`StoreConversionsAbsorb`, `StoreConversionsAreFinal`), as
`discovery_reopened` shows.

`Platform_proofs`. For the database it first leaves the suite aside: any database the
checks pass is isolated (`ChecksIsolate`), from the privileges and policies they look
at to what a query sees, table by table. For the specification, `SuiteInv` says that a
verdict that stands was reached by the checks on the database as it is, because
every edit voids it, and that the suite connects only where the guard let it
(`AcceptanceIsolates`, `ConsentBinds`). For the process: an environment that boots is
not both demonstration and real (`BootedIsOne`), and while it does not change every
answer and every request in flight is evidence of it (`BootInv`, from which
`DemoNeverMixes`). `PoolInv` says which request uses which pool, that a cached pool is
open and none is held twice (`PoolsAreNotClosedUnderRequests`).

`Invitations_proofs`. Of the tables it matters what only moves forward: cutoffs rise
and revocations are never taken back (`Meantime`). `SignedOutIsNobody` needs of a resolution in flight what it has
*read* and not only what is there (`SignOutInv`): whether its last read, of the
revocations, came before or after the sign-out, the session it answers is older than
the cutoff. `ProcessedIsRevoked` goes by the phases of a delivery (`DeliveriesInv`): the
effect is written before the mark, and is never undone, so the mark of one delivery
also vouches for those that died. `ReadsFollowThePolicy` carries along that the reads
so far agree with the tables while nothing was changed (`Undisturbed`,
`ReadsAreCurrent`). The invitation theorems rest on `InvitationsInv`, which says of the
rows, of the copies requests hold of them and of the audit trail alike that what they
tell is true: a save writes back a row fetched earlier, so an invariant of the rows
alone is not inductive.

`Workspace_proofs`. `IntakesAreComplete`: every section of a completed intake is done and
stays so (`FullyDone`), and who was assessed was ready then (`AssessedWasReady`); it is
inductive because a forward move cannot skip a required stage, a fact about the order
of `PIPELINE`. `TrailsLeadHere` rests on `TrailInv`: each event of a record starts where
the one before ended, the last ends where the record stands, and every required stage
in between was visited. `OneGoalIsPrimary` is inductive given the types.
`ClientsLastWordGoverns` needs that preferences are recorded in the order of their
times, so the one with the latest time is the last word. `ReferralsAreSharedFirst` and
`ValidPackagesHold` compose three components: whatever intake, goals and documents do,
they keep whose a goal is (`GoalsKept`), what was approved (`DocumentsKept`) and what was
assessed, so what a package says at its birth goes on holding. `ConversationsStayPrivate`
rests on the parties of a thread being fixed when it is opened and on every call in
flight carrying one of them; `ReceiptsAlwaysAddUp` counts the unread messages per
thread and side (`CountsAddUp`).

Induction. The theorems of the library that take an operator cannot be instantiated by
the provers here; where a proof needs induction it takes a least counterexample
instead, which is a first-order fact: of naturals (`NatLeast`, from
`NatLessThanWellFounded`) or of finite sets (`OnlyOneSum`, from
`FS_StrictSubsetOrderingWellFounded`).

Only model-checked: liveness (`EveryEventSettles`) and everything under fairness, out
of the prover's reach. Every other property of a passing run is a theorem.

Stated and in no run, as they say less than what is, or follow from theorems:
the type invariants, `HeadIsPublished`, `HistoryTellsStatus`, `NoOpenQuestionApproved`,
`LockAgreesWithHolder`, `ConvertedIsComplete`, `StoreConversionIsFinal`,
`PoolsOutliveRequests`, `RemoteStaysWithinConsent`, `OneOfEach`, all of them proved; and
the action property `ReviewIsPinned`, checked on the instance of its module.

## Plan

Done: the modules of the table above, and a theorem for every safety property of a
passing run. Left: `ReviewIsPinned`, from the invariants there are.

## Not modelled

* Billing transitions: pure functions that nothing calls, so there is no state they
  act on.
* Stub and adapter packages (`ui`, `reports`, `analytics`, `ai`, `embedded-finance`):
  interfaces and configuration without state.
* Opportunity notices, credit reports and the vendor registry: pure reads over frozen
  registries and synthetic reports, for display; nothing stores or checks them.
* Pages: rendering of what the modelled operations return.
* The kernels of accounts and memberships have no caller in the database layer
  yet; `Sessions` lets an administrator make any change they allow.
* Consents, profiles and partners are read by the store and never written, so they
  are constants: no run withdraws a consent.
* Signature verification of webhooks is an input of `Receive`: the routes see
  verified events. The other event types change no state.
* The engagement score and the explanations of assessments: arithmetic and text
  that no guard reads.
* Policies of row level security themselves, which PostgreSQL enforces; `Acceptance`
  says which of them an accepted database has.
* Assignment scoping and the consent gates of `authorize` are off in the code that
  calls it.
