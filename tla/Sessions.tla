------------------------------ MODULE Sessions ------------------------------
(***************************************************************************)
(* Who a request acts as: ProviderSessionContextProvider.resolve of        *)
(* packages/auth over DrizzlePrincipalDirectory and the revocation         *)
(* repository of packages/database, against the account, membership and    *)
(* link transitions and Clerk's user.deleted webhooks that run beside it.  *)
(*                                                                         *)
(* Resolution is a sequence of separate reads, users row, active           *)
(* memberships, inactive memberships, links, session_revocations, so any   *)
(* change may come between two of them.  A resolution writes nothing:      *)
(* following one at a time loses nothing.                                  *)
(*                                                                         *)
(* The identity provider is external: it signs users in, and delivers a    *)
(* deletion at least once, again after a failure or a lost answer.  Every  *)
(* user has an identity_provider_accounts row, which nothing removes.      *)
(***************************************************************************)
EXTENDS SessionKernel, FiniteSets

CONSTANTS
  Users, Orgs, Clients,
  ClientOrg,      \* the organization of a client
  Admins,         \* users with the platform-admin flag
  Hires,          \* member roles users are hired and promoted to
  Deliveries,     \* webhook requests that run at the same time
  MaxTime,        \* bound: the clock
  MaxChanges      \* bound: changes made to accounts, memberships and links

ASSUME SessionsAssumption ==
  /\ ClientOrg \in [Clients -> Orgs] /\ Admins \subseteq Users
  /\ Hires \subseteq MEMBER_ROLES
  /\ Nil \notin Users \cup Orgs \cup Clients
  /\ MaxTime \in Nat /\ MaxChanges \in Nat

VARIABLES
  users,        \* users: the row of each user
  members,      \* organization_members, by organization and user
  links,        \* client_user_links: rows made and whether one is active
  revocations,  \* session_revocations: [user, issued, at]
  sessions,     \* provider sessions: [user, issued]
  req,          \* the resolution being followed
  signedOut,    \* history: sessions somebody has signed out
  receipts,     \* provider_webhook_events: the deletion event of each user
  deliveries,   \* what each webhook request is doing
  now, changes

sessionVars == <<users, members, links, revocations, sessions, req, signedOut,
                 receipts, deliveries, now, changes>>

rowVars == <<users, members, links, revocations, receipts>>

Times == 0..MaxTime

AnySession == -1          \* provider_session_id_digest IS NULL
Idle == [stage |-> "idle"]

SessionsInit ==
  /\ users = [u \in Users |-> [active |-> TRUE, admin |-> u \in Admins, cutoff |-> -1]]
  /\ members \in [Orgs -> [Users -> {NoRow} \cup [role : Hires, active : {TRUE}, at : {0}]]]
  /\ links = [c \in Clients |-> [u \in Users |-> [made |-> 0, active |-> FALSE]]]
  /\ revocations = {} /\ sessions = {} /\ req = Idle /\ signedOut = {}
  /\ receipts = [u \in Users |-> "none"] /\ deliveries = [d \in Deliveries |-> Idle]
  /\ now = 0 /\ changes = 0

(***************************************************************************)
(* The provider and the clock.                                             *)
(***************************************************************************)
SignIn(u) ==
  /\ sessions' = sessions \cup {[user |-> u, issued |-> now]}
  /\ UNCHANGED <<rowVars, req, signedOut, deliveries, now, changes>>

Tick ==
  /\ now < MaxTime /\ now' = now + 1
  /\ UNCHANGED <<rowVars, sessions, req, signedOut, deliveries, changes>>

(***************************************************************************)
(* Resolution, one read at a time.  Three auxiliary fields: `barred`, the  *)
(* session had been signed out when the request came in; `since`, the      *)
(* changes made by then; `expected`, what a single look would have given.  *)
(***************************************************************************)
OrgsWhere(u, isActive) ==
  {o \in Orgs : members[o][u] # NoRow /\ members[o][u].active = isActive}

LatestOf(u, os) == {o \in os : \A p \in os : members[p][u].at <= members[o][u].at}

\* The projection of a membership row a session sees.
Membership(o, u, status) == [org |-> o, role |-> members[o][u].role, status |-> status]

LinkedClients(u) == {c \in Clients : links[c][u].active}

Link(c) == [client |-> c, org |-> ClientOrg[c], status |-> "active"]

\* DrizzleSessionRevocationRepository.isSessionRevoked: no row expires.
HasRevocation(s) ==
  \E r \in revocations : r.user = s.user /\ r.at > s.issued /\ r.issued \in {AnySession, s.issued}

\* The documented selection policy on one state of the tables: the contexts
\* it allows, more than one when two past memberships are equally recent.
ContextsOf(s) ==
  LET u == s.user
      hired == OrgsWhere(u, TRUE)
      past == LatestOf(u, OrgsWhere(u, FALSE))
      linked == LinkedClients(u)
      memberships == IF hired # {} THEN {Membership(o, u, "active") : o \in hired}
                     ELSE IF past # {} THEN {Membership(o, u, "revoked") : o \in past}
                     ELSE {NoRow}
  IN  IF Cardinality(hired) > 1 \/ Cardinality(linked) > 1 \/ HasRevocation(s) THEN {NoSession}
      ELSE {BuildSessionContext(u, users[u], m, l, s.issued) :
              m \in memberships, l \in IF linked = {} THEN {NoRow} ELSE {Link(c) : c \in linked}}

Begin(s) ==
  /\ req = Idle
  /\ req' = [stage |-> "user", session |-> s, row |-> users[s.user], membership |-> NoRow,
             link |-> NoRow, ctx |-> NoSession,
             barred |-> s \in signedOut, since |-> changes, expected |-> ContextsOf(s)]
  /\ UNCHANGED <<rowVars, sessions, signedOut, deliveries, now, changes>>

ReadUser ==
  /\ req.stage = "user"
  /\ req' = [req EXCEPT !.stage = "active", !.row = users[req.session.user]]
  /\ UNCHANGED <<rowVars, sessions, signedOut, deliveries, now, changes>>

\* loadMembership, the first query: two active rows are ambiguous.
ReadActive ==
  /\ req.stage = "active"
  /\ LET u == req.session.user
         found == OrgsWhere(u, TRUE)
     IN  \/ /\ Cardinality(found) > 1
            /\ req' = [req EXCEPT !.stage = "done"]
         \/ /\ found = {}
            /\ req' = [req EXCEPT !.stage = "inactive"]
         \/ \E o \in found :
              /\ found = {o}
              /\ req' = [req EXCEPT !.stage = "links", !.membership = Membership(o, u, "active")]
  /\ UNCHANGED <<rowVars, sessions, signedOut, deliveries, now, changes>>

\* Mutant: a member who has left is nobody.
ReadNoInactive ==
  /\ req.stage = "inactive"
  /\ req' = [req EXCEPT !.stage = "links"]
  /\ UNCHANGED <<rowVars, sessions, signedOut, deliveries, now, changes>>

\* loadMembership, the second query: the most recent inactive row.
ReadInactive ==
  /\ req.stage = "inactive"
  /\ LET u == req.session.user
         found == LatestOf(u, OrgsWhere(u, FALSE))
     IN  \/ found = {} /\ req' = [req EXCEPT !.stage = "links"]
         \/ \E o \in found :
              req' = [req EXCEPT !.stage = "links", !.membership = Membership(o, u, "revoked")]
  /\ UNCHANGED <<rowVars, sessions, signedOut, deliveries, now, changes>>

\* Two active links are ambiguous as well.
ReadLinks ==
  /\ req.stage = "links"
  /\ LET found == LinkedClients(req.session.user)
     IN  \/ /\ Cardinality(found) > 1
            /\ req' = [req EXCEPT !.stage = "done"]
         \/ found = {} /\ req' = [req EXCEPT !.stage = "gate"]
         \/ \E c \in found :
              found = {c} /\ req' = [req EXCEPT !.stage = "gate", !.link = Link(c)]
  /\ UNCHANGED <<rowVars, sessions, signedOut, deliveries, now, changes>>

\* The revocation gate, then buildSessionContext on what was read.
Resolve ==
  /\ req.stage = "gate"
  /\ LET s == req.session
     IN  req' = [req EXCEPT !.stage = "done", !.ctx =
                   IF HasRevocation(s) THEN NoSession
                   ELSE BuildSessionContext(s.user, req.row, req.membership, req.link, s.issued)]
  /\ UNCHANGED <<rowVars, sessions, signedOut, deliveries, now, changes>>

\* The handler has answered.
Answer ==
  /\ req.stage = "done"
  /\ req' = Idle
  /\ UNCHANGED <<rowVars, sessions, signedOut, deliveries, now, changes>>

(***************************************************************************)
(* Accounts, memberships and links change.                                 *)
(***************************************************************************)
SessionsBefore(u, t) == {s \in sessions : s.user = u /\ s.issued < t}

Change ==
  /\ changes < MaxChanges /\ changes' = changes + 1
  /\ UNCHANGED <<sessions, req, receipts, deliveries, now>>

Disable(u) ==
  /\ MayDisable(users[u])
  /\ users' = [users EXCEPT ![u] = DisableAccount(@, now)]
  /\ signedOut' = signedOut \cup SessionsBefore(u, now)
  /\ Change /\ UNCHANGED <<members, links, revocations>>

Reactivate(u) ==
  /\ MayReactivate(users[u])
  /\ users' = [users EXCEPT ![u] = ReactivateAccount(@)]
  /\ Change /\ UNCHANGED <<members, links, revocations, signedOut>>

SignOutEverywhere(u) ==
  /\ users' = [users EXCEPT ![u] = RevokeAllSessions(@, now)]
  /\ signedOut' = signedOut \cup SessionsBefore(u, now)
  /\ Change /\ UNCHANGED <<members, links, revocations>>

SignOutDevice(s) ==
  /\ revocations' = revocations \cup {[user |-> s.user, issued |-> s.issued, at |-> now]}
  /\ signedOut' = signedOut \cup {t \in {s} : t.issued < now}
  /\ Change /\ UNCHANGED <<users, members, links>>

ChangeMember(o, u, row) ==
  /\ members' = [members EXCEPT ![o][u] = row]
  /\ Change /\ UNCHANGED <<users, links, revocations, signedOut>>

ChangeRole(o, u, role) ==
  /\ members[o][u] # NoRow /\ MayChangeRole(members[o][u], role)
  /\ ChangeMember(o, u, ChangeMemberRole(members[o][u], role))

Revoke(o, u) ==
  /\ members[o][u] # NoRow /\ MayRevoke(members[o][u])
  /\ ChangeMember(o, u, RevokeMembership(members[o][u]))

Reinstate(o, u) ==
  /\ members[o][u] # NoRow /\ MayReinstate(members[o][u])
  /\ ChangeMember(o, u, ReinstateMembership(members[o][u]))

\* DrizzleClientUserLinkRepository.link: the client and the user must both be
\* free, by the two partial unique indexes on active links.
LinkFree(c, u) ==
  /\ \A v \in Users : ~links[c][v].active
  /\ \A d \in Clients : ClientOrg[d] = ClientOrg[c] => ~links[d][u].active

InsertLink(c, u) ==
  links' = [links EXCEPT ![c][u] = [made |-> @.made + 1, active |-> TRUE]]

LinkClient(c, u) ==
  /\ LinkFree(c, u) /\ InsertLink(c, u)
  /\ Change /\ UNCHANGED <<users, members, revocations, signedOut>>

RevokeLink(c, u) ==
  /\ links[c][u].active
  /\ links' = [links EXCEPT ![c][u].active = FALSE]
  /\ Change /\ UNCHANGED <<users, members, revocations, signedOut>>

(***************************************************************************)
(* handleClerkWebhook on a user.deleted event.                             *)
(***************************************************************************)
\* recordReceipt; an event already processed is answered as a duplicate.
\* Also DrizzleWebhookEventRepository: one row for one event id.
Receive(d, u) ==
  /\ deliveries[d] = Idle /\ receipts[u] # "processed"
  /\ receipts' = [receipts EXCEPT ![u] = IF @ = "none" THEN "received" ELSE @]
  /\ deliveries' = [deliveries EXCEPT ![d] = [stage |-> "dispatch", user |-> u, at |-> now]]
  /\ UNCHANGED <<users, members, links, revocations, sessions, req, signedOut, now, changes>>

\* Mutant: the receipt is settled when the event is dispatched.
DispatchSettled(d) ==
  /\ deliveries[d].stage = "dispatch"
  /\ deliveries' = [deliveries EXCEPT ![d].stage = "mark"]
  /\ receipts' = [receipts EXCEPT ![deliveries[d].user] = "processed"]
  /\ signedOut' = signedOut \cup SessionsBefore(deliveries[d].user, deliveries[d].at)
  /\ UNCHANGED <<users, members, links, revocations, sessions, req, now, changes>>

\* dispatch: every session of the user is revoked as of the delivery.
Dispatch(d) ==
  /\ deliveries[d].stage = "dispatch"
  /\ deliveries' = [deliveries EXCEPT ![d].stage = "mark"]
  /\ revocations' = revocations \cup
       {[user |-> deliveries[d].user, issued |-> AnySession, at |-> deliveries[d].at]}
  /\ signedOut' = signedOut \cup SessionsBefore(deliveries[d].user, deliveries[d].at)
  /\ UNCHANGED <<users, members, links, receipts, sessions, req, now, changes>>

MarkProcessed(d) ==
  /\ deliveries[d].stage = "mark"
  /\ receipts' = [receipts EXCEPT ![deliveries[d].user] = "processed"]
  /\ deliveries' = [deliveries EXCEPT ![d] = Idle]
  /\ UNCHANGED <<users, members, links, revocations, sessions, req, signedOut, now, changes>>

\* The dispatch or the mark failed: by id, whatever the row says by then.
MarkFailed(d) ==
  /\ deliveries[d] # Idle
  /\ receipts' = [receipts EXCEPT ![deliveries[d].user] = "failed"]
  /\ deliveries' = [deliveries EXCEPT ![d] = Idle]
  /\ UNCHANGED <<users, members, links, revocations, sessions, req, signedOut, now, changes>>

\* The process dies; the provider will deliver again.
Crash(d) ==
  /\ deliveries[d] # Idle
  /\ deliveries' = [deliveries EXCEPT ![d] = Idle]
  /\ UNCHANGED <<rowVars, sessions, req, signedOut, now, changes>>

SessionsNext ==
  \/ \E u \in Users : SignIn(u)
  \/ Tick
  \/ \E s \in sessions : Begin(s)
  \/ ReadUser \/ ReadActive \/ ReadInactive \/ ReadLinks \/ Resolve \/ Answer
  \/ \E u \in Users : Disable(u) \/ Reactivate(u) \/ SignOutEverywhere(u)
  \/ \E s \in sessions : SignOutDevice(s)
  \/ \E o \in Orgs, u \in Users :
       (\E role \in Hires : ChangeRole(o, u, role)) \/ Revoke(o, u) \/ Reinstate(o, u)
  \/ \E c \in Clients, u \in Users : LinkClient(c, u) \/ RevokeLink(c, u)
  \/ \E d \in Deliveries :
       (\E u \in Users : Receive(d, u)) \/ Dispatch(d) \/ MarkProcessed(d) \/ MarkFailed(d) \/ Crash(d)

SessionsSpec == SessionsInit /\ [][SessionsNext]_sessionVars

(***************************************************************************)
(* Properties.                                                             *)
(***************************************************************************)
\* The rows, requests and deliveries the tables and handlers admit.
SessionsTypeOK ==
  /\ users \in [Users -> [active : BOOLEAN, admin : BOOLEAN, cutoff : Times \cup {-1}]]
  /\ members \in [Orgs -> [Users -> {NoRow} \cup [role : MEMBER_ROLES, active : BOOLEAN, at : Times]]]
  /\ links \in [Clients -> [Users -> [made : Nat, active : BOOLEAN]]]
  /\ sessions \subseteq [user : Users, issued : Times] /\ signedOut \subseteq sessions
  /\ revocations \subseteq [user : Users, issued : Times \cup {AnySession}, at : Times]
  /\ req = Idle \/ req.session \in sessions
  /\ req # Idle /\ req.stage = "done" => req.ctx = NoSession \/ req.ctx.role \in ROLES
  /\ receipts \in [Users -> {"none", "received", "processed", "failed"}]
  /\ \A d \in Deliveries : deliveries[d] = Idle \/ deliveries[d].user \in Users
  /\ now \in Times /\ changes \in 0..MaxChanges

\* A request that comes in on a session somebody has signed out, by disabling
\* the account, by signing out everywhere or that device, or by deleting the
\* identity, never acts as anybody: not after the account is reactivated, not
\* when a membership or a link is granted while it is being resolved.
SignedOutStaysOut ==
  req # Idle /\ req.stage = "done" /\ req.barred => req.ctx = NoSession

\* An event recorded as processed has revoked its user's sessions, whatever
\* other deliveries of it failed or died: what is answered "duplicate" from
\* then on is really done (handleClerkWebhook's at-most-once success).
ProcessedDeletionRevokes ==
  \A u \in Users :
    receipts[u] = "processed" => \E r \in revocations : r.user = u /\ r.issued = AnySession

\* When no account, membership or link changes meanwhile, the five reads give
\* what the selection policy gives in one look (principal-directory.ts): staff
\* who have left are revoked staff, never clients.
UndisturbedResolution ==
  req # Idle /\ req.stage = "done" /\ changes = req.since =>
    req.ctx \in req.expected \/ HasRevocation(req.session)

=============================================================================
