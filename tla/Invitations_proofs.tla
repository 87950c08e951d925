-------------------------- MODULE Invitations_proofs --------------------------
(***************************************************************************)
(* Proofs about Sessions and Invitations, for every set of users,          *)
(* organizations and clients, any number of requests and deliveries at a   *)
(* time, and every length of run.  The tables are those of Sessions; the   *)
(* invariants of Invitations add what its requests have read of them.      *)
(***************************************************************************)
EXTENDS Invitations, FiniteSetTheorems, TLAPS

-----------------------------------------------------------------------------
(***************************************************************************)
(* The shapes of rows, requests and deliveries.                            *)
(***************************************************************************)

Account == [active : BOOLEAN, admin : BOOLEAN, cutoff : Times \cup {-1}]
MemberRow == [role : MEMBER_ROLES, active : BOOLEAN, at : Times]
LinkRow == [made : Nat, active : BOOLEAN]
Session == [user : Users, issued : Times]
Revocation == [user : Users, issued : Times \cup {AnySession}, at : Times]
Delivery == [stage : {"dispatch", "mark"}, user : Users, at : Times]

SeenMembership ==
  {NoRow} \cup [org : Orgs, role : MEMBER_ROLES, status : {"active", "revoked"}]

SeenLink == {NoRow} \cup [client : Clients, org : Orgs, status : {"active"}]

Context ==
  {NoSession} \cup [role : ROLES, user : Users, org : Orgs \cup {Nil},
                    status : {"none", "active", "revoked"}, client : Clients \cup {Nil}]

Resolution ==
  [stage : {"user", "active", "inactive", "links", "gate", "done"}, session : Session,
   row : Account, membership : SeenMembership, link : SeenLink, ctx : Context,
   barred : BOOLEAN, since : Nat, expected : SUBSET Context]

TablesTyped ==
  /\ users \in [Users -> Account]
  /\ members \in [Orgs -> [Users -> {NoRow} \cup MemberRow]]
  /\ links \in [Clients -> [Users -> LinkRow]]
  /\ now \in Times /\ changes \in 0..MaxChanges

RequestsTyped ==
  /\ sessions \subseteq Session /\ signedOut \subseteq sessions
  /\ revocations \subseteq Revocation
  /\ receipts \in [Users -> {"none", "received", "processed", "failed"}]
  /\ req \in {Idle} \cup Resolution
  /\ req # Idle => req.session \in sessions
  /\ deliveries \in [Deliveries -> {Idle} \cup Delivery]

Typed == TablesTyped /\ RequestsTyped

LEMMA TypedSuffices == Typed => SessionsTypeOK
<1> SUFFICES ASSUME Typed PROVE SessionsTypeOK
  OBVIOUS
<1>1. req # Idle => req.ctx = NoSession \/ req.ctx.role \in ROLES
  BY DEF Typed, RequestsTyped, Resolution, Context
<1>2. \A d \in Deliveries : deliveries[d] = Idle \/ deliveries[d].user \in Users
  BY DEF Typed, RequestsTyped, Delivery
<1>3. QED
  BY <1>1, <1>2 DEF Typed, TablesTyped, RequestsTyped, SessionsTypeOK, Account, MemberRow, LinkRow,
                    Session, Revocation

LEMMA RowsAreRows ==
  /\ NoRow \notin MemberRow
  /\ Idle \notin Resolution /\ Idle \notin Delivery
  /\ \A x \in Context : x # NoSession => x.role \in ROLES
<1>1. \A x \in MemberRow : x # NoRow
  <2> SUFFICES ASSUME NEW x \in MemberRow, x = NoRow PROVE FALSE
    OBVIOUS
  <2>1. DOMAIN x = {"role", "active", "at"} /\ DOMAIN NoRow = {"status"}
    BY DEF MemberRow, NoRow
  <2>2. QED
    BY <2>1
<1>2. \A x \in Resolution \cup Delivery : x # Idle
  BY DEF Resolution, Delivery, Idle
<1>3. QED
  BY <1>1, <1>2 DEF Context

LEMMA ContextTyped ==
  ASSUME NEW u \in Users, NEW row \in Account, NEW m \in SeenMembership, NEW l \in SeenLink,
         NEW issued
  PROVE  BuildSessionContext(u, row, m, l, issued) \in Context
<1>1. NoSession \in Context
  BY DEF Context
<1>2. [role |-> "platform_admin", user |-> u, org |-> Nil, status |-> "none", client |-> Nil]
        \in Context
  BY DEF Context, ROLES
<1>3. ASSUME m # NoRow
      PROVE  [role |-> RoleFromMemberRole[m.role], user |-> u, org |-> m.org,
              status |-> m.status, client |-> Nil] \in Context
  <2>1. m \in [org : Orgs, role : MEMBER_ROLES, status : {"active", "revoked"}]
    BY <1>3 DEF SeenMembership
  <2>2. \A r \in MEMBER_ROLES : RoleFromMemberRole[r] \in ROLES
    BY DEF MEMBER_ROLES, RoleFromMemberRole, ROLES
  <2>3. QED
    BY <2>1, <2>2 DEF Context
<1>4. ASSUME l # NoRow
      PROVE  [role |-> "client", user |-> u, org |-> l.org, status |-> "active",
              client |-> l.client] \in Context
  BY <1>4 DEF SeenLink, Context, ROLES
<1>5. QED
  BY <1>1, <1>2, <1>3, <1>4 DEF BuildSessionContext

LEMMA SeenTyped ==
  ASSUME TablesTyped, NEW u \in Users
  PROVE  /\ \A isActive \in BOOLEAN : \A o \in OrgsWhere(u, isActive) : o \in Orgs /\
              \A status \in {"active", "revoked"} : Membership(o, u, status) \in SeenMembership
         /\ \A c \in LinkedClients(u) : c \in Clients /\ Link(c) \in SeenLink
         /\ NoRow \in SeenMembership /\ NoRow \in SeenLink
<1>1. ASSUME NEW isActive \in BOOLEAN, NEW o \in OrgsWhere(u, isActive),
             NEW status \in {"active", "revoked"}
      PROVE  o \in Orgs /\ Membership(o, u, status) \in SeenMembership
  <2>1. o \in Orgs /\ members[o][u] \in MemberRow
    BY <1>1 DEF OrgsWhere, TablesTyped
  <2>2. QED
    BY <2>1 DEF Membership, SeenMembership, MemberRow
<1>2. ASSUME NEW c \in LinkedClients(u) PROVE c \in Clients /\ Link(c) \in SeenLink
  BY SessionsAssumption DEF LinkedClients, Link, SeenLink
<1>3. QED
  BY <1>1, <1>2 DEF SeenMembership, SeenLink

LEMMA ContextsTyped ==
  ASSUME TablesTyped, NEW s \in Session
  PROVE  ContextsOf(s) \subseteq Context
<1> DEFINE u == s.user
           hired == OrgsWhere(u, TRUE)
           past == LatestOf(u, OrgsWhere(u, FALSE))
           linked == LinkedClients(u)
           ms == IF hired # {} THEN {Membership(o, u, "active") : o \in hired}
                 ELSE IF past # {} THEN {Membership(o, u, "revoked") : o \in past}
                 ELSE {NoRow}
           ls == IF linked = {} THEN {NoRow} ELSE {Link(c) : c \in linked}
<1>1. u \in Users /\ past \subseteq OrgsWhere(u, FALSE)
  BY DEF Session, LatestOf
<1>2. ms \subseteq SeenMembership /\ ls \subseteq SeenLink
  BY <1>1, SeenTyped, Zenon
<1>3. users[u] \in Account
  BY <1>1 DEF TablesTyped
<1>4. {BuildSessionContext(u, users[u], m, l, s.issued) : m \in ms, l \in ls} \subseteq Context
  <2> HIDE DEF ms, ls, u
  <2>1. QED
    BY <1>1, <1>2, <1>3, ContextTyped
<1>5. NoSession \in Context
  BY DEF Context
<1>6. ContextsOf(s) = IF Cardinality(hired) > 1 \/ Cardinality(linked) > 1 \/ HasRevocation(s)
                      THEN {NoSession}
                      ELSE {BuildSessionContext(u, users[u], m, l, s.issued) : m \in ms, l \in ls}
  BY SMT DEF ContextsOf
<1> HIDE DEF hired, linked, ms, ls, u
<1>7. QED
  BY <1>4, <1>5, <1>6

-----------------------------------------------------------------------------
(***************************************************************************)
(* What the steps leave alone.  A resolution only reads; an answer, a      *)
(* login and the clock touch no table.                                     *)
(***************************************************************************)

Resolves == ReadUser \/ ReadActive \/ ReadInactive \/ ReadLinks \/ Resolve

Changes ==
  \/ \E u \in Users : Disable(u) \/ Reactivate(u) \/ SignOutEverywhere(u)
  \/ \E s \in sessions : SignOutDevice(s)
  \/ \E o \in Orgs, u \in Users :
       (\E role \in Hires : ChangeRole(o, u, role)) \/ Revoke(o, u) \/ Reinstate(o, u)
  \/ \E c \in Clients, u \in Users : LinkClient(c, u) \/ RevokeLink(c, u)

Delivers ==
  \E d \in Deliveries :
    (\E u \in Users : Receive(d, u)) \/ Dispatch(d) \/ MarkProcessed(d) \/ MarkFailed(d) \/ Crash(d)

LEMMA SessionsNextCases ==
  SessionsNext <=>
    \/ (\E u \in Users : SignIn(u)) \/ Tick
    \/ (\E s \in sessions : Begin(s)) \/ Resolves \/ Answer
    \/ Changes \/ Delivers
BY Zenon DEF SessionsNext, Resolves, Changes, Delivers

\* A request after one more of its reads.
LEMMA ResolutionStep ==
  ASSUME Typed, Resolves
  PROVE  /\ req # Idle /\ req \in Resolution /\ req' \in Resolution
         /\ req'.session = req.session /\ req'.barred = req.barred
         /\ req'.since = req.since /\ req'.expected = req.expected
         /\ UNCHANGED <<rowVars, sessions, signedOut, deliveries, now, changes>>
<1>1. /\ req.stage # "idle" /\ req \in {Idle} \cup Resolution
      /\ UNCHANGED <<rowVars, sessions, signedOut, deliveries, now, changes>>
  BY DEF Resolves, ReadUser, ReadActive, ReadInactive, ReadLinks, Resolve, Typed, RequestsTyped
<1>2. req # Idle /\ req \in Resolution
  BY <1>1 DEF Idle
<1>3. req.session \in Session /\ req.session.user \in Users /\ TablesTyped
  BY <1>2 DEF Resolution, Session, Typed
<1> DEFINE u == req.session.user
           Kept(y) == /\ y \in Resolution
                      /\ y.session = req.session /\ y.barred = req.barred
                      /\ y.since = req.since /\ y.expected = req.expected
<1>4. ASSUME NEW stage \in {"active", "inactive", "links", "gate", "done"}
      PROVE  /\ Kept([req EXCEPT !.stage = stage])
             /\ \A row \in Account : Kept([req EXCEPT !.stage = stage, !.row = row])
             /\ \A m \in SeenMembership : Kept([req EXCEPT !.stage = stage, !.membership = m])
             /\ \A l \in SeenLink : Kept([req EXCEPT !.stage = stage, !.link = l])
             /\ \A ctx \in Context : Kept([req EXCEPT !.stage = stage, !.ctx = ctx])
  BY <1>2 DEF Resolution
<1> HIDE DEF Kept
<1>5. ASSUME ReadUser PROVE Kept(req')
  <2>1. users[u] \in Account
    BY <1>3 DEF TablesTyped
  <2>2. QED
    BY <1>4, <1>5, <2>1 DEF ReadUser
<1>6. ASSUME ReadActive PROVE Kept(req')
  <2>1. \A o \in OrgsWhere(u, TRUE) : Membership(o, u, "active") \in SeenMembership
    BY <1>3, SeenTyped
  <2>2. QED
    BY <1>4, <1>6, <2>1 DEF ReadActive
<1>7. ASSUME ReadInactive PROVE Kept(req')
  <2>1. \A o \in LatestOf(u, OrgsWhere(u, FALSE)) : Membership(o, u, "revoked") \in SeenMembership
    BY <1>3, SeenTyped DEF LatestOf
  <2>2. QED
    BY <1>4, <1>7, <2>1 DEF ReadInactive
<1>8. ASSUME ReadLinks PROVE Kept(req')
  <2>1. \A c \in LinkedClients(u) : Link(c) \in SeenLink
    BY <1>3, SeenTyped
  <2>2. QED
    BY <1>4, <1>8, <2>1 DEF ReadLinks
<1>9. ASSUME Resolve PROVE Kept(req')
  <2> DEFINE ctx == IF HasRevocation(req.session) THEN NoSession
                    ELSE BuildSessionContext(u, req.row, req.membership, req.link,
                                             req.session.issued)
  <2>1. BuildSessionContext(u, req.row, req.membership, req.link, req.session.issued) \in Context
    <3>1. req.row \in Account /\ req.membership \in SeenMembership /\ req.link \in SeenLink
      BY <1>2 DEF Resolution
    <3>2. QED
      BY <1>3, <3>1, ContextTyped
  <2>2. ctx \in Context
    BY <2>1 DEF Context
  <2>3. req' = [req EXCEPT !.stage = "done", !.ctx = ctx]
    BY <1>9 DEF Resolve
  <2> HIDE DEF ctx
  <2>4. QED
    BY <1>4, <2>2, <2>3
<1>10. Kept(req')
  BY <1>5, <1>6, <1>7, <1>8, <1>9 DEF Resolves
<1>11. QED
  BY <1>1, <1>2, <1>10 DEF Kept

\* Accounts, memberships and links keep their shape.
LEMMA ChangedTables ==
  ASSUME TablesTyped, Changes \/ Tick
  PROVE  TablesTyped'
<1>1. /\ now \in Times /\ changes \in 0..MaxChanges /\ MaxChanges \in Nat /\ MaxTime \in Nat
      /\ users \in [Users -> Account] /\ members \in [Orgs -> [Users -> {NoRow} \cup MemberRow]]
      /\ links \in [Clients -> [Users -> LinkRow]]
  BY SessionsAssumption DEF TablesTyped
<1>2. ASSUME Change PROVE changes' \in 0..MaxChanges /\ now' = now
  BY <1>1, <1>2 DEF Change
<1>3. ASSUME NEW x \in Account
      PROVE  /\ DisableAccount(x, now) \in Account /\ ReactivateAccount(x) \in Account
             /\ RevokeAllSessions(x, now) \in Account
  <2>1. DisableAccount(x, now) \in Account
    BY <1>1 DEF Account, DisableAccount
  <2>2. ReactivateAccount(x) \in Account /\ RevokeAllSessions(x, now) \in Account
    BY <1>1 DEF Account, ReactivateAccount, RevokeAllSessions
  <2>3. QED
    BY <2>1, <2>2
<1>4. ASSUME NEW u \in Users, Disable(u) \/ Reactivate(u) \/ SignOutEverywhere(u)
      PROVE  TablesTyped'
  <2>1. /\ Change /\ UNCHANGED <<members, links>>
        /\ \E row \in Account : users' = [users EXCEPT ![u] = row]
    BY <1>1, <1>3, <1>4 DEF Disable, Reactivate, SignOutEverywhere
  <2>2. QED
    BY <1>1, <1>2, <2>1 DEF TablesTyped
<1>5. ASSUME NEW s \in sessions, SignOutDevice(s) PROVE TablesTyped'
  BY <1>1, <1>2, <1>5 DEF SignOutDevice, TablesTyped
<1>6. ASSUME NEW row \in MemberRow, NEW role \in Hires
      PROVE  /\ ChangeMemberRole(row, role) \in MemberRow
             /\ RevokeMembership(row) \in MemberRow /\ ReinstateMembership(row) \in MemberRow
  BY <1>6, SessionsAssumption
     DEF MemberRow, ChangeMemberRole, RevokeMembership, ReinstateMembership
<1>7. ASSUME NEW o \in Orgs, NEW u \in Users, NEW row \in MemberRow, ChangeMember(o, u, row)
      PROVE  TablesTyped'
  <2>1. members' = [members EXCEPT ![o] = [members[o] EXCEPT ![u] = row]]
    BY <1>1, <1>7 DEF ChangeMember
  <2>2. [members[o] EXCEPT ![u] = row] \in [Users -> {NoRow} \cup MemberRow]
    BY <1>1
  <2>3. QED
    BY <1>1, <1>2, <1>7, <2>1, <2>2 DEF ChangeMember, TablesTyped
<1>8. ASSUME NEW o \in Orgs, NEW u \in Users,
             (\E role \in Hires : ChangeRole(o, u, role)) \/ Revoke(o, u) \/ Reinstate(o, u)
      PROVE  TablesTyped'
  <2>1. members[o][u] # NoRow => members[o][u] \in MemberRow
    BY <1>1
  <2>2. CASE \E role \in Hires : ChangeRole(o, u, role)
    BY <1>6, <1>7, <2>1, <2>2 DEF ChangeRole
  <2>3. CASE Revoke(o, u)
    <3>1. RevokeMembership(members[o][u]) \in MemberRow
      BY <2>1, <2>3 DEF Revoke, RevokeMembership, MemberRow
    <3>2. QED
      BY <1>7, <2>3, <3>1 DEF Revoke
  <2>4. CASE Reinstate(o, u)
    <3>1. ReinstateMembership(members[o][u]) \in MemberRow
      BY <2>1, <2>4 DEF Reinstate, ReinstateMembership, MemberRow
    <3>2. QED
      BY <1>7, <2>4, <3>1 DEF Reinstate
  <2>5. QED
    BY <1>8, <2>2, <2>3, <2>4
<1>9. ASSUME NEW c \in Clients, NEW u \in Users, LinkClient(c, u) \/ RevokeLink(c, u)
      PROVE  TablesTyped'
  <2> DEFINE row == links[c][u]
  <2>1. /\ row \in LinkRow
        /\ [row EXCEPT !.active = FALSE] \in LinkRow
        /\ [made |-> row.made + 1, active |-> TRUE] \in LinkRow
    <3>1. row \in LinkRow
      BY <1>1
    <3> HIDE DEF row
    <3>2. [row EXCEPT !.active = FALSE] \in LinkRow
      BY <3>1 DEF LinkRow
    <3>3. row.made + 1 \in Nat
      BY <3>1 DEF LinkRow
    <3>4. [made |-> row.made + 1, active |-> TRUE] \in LinkRow
      BY <3>3 DEF LinkRow
    <3>5. QED
      BY <3>1, <3>2, <3>4
  <2>2. \E new \in LinkRow : links' = [links EXCEPT ![c] = [links[c] EXCEPT ![u] = new]]
    <3>1. CASE LinkClient(c, u)
      BY <1>1, <2>1, <3>1 DEF LinkClient, InsertLink
    <3>2. CASE RevokeLink(c, u)
      BY <1>1, <2>1, <3>2 DEF RevokeLink
    <3>3. QED
      BY <1>9, <3>1, <3>2
  <2>3. PICK new \in LinkRow : links' = [links EXCEPT ![c] = [links[c] EXCEPT ![u] = new]]
    BY <2>2
  <2>4. [links[c] EXCEPT ![u] = new] \in [Users -> LinkRow]
    BY <1>1
  <2>5. Change /\ UNCHANGED <<users, members>>
    BY <1>9 DEF LinkClient, RevokeLink
  <2>6. QED
    BY <1>1, <1>2, <2>3, <2>4, <2>5 DEF TablesTyped
<1>10. CASE Tick
  <2>1. now' \in Times
    BY <1>1, <1>10 DEF Tick, Times
  <2>2. QED
    BY <1>1, <1>10, <2>1 DEF Tick, TablesTyped, rowVars
<1>11. QED
  BY <1>4, <1>5, <1>8, <1>9, <1>10 DEF Changes

LEMMA NextTyped == Typed /\ [SessionsNext]_sessionVars => Typed'
<1> SUFFICES ASSUME Typed, [SessionsNext]_sessionVars PROVE Typed'
  OBVIOUS
<1>1. /\ TablesTyped /\ RequestsTyped /\ now \in Times
      /\ sessions \subseteq Session /\ signedOut \subseteq sessions /\ revocations \subseteq Revocation
      /\ receipts \in [Users -> {"none", "received", "processed", "failed"}]
      /\ deliveries \in [Deliveries -> {Idle} \cup Delivery]
  BY DEF Typed, TablesTyped, RequestsTyped
<1>2. ASSUME NEW u \in Users, SignIn(u) PROVE Typed'
  <2>1. [user |-> u, issued |-> now] \in Session
    BY <1>1 DEF Session
  <2>2. QED
    BY <1>1, <1>2, <2>1 DEF SignIn, Typed, TablesTyped, RequestsTyped, rowVars
<1>3. CASE Tick
  BY <1>1, <1>3, ChangedTables DEF Tick, Typed, RequestsTyped, rowVars
<1>4. ASSUME NEW s \in sessions, Begin(s) PROVE Typed'
  <2>1. s \in Session /\ users[s.user] \in Account /\ ContextsOf(s) \subseteq Context
    BY <1>1, ContextsTyped DEF Session, TablesTyped
  <2>2. req' \in Resolution /\ req'.session = s
    <3>1. NoRow \in SeenMembership /\ NoRow \in SeenLink /\ NoSession \in Context
      BY DEF SeenMembership, SeenLink, Context
    <3>2. changes \in Nat
      BY <1>1, SessionsAssumption DEF TablesTyped
    <3>3. QED
      BY <1>4, <2>1, <3>1, <3>2 DEF Begin, Resolution
  <2>3. QED
    BY <1>1, <1>4, <2>2 DEF Begin, Typed, TablesTyped, RequestsTyped, rowVars
<1>5. CASE Resolves
  <2>1. /\ req' \in Resolution /\ req'.session \in sessions
        /\ UNCHANGED <<rowVars, sessions, signedOut, deliveries, now, changes>>
    BY <1>1, <1>5, ResolutionStep DEF RequestsTyped
  <2>2. QED
    BY <1>1, <2>1 DEF Typed, TablesTyped, RequestsTyped, rowVars
<1>6. CASE Answer
  BY <1>1, <1>6 DEF Answer, Typed, TablesTyped, RequestsTyped, rowVars
<1>7. CASE Changes
  <2>1. TablesTyped'
    BY <1>1, <1>7, ChangedTables
  <2>2. ASSUME Change PROVE UNCHANGED <<sessions, req, receipts, deliveries>>
    BY <2>2 DEF Change
  <2>3. SessionsBefore(0, 0) \subseteq sessions /\ \A u, t : SessionsBefore(u, t) \subseteq sessions
    BY DEF SessionsBefore
  <2>4. /\ UNCHANGED <<sessions, req, receipts, deliveries>>
        /\ signedOut' \subseteq sessions /\ revocations' \subseteq Revocation
    <3>1. ASSUME NEW u \in Users, Disable(u) \/ Reactivate(u) \/ SignOutEverywhere(u)
          PROVE  <2>4!:
      BY <1>1, <2>2, <2>3, <3>1 DEF Disable, Reactivate, SignOutEverywhere
    <3>2. ASSUME NEW s \in sessions, SignOutDevice(s) PROVE <2>4!:
      <4>1. [user |-> s.user, issued |-> s.issued, at |-> now] \in Revocation
        BY <1>1 DEF Session, Revocation
      <4>2. QED
        BY <1>1, <2>2, <3>2, <4>1 DEF SignOutDevice
    <3>3. ASSUME NEW o \in Orgs, NEW u \in Users,
                 (\E role \in Hires : ChangeRole(o, u, role)) \/ Revoke(o, u) \/ Reinstate(o, u)
          PROVE  <2>4!:
      BY <1>1, <2>2, <3>3 DEF ChangeRole, Revoke, Reinstate, ChangeMember
    <3>4. ASSUME NEW c \in Clients, NEW u \in Users, LinkClient(c, u) \/ RevokeLink(c, u)
          PROVE  <2>4!:
      BY <1>1, <2>2, <3>4 DEF LinkClient, RevokeLink
    <3>5. QED
      BY <1>7, <3>1, <3>2, <3>3, <3>4 DEF Changes
  <2>5. QED
    BY <1>1, <2>1, <2>4 DEF Typed, RequestsTyped
<1>8. CASE Delivers
  <2>1. PICK d \in Deliveries :
          (\E u \in Users : Receive(d, u)) \/ Dispatch(d) \/ MarkProcessed(d)
            \/ MarkFailed(d) \/ Crash(d)
    BY <1>8 DEF Delivers
  <2>2. deliveries[d] # Idle => deliveries[d] \in Delivery
    BY <1>1
  <2>3. /\ UNCHANGED <<users, members, links, sessions, req, now, changes>>
        /\ signedOut' \subseteq sessions
    BY <1>1, <2>1 DEF Receive, Dispatch, MarkProcessed, MarkFailed, Crash, SessionsBefore, rowVars
  <2>4. /\ receipts' \in [Users -> {"none", "received", "processed", "failed"}]
        /\ revocations' \subseteq Revocation
        /\ deliveries' \in [Deliveries -> {Idle} \cup Delivery]
    <3>1. ASSUME NEW u \in Users, Receive(d, u) PROVE <2>4!:
      <4>1. [stage |-> "dispatch", user |-> u, at |-> now] \in Delivery
        BY <1>1 DEF Delivery
      <4>2. QED
        BY <1>1, <3>1, <4>1 DEF Receive
    <3>2. CASE Dispatch(d)
      <4>1. deliveries[d] \in Delivery
        BY <2>2, <3>2 DEF Dispatch, Idle
      <4>2. /\ [deliveries[d] EXCEPT !.stage = "mark"] \in Delivery
            /\ [user |-> deliveries[d].user, issued |-> AnySession, at |-> deliveries[d].at]
                 \in Revocation
        BY <4>1 DEF Delivery, Revocation
      <4>3. QED
        BY <1>1, <3>2, <4>2 DEF Dispatch
    <3>3. CASE MarkProcessed(d) \/ MarkFailed(d) \/ Crash(d)
      <4>1. deliveries[d].user \in Users
        BY <2>2, <3>3 DEF MarkProcessed, MarkFailed, Crash, Delivery, Idle
      <4>2. QED
        BY <1>1, <3>3 DEF MarkProcessed, MarkFailed, Crash, rowVars
    <3>4. QED
      BY <2>1, <3>1, <3>2, <3>3
  <2>5. QED
    BY <1>1, <2>3, <2>4 DEF Typed, TablesTyped, RequestsTyped
<1>9. CASE UNCHANGED sessionVars
  BY <1>1, <1>9 DEF sessionVars, Typed, TablesTyped, RequestsTyped
<1>10. QED
  BY <1>2, <1>3, <1>4, <1>5, <1>6, <1>7, <1>8, <1>9, SessionsNextCases

LEMMA InitTyped == SessionsInit => Typed
<1> SUFFICES ASSUME SessionsInit PROVE Typed
  OBVIOUS
<1>1. 0 \in Times /\ 0 \in 0..MaxChanges
  BY SessionsAssumption DEF Times
<1>2. users \in [Users -> Account] /\ links \in [Clients -> [Users -> LinkRow]]
  BY <1>1 DEF SessionsInit, Account, LinkRow
<1>3. members \in [Orgs -> [Users -> {NoRow} \cup MemberRow]]
  <2>1. [role : Hires, active : {TRUE}, at : {0}] \subseteq MemberRow
    BY <1>1, SessionsAssumption DEF MemberRow
  <2>2. members \in [Orgs -> [Users -> {NoRow} \cup [role : Hires, active : {TRUE}, at : {0}]]]
    BY DEF SessionsInit
  <2>3. QED
    BY <2>1, <2>2
<1>4. QED
  BY <1>1, <1>2, <1>3 DEF SessionsInit, Typed, TablesTyped, RequestsTyped

\* Rows, resolutions and deliveries keep their shape.
THEOREM SessionsTypeCorrect == SessionsSpec => []SessionsTypeOK
BY InitTyped, NextTyped, TypedSuffices, PTL DEF SessionsSpec

-----------------------------------------------------------------------------
(***************************************************************************)
(* Signing out.  A cutoff never moves back and a revocation is never       *)
(* taken away, so what has barred a session bars it for ever; a resolution *)
(* sees it in the row it read first or at the gate it passes last.         *)
(***************************************************************************)

Barred(s) == s.issued < users[s.user].cutoff \/ HasRevocation(s)

CutoffsPast == \A u \in Users : users[u].cutoff <= now

\* What every step grants to a resolution it is not part of.
LEMMA Meantime ==
  ASSUME Typed, CutoffsPast, [SessionsNext]_sessionVars
  PROVE  /\ CutoffsPast'
         /\ \A u \in Users : users[u].cutoff <= users'[u].cutoff
         /\ revocations \subseteq revocations' /\ signedOut \subseteq signedOut'
         /\ \A s \in signedOut' : s \in signedOut \/ Barred(s)'
         /\ UNCHANGED <<users, members, links, changes>>
              \/ (changes' = changes + 1 /\ UNCHANGED req)
         /\ UNCHANGED req \/ (\E s \in sessions : Begin(s)) \/ Resolves \/ Answer
<1> DEFINE Goal == /\ CutoffsPast'
                   /\ \A u \in Users : users[u].cutoff <= users'[u].cutoff
                   /\ revocations \subseteq revocations' /\ signedOut \subseteq signedOut'
                   /\ \A s \in signedOut' : s \in signedOut \/ Barred(s)'
           Rows == UNCHANGED <<users, members, links, changes>>
                     \/ (changes' = changes + 1 /\ UNCHANGED req)
<1>1. /\ now \in Int /\ changes \in Int /\ users \in [Users -> Account]
      /\ \A u \in Users : users[u].cutoff \in Int /\ users[u].cutoff <= now
      /\ sessions \subseteq Session
      /\ deliveries \in [Deliveries -> {Idle} \cup Delivery]
  BY SessionsAssumption DEF Typed, TablesTyped, RequestsTyped, CutoffsPast, Times, Account
<1>2. ASSUME UNCHANGED <<users, revocations, signedOut>>, now' >= now, now' \in Int
      PROVE  Goal
  BY <1>1, <1>2 DEF CutoffsPast
<1>3. ASSUME (\E u \in Users : SignIn(u)) \/ (\E s \in sessions : Begin(s)) \/ Resolves \/ Answer
               \/ UNCHANGED sessionVars
      PROVE  Goal /\ Rows
  <2>1. UNCHANGED <<rowVars, signedOut, now, changes>>
    BY <1>3, Zenon DEF SignIn, Begin, Resolves, ReadUser, ReadActive, ReadInactive, ReadLinks,
                       Resolve, Answer, sessionVars, rowVars
  <2>2. QED
    BY <1>1, <1>2, <2>1 DEF rowVars
<1>4. ASSUME Tick PROVE Goal /\ Rows /\ UNCHANGED req
  BY <1>1, <1>2, <1>4 DEF Tick, rowVars
<1>5. ASSUME Changes PROVE Goal /\ Rows /\ UNCHANGED req
  <2>1. ASSUME Change PROVE changes' = changes + 1 /\ UNCHANGED <<req, now>>
    BY <2>1 DEF Change
  <2>2. ASSUME NEW u \in Users, NEW row \in Account, row.cutoff = now,
               users' = [users EXCEPT ![u] = row], now' = now, revocations' = revocations,
               signedOut' = signedOut \cup SessionsBefore(u, now)
        PROVE  Goal
    <3>1. \A v \in Users : users'[v].cutoff = IF v = u THEN now ELSE users[v].cutoff
      BY <1>1, <2>2
    <3>2. \A s \in SessionsBefore(u, now) : s.issued < users'[s.user].cutoff
      BY <1>1, <3>1 DEF SessionsBefore
    <3>3. QED
      BY <1>1, <2>2, <3>1, <3>2 DEF CutoffsPast, Barred
  <2>3. ASSUME NEW u \in Users, Disable(u) PROVE Goal /\ Rows /\ UNCHANGED req
    <3>1. DisableAccount(users[u], now) \in Account /\ DisableAccount(users[u], now).cutoff = now
      BY <1>1 DEF DisableAccount, Account, Typed, TablesTyped
    <3>2. QED
      BY <2>1, <2>2, <2>3, <3>1 DEF Disable
  <2>4. ASSUME NEW u \in Users, SignOutEverywhere(u) PROVE Goal /\ Rows /\ UNCHANGED req
    <3>1. RevokeAllSessions(users[u], now) \in Account /\ RevokeAllSessions(users[u], now).cutoff = now
      BY <1>1 DEF RevokeAllSessions, Account, Typed, TablesTyped
    <3>2. QED
      BY <2>1, <2>2, <2>4, <3>1 DEF SignOutEverywhere
  <2>5. ASSUME NEW u \in Users, Reactivate(u) PROVE Goal /\ Rows /\ UNCHANGED req
    <3>1. ReactivateAccount(users[u]).cutoff = users[u].cutoff
      BY <1>1 DEF ReactivateAccount, Account
    <3>2. \A v \in Users : users'[v].cutoff = users[v].cutoff
      BY <1>1, <2>5, <3>1 DEF Reactivate
    <3>3. QED
      BY <1>1, <2>1, <2>5, <3>2 DEF Reactivate, CutoffsPast
  <2>6. ASSUME NEW s \in sessions, SignOutDevice(s) PROVE Goal /\ Rows /\ UNCHANGED req
    <3> DEFINE r == [user |-> s.user, issued |-> s.issued, at |-> now]
    <3>1. r \in revocations' /\ r.user = s.user /\ r.issued = s.issued /\ r.at = now
      BY <2>6 DEF SignOutDevice
    <3> HIDE DEF r
    <3>2. s.issued < now => HasRevocation(s)'
      BY <1>1, <2>1, <2>6, <3>1 DEF HasRevocation, Session
    <3>3. \A t \in signedOut' : t \in signedOut \/ (t = s /\ s.issued < now)
      BY <2>6 DEF SignOutDevice
    <3>4. UNCHANGED users /\ revocations \subseteq revocations' /\ signedOut \subseteq signedOut'
      BY <2>6 DEF SignOutDevice
    <3>5. QED
      BY <1>1, <2>1, <2>6, <3>2, <3>3, <3>4 DEF SignOutDevice, CutoffsPast, Barred
  <2>7. ASSUME NEW o \in Orgs, NEW u \in Users,
               (\E role \in Hires : ChangeRole(o, u, role)) \/ Revoke(o, u) \/ Reinstate(o, u)
        PROVE  Goal /\ Rows /\ UNCHANGED req
    BY <1>1, <1>2, <2>1, <2>7 DEF ChangeRole, Revoke, Reinstate, ChangeMember
  <2>8. ASSUME NEW c \in Clients, NEW u \in Users, LinkClient(c, u) \/ RevokeLink(c, u)
        PROVE  Goal /\ Rows /\ UNCHANGED req
    BY <1>1, <1>2, <2>1, <2>8 DEF LinkClient, RevokeLink
  <2>9. QED
    BY <1>5, <2>3, <2>4, <2>5, <2>6, <2>7, <2>8 DEF Changes
<1>6. ASSUME Delivers PROVE Goal /\ Rows /\ UNCHANGED req
  <2>1. PICK d \in Deliveries :
          (\E u \in Users : Receive(d, u)) \/ Dispatch(d) \/ MarkProcessed(d)
            \/ MarkFailed(d) \/ Crash(d)
    BY <1>6 DEF Delivers
  <2>2. UNCHANGED <<users, members, links, req, now, changes>>
    BY <2>1 DEF Receive, Dispatch, MarkProcessed, MarkFailed, Crash, rowVars
  <2>3. CASE ~Dispatch(d)
    BY <1>1, <1>2, <2>1, <2>2, <2>3 DEF Receive, MarkProcessed, MarkFailed, Crash, rowVars
  <2>4. CASE Dispatch(d)
    <3> DEFINE u == deliveries[d].user
               t == deliveries[d].at
               r == [user |-> u, issued |-> AnySession, at |-> t]
    <3>1. /\ r \in revocations' /\ r.user = u /\ r.issued = AnySession /\ r.at = t
          /\ revocations \subseteq revocations' /\ signedOut' = signedOut \cup SessionsBefore(u, t)
      BY <2>4 DEF Dispatch
    <3>2. t \in Int
      BY <1>1, <2>4, SessionsAssumption DEF Dispatch, Idle, Delivery, Times
    <3> HIDE DEF r, u, t
    <3>3. \A s \in SessionsBefore(u, t) : HasRevocation(s)'
      BY <1>1, <3>1, <3>2 DEF SessionsBefore, HasRevocation, Session, Times
    <3>4. QED
      BY <1>1, <2>2, <3>1, <3>3 DEF CutoffsPast, Barred
  <2>5. QED
    BY <2>3, <2>4
<1> DEFINE Reads == (\E s \in sessions : Begin(s)) \/ Resolves \/ Answer
<1>7. ASSUME (\E u \in Users : SignIn(u)) \/ UNCHANGED sessionVars PROVE UNCHANGED req
  BY <1>7, Zenon DEF SignIn, sessionVars
<1> HIDE DEF Goal, Rows
<1>8. Goal /\ Rows /\ (UNCHANGED req \/ Reads)
  BY <1>3, <1>4, <1>5, <1>6, <1>7, SessionsNextCases, Zenon
<1>9. QED
  BY <1>8 DEF Goal, Rows


HeldBack ==
  req # Idle /\ req.barred =>
    /\ req.session \in signedOut
    /\ req.stage # "user" =>
         IsSessionRevoked(req.session.issued, req.row.cutoff) \/ HasRevocation(req.session)
    /\ req.ctx = NoSession

SignOutInv ==
  /\ CutoffsPast
  /\ \A s \in signedOut : Barred(s)
  /\ HeldBack

LEMMA RevokedIsNobody ==
  ASSUME NEW u, NEW row, NEW m, NEW l, NEW issued, IsSessionRevoked(issued, row.cutoff)
  PROVE  BuildSessionContext(u, row, m, l, issued) = NoSession
BY DEF BuildSessionContext

LEMMA NextSignOut == Typed /\ SignOutInv /\ [SessionsNext]_sessionVars => SignOutInv'
<1> SUFFICES ASSUME Typed, SignOutInv, [SessionsNext]_sessionVars PROVE SignOutInv'
  OBVIOUS
<1>1. /\ CutoffsPast' /\ \A u \in Users : users[u].cutoff <= users'[u].cutoff
      /\ revocations \subseteq revocations' /\ signedOut \subseteq signedOut'
      /\ \A s \in signedOut' : s \in signedOut \/ Barred(s)'
      /\ UNCHANGED req \/ (\E s \in sessions : Begin(s)) \/ Resolves \/ Answer
  BY Meantime DEF SignOutInv
<1>2. /\ signedOut \subseteq sessions /\ sessions \subseteq Session
      /\ \A u \in Users : users[u].cutoff \in Int /\ users'[u].cutoff \in Int
  BY NextTyped, SessionsAssumption DEF Typed, RequestsTyped, TablesTyped, Account, Times
<1>3. \A s : HasRevocation(s) => HasRevocation(s)'
  BY <1>1 DEF HasRevocation
<1>4. \A s \in signedOut' : Barred(s)'
  <2> SUFFICES ASSUME NEW s \in signedOut' PROVE Barred(s)'
    OBVIOUS
  <2>1. CASE s \in signedOut
    <3>1. Barred(s) /\ s.user \in Users /\ s.issued \in Int
      BY <1>2, <2>1, SessionsAssumption DEF SignOutInv, Session, Times
    <3>2. users[s.user].cutoff <= users'[s.user].cutoff
      BY <1>1, <3>1
    <3>3. QED
      BY <1>2, <1>3, <3>1, <3>2 DEF Barred
  <2>2. QED
    BY <1>1, <2>1
<1>5. HeldBack'
  <2>1. CASE UNCHANGED req
    BY <1>1, <1>3, <2>1 DEF SignOutInv, HeldBack
  <2>2. ASSUME NEW s \in sessions, Begin(s) PROVE HeldBack'
    BY <2>2 DEF Begin, HeldBack
  <2>3. CASE Answer
    BY <2>3 DEF Answer, HeldBack
  <2>4. CASE Resolves
    <3>1. /\ req # Idle /\ req \in Resolution /\ req' \in Resolution
          /\ req'.session = req.session /\ req'.barred = req.barred
          /\ UNCHANGED <<rowVars, signedOut>>
      BY <2>4, ResolutionStep
    <3> SUFFICES ASSUME req.barred
                 PROVE  /\ req'.stage # "user" =>
                             \/ IsSessionRevoked(req.session.issued, req'.row.cutoff)
                             \/ HasRevocation(req.session)
                        /\ req'.ctx = NoSession
      BY <1>1, <1>3, <3>1 DEF SignOutInv, HeldBack
    <3>2. /\ req.session \in signedOut /\ Barred(req.session) /\ req.ctx = NoSession
          /\ req.stage # "user" =>
               IsSessionRevoked(req.session.issued, req.row.cutoff) \/ HasRevocation(req.session)
      BY <3>1 DEF SignOutInv, HeldBack
    <3>3. CASE ReadUser
      <4>1. req'.row = users[req.session.user] /\ req'.ctx = req.ctx
        BY <3>1, <3>3 DEF ReadUser, Resolution
      <4>2. QED
        BY <3>2, <4>1 DEF Barred, IsSessionRevoked
    <3>4. CASE ReadActive \/ ReadInactive \/ ReadLinks
      <4>1. req'.row = req.row /\ req'.ctx = req.ctx /\ req.stage # "user"
        BY <3>1, <3>4 DEF ReadActive, ReadInactive, ReadLinks, Resolution
      <4>2. QED
        BY <3>2, <4>1
    <3>5. CASE Resolve
      <4>1. /\ req'.row = req.row /\ req.stage # "user"
            /\ req'.ctx = IF HasRevocation(req.session) THEN NoSession
                          ELSE BuildSessionContext(req.session.user, req.row, req.membership,
                                                   req.link, req.session.issued)
        BY <3>1, <3>5 DEF Resolve, Resolution
      <4>2. QED
        BY <3>2, <4>1, RevokedIsNobody
    <3>6. QED
      BY <2>4, <3>3, <3>4, <3>5 DEF Resolves
  <2>5. QED
    BY <1>1, <2>1, <2>2, <2>3, <2>4
<1>6. QED
  BY <1>1, <1>4, <1>5 DEF SignOutInv

\* A session somebody signed out acts as nobody, whatever happens between the
\* reads of the request that presents it (disableAccount, revokeAllSessions,
\* revokeSession and the user.deleted webhook are looked up in two places).
THEOREM SignedOutIsNobody == SessionsSpec => []SignedOutStaysOut
<1>1. SessionsInit => SignOutInv
  BY SessionsAssumption DEF SessionsInit, SignOutInv, CutoffsPast, HeldBack
<1>2. SignOutInv => SignedOutStaysOut
  BY DEF SignOutInv, HeldBack, SignedOutStaysOut
<1>3. QED
  BY <1>1, <1>2, InitTyped, NextTyped, NextSignOut, PTL DEF SessionsSpec

-----------------------------------------------------------------------------
(***************************************************************************)
(* Deletion webhooks.                                                      *)
(***************************************************************************)

Revoked(u) == \E r \in revocations : r.user = u /\ r.issued = AnySession

\* A delivery about to be settled has done its work already.
DeliveriesInv ==
  /\ \A u \in Users : receipts[u] = "processed" => Revoked(u)
  /\ \A d \in Deliveries : deliveries[d].stage = "mark" => Revoked(deliveries[d].user)

LEMMA NextDeliveries ==
  Typed /\ CutoffsPast /\ DeliveriesInv /\ [SessionsNext]_sessionVars => DeliveriesInv'
<1> SUFFICES ASSUME Typed, CutoffsPast, DeliveriesInv, [SessionsNext]_sessionVars
             PROVE  DeliveriesInv'
  OBVIOUS
<1>1. \A u : Revoked(u) => Revoked(u)'
  BY Meantime DEF Revoked
<1>2. /\ receipts \in [Users -> {"none", "received", "processed", "failed"}]
      /\ deliveries \in [Deliveries -> {Idle} \cup Delivery]
      /\ \A d \in Deliveries : deliveries[d].stage # "idle" => deliveries[d] \in Delivery
      /\ Idle.stage = "idle"
  BY DEF Typed, RequestsTyped, Idle
<1>3. CASE UNCHANGED <<receipts, deliveries>>
  BY <1>1, <1>3 DEF DeliveriesInv
<1>4. CASE Delivers
  <2>1. PICK d \in Deliveries :
          (\E u \in Users : Receive(d, u)) \/ Dispatch(d) \/ MarkProcessed(d)
            \/ MarkFailed(d) \/ Crash(d)
    BY <1>4 DEF Delivers
  <2>2. ASSUME NEW u \in Users, Receive(d, u) PROVE DeliveriesInv'
    BY <1>1, <1>2, <2>2 DEF Receive, DeliveriesInv
  <2>3. CASE Dispatch(d)
    <3> DEFINE x == deliveries[d]
               y == [x EXCEPT !.stage = "mark"]
               r == [user |-> x.user, issued |-> AnySession, at |-> x.at]
    <3>1. x \in Delivery /\ receipts' = receipts /\ r \in revocations'
          /\ deliveries' = [deliveries EXCEPT ![d] = y]
      BY <1>2, <2>3 DEF Dispatch
    <3>2. Revoked(x.user)' /\ y.user = x.user
      BY <3>1 DEF Revoked, Delivery
    <3> HIDE DEF y, r
    <3>3. QED
      BY <1>1, <1>2, <3>1, <3>2 DEF DeliveriesInv
  <2>4. CASE MarkProcessed(d)
    BY <1>1, <1>2, <2>4 DEF MarkProcessed, DeliveriesInv
  <2>5. CASE MarkFailed(d)
    BY <1>1, <1>2, <2>5 DEF MarkFailed, DeliveriesInv
  <2>6. CASE Crash(d)
    BY <1>1, <1>2, <2>6 DEF Crash, DeliveriesInv, rowVars
  <2>7. QED
    BY <2>1, <2>2, <2>3, <2>4, <2>5, <2>6
<1>5. CASE ~Delivers
  <2>1. UNCHANGED <<receipts, deliveries>>
    <3>1. ASSUME (\E u \in Users : SignIn(u)) \/ Tick \/ (\E s \in sessions : Begin(s)) \/ Resolves
                   \/ Answer \/ UNCHANGED sessionVars
          PROVE  UNCHANGED <<receipts, deliveries>>
      BY <3>1, Zenon DEF SignIn, Tick, Begin, Resolves, ReadUser, ReadActive, ReadInactive,
                         ReadLinks, Resolve, Answer, sessionVars, rowVars
    <3>2. ASSUME Changes PROVE UNCHANGED <<receipts, deliveries>>
      BY <3>2, Zenon DEF Changes, Change, Disable, Reactivate, SignOutEverywhere, SignOutDevice,
                         ChangeRole, Revoke, Reinstate, ChangeMember, LinkClient, RevokeLink
    <3>3. QED
      BY <1>5, <3>1, <3>2, SessionsNextCases
  <2>2. QED
    BY <1>3, <2>1
<1>6. QED
  BY <1>4, <1>5

\* What the webhook handler answers "duplicate" to is really done: only a
\* delivery that has dispatched settles the receipt.
THEOREM ProcessedIsRevoked == SessionsSpec => []ProcessedDeletionRevokes
<1>1. SessionsInit => SignOutInv /\ DeliveriesInv
  BY SessionsAssumption
     DEF SessionsInit, SignOutInv, CutoffsPast, HeldBack, DeliveriesInv, Idle
<1>2. SignOutInv => CutoffsPast
  BY DEF SignOutInv
<1>3. DeliveriesInv => ProcessedDeletionRevokes
  BY DEF DeliveriesInv, Revoked, ProcessedDeletionRevokes
<1>4. QED
  BY <1>1, <1>2, <1>3, InitTyped, NextTyped, NextSignOut, NextDeliveries, PTL DEF SessionsSpec

-----------------------------------------------------------------------------
(***************************************************************************)
(* Five reads and one look.  As long as nothing changes, what has been     *)
(* read is what the selection policy looks at.                             *)
(***************************************************************************)

MembershipsOf(u) ==
  IF OrgsWhere(u, TRUE) # {} THEN {Membership(o, u, "active") : o \in OrgsWhere(u, TRUE)}
  ELSE IF LatestOf(u, OrgsWhere(u, FALSE)) # {}
       THEN {Membership(o, u, "revoked") : o \in LatestOf(u, OrgsWhere(u, FALSE))}
       ELSE {NoRow}

LinksOf(u) == IF LinkedClients(u) = {} THEN {NoRow} ELSE {Link(c) : c \in LinkedClients(u)}

ManyHired(u) == Cardinality(OrgsWhere(u, TRUE)) > 1
ManyLinked(u) == Cardinality(LinkedClients(u)) > 1

LEMMA PolicyAtOneLook ==
  ASSUME NEW s
  PROVE  ContextsOf(s) =
           IF ManyHired(s.user) \/ ManyLinked(s.user) \/ HasRevocation(s) THEN {NoSession}
           ELSE {BuildSessionContext(s.user, users[s.user], m, l, s.issued) :
                   m \in MembershipsOf(s.user), l \in LinksOf(s.user)}
BY SMT DEF ContextsOf, MembershipsOf, LinksOf, ManyHired, ManyLinked

\* What a resolution has read, with the tables as they are.
ReadsAreCurrent ==
  LET u == req.session.user
  IN  /\ req.expected = ContextsOf(req.session)
      /\ req.stage # "user" => req.row = users[u]
      /\ req.stage \in {"user", "active", "inactive"} => req.membership = NoRow
      /\ req.stage = "inactive" => OrgsWhere(u, TRUE) = {}
      /\ req.stage \in {"links", "gate"} => req.membership \in MembershipsOf(u) /\ ~ManyHired(u)
      /\ req.stage \in {"user", "active", "inactive", "links"} => req.link = NoRow
      /\ req.stage = "gate" => req.link \in LinksOf(u) /\ ~ManyLinked(u)

Undisturbed ==
  req # Idle =>
    /\ req.since <= changes
    /\ req.stage # "done" => req.ctx = NoSession
    /\ changes = req.since /\ ~HasRevocation(req.session) =>
         /\ ReadsAreCurrent
         /\ req.stage = "done" => req.ctx \in req.expected

LEMMA TablesDecide ==
  ASSUME NEW s, UNCHANGED <<users, members, links>>,
         HasRevocation(s) => HasRevocation(s)', ~HasRevocation(s)'
  PROVE  ContextsOf(s)' = ContextsOf(s)
<1>1. HasRevocation(s)' = HasRevocation(s)
  BY DEF HasRevocation
<1>2. QED
  BY <1>1 DEF ContextsOf, Membership, OrgsWhere, LinkedClients, LatestOf

LEMMA NextUndisturbed ==
  Typed /\ CutoffsPast /\ Undisturbed /\ [SessionsNext]_sessionVars => Undisturbed'
<1> SUFFICES ASSUME Typed, CutoffsPast, Undisturbed, [SessionsNext]_sessionVars
             PROVE  Undisturbed'
  OBVIOUS
<1>1. /\ revocations \subseteq revocations'
      /\ UNCHANGED <<users, members, links, changes>> \/ (changes' = changes + 1 /\ UNCHANGED req)
      /\ UNCHANGED req \/ (\E s \in sessions : Begin(s)) \/ Resolves \/ Answer
  BY Meantime
<1>2. /\ changes \in Int /\ req \in {Idle} \cup Resolution
      /\ req # Idle => req \in Resolution /\ req.since \in Int
  BY SessionsAssumption DEF Typed, TablesTyped, RequestsTyped, Resolution
<1>3. \A s : HasRevocation(s) => HasRevocation(s)'
  BY <1>1 DEF HasRevocation
<1>4. CASE UNCHANGED req
  <2> SUFFICES ASSUME req # Idle
               PROVE  /\ req.since <= changes'
                      /\ changes' = req.since /\ ~HasRevocation(req.session)' =>
                           /\ ReadsAreCurrent'
                           /\ req.stage = "done" => req.ctx \in req.expected
    BY <1>4 DEF Undisturbed
  <2>0. HasRevocation(req.session) => HasRevocation(req.session)'
    BY <1>1, <1>4 DEF HasRevocation
  <2>1. CASE changes' = changes + 1
    BY <1>2, <2>1 DEF Undisturbed
  <2>2. CASE UNCHANGED <<users, members, links, changes>>
    <3> SUFFICES ASSUME changes = req.since, ~HasRevocation(req.session)'
                 PROVE  ReadsAreCurrent' /\ (req.stage = "done" => req.ctx \in req.expected)
      BY <1>2, <2>2 DEF Undisturbed
    <3>1. ContextsOf(req.session)' = ContextsOf(req.session)
      <4>1. HasRevocation(req.session)' = HasRevocation(req.session)
        BY <2>0 DEF HasRevocation
      <4>2. QED
        BY <1>4, <2>2, <4>1 DEF ContextsOf, Membership, OrgsWhere, LinkedClients, LatestOf
    <3>2. ReadsAreCurrent /\ (req.stage = "done" => req.ctx \in req.expected)
      BY <2>0 DEF Undisturbed
    <3>3. \A u : /\ OrgsWhere(u, TRUE)' = OrgsWhere(u, TRUE)
                 /\ MembershipsOf(u)' = MembershipsOf(u) /\ ManyHired(u)' = ManyHired(u)
                 /\ LinksOf(u)' = LinksOf(u) /\ ManyLinked(u)' = ManyLinked(u)
      BY <2>2 DEF MembershipsOf, LinksOf, ManyHired, ManyLinked, OrgsWhere, LatestOf, Membership,
                  LinkedClients
    <3>4. QED
      BY <1>4, <2>2, <3>1, <3>2, <3>3 DEF ReadsAreCurrent
  <2>3. QED
    BY <1>1, <2>1, <2>2
<1>5. ASSUME NEW s \in sessions, Begin(s) PROVE Undisturbed'
  <2>1. /\ req' \in Resolution /\ req'.session = s /\ req'.expected = ContextsOf(s)
        /\ req'.stage = "user" /\ req'.membership = NoRow /\ req'.link = NoRow
        /\ req'.ctx = NoSession /\ req'.since = changes
        /\ UNCHANGED <<rowVars, changes>>
    <3>1. req' # Idle
      BY <1>5 DEF Begin, Idle
    <3>2. Typed'
      BY NextTyped
    <3>3. QED
      BY <1>5, <3>1, <3>2 DEF Begin, Typed, RequestsTyped
  <2>2. ContextsOf(s)' = ContextsOf(s) \/ HasRevocation(s)'
    BY <1>3, <2>1, TablesDecide DEF rowVars
  <2>3. QED
    BY <1>2, <2>1, <2>2 DEF Undisturbed, ReadsAreCurrent
<1>6. CASE Answer
  BY <1>6 DEF Answer, Undisturbed
<1>7. CASE Resolves
  <2> DEFINE s == req.session
             u == s.user
  <2>1. /\ req # Idle /\ req \in Resolution /\ req' \in Resolution
        /\ req'.session = s /\ req'.since = req.since /\ req'.expected = req.expected
        /\ UNCHANGED <<users, members, links, revocations, changes>>
    BY <1>7, ResolutionStep DEF rowVars
  <2>2. /\ req.since <= changes /\ (req.stage # "done" => req.ctx = NoSession)
        /\ req.stage # "done" /\ (req'.stage = "done" \/ req'.ctx = req.ctx)
    BY <1>7, <2>1 DEF Undisturbed, Resolves, ReadUser, ReadActive, ReadInactive, ReadLinks,
                      Resolve, Resolution
  <2> SUFFICES ASSUME changes = req.since, ~HasRevocation(s)
               PROVE  ReadsAreCurrent' /\ (req'.stage = "done" => req'.ctx \in req.expected)
    BY <2>1, <2>2 DEF Undisturbed, HasRevocation
  <2>3. ReadsAreCurrent
    BY <2>1 DEF Undisturbed
  <2>4. /\ ContextsOf(s)' = ContextsOf(s)
        /\ OrgsWhere(u, TRUE)' = OrgsWhere(u, TRUE)
        /\ MembershipsOf(u)' = MembershipsOf(u) /\ ManyHired(u)' = ManyHired(u)
        /\ LinksOf(u)' = LinksOf(u) /\ ManyLinked(u)' = ManyLinked(u)
    BY <2>1 DEF MembershipsOf, LinksOf, ManyHired, ManyLinked, OrgsWhere, LatestOf, Membership,
                LinkedClients, ContextsOf, HasRevocation
  <2>5. \A x : ~(Cardinality({x}) > 1) /\ ~(Cardinality({}) > 1)
    <3>1. \A x : Cardinality({x}) = 1
      BY FS_Singleton
    <3>2. Cardinality({}) = 0
      BY FS_EmptySet
    <3>3. QED
      BY <3>1, <3>2
  <2>6. ASSUME ReadUser PROVE ReadsAreCurrent' /\ req'.stage # "done"
    <3>1. /\ req'.stage = "active" /\ req'.row = users[u]
          /\ req'.membership = NoRow /\ req'.link = NoRow
      BY <2>1, <2>3, <2>6 DEF ReadUser, Resolution, ReadsAreCurrent
    <3>2. QED
      BY <2>1, <2>3, <2>4, <3>1 DEF ReadsAreCurrent
  <2>7. ASSUME ReadActive
        PROVE  ReadsAreCurrent' /\ (req'.stage = "done" => req'.ctx \in req.expected)
    <3>1. /\ req'.row = users[u] /\ req'.link = NoRow /\ req'.ctx = NoSession
          /\ \/ req'.stage = "done" /\ ManyHired(u)
             \/ req'.stage = "inactive" /\ OrgsWhere(u, TRUE) = {} /\ req'.membership = NoRow
             \/ /\ req'.stage = "links"
                /\ \E o : OrgsWhere(u, TRUE) = {o} /\ req'.membership = Membership(o, u, "active")
      BY <2>1, <2>2, <2>3, <2>7 DEF ReadActive, Resolution, ReadsAreCurrent, ManyHired
    <3>2. req'.stage = "links" => req'.membership \in MembershipsOf(u) /\ ~ManyHired(u)
      BY <2>5, <3>1 DEF MembershipsOf, ManyHired
    <3>3. req'.stage = "done" => req'.ctx \in req.expected
      BY <2>3, <3>1, PolicyAtOneLook DEF ReadsAreCurrent
    <3>4. QED
      BY <2>1, <2>3, <2>4, <3>1, <3>2, <3>3 DEF ReadsAreCurrent
  <2>8. ASSUME ReadInactive PROVE ReadsAreCurrent' /\ req'.stage # "done"
    <3>1. /\ req'.stage = "links" /\ req'.row = users[u] /\ req'.link = NoRow
          /\ OrgsWhere(u, TRUE) = {}
          /\ \/ LatestOf(u, OrgsWhere(u, FALSE)) = {} /\ req'.membership = NoRow
             \/ \E o \in LatestOf(u, OrgsWhere(u, FALSE)) :
                  req'.membership = Membership(o, u, "revoked")
      BY <2>1, <2>3, <2>8 DEF ReadInactive, Resolution, ReadsAreCurrent
    <3>2. req'.membership \in MembershipsOf(u) /\ ~ManyHired(u)
      BY <2>5, <3>1 DEF MembershipsOf, ManyHired
    <3>3. QED
      BY <2>1, <2>3, <2>4, <3>1, <3>2 DEF ReadsAreCurrent
  <2>9. ASSUME ReadLinks
        PROVE  ReadsAreCurrent' /\ (req'.stage = "done" => req'.ctx \in req.expected)
    <3>1. /\ req'.row = users[u] /\ req'.membership = req.membership /\ req'.ctx = NoSession
          /\ req.stage = "links"
          /\ \/ req'.stage = "done" /\ ManyLinked(u)
             \/ req'.stage = "gate" /\ LinkedClients(u) = {} /\ req'.link = NoRow
             \/ req'.stage = "gate" /\ \E c : LinkedClients(u) = {c} /\ req'.link = Link(c)
      BY <2>1, <2>2, <2>3, <2>9 DEF ReadLinks, Resolution, ReadsAreCurrent, ManyLinked
    <3>2. req'.stage = "gate" => req'.link \in LinksOf(u) /\ ~ManyLinked(u)
      BY <2>5, <3>1 DEF LinksOf, ManyLinked
    <3>3. req'.stage = "done" => req'.ctx \in req.expected
      BY <2>3, <3>1, PolicyAtOneLook DEF ReadsAreCurrent
    <3>4. QED
      BY <2>1, <2>3, <2>4, <3>1, <3>2, <3>3 DEF ReadsAreCurrent
  <2>10. ASSUME Resolve
         PROVE  ReadsAreCurrent' /\ (req'.stage = "done" => req'.ctx \in req.expected)
    <3>1. /\ req'.stage = "done" /\ req'.row = users[u] /\ req.stage = "gate"
          /\ req'.ctx = BuildSessionContext(u, users[u], req.membership, req.link, s.issued)
      BY <2>1, <2>3, <2>10 DEF Resolve, Resolution, ReadsAreCurrent
    <3>2. /\ req.membership \in MembershipsOf(u) /\ ~ManyHired(u)
          /\ req.link \in LinksOf(u) /\ ~ManyLinked(u)
      BY <2>3, <3>1 DEF ReadsAreCurrent
    <3>3. req'.ctx \in ContextsOf(s)
      BY <3>1, <3>2, PolicyAtOneLook
    <3>4. QED
      BY <2>1, <2>3, <2>4, <3>1, <3>3 DEF ReadsAreCurrent
  <2>11. QED
    BY <1>7, <2>6, <2>7, <2>8, <2>9, <2>10 DEF Resolves
<1>8. QED
  BY <1>1, <1>4, <1>5, <1>6, <1>7

\* The five reads of the principal directory give a context the selection
\* policy gives, for any rows, when nothing changes between them.
THEOREM ReadsFollowThePolicy == SessionsSpec => []UndisturbedResolution
<1>1. SessionsInit => SignOutInv /\ Undisturbed
  BY SessionsAssumption DEF SessionsInit, SignOutInv, CutoffsPast, HeldBack, Undisturbed
<1>2. SignOutInv => CutoffsPast
  BY DEF SignOutInv
<1>3. Undisturbed => UndisturbedResolution
  BY DEF Undisturbed, UndisturbedResolution
<1>4. QED
  BY <1>1, <1>2, <1>3, InitTyped, NextTyped, NextSignOut, NextUndisturbed, PTL DEF SessionsSpec

-----------------------------------------------------------------------------
(***************************************************************************)
(* Invitations.  What an invitation was issued for never changes, a        *)
(* membership row is never removed and a link made stays made; so what a   *)
(* request has read of them it may still act on, and an audit row written  *)
(* after the fact is still true.                                           *)
(***************************************************************************)

Invitation ==
  [status : {"pending", "accepted", "revoked", "expired"}, org : Orgs, email : Users,
   role : INVITABLE_ROLES, client : Clients \cup {Nil}, expires : Nat, by : Users \cup {Nil}]

TrueEvent(e) ==
  e.invite # Nil =>
    LET inv == invitations[e.invite]
    IN  /\ inv # NoInvitation /\ e.org = inv.org
        /\ e.action = "accepted" => e.by = inv.email /\ HasBinding(inv, e.by)
        /\ e.action = "denied"   => e.by # inv.email

TrueCall(c) ==
  /\ c.stage \in {"claim", "save"} => invitations[c.invite] # NoInvitation
  /\ c.stage = "claim" => invitations[c.invite].email = c.by
  /\ c.stage = "emit" => TrueEvent(c.event)

IsBound(i, u) == HasBinding(invitations[i], u)

\* A client is reserved by client invitations and by no other.
Reserves(i) ==
  invitations[i] # NoInvitation /\ BindsClient(invitations[i]) => invitations[i].client \in Clients

Kept(i) ==
  invitations[i].status = "accepted" =>
    invitations[i].by = invitations[i].email /\ IsBound(i, invitations[i].by)

RequestTrue(r) == TrueCall(calls[r])

InvitationsInv ==
  /\ InvitationsTypeOK
  /\ \A i \in Invites : Reserves(i) /\ Kept(i)
  /\ \A r \in Requests : RequestTrue(r)
  /\ \A e \in audit : TrueEvent(e)

\* Nothing is unbound.
BindingsLast ==
  /\ \A o \in Orgs, u \in Users : members[o][u] # NoRow => members'[o][u] # NoRow
  /\ \A c \in Clients, u \in Users : links'[c][u].made >= links[c][u].made

NothingIsBound ==
  /\ \A o \in Orgs, u \in Users : members'[o][u] # NoRow <=> members[o][u] # NoRow
  /\ \A c \in Clients, u \in Users : links'[c][u].made = links[c][u].made

SameTerms(x, y) ==
  y.org = x.org /\ y.email = x.email /\ y.role = x.role /\ y.client = x.client

TermsLast ==
  \A i \in Invites : invitations[i] # NoInvitation =>
    invitations'[i] # NoInvitation /\ SameTerms(invitations[i], invitations'[i])

LEMMA InvitationIsNotAbsent == NoInvitation \notin Invitation
BY DEF Invitation, NoInvitation

LEMMA BindingLasts ==
  ASSUME TablesTyped, TablesTyped', BindingsLast, TermsLast, InvitationsTypeOK,
         NEW i \in Invites, invitations[i] # NoInvitation, Reserves(i),
         NEW u \in Users, IsBound(i, u)
  PROVE  IsBound(i, u)'
<1> DEFINE x == invitations[i]
           y == invitations'[i]
<1>1. x \in Invitation /\ SameTerms(x, y)
  BY DEF InvitationsTypeOK, Invitation, TermsLast
<1>2. CASE BindsClient(x)
  <2> DEFINE c == x.client
  <2>1. c \in Clients /\ y.client = c /\ y.role = x.role /\ links[c][u].made > 0
    BY <1>1, <1>2 DEF Reserves, SameTerms, IsBound, HasBinding
  <2>2. links[c][u].made \in Nat /\ links'[c][u].made \in Nat
    <3> HIDE DEF c
    <3>1. QED
      BY <2>1 DEF TablesTyped, LinkRow
  <2>3. links'[c][u].made >= links[c][u].made
    BY <2>1 DEF BindingsLast
  <2>4. links'[y.client][u].made > 0
    <3> HIDE DEF c
    <3>1. QED
      BY <2>1, <2>2, <2>3
  <2>5. QED
    BY <1>2, <2>1, <2>4 DEF IsBound, HasBinding, BindsClient
<1>3. CASE ~BindsClient(x)
  <2>1. x.org \in Orgs /\ y.org = x.org /\ y.role = x.role /\ members[x.org][u] # NoRow
    BY <1>1, <1>3 DEF Invitation, SameTerms, IsBound, HasBinding
  <2>2. members'[y.org][u] # NoRow
    BY <2>1 DEF BindingsLast
  <2>3. QED
    BY <1>3, <2>1, <2>2 DEF IsBound, HasBinding, BindsClient
<1>4. QED
  BY <1>2, <1>3

Events ==
  [action : {"issued", "accepted", "denied"}, org : Orgs, invite : Invites \cup {Nil}, by : Users]

LEMMA EventLasts ==
  ASSUME TablesTyped, TablesTyped', BindingsLast, TermsLast, InvitationsTypeOK,
         \A i \in Invites : Reserves(i), NEW e \in Events, TrueEvent(e)
  PROVE  TrueEvent(e)'
<1> SUFFICES ASSUME e.invite # Nil PROVE TrueEvent(e)'
  BY DEF TrueEvent
<1> DEFINE i == e.invite
<1>1. /\ i \in Invites /\ invitations[i] # NoInvitation /\ e.by \in Users /\ Reserves(i)
      /\ e.org = invitations[i].org
      /\ e.action = "accepted" => e.by = invitations[i].email /\ IsBound(i, e.by)
      /\ e.action = "denied" => e.by # invitations[i].email
  BY DEF TrueEvent, Events, IsBound
<1>2. invitations'[i] # NoInvitation /\ SameTerms(invitations[i], invitations'[i])
  BY <1>1 DEF TermsLast
<1>3. e.action = "accepted" => IsBound(i, e.by)'
  BY <1>1, BindingLasts
<1>4. QED
  BY <1>1, <1>2, <1>3 DEF TrueEvent, SameTerms, IsBound

\* The invariant from what a step did to the invitations, the trail and the
\* requests.
LEMMA InvitationsStep ==
  ASSUME TablesTyped, TablesTyped', BindingsLast, TermsLast, InvitationsInv,
         InvitationsTypeOK',
         \A r \in Requests : calls'[r] = calls[r] \/ RequestTrue(r)',
         \A e \in audit' : e \in audit \/ TrueEvent(e)',
         \A i \in Invites : invitations'[i] = invitations[i] \/ (Reserves(i)' /\ Kept(i)')
  PROVE  InvitationsInv'
<1>1. /\ InvitationsTypeOK
      /\ \A i \in Invites : Reserves(i) /\ Kept(i)
      /\ \A q \in Requests : RequestTrue(q)
      /\ \A e \in audit : TrueEvent(e)
  BY DEF InvitationsInv
<1>2. ASSUME NEW e \in Events, TrueEvent(e) PROVE TrueEvent(e)'
  BY <1>1, <1>2, EventLasts
<1>3. \A e \in audit' : TrueEvent(e)'
  BY <1>1, <1>2 DEF InvitationsTypeOK, Events
<1>4. ASSUME NEW r \in Requests, calls'[r] = calls[r] PROVE RequestTrue(r)'
  <2>1. PICK c \in Call : calls[r] = c /\ calls'[r] = c /\ TrueCall(c)
    BY <1>1, <1>4 DEF InvitationsTypeOK, RequestTrue
  <2>2. c.stage \in {"claim", "save"} => c.invite \in Invites
    BY DEF Call, Idle
  <2>3. c.stage = "emit" => c.event \in Events /\ TrueEvent(c.event)
    BY <2>1 DEF Call, Idle, Events, TrueCall
  <2>4. c.stage = "emit" => TrueEvent(c.event)'
    BY <1>2, <2>3
  <2>5. QED
    BY <2>1, <2>2, <2>4 DEF TrueCall, TermsLast, SameTerms, RequestTrue
<1>5. ASSUME NEW i \in Invites, invitations'[i] = invitations[i]
      PROVE  Reserves(i)' /\ Kept(i)'
  <2>1. Reserves(i) /\ Kept(i) /\ Reserves(i)'
    BY <1>1, <1>5 DEF Reserves, BindsClient
  <2>2. CASE invitations[i].status = "accepted"
    <3>1. invitations[i] # NoInvitation
      BY <2>2 DEF NoInvitation
    <3>2. invitations[i] \in Invitation
      BY <1>1, <3>1 DEF InvitationsTypeOK, Invitation
    <3>3. /\ invitations[i].by = invitations[i].email /\ invitations[i].by \in Users
          /\ IsBound(i, invitations[i].by)
      BY <2>1, <2>2, <3>2 DEF Kept, Invitation
    <3>4. IsBound(i, invitations[i].by)'
      <4>1. PICK u \in Users : u = invitations[i].by /\ IsBound(i, u)
        BY <3>3
      <4>2. IsBound(i, u)'
        BY <1>1, <2>1, <3>1, <4>1, BindingLasts
      <4>3. QED
        BY <1>5, <4>1, <4>2 DEF IsBound
    <3>5. QED
      BY <1>5, <2>1, <3>3, <3>4 DEF Kept, IsBound
  <2>3. CASE invitations[i].status # "accepted"
    BY <1>5, <2>1, <2>3 DEF Kept
  <2>4. QED
    BY <2>2, <2>3
<1>6. QED
  BY <1>3, <1>4, <1>5 DEF InvitationsInv

LEMMA InvitationTypes ==
  ASSUME TablesTyped, InvitationsInv
  PROVE  /\ \A i \in Invites : invitations[i] # NoInvitation <=> invitations[i] \in Invitation
         /\ \A r \in Requests : calls[r] \in Call
         /\ \A r \in Requests : calls[r].stage = "claim" =>
              /\ calls[r].invite \in Invites /\ calls[r].by \in Users
              /\ invitations[calls[r].invite] \in Invitation
              /\ invitations[calls[r].invite].email = calls[r].by
         /\ \A r \in Requests : calls[r].stage = "save" =>
              /\ calls[r].invite \in Invites /\ calls[r].status \in {"revoked", "expired"}
              /\ invitations[calls[r].invite] \in Invitation
         /\ \A r \in Requests : calls[r].stage = "emit" =>
              calls[r].event \in Events /\ TrueEvent(calls[r].event)
         /\ \A r \in Requests : calls[r].stage = "issue" =>
              calls[r].org \in Orgs /\ calls[r].by \in Users
<1>1. \A i \in Invites : invitations[i] # NoInvitation <=> invitations[i] \in Invitation
  BY InvitationIsNotAbsent DEF InvitationsInv, InvitationsTypeOK, Invitation
<1>2. ASSUME NEW r \in Requests
      PROVE  calls[r] \in Call /\ TrueCall(calls[r])
  BY DEF InvitationsInv, InvitationsTypeOK, RequestTrue
<1>3. \A c \in Call :
        /\ c.stage = "claim" => c.invite \in Invites /\ c.by \in Users
        /\ c.stage = "save" => c.invite \in Invites /\ c.status \in {"revoked", "expired"}
        /\ c.stage = "emit" => c.event \in Events
        /\ c.stage = "issue" => c.org \in Orgs /\ c.by \in Users
  BY DEF Call, Idle, Events
<1>4. QED
  BY <1>1, <1>2, <1>3 DEF TrueCall

\* Steps that leave the tables and the invitations.
LEMMA NothingBinds ==
  ASSUME UNCHANGED <<users, members, links, invitations, now, changes>>
  PROVE  /\ NothingIsBound /\ TermsLast /\ (TablesTyped => TablesTyped')
BY DEF NothingIsBound, TermsLast, TablesTyped, SameTerms

LEMMA NothingIsLost ==
  ASSUME TablesTyped, NothingIsBound
  PROVE  BindingsLast
BY DEF NothingIsBound, BindingsLast, TablesTyped, LinkRow

\* A request that only moves on.
LEMMA RequestMoves ==
  ASSUME TablesTyped, InvitationsInv, NEW r \in Requests, NEW c \in Call, Set(r, c),
         UNCHANGED <<users, members, links, invitations, now, changes>>,
         TrueCall(c), audit' = audit \/ \E e \in Events : TrueEvent(e) /\ audit' = audit \cup {e}
  PROVE  InvitationsInv' /\ TablesTyped' /\ NothingIsBound
<1>1. NothingIsBound /\ TermsLast /\ TablesTyped' /\ BindingsLast
  BY NothingBinds, NothingIsLost
<1>2. /\ InvitationsTypeOK' /\ calls'[r] = c
      /\ \A q \in Requests \ {r} : calls'[q] = calls[q]
  BY DEF Set, InvitationsInv, InvitationsTypeOK, Events
<1>3. \A e : TrueEvent(e)' <=> TrueEvent(e)
  BY DEF TrueEvent, HasBinding
<1>4. RequestTrue(r)'
  BY <1>2, <1>3 DEF RequestTrue, TrueCall
<1>5. \A e \in audit' : e \in audit \/ TrueEvent(e)'
  BY <1>3
<1>6. \A i \in Invites : invitations'[i] = invitations[i]
  OBVIOUS
<1>7. QED
  BY <1>1, <1>2, <1>4, <1>5, <1>6, InvitationsStep

LEMMA BeginIssueStep ==
  ASSUME TablesTyped, InvitationsInv, NEW r \in Requests, NEW u \in Users, BeginIssue(r, u)
  PROVE  InvitationsInv' /\ TablesTyped' /\ NothingIsBound
<1>1. PICK ctx \in Resolved(u) :
        /\ ctx.org # Nil
        /\ IF Authorize(ctx, "organization.manage_members", ctx.org, Nil)
           THEN Set(r, [stage |-> "issue", org |-> ctx.org, by |-> u])
           ELSE Set(r, Emitting("denied", ctx.org, Nil, u))
  BY DEF BeginIssue
<1>2. UNCHANGED <<users, members, links, invitations, now, changes, audit>>
  BY DEF BeginIssue
<1>3. ctx.org \in Orgs
  <2>1. [user |-> u, issued |-> now] \in Session
    BY DEF Session, TablesTyped
  <2>2. ctx \in Context /\ ctx # NoSession
    BY <2>1, ContextsTyped DEF Resolved
  <2>3. QED
    BY <1>1, <2>2 DEF Context
<1>4. /\ [stage |-> "issue", org |-> ctx.org, by |-> u] \in Call
      /\ TrueCall([stage |-> "issue", org |-> ctx.org, by |-> u])
  BY <1>3 DEF Call, TrueCall
<1>5. /\ Emitting("denied", ctx.org, Nil, u) \in Call
      /\ TrueCall(Emitting("denied", ctx.org, Nil, u))
  BY <1>3 DEF Call, TrueCall, Emitting, AuditEvent, TrueEvent
<1>6. QED
  BY <1>1, <1>2, <1>4, <1>5, RequestMoves

LEMMA BeginAcceptStep ==
  ASSUME TablesTyped, InvitationsInv, NEW r \in Requests, NEW u \in Users, NEW i \in Invites,
         BeginAccept(r, u, i)
  PROVE  InvitationsInv' /\ TablesTyped' /\ NothingIsBound
<1>1. /\ invitations[i] \in Invitation /\ invitations[i] # NoInvitation
      /\ UNCHANGED <<users, members, links, invitations, now, changes, audit>>
  BY InvitationTypes DEF BeginAccept, TokenResolves
<1>2. CASE MayAccept(invitations[i], u, now) /\ Set(r, [stage |-> "claim", invite |-> i, by |-> u])
  <2> DEFINE c == [stage |-> "claim", invite |-> i, by |-> u]
  <2>1. c \in Call /\ TrueCall(c)
    BY <1>1, <1>2 DEF Call, TrueCall, MayAccept
  <2>2. QED
    BY <1>1, <1>2, <2>1, RequestMoves
<1>3. CASE Misdirected(i, u) /\ Set(r, Emitting("denied", invitations[i].org, i, u))
  <2>1. PICK c : c = Emitting("denied", invitations[i].org, i, u)
    OBVIOUS
  <2>2. c \in Call /\ TrueCall(c)
    BY <1>1, <1>3, <2>1
       DEF Call, TrueCall, Emitting, AuditEvent, TrueEvent, Misdirected, Invitation
  <2>3. QED
    BY <1>1, <1>3, <2>1, <2>2, RequestMoves
<1>4. QED
  BY <1>2, <1>3 DEF BeginAccept

LEMMA FetchStep ==
  ASSUME TablesTyped, InvitationsInv, NEW r \in Requests, NEW i \in Invites,
         NEW status \in {"revoked", "expired"}, Fetch(r, i, status)
  PROVE  InvitationsInv' /\ TablesTyped' /\ NothingIsBound
<1> DEFINE c == [stage |-> "save", invite |-> i, status |-> status]
<1>1. c \in Call /\ TrueCall(c)
  BY DEF Call, TrueCall, Fetch
<1>2. UNCHANGED <<users, members, links, invitations, now, changes, audit>> /\ Set(r, c)
  BY DEF Fetch
<1>3. QED
  BY <1>1, <1>2, RequestMoves

LEMMA EmitStep ==
  ASSUME TablesTyped, InvitationsInv, NEW r \in Requests, Emit(r)
  PROVE  InvitationsInv' /\ TablesTyped' /\ NothingIsBound
<1>1. Idle \in Call /\ TrueCall(Idle)
  BY DEF Call, TrueCall, Idle
<1>2. calls[r].event \in Events /\ TrueEvent(calls[r].event)
  BY InvitationTypes DEF Emit
<1>3. QED
  BY <1>1, <1>2, RequestMoves DEF Emit

LEMMA AbandonStep ==
  ASSUME TablesTyped, InvitationsInv, NEW r \in Requests, Abandon(r)
  PROVE  InvitationsInv' /\ TablesTyped' /\ NothingIsBound
<1>1. Idle \in Call /\ TrueCall(Idle)
  BY DEF Call, TrueCall, Idle
<1>2. QED
  BY <1>1, RequestMoves DEF Abandon

LEMMA IssueStep ==
  ASSUME TablesTyped, InvitationsInv, NEW r \in Requests, NEW i \in Invites, NEW email \in Users,
         NEW role \in INVITABLE_ROLES, NEW client \in Clients \cup {Nil},
         Issue(r, i, email, role, client)
  PROVE  InvitationsInv' /\ TablesTyped' /\ NothingIsBound
<1>0. PICK org \in Orgs, by \in Users : org = calls[r].org /\ by = calls[r].by
  BY InvitationTypes DEF Issue
<1>1. PICK new, c :
        new = IssuedRow(org, email, role, client) /\ c = Emitting("issued", org, i, by)
  OBVIOUS
<1>2. /\ invitations[i] = NoInvitation /\ MayIssue(role, client)
      /\ invitations' = [invitations EXCEPT ![i] = new] /\ Set(r, c)
      /\ UNCHANGED <<users, members, links, now, changes, audit>>
  BY <1>0, <1>1 DEF Issue
<1>3. /\ new \in Invitation /\ new.status = "pending" /\ new.org = org
      /\ new.role = role /\ new.client = client
  <2>1. now + Lifetime \in Nat
    BY SessionsAssumption, InvitationsAssumption DEF TablesTyped, Times
  <2>2. QED
    BY <1>1, <2>1 DEF IssuedRow, Invitation
<1>4. c \in Call
  BY <1>1 DEF Call, Emitting, AuditEvent
<1>5. /\ InvitationsTypeOK' /\ invitations'[i] = new /\ calls'[r] = c
      /\ \A j \in Invites \ {i} : invitations'[j] = invitations[j]
      /\ \A q \in Requests \ {r} : calls'[q] = calls[q]
  BY <1>2, <1>3, <1>4 DEF Set, InvitationsInv, InvitationsTypeOK, Invitation
<1>6. NothingIsBound /\ TermsLast /\ TablesTyped' /\ BindingsLast
  <2>1. NothingIsBound /\ TablesTyped'
    BY <1>2 DEF NothingIsBound, TablesTyped
  <2>2. TermsLast
    BY <1>2, <1>5 DEF TermsLast, SameTerms
  <2>3. QED
    BY <2>1, <2>2, NothingIsLost
<1>7. Reserves(i)' /\ Kept(i)'
  BY <1>2, <1>3, <1>5 DEF Reserves, Kept, MayIssue, BindsClient
<1>8. RequestTrue(r)'
  BY <1>1, <1>3, <1>5, InvitationIsNotAbsent
     DEF RequestTrue, TrueCall, TrueEvent, Emitting, AuditEvent
<1>9. \A e \in audit' : e \in audit
  BY <1>2
<1>10. QED
  BY <1>5, <1>6, <1>7, <1>8, <1>9, InvitationsStep

LEMMA SaveStep ==
  ASSUME TablesTyped, InvitationsInv, NEW r \in Requests, Save(r)
  PROVE  InvitationsInv' /\ TablesTyped' /\ NothingIsBound
<1>1. PICK i \in Invites, status \in {"revoked", "expired"}, x \in Invitation :
        i = calls[r].invite /\ status = calls[r].status /\ x = invitations[i]
  BY InvitationTypes DEF Save
<1> DEFINE new == [x EXCEPT !.status = status, !.by = Nil]
<1>2. /\ invitations' = [invitations EXCEPT ![i] = new]
      /\ Set(r, Idle) /\ UNCHANGED <<users, members, links, now, changes, audit>>
  BY <1>1 DEF Save, InvitationsInv, InvitationsTypeOK
<1>3. new \in Invitation /\ new.status = status /\ SameTerms(x, new)
  BY <1>1 DEF Invitation, SameTerms
<1> HIDE DEF new
<1>4. Idle \in Call
  BY DEF Call
<1>5. /\ InvitationsTypeOK' /\ invitations'[i] = new /\ calls'[r] = Idle
      /\ \A j \in Invites \ {i} : invitations'[j] = invitations[j]
      /\ \A q \in Requests \ {r} : calls'[q] = calls[q]
  BY <1>2, <1>3, <1>4 DEF Set, InvitationsInv, InvitationsTypeOK, Invitation
<1>6. NothingIsBound /\ TermsLast /\ TablesTyped' /\ BindingsLast
  <2>1. NothingIsBound /\ TablesTyped'
    BY <1>2 DEF NothingIsBound, TablesTyped
  <2>2. TermsLast
    BY <1>1, <1>3, <1>5, InvitationIsNotAbsent DEF TermsLast, SameTerms
  <2>3. QED
    BY <2>1, <2>2, NothingIsLost
<1>7. Reserves(i)' /\ Kept(i)'
  <2>1. Reserves(i) /\ invitations[i] # NoInvitation
    BY <1>1, InvitationIsNotAbsent DEF InvitationsInv
  <2>2. QED
    BY <1>1, <1>3, <1>5, <2>1 DEF Reserves, Kept, BindsClient, SameTerms
<1>8. RequestTrue(r)'
  BY <1>5 DEF RequestTrue, TrueCall, Idle
<1>9. \A e \in audit' : e \in audit
  BY <1>2
<1>10. QED
  BY <1>5, <1>6, <1>7, <1>8, <1>9, InvitationsStep

\* A claim that goes through binds the person and nobody else.
ClaimBinds ==
  /\ \A o \in Orgs, u \in Users : NewMember(o, u) =>
       \E i \in Invites : /\ Spends(i, u) /\ invitations[i].org = o
                          /\ members'[o][u].role = MemberRoleFromRole(invitations[i].role)
  /\ \A c \in Clients, u \in Users : NewLink(c, u) =>
       \E i \in Invites : Spends(i, u) /\ invitations[i].client = c

LEMMA NothingNew == ASSUME TablesTyped, NothingIsBound PROVE ClaimBinds
<1>1. \A o \in Orgs, u \in Users : ~NewMember(o, u)
  BY DEF NothingIsBound, NewMember
<1>2. \A c \in Clients, u \in Users : ~NewLink(c, u)
  BY DEF NothingIsBound, NewLink, TablesTyped, LinkRow
<1>3. QED
  BY <1>1, <1>2 DEF ClaimBinds

LEMMA ClaimStep ==
  ASSUME TablesTyped, InvitationsInv, NEW r \in Requests, Claim(r)
  PROVE  InvitationsInv' /\ TablesTyped' /\ ClaimBinds
<1>1. PICK i \in Invites, u \in Users, x \in Invitation :
        i = calls[r].invite /\ u = calls[r].by /\ x = invitations[i] /\ x.email = u
  BY InvitationTypes DEF Claim
<1>2. UNCHANGED <<users, now, changes, audit>>
  BY DEF Claim
<1>3. CASE ~(x.status = "pending" /\ BindingFree(x, u))
  <2>1. Set(r, Idle) /\ UNCHANGED <<users, members, links, invitations, now, changes, audit>>
    BY <1>1, <1>3 DEF Claim
  <2>2. Idle \in Call /\ TrueCall(Idle)
    BY DEF Call, TrueCall, Idle
  <2>3. QED
    BY <2>1, <2>2, RequestMoves, NothingNew
<1>4. CASE x.status = "pending" /\ BindingFree(x, u)
  <2> DEFINE new == [x EXCEPT !.status = "accepted", !.by = u]
  <2>1. PICK c : c = Emitting("accepted", x.org, i, u)
    OBVIOUS
  <2>2. /\ invitations' = [invitations EXCEPT ![i] = new]
        /\ InsertBinding(x, u) /\ Set(r, c)
    BY <1>1, <1>4, <2>1 DEF Claim, Accepted, InvitationsInv, InvitationsTypeOK
  <2>3. /\ new \in Invitation /\ new.status = "accepted" /\ new.by = u /\ SameTerms(x, new)
        /\ x.org \in Orgs /\ x.role \in INVITABLE_ROLES
    BY <1>1 DEF Invitation, SameTerms
  <2> HIDE DEF new
  <2>4. c \in Call
    BY <2>1, <2>3 DEF Call, Emitting, AuditEvent
  <2>5. /\ InvitationsTypeOK' /\ invitations'[i] = new /\ calls'[r] = c
        /\ \A j \in Invites \ {i} : invitations'[j] = invitations[j]
        /\ \A q \in Requests \ {r} : calls'[q] = calls[q]
    BY <1>2, <2>2, <2>3, <2>4 DEF Set, InvitationsInv, InvitationsTypeOK, Invitation
  <2>6. TermsLast
    BY <1>1, <2>3, <2>5, InvitationIsNotAbsent DEF TermsLast, SameTerms
  <2>7. Spends(i, u)
    BY <1>1, <1>4, <2>3, <2>5 DEF Spends
  <2>8. TablesTyped' /\ BindingsLast /\ ClaimBinds /\ HasBinding(x, u)' /\ Reserves(i)
    <3>0. Reserves(i) /\ (BindsClient(x) => x.client \in Clients)
      BY <1>1, InvitationIsNotAbsent DEF InvitationsInv, Reserves
    <3>1. CASE BindsClient(x)
      <4> DEFINE k == x.client
                 row == [made |-> links[k][u].made + 1, active |-> TRUE]
      <4>1. k \in Clients /\ links[k] \in [Users -> LinkRow] /\ UNCHANGED members
        BY <1>2, <2>2, <3>0, <3>1 DEF InsertBinding, TablesTyped
      <4>2. links' = [links EXCEPT ![k] = [links[k] EXCEPT ![u] = row]]
        BY <2>2, <3>1, <4>1 DEF InsertBinding, InsertLink, TablesTyped
      <4>3. links[k][u].made \in Nat /\ row \in LinkRow /\ row.made = links[k][u].made + 1
        <5> HIDE DEF k
        <5>1. links[k][u] \in LinkRow
          BY <4>1
        <5>2. links[k][u].made \in Nat
          BY <5>1 DEF LinkRow
        <5>3. links[k][u].made + 1 \in Nat
          BY <5>2
        <5>4. QED
          BY <5>2, <5>3 DEF LinkRow
      <4> HIDE DEF row
      <4>4. \A d \in Clients, v \in Users :
              links'[d][v] = IF d = k /\ v = u THEN row ELSE links[d][v]
        BY <4>1, <4>2 DEF TablesTyped
      <4>5. TablesTyped'
        <5>1. [links[k] EXCEPT ![u] = row] \in [Users -> LinkRow]
          BY <4>1, <4>3
        <5>2. QED
          BY <1>2, <4>1, <4>2, <5>1 DEF TablesTyped
      <4>6. \A d \in Clients, v \in Users : links[d][v].made \in Nat
        BY DEF TablesTyped, LinkRow
      <4>7. BindingsLast
        BY <4>1, <4>3, <4>4, <4>6 DEF BindingsLast
      <4>8. \A d \in Clients, v \in Users : NewLink(d, v) => d = k /\ v = u
        BY <4>3, <4>4, <4>6 DEF NewLink
      <4>9. \A o \in Orgs, v \in Users : ~NewMember(o, v)
        BY <4>1 DEF NewMember
      <4>10. ClaimBinds
        BY <1>1, <2>7, <4>8, <4>9 DEF ClaimBinds
      <4>11. links'[k][u].made > 0
        BY <4>1, <4>3, <4>4
      <4>12. QED
        BY <3>0, <3>1, <4>5, <4>7, <4>10, <4>11 DEF HasBinding
    <3>2. CASE ~BindsClient(x)
      <4> DEFINE o == x.org
                 row == [role |-> MemberRoleFromRole(x.role), active |-> TRUE, at |-> now]
      <4>1. /\ o \in Orgs /\ UNCHANGED links /\ members[o][u] = NoRow
            /\ members[o] \in [Users -> {NoRow} \cup MemberRow]
        BY <1>4, <2>2, <2>3, <3>2 DEF InsertBinding, BindingFree, TablesTyped
      <4>2. members' = [members EXCEPT ![o] = [members[o] EXCEPT ![u] = row]]
        BY <2>2, <3>2, <4>1 DEF InsertBinding, TablesTyped
      <4>3. row \in MemberRow /\ row # NoRow
        <5>1. MemberRoleFromRole(x.role) \in MEMBER_ROLES
          <6>1. \E m \in MEMBER_ROLES : RoleFromMemberRole[m] = x.role
            BY <2>3, <3>2 DEF BindsClient, INVITABLE_ROLES, MEMBER_ROLES, RoleFromMemberRole
          <6>2. QED
            BY <6>1 DEF MemberRoleFromRole
        <5>2. now \in Times
          BY DEF TablesTyped
        <5>3. row \in MemberRow
          BY <5>1, <5>2 DEF MemberRow
        <5>4. QED
          BY <5>3, RowsAreRows
      <4>4. row.role = MemberRoleFromRole(x.role)
        OBVIOUS
      <4> HIDE DEF row
      <4>5. \A p \in Orgs, v \in Users :
              members'[p][v] = IF p = o /\ v = u THEN row ELSE members[p][v]
        BY <4>1, <4>2 DEF TablesTyped
      <4>6. TablesTyped'
        <5>1. [members[o] EXCEPT ![u] = row] \in [Users -> {NoRow} \cup MemberRow]
          BY <4>1, <4>3
        <5>2. QED
          BY <1>2, <4>1, <4>2, <5>1 DEF TablesTyped
      <4>7. \A d \in Clients, v \in Users : links'[d][v].made = links[d][v].made
                                              /\ links[d][v].made \in Nat
        BY <4>1 DEF TablesTyped, LinkRow
      <4>8. BindingsLast
        BY <4>3, <4>5, <4>7 DEF BindingsLast
      <4>9. ClaimBinds
        BY <1>1, <2>7, <4>4, <4>5, <4>7 DEF ClaimBinds, NewMember, NewLink
      <4>10. members'[o][u] # NoRow
        BY <4>1, <4>3, <4>5
      <4>11. QED
        BY <3>0, <3>2, <4>6, <4>8, <4>9, <4>10 DEF HasBinding
    <3>3. QED
      BY <3>1, <3>2
  <2>9. IsBound(i, u)'
    BY <2>3, <2>5, <2>8 DEF IsBound, HasBinding, SameTerms, BindsClient
  <2>10. Reserves(i)' /\ Kept(i)'
    <3>1. Reserves(i)'
      BY <1>1, <2>3, <2>5, <2>8, InvitationIsNotAbsent DEF Reserves, SameTerms, BindsClient
    <3>2. new.email = u
      BY <1>1, <2>3 DEF SameTerms
    <3>3. QED
      BY <2>3, <2>5, <2>9, <3>1, <3>2 DEF Kept, IsBound
  <2>11. RequestTrue(r)'
    <3>1. new.email = u /\ new.org = x.org /\ new # NoInvitation
      BY <1>1, <2>3, InvitationIsNotAbsent DEF SameTerms
    <3>2. QED
      BY <2>1, <2>5, <2>9, <3>1 DEF RequestTrue, TrueCall, TrueEvent, Emitting, AuditEvent, IsBound
  <2>12. \A e \in audit' : e \in audit
    BY <1>2
  <2>13. QED
    BY <2>5, <2>6, <2>8, <2>10, <2>11, <2>12, InvitationsStep
<1>5. QED
  BY <1>3, <1>4

\* People leave, links are cut and accounts are disabled beside: nothing that
\* was bound disappears from the tables.
LEMMA MeanwhileStep ==
  ASSUME TablesTyped, InvitationsInv, Meanwhile
  PROVE  InvitationsInv' /\ TablesTyped' /\ NothingIsBound
<1>1. /\ Tick \/ Changes
      /\ \/ Tick
         \/ \E o \in Orgs, u \in Users : Revoke(o, u)
         \/ \E c \in Clients, u \in Users : RevokeLink(c, u)
         \/ \E u \in Users : Disable(u)
      /\ UNCHANGED <<invitations, calls, audit>>
  BY DEF Meanwhile, Changes
<1>2. TablesTyped'
  BY <1>1, ChangedTables
<1>3. ASSUME NEW o \in Orgs, NEW u \in Users, Revoke(o, u) PROVE NothingIsBound
  <2> DEFINE row == RevokeMembership(members[o][u])
  <2>1. members[o][u] \in MemberRow /\ members[o][u] # NoRow /\ UNCHANGED links
    BY <1>3 DEF Revoke, ChangeMember, TablesTyped
  <2>2. row \in MemberRow /\ row # NoRow
    <3>1. row \in MemberRow
      BY <2>1 DEF RevokeMembership, MemberRow
    <3>2. QED
      BY <3>1, RowsAreRows
  <2>3. members' = [members EXCEPT ![o] = [members[o] EXCEPT ![u] = row]]
    BY <1>3 DEF Revoke, ChangeMember, TablesTyped
  <2> HIDE DEF row
  <2>4. QED
    BY <2>1, <2>2, <2>3 DEF NothingIsBound, TablesTyped
<1>4. ASSUME NEW c \in Clients, NEW u \in Users, RevokeLink(c, u) PROVE NothingIsBound
  <2> DEFINE row == [links[c][u] EXCEPT !.active = FALSE]
  <2>1. links[c][u] \in LinkRow /\ UNCHANGED members
    BY <1>4 DEF RevokeLink, TablesTyped
  <2>2. row.made = links[c][u].made
    BY <2>1 DEF LinkRow
  <2>3. links' = [links EXCEPT ![c] = [links[c] EXCEPT ![u] = row]]
    BY <1>4 DEF RevokeLink, TablesTyped
  <2> HIDE DEF row
  <2>4. QED
    BY <2>1, <2>2, <2>3 DEF NothingIsBound, TablesTyped
<1>5. NothingIsBound
  <2>1. CASE Tick \/ \E u \in Users : Disable(u)
    BY <2>1 DEF Tick, Disable, rowVars, NothingIsBound
  <2>2. QED
    BY <1>1, <1>3, <1>4, <2>1
<1>6. BindingsLast /\ TermsLast /\ InvitationsTypeOK'
  BY <1>1, <1>5, NothingIsLost DEF TermsLast, SameTerms, InvitationsInv, InvitationsTypeOK
<1>7. \A r \in Requests : calls'[r] = calls[r]
  BY <1>1
<1>8. \A i \in Invites : invitations'[i] = invitations[i]
  BY <1>1
<1>9. \A e \in audit' : e \in audit
  BY <1>1
<1>10. QED
  BY <1>2, <1>5, <1>6, <1>7, <1>8, <1>9, InvitationsStep

LEMMA NextInvitations ==
  ASSUME TablesTyped, InvitationsInv, [InvitationsNext]_invitationVars
  PROVE  InvitationsInv' /\ TablesTyped' /\ ClaimBinds
<1>1. CASE InvitationsNext
  <2>1. CASE Meanwhile
    BY <2>1, MeanwhileStep, NothingNew
  <2>2. ASSUME NEW r \in Requests, NEW u \in Users,
               BeginIssue(r, u) \/ (\E i \in Invites : BeginAccept(r, u, i))
        PROVE  InvitationsInv' /\ TablesTyped' /\ ClaimBinds
    BY <2>2, BeginIssueStep, BeginAcceptStep, NothingNew
  <2>3. ASSUME NEW r \in Requests,
               \E i \in Invites, email \in Users, role \in INVITABLE_ROLES,
                  client \in Clients \cup {Nil} : Issue(r, i, email, role, client)
        PROVE  InvitationsInv' /\ TablesTyped' /\ ClaimBinds
    BY <2>3, IssueStep, NothingNew
  <2>4. ASSUME NEW r \in Requests,
               (\E i \in Invites, status \in {"revoked", "expired"} : Fetch(r, i, status))
                 \/ Claim(r) \/ Save(r) \/ Emit(r) \/ Abandon(r)
        PROVE  InvitationsInv' /\ TablesTyped' /\ ClaimBinds
    BY <2>4, FetchStep, ClaimStep, SaveStep, EmitStep, AbandonStep, NothingNew
  <2>5. QED
    BY <1>1, <2>1, <2>2, <2>3, <2>4 DEF InvitationsNext
<1>2. CASE UNCHANGED invitationVars
  <2>1. UNCHANGED <<users, members, links, invitations, now, changes, calls, audit>>
    BY <1>2 DEF invitationVars, sessionVars
  <2>2. TablesTyped' /\ TermsLast /\ NothingIsBound /\ BindingsLast /\ InvitationsTypeOK'
    BY <2>1, NothingBinds, NothingIsLost DEF InvitationsInv, InvitationsTypeOK
  <2>3. /\ \A r \in Requests : calls'[r] = calls[r]
        /\ \A e \in audit' : e \in audit
        /\ \A i \in Invites : invitations'[i] = invitations[i]
    BY <2>1
  <2>4. QED
    BY <2>2, <2>3, InvitationsStep, NothingNew
<1>3. QED
  BY <1>1, <1>2

LEMMA InvitationsHold == InvitationsSpec => [](TablesTyped /\ InvitationsInv)
<1>1. InvitationsInit => TablesTyped /\ InvitationsInv
  BY InitTyped DEF InvitationsInit, Typed, InvitationsInv, InvitationsTypeOK, Call, Reserves, Kept,
                   RequestTrue, TrueCall, Idle, NoInvitation
<1>2. TablesTyped /\ InvitationsInv /\ [InvitationsNext]_invitationVars =>
        (TablesTyped /\ InvitationsInv)'
  BY NextInvitations
<1>3. QED
  BY <1>1, <1>2, PTL DEF InvitationsSpec

\* Invitations, requests and audit rows keep their shape.
THEOREM InvitationsTypeCorrect == InvitationsSpec => []InvitationsTypeOK
<1>1. InvitationsInv => InvitationsTypeOK
  BY DEF InvitationsInv
<1>2. QED
  BY <1>1, InvitationsHold, PTL

\* An accepted invitation has its binding, and so has everybody an `accepted`
\* audit row names, however late the row is written and whatever an
\* unconditional save made of the invitation since.
THEOREM AcceptedIsBound == InvitationsSpec => []AcceptedHasBinding
<1>1. InvitationsInv => AcceptedHasBinding
  BY DEF InvitationsInv, Kept, IsBound, TrueEvent, AcceptedHasBinding
<1>2. QED
  BY <1>1, InvitationsHold, PTL

\* No membership and no link comes from anything but the claim of a pending
\* invitation, for the person and on the terms it was issued with
\* (acceptInvitationByToken), for any number of requests and invitations.
THEOREM BindingsAreInvited == InvitationsSpec => BindingSpendsInvitation
<1>1. TablesTyped /\ InvitationsInv /\ [InvitationsNext]_invitationVars =>
        /\ \A o \in Orgs, u \in Users : NewMember(o, u) =>
             \E i \in Invites : /\ Spends(i, u) /\ invitations[i].org = o
                                /\ members'[o][u].role = MemberRoleFromRole(invitations[i].role)
        /\ \A c \in Clients, u \in Users : NewLink(c, u) =>
             \E i \in Invites : Spends(i, u) /\ invitations[i].client = c
  BY NextInvitations DEF ClaimBinds
<1>2. QED
  BY <1>1, InvitationsHold, PTL DEF InvitationsSpec, BindingSpendsInvitation

===============================================================================
