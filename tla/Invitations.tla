---------------------------- MODULE Invitations ----------------------------
(***************************************************************************)
(* Invitations and identity binding: the routes of packages/database       *)
(* services/invitation-routes.ts, acceptInvitationByToken, and             *)
(* DrizzleInvitationRepository, several requests at a time.                *)
(*                                                                         *)
(* A request acts on what it read earlier: an issue on the session it      *)
(* resolved, an acceptance and a save on the invitation row.  Accepting is *)
(* one transaction that claims the row if it is still pending and inserts  *)
(* the membership or client link; save writes the row unconditionally.     *)
(*                                                                         *)
(* A resolution is here one look at the tables (Sessions.ContextsOf; the   *)
(* reads it consists of are interleaved in Sessions).  A user stands for   *)
(* the one verified email the provider vouches for, so an email and its    *)
(* user coincide; an invitation stands for its token.                      *)
(*                                                                         *)
(* What a request did or was refused is written to the audit trail in a    *)
(* transaction of its own, after the fact, and may be lost.  A denial that *)
(* has no organization to be filed under is only logged.                   *)
(***************************************************************************)
EXTENDS Sessions

CONSTANTS
  Invites,     \* bound: the invitations ever issued
  Requests,    \* requests that run at the same time
  Lifetime,    \* time an invitation stays open
  MaxDenials   \* bound: denials on the audit trail

ASSUME InvitationsAssumption == Lifetime \in Nat /\ MaxDenials \in Nat

VARIABLES
  invitations,   \* invitations, by id
  calls,         \* what each request is doing
  audit          \* audit_events of the invitation routes

invitationVars == <<sessionVars, invitations, calls, audit>>

NoInvitation == [status |-> "absent"]

\* What an audit row says: ids only, never the email and never the token.
AuditEvent(action, org, i, u) == [action |-> action, org |-> org, invite |-> i, by |-> u]

\* The stages of a request, each with what it has read.
Call ==
  {Idle} \cup [stage : {"issue"}, org : Orgs, by : Users]
         \cup [stage : {"claim"}, invite : Invites, by : Users]
         \cup [stage : {"save"}, invite : Invites, status : {"revoked", "expired"}]
         \cup [stage : {"emit"}, event : [action : {"issued", "accepted", "denied"}, org : Orgs,
                                         invite : Invites \cup {Nil}, by : Users]]

InvitationsInit ==
  /\ SessionsInit
  /\ \A o \in Orgs : Cardinality({u \in Users : members[o][u] # NoRow}) = 1
  /\ invitations = [i \in Invites |-> NoInvitation]
  /\ calls = [r \in Requests |-> Idle]
  /\ audit = {}

Aside == UNCHANGED <<revocations, sessions, req, signedOut, receipts, deliveries>>

Set(r, call) == calls' = [calls EXCEPT ![r] = call]

\* A resolution on a session issued just now.
Resolved(u) == {ctx \in ContextsOf([user |-> u, issued |-> now]) : ctx # NoSession}

\* The request is left with an audit row to write.
Emitting(action, org, i, u) ==
  [stage |-> "emit", event |-> AuditEvent(action, org, i, u)]

\* A failed write is logged and changes neither the answer nor what was done
\* (Abandon).
Emit(r) ==
  /\ calls[r].stage = "emit"
  /\ calls[r].event.action = "denied" =>
       Cardinality({e \in audit : e.action = "denied"}) < MaxDenials
  /\ audit' = audit \cup {calls[r].event}
  /\ Set(r, Idle)
  /\ Aside /\ UNCHANGED <<users, members, links, invitations, now, changes>>

(***************************************************************************)
(* handleIssueInvitation: resolve, authorize in the session's own          *)
(* organization, validate, then DrizzleInvitationRepository.issue.         *)
(***************************************************************************)
\* A denial is filed under the organization the session is active in.
BeginIssue(r, u) ==
  /\ calls[r] = Idle
  /\ \E ctx \in Resolved(u) :
       /\ ctx.org # Nil
       /\ IF Authorize(ctx, "organization.manage_members", ctx.org, Nil)
          THEN Set(r, [stage |-> "issue", org |-> ctx.org, by |-> u])
          ELSE Set(r, Emitting("denied", ctx.org, Nil, u))
  /\ Aside /\ UNCHANGED <<users, members, links, invitations, now, changes, audit>>

IssuedRow(org, email, role, client) ==
  [status |-> "pending", org |-> org, email |-> email, role |-> role, client |-> client,
   expires |-> now + Lifetime, by |-> Nil]

\* Refused: a client of another organization, and a second pending invitation
\* of an email in the organization (unique index).
Issue(r, i, email, role, client) ==
  /\ calls[r].stage = "issue" /\ invitations[i] = NoInvitation
  /\ MayIssue(role, client)
  /\ client # Nil => ClientOrg[client] = calls[r].org
  /\ \A j \in Invites : ~ /\ invitations[j].status = "pending"
                          /\ invitations[j].org = calls[r].org /\ invitations[j].email = email
  /\ invitations' = [invitations EXCEPT ![i] = IssuedRow(calls[r].org, email, role, client)]
  /\ Set(r, Emitting("issued", calls[r].org, i, calls[r].by))
  /\ Aside /\ UNCHANGED <<users, members, links, now, changes, audit>>

(***************************************************************************)
(* handleAcceptInvitation and acceptInvitationByToken.                     *)
(***************************************************************************)
\* The token finds the row across organizations, on the resolver connection.
TokenResolves(i) == invitations[i] # NoInvitation

\* The wrong person presents the token of an invitation that is still open: an
\* ownership mismatch, filed under the organization of the invitation.
Misdirected(i, u) ==
  /\ invitations[i].email # u
  /\ MayAccept(invitations[i], invitations[i].email, now)

\* The caller has a session; the token finds the row; the kernel's check.
BeginAccept(r, u, i) ==
  /\ calls[r] = Idle /\ Resolved(u) # {} /\ TokenResolves(i)
  /\ \/ /\ MayAccept(invitations[i], u, now)
        /\ Set(r, [stage |-> "claim", invite |-> i, by |-> u])
     \/ /\ Misdirected(i, u)
        /\ Set(r, Emitting("denied", invitations[i].org, i, u))
  /\ Aside /\ UNCHANGED <<users, members, links, invitations, now, changes, audit>>

\* applyAcceptedBinding: what the invitation, not the caller, binds.
BindsClient(inv) == inv.role = "client"

\* A row that would violate the unique indexes: any membership of the user in
\* the organization, left or not, or an active link of client or user.
BindingFree(inv, u) ==
  IF BindsClient(inv) THEN LinkFree(inv.client, u) ELSE members[inv.org][u] = NoRow

InsertBinding(inv, u) ==
  IF BindsClient(inv)
  THEN InsertLink(inv.client, u) /\ UNCHANGED members
  ELSE /\ members' = [members EXCEPT ![inv.org][u] =
                        [role |-> MemberRoleFromRole(inv.role), active |-> TRUE, at |-> now]]
       /\ UNCHANGED links

Accepted(i, u) == invitations' = [invitations EXCEPT ![i].status = "accepted", ![i].by = u]

\* Mutant: the claim does not ask whether the row is still pending.
ClaimAnyway(r) ==
  /\ calls[r].stage = "claim"
  /\ LET i == calls[r].invite
         u == calls[r].by
     IN  IF BindingFree(invitations[i], u)
         THEN /\ Accepted(i, u) /\ InsertBinding(invitations[i], u)
              /\ Set(r, Emitting("accepted", invitations[i].org, i, u))
         ELSE UNCHANGED <<invitations, members, links>> /\ Set(r, Idle)
  /\ Aside /\ UNCHANGED <<users, now, changes, audit>>

\* Mutant: the conflict of the insert is caught inside the transaction.
ClaimCommits(r) ==
  /\ calls[r].stage = "claim"
  /\ LET i == calls[r].invite
         u == calls[r].by
     IN  IF invitations[i].status # "pending"
         THEN UNCHANGED <<invitations, members, links>> /\ Set(r, Idle)
         ELSE /\ Accepted(i, u)
              /\ IF BindingFree(invitations[i], u) THEN InsertBinding(invitations[i], u)
                 ELSE UNCHANGED <<members, links>>
              /\ Set(r, Emitting("accepted", invitations[i].org, i, u))
  /\ Aside /\ UNCHANGED <<users, now, changes, audit>>

\* The claiming transaction: an invitation no longer pending, or a binding
\* that already exists, rolls back and is answered 409.
Claim(r) ==
  /\ calls[r].stage = "claim"
  /\ LET i == calls[r].invite
         u == calls[r].by
     IN  IF invitations[i].status = "pending" /\ BindingFree(invitations[i], u)
         THEN /\ Accepted(i, u) /\ InsertBinding(invitations[i], u)
              /\ Set(r, Emitting("accepted", invitations[i].org, i, u))
         ELSE UNCHANGED <<invitations, members, links>> /\ Set(r, Idle)
  /\ Aside /\ UNCHANGED <<users, now, changes, audit>>

(***************************************************************************)
(* getById, revokeInvitation or expireInvitation, save.                    *)
(***************************************************************************)
Fetch(r, i, status) ==
  /\ calls[r] = Idle /\ invitations[i] # NoInvitation
  /\ CASE status = "revoked" -> MayRevokeInvitation(invitations[i])
       [] status = "expired" -> MayExpireInvitation(invitations[i], now)
  /\ Set(r, [stage |-> "save", invite |-> i, status |-> status])
  /\ Aside /\ UNCHANGED <<users, members, links, invitations, now, changes, audit>>

\* Every column is written as it was read: who accepted is null again.
Save(r) ==
  /\ calls[r].stage = "save"
  /\ invitations' = [invitations EXCEPT ![calls[r].invite].status = calls[r].status,
                                        ![calls[r].invite].by = Nil]
  /\ Set(r, Idle)
  /\ Aside /\ UNCHANGED <<users, members, links, now, changes, audit>>

\* A request dies, an issue is refused for its input, an audit row is lost.
Abandon(r) ==
  /\ calls[r] # Idle /\ Set(r, Idle)
  /\ Aside /\ UNCHANGED <<users, members, links, invitations, now, changes, audit>>

\* What changes beside the invitations.
Meanwhile ==
  /\ \/ Tick
     \/ \E o \in Orgs, u \in Users : Revoke(o, u)
     \/ \E c \in Clients, u \in Users : RevokeLink(c, u)
     \/ \E u \in Users : Disable(u)
  /\ UNCHANGED <<invitations, calls, audit>>

InvitationsNext ==
  \/ \E r \in Requests :
       \/ \E u \in Users : BeginIssue(r, u) \/ (\E i \in Invites : BeginAccept(r, u, i))
       \/ \E i \in Invites, email \in Users, role \in INVITABLE_ROLES, client \in Clients \cup {Nil} :
            Issue(r, i, email, role, client)
       \/ \E i \in Invites, status \in {"revoked", "expired"} : Fetch(r, i, status)
       \/ Claim(r) \/ Save(r) \/ Emit(r) \/ Abandon(r)
  \/ Meanwhile

InvitationsSpec == InvitationsInit /\ [][InvitationsNext]_invitationVars

(***************************************************************************)
(* Properties.                                                             *)
(***************************************************************************)
InvitationsTypeOK ==
  /\ invitations \in [Invites -> {NoInvitation} \cup
       [status : {"pending", "accepted", "revoked", "expired"}, org : Orgs, email : Users,
        role : INVITABLE_ROLES, client : Clients \cup {Nil}, expires : Nat, by : Users \cup {Nil}]]
  /\ calls \in [Requests -> Call]
  /\ audit \subseteq [action : {"issued", "accepted", "denied"}, org : Orgs,
                      invite : Invites \cup {Nil}, by : Users]

\* Invited, a person becomes a member or a client's user only by the step that
\* turns their invitation from pending to accepted, with the organization, role
\* and client it names (links of another origin are those of Sessions): a token is
\* spent once, also by two requests at once and after its link was revoked, and
\* never after the invitation ended (acceptInvitationByToken, "claim FIRST").
NewMember(o, u) == members[o][u] = NoRow /\ members'[o][u] # NoRow
NewLink(c, u) == links'[c][u].made > links[c][u].made

Spends(i, u) ==
  /\ invitations[i].status = "pending" /\ invitations'[i].status = "accepted"
  /\ invitations[i].email = u /\ invitations'[i].by = u

BindingSpendsInvitation ==
  [][/\ \A o \in Orgs, u \in Users : NewMember(o, u) =>
          \E i \in Invites : /\ Spends(i, u) /\ invitations[i].org = o
                             /\ members'[o][u].role = MemberRoleFromRole(invitations[i].role)
     /\ \A c \in Clients, u \in Users : NewLink(c, u) =>
          \E i \in Invites : Spends(i, u) /\ invitations[i].client = c]_invitationVars

\* What an invitation binds its person to is there.
HasBinding(inv, u) ==
  IF BindsClient(inv) THEN links[inv.client][u].made > 0 ELSE members[inv.org][u] # NoRow

\* An accepted invitation has made its binding: a claim whose insert conflicts
\* leaves the invitation pending, to be offered again (AlreadyBoundError).
\* The audit trail says the same, also after save overwrote the status: the
\* person an `accepted` event names has the binding, and an event on an
\* invitation is filed under its organization, as a denial only for somebody
\* else.
AcceptedHasBinding ==
  /\ \A i \in Invites :
       invitations[i].status = "accepted" => HasBinding(invitations[i], invitations[i].by)
  /\ \A e \in audit : e.invite # Nil =>
       LET inv == invitations[e.invite] IN
       /\ e.org = inv.org
       /\ e.action = "accepted" => e.by = inv.email /\ HasBinding(inv, e.by)
       /\ e.action = "denied"   => e.by # inv.email

============================================================================
