---------------------------- MODULE SessionKernel ---------------------------
(***************************************************************************)
(* The pure part of packages/auth/src: roles, the permission matrix, the   *)
(* authorization engine, account and membership transitions, and the       *)
(* session context built from a user's records.                            *)
(*                                                                         *)
(* A kernel function that answers [ok, reason] is here the predicate `ok`. *)
(* Times are integers; a time the program cannot parse fails closed in     *)
(* each place and is not among them.                                       *)
(***************************************************************************)
EXTENDS Integers

ROLES ==
  {"platform_admin", "organization_owner", "organization_admin",
   "staff_advisor", "client", "partner_viewer"}

MEMBER_ROLES == {"organization_owner", "organization_admin", "staff"}

\* roleFromMemberRole.
RoleFromMemberRole ==
  [organization_owner |-> "organization_owner",
   organization_admin |-> "organization_admin",
   staff              |-> "staff_advisor"]

\* memberRoleFromRole, "null" for the roles that are not memberships.
MemberRoleFromRole(role) ==
  IF \E m \in MEMBER_ROLES : RoleFromMemberRole[m] = role
  THEN CHOOSE m \in MEMBER_ROLES : RoleFromMemberRole[m] = role
  ELSE "null"

(***************************************************************************)
(* Permissions.  Those outside CLIENT_SCOPED_PERMISSIONS name no client.   *)
(***************************************************************************)
CLIENT_SCOPED_PERMISSIONS ==
  {"client.read", "client.update", "client.assign", "intake.read", "intake.review",
   "intake.approve", "roadmap.create", "roadmap.review", "roadmap.approve",
   "roadmap.publish", "task.assign", "task.verify", "document.request", "document.read",
   "document.review", "document.download", "appointment.manage", "appointment.book",
   "message.send", "message.read", "message.assign", "message.close",
   "report.generate", "report.review", "report.publish"}

PERMISSIONS ==
  CLIENT_SCOPED_PERMISSIONS \cup
    {"lead.read", "lead.create", "lead.update", "lead.convert", "billing.read",
     "billing.manage", "organization.manage_members", "organization.manage_settings",
     "audit.read"}

\* The matrix: what a role can ever hold, before the contextual gates.
ROLE_PERMISSIONS ==
  [platform_admin     |-> {"lead.read", "client.read", "intake.read", "document.read",
                           "document.download", "message.read", "billing.read", "audit.read"},
   organization_owner |-> PERMISSIONS,
   organization_admin |-> PERMISSIONS \ {"organization.manage_members"},
   staff_advisor      |-> PERMISSIONS \ {"client.assign", "billing.read", "billing.manage",
                           "organization.manage_members", "organization.manage_settings",
                           "audit.read"},
   client             |-> {"client.read", "intake.read", "document.read", "document.download",
                           "appointment.book", "message.send", "message.read"},
   partner_viewer     |-> {}]

(***************************************************************************)
(* The session context of a user, and what it may do.                      *)
(***************************************************************************)
Nil == "null"

NoSession == [role |-> "none"]

\* isSessionRevoked: issued strictly before the cutoff (-1: no cutoff).
IsSessionRevoked(issued, cutoff) == issued < cutoff

\* buildSessionContext: platform flag, then membership row, then client link.
\* `membership` and `link` are records or NoRow, `user` the users row.
NoRow == [status |-> "none"]

BuildSessionContext(u, user, membership, link, issued) ==
  IF ~user.active \/ IsSessionRevoked(issued, user.cutoff) THEN NoSession
  ELSE IF user.admin
  THEN [role |-> "platform_admin", user |-> u, org |-> Nil, status |-> "none", client |-> Nil]
  ELSE IF membership # NoRow
  THEN [role |-> RoleFromMemberRole[membership.role], user |-> u, org |-> membership.org,
        status |-> membership.status, client |-> Nil]
  ELSE IF link # NoRow
  THEN [role |-> "client", user |-> u, org |-> link.org, status |-> "active",
        client |-> link.client]
  ELSE NoSession

\* Mutant: ownership is checked only when the resource names a client.
AuthorizeOpen(ctx, permission, org, client) ==
  /\ ctx # NoSession
  /\ ctx.role # "platform_admin" => ctx.status = "active" /\ ctx.org = org
  /\ permission \in ROLE_PERMISSIONS[ctx.role]

\* authorize, on a resource of an organization and, for a client-scoped
\* permission, of a client.  Assignment scoping is off, as the principal
\* directory leaves it; no caller asks for the consent and record-state gates.
Authorize(ctx, permission, org, client) ==
  /\ ctx # NoSession
  /\ ctx.role # "platform_admin" => ctx.status = "active" /\ ctx.org = org
  /\ permission \in ROLE_PERMISSIONS[ctx.role]
  /\ ctx.role = "client" =>
       /\ ctx.client # Nil
       /\ permission \in CLIENT_SCOPED_PERMISSIONS => client = ctx.client

(***************************************************************************)
(* Account transitions, each the account it returns.                       *)
(***************************************************************************)
MayDisable(user) == user.active

DisableAccount(user, now) == [user EXCEPT !.active = FALSE, !.cutoff = now]

MayReactivate(user) == ~user.active

\* Mutant: a reactivated account starts with a clean slate.
ReactivateAndForget(user) == [user EXCEPT !.active = TRUE, !.cutoff = -1]

\* The cutoff stays: the sessions that existed before stay revoked.
ReactivateAccount(user) == [user EXCEPT !.active = TRUE]

RevokeAllSessions(user, now) == [user EXCEPT !.cutoff = now]

(***************************************************************************)
(* Membership transitions on one row [role, active].                       *)
(***************************************************************************)
MayChangeRole(row, role) == row.active /\ row.role # role

ChangeMemberRole(row, role) == [row EXCEPT !.role = role]

MayRevoke(row) == row.active

RevokeMembership(row) == [row EXCEPT !.active = FALSE]

MayReinstate(row) == ~row.active

ReinstateMembership(row) == [row EXCEPT !.active = TRUE]

(***************************************************************************)
(* Invitation transitions: pending is the only state that moves.           *)
(***************************************************************************)
INVITABLE_ROLES == {"organization_owner", "organization_admin", "staff_advisor", "client"}

\* issueInvitation: a client invitation reserves a client, no other does.
MayIssue(role, client) == role \in INVITABLE_ROLES /\ (role = "client" <=> client # Nil)

IsPastExpiry(now, expires) == now > expires

\* acceptInvitation, by the user whose verified email is `email`.
MayAccept(inv, email, now) ==
  inv.status = "pending" /\ ~IsPastExpiry(now, inv.expires) /\ inv.email = email

\* revokeInvitation, expireInvitation.
MayRevokeInvitation(inv) == inv.status = "pending"

MayExpireInvitation(inv, now) == inv.status = "pending" /\ IsPastExpiry(now, inv.expires)

=============================================================================
