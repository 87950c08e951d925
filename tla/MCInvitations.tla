--------------------------- MODULE MCInvitations ---------------------------
(***************************************************************************)
(* The instance of Invitations: two requests, two people, two              *)
(* organizations.  Two corners are explored, chosen at the start: the      *)
(* races, two invitations, without denials and with every audit row lost,  *)
(* and the trail, one invitation and its audit rows.                       *)
(***************************************************************************)
EXTENDS Invitations, TLC

CONSTANTS ann, bo, north, south, kid, i1, i2, r1, r2

MCClientOrg == [c \in Clients |-> north]

VARIABLE corner

InCorner ==
  IF corner = "races"
  THEN audit = {} /\ \A r \in Requests : calls[r].stage = "emit" => calls[r].event.action # "denied"
  ELSE Cardinality({i \in Invites : invitations[i] # NoInvitation}) <= 1

CornerInit == corner \in {"races", "trail"} /\ InvitationsInit

CornerNext == UNCHANGED corner /\ InvitationsNext /\ InCorner'

CornerSpec == CornerInit /\ [][CornerNext]_<<invitationVars, corner>>

Symmetry == Permutations(Requests) \cup Permutations(Invites) \cup Permutations(Users)

=============================================================================
