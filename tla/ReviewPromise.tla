---------------------------- MODULE ReviewPromise ----------------------------
(***************************************************************************)
(* What the Review Center promises the rest of the program, whichever      *)
(* operation or bridge moves a review: nothing is published before a human *)
(* approved it, who approved it is settled once and for all, and a closed  *)
(* review never reopens (the header of packages/rules/src/review-center.ts *)
(* states these as structural guarantees).                                 *)
(*                                                                         *)
(* Several reviews may move in one step: a supersession closes one and     *)
(* opens another, and a bridge carries a shadow over several edges at once.*)
(***************************************************************************)
CONSTANTS
  Reviews,  \* review ids
  Humans,   \* who may approve
  Nobody    \* not in Humans

VARIABLES
  phase,    \* [Reviews -> Phases]
  approver  \* [Reviews -> Humans \cup {Nobody}]

Phases == {"none", "open", "approved", "published", "closed"}

Init ==
  /\ phase = [r \in Reviews |-> "none"]
  /\ approver = [r \in Reviews |-> Nobody]

\* A review enters approved, or goes past it, with the name of a human.
Approval(r) ==
  /\ phase[r] \in {"none", "open"}
  /\ phase'[r] \in {"approved", "published"}
  /\ approver'[r] \in Humans

Opening(r) ==
  /\ phase[r] = "none"
  /\ phase'[r] = "open"
  /\ approver'[r] = Nobody

Publication(r) ==
  /\ phase[r] = "approved"
  /\ phase'[r] = "published"
  /\ approver'[r] = approver[r]

\* Rejecting or deferring a review names the human who did it.
Closing(r) ==
  /\ phase[r] \in {"open", "approved", "published"}
  /\ phase'[r] = "closed"
  /\ approver'[r] = approver[r] \/ (phase[r] = "open" /\ approver'[r] \in Humans)

Rest(r) ==
  /\ phase'[r] = phase[r]
  /\ approver'[r] = approver[r]

Next ==
  /\ phase' \in [Reviews -> Phases]
  /\ approver' \in [Reviews -> Humans \cup {Nobody}]
  /\ \A r \in Reviews :
       Approval(r) \/ Opening(r) \/ Publication(r) \/ Closing(r) \/ Rest(r)

Spec == Init /\ [][Next]_<<phase, approver>>

=============================================================================
