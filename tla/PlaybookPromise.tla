-------------------------- MODULE PlaybookPromise ---------------------------
(***************************************************************************)
(* What the playbook lifecycle promises the staff who follow playbooks: a  *)
(* playbook has at most one version in force, it was approved first, and   *)
(* it stays in force until the very step that puts its successor in force. *)
(***************************************************************************)
CONSTANTS
  Playbooks,
  Labels,     \* version labels
  NoLabel     \* not a label

VARIABLES
  phase,      \* [Playbooks -> [Labels -> Phases]]
  inForce     \* [Playbooks -> Labels \cup {NoLabel}]

Phases == {"none", "open", "approved", "inForce", "retired", "closed"}

Init ==
  /\ phase = [p \in Playbooks |-> [l \in Labels |-> "none"]]
  /\ inForce = [p \in Playbooks |-> NoLabel]

\* A version is begun, approved or closed; nothing else of the playbook moves.
Review(p, l) ==
  /\ \E to \in Phases :
       /\ <<phase[p][l], to>> \in
            {<<"none", "open">>, <<"open", "approved">>, <<"open", "closed">>}
       /\ phase' = [phase EXCEPT ![p][l] = to]
  /\ UNCHANGED inForce

\* A version comes into force and the one in force, if any, retires.
Publish(p, l) ==
  /\ phase[p][l] = "approved"
  /\ phase' = [phase EXCEPT ![p] = [k \in Labels |->
       IF k = l THEN "inForce" ELSE IF k = inForce[p] THEN "retired" ELSE @[k]]]
  /\ inForce' = [inForce EXCEPT ![p] = l]

Next == \E p \in Playbooks, l \in Labels : Review(p, l) \/ Publish(p, l)

Spec == Init /\ [][Next]_<<phase, inForce>>

=============================================================================
