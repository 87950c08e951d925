------------------------------ MODULE MCOutbox ------------------------------
(***************************************************************************)
(* Two workers draining two events.                                        *)
(***************************************************************************)
EXTENDS Outbox

CONSTANTS e1, e2, w1, w2

=============================================================================
