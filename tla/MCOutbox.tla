------------------------------ MODULE MCOutbox ------------------------------
(***************************************************************************)
(* Instances of Outbox for TLC.  Workers, commands and events are model      *)
(* values; no symmetry, since the main run checks liveness.                  *)
(***************************************************************************)
EXTENDS Outbox

=============================================================================
