--------------------------- MODULE MCPrivateCalls ---------------------------
(***************************************************************************)
(* Instances of PrivateCalls for TLC.  No symmetry: the run checks liveness.  *)
(***************************************************************************)
EXTENDS PrivateCalls

\* Enough for one call at a time: three credits, or one call of the plan.
OneCall == {[quota |-> 0, grant |-> 3], [quota |-> 1, grant |-> 0]}

=============================================================================
