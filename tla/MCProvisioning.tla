--------------------------- MODULE MCProvisioning ---------------------------
(***************************************************************************)
(* Instances of Provisioning for TLC.                                       *)
(***************************************************************************)
EXTENDS Provisioning

\* The verification and the job share the setup's lock and nothing else: a behaviour has codes, or
\* a job for a number that an operator has verified.
OneStory == job = NoJob \/ (codes = 0 /\ setup.number \in Owned)

=============================================================================
