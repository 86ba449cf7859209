--------------------------- MODULE MCCommissions ---------------------------
(***************************************************************************)
(* Instances of Commissions for TLC.                                        *)
(***************************************************************************)
EXTENDS Commissions, TLC

Symmetry == Permutations(Creators) \cup Permutations(Webhooks) \cup Permutations(Ambassadors)

=============================================================================
