-------------------------- MODULE MCSubscriptions --------------------------
(***************************************************************************)
(* Instances of Subscriptions for TLC.                                      *)
(***************************************************************************)
EXTENDS Subscriptions, TLC

\* The packs and the subscriptions share no table: a behaviour has one or the other, the packs
\* with the free row.
OneShop ==
    \/ \A p \in Packs : pack[p] = "none"
    \/ row.status = "none" /\ \A s \in Subs : session[s].status = "none"

Symmetry == Permutations(Handlers) \cup Permutations(Packs) \cup Permutations(Subs)

=============================================================================
