----------------------------- MODULE MCCampaigns -----------------------------
(***************************************************************************)
(* Instances of Campaigns and SalesCampaigns for TLC.                        *)
(***************************************************************************)
EXTENDS SalesCampaigns, TLC

CONSTANTS c1, c2, p1, p2

TwoContacts == {<<c1, p1>>, <<c1, p2>>}
OneEach == {<<c1, p1>>, <<c2, p2>>}

EitherKind == {{}, {c1}}
SecondInternal == {{c2}}

\* A behaviour has one fault or one request, or both where the request withdraws a basis.
Few == faults + requests <= 1 \/ basis # SalesPhones

Symmetry == Permutations({p1, p2}) \cup Permutations(Dispatchers)

=============================================================================
