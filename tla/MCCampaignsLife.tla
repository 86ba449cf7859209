--------------------------- MODULE MCCampaignsLife ---------------------------
(***************************************************************************)
(* An instance of Campaigns for TLC: one contact.                            *)
(***************************************************************************)
EXTENDS Campaigns

CONSTANTS c1, p1

OneContact == {<<c1, p1>>}

=============================================================================
