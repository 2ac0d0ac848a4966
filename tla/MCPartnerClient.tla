-------------------------- MODULE MCPartnerClient --------------------------
(* Instances of PartnerClient for TLC: the code's limits, two partners.    *)
EXTENDS PartnerClient, TLC
CONSTANTS slack, pagerduty
MCPartners == {slack, pagerduty}
Symmetry == Permutations(MCPartners)
=============================================================================
