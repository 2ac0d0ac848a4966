--------------------------- MODULE MCInvestigator ---------------------------
(* Instances of Investigator for TLC.                                      *)
EXTENDS Investigator

CONSTANTS i1, i2, a1

TwoInvestigators == {i1, i2}
OneInvestigator == {i1}
=============================================================================
