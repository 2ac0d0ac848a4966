---------------------------- MODULE MCDashboard -----------------------------
(* Instances of Dashboard for TLC.                                         *)
EXTENDS Dashboard, TLC

CONSTANTS i1, s1, s2, text1

Good == [correct |-> TRUE, cause |-> None, notes |-> text1]
Bad == [correct |-> FALSE, cause |-> None, notes |-> None]
TwoPayloads == {Good, Bad}
=============================================================================
