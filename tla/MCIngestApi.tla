---------------------------- MODULE MCIngestApi -----------------------------
(* Instances of IngestApi for TLC.                                         *)
EXTENDS IngestApi, TLC

CONSTANTS api1, api2, plain, keyed, bad, large, k1, b1, b2, d1, d2, e1, e2, e3

TwoApis == {api1, api2}
FourRequests == {plain, keyed, bad, large}

(* One request with a header, one whose key is derived, and two refused.   *)
MCHeader == [r \in Requests |-> IF r = keyed THEN k1 ELSE NoHeader]
MCBasis == [r \in Requests |-> IF r = keyed THEN b2 ELSE b1]
MCDigest == [t \in Texts |-> IF t = b1 THEN d1 ELSE d2]

ThreeEvents == {e1, e2, e3}

Symmetry == Permutations(TwoApis) \cup Permutations(ThreeEvents)
=============================================================================
