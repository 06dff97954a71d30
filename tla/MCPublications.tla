--------------------------- MODULE MCPublications ---------------------------
(* Instances of Publications.                                              *)
EXTENDS Publications, TLC

CONSTANTS v1, v2, n1, c1, c2

TwoVolumes == {<<v1, n1>>, <<v2, n1>>}
OneVolume == {<<v1, n1>>}
Alike == Permutations({v1, v2}) \cup Permutations({c1, c2})
=============================================================================
