--------------------------- MODULE MCGCNamedMutex ---------------------------
(* Instances of GCNamedMutex for TLC.                                      *)
EXTENDS GCNamedMutex, TLC
=============================================================================
