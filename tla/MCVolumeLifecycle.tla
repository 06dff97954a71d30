------------------------- MODULE MCVolumeLifecycle -------------------------
(* Instances of VolumeLifecycle: two backends, one of them with two pools. *)
EXTENDS VolumeLifecycle, TLC

CONSTANTS b1, b2, p1, p2, p3

HomeOf == (p1 :> b1) @@ (p2 :> b1) @@ (p3 :> b2)
HomeOfTwo == (p1 :> b1) @@ (p2 :> b2)
=============================================================================
