------------------------ MODULE MCSnapshotLifecycle ------------------------
(* Instances of SnapshotLifecycle: v2 is a clone of v1 from its snapshot   *)
(* s1, and may hold a copy s3 of it.                                       *)
EXTENDS SnapshotLifecycle, TLC

CONSTANTS v1, v2, s1, s2, s3, c1, c2

ParentOf == (s1 :> v1) @@ (s2 :> v1) @@ (s3 :> v2)
CloneOf == (v1 :> None) @@ (v2 :> s1)
TwinOf == {<<s1, s3>>}
Clients == Permutations({c1, c2})
=============================================================================
