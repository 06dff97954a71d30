----------------------------- MODULE StickyLock -----------------------------
(***************************************************************************)
(* What distlock promises: work on a volume is begun by one host at a      *)
(* time, and once begun it is that host's alone until it is completed or   *)
(* an administrator has taken it over.                                     *)
(***************************************************************************)
CONSTANT Host
VARIABLE working       \* the hosts whose work is begun and not completed

Init == working = {}

(* The host begins, or begins again what it has not completed.             *)
Begin(h) == working \subseteq {h} /\ working' = {h}

End(h) == working' = working \ {h}

Next == \E h \in Host : Begin(h) \/ End(h)
Spec == Init /\ [][Next]_working
=============================================================================
