----------------------------- MODULE MCLeaseLock -----------------------------
(* Instances of LeaseLock.                                                 *)
EXTENDS LeaseLock

CONSTANTS h1, h2, u1, u2, u3
=============================================================================
