-------------------------- MODULE MCApprovalQueue --------------------------
(***************************************************************************)
(* Instances of ApprovalQueue for TLC.                                     *)
(***************************************************************************)
EXTENDS ApprovalQueue, TLC

CONSTANTS r1, r2, r3, k1, k2

\* r1 and r2 are retries of one request, r3 is another one.
TwoKeys == (r1 :> k1) @@ (r2 :> k1) @@ (r3 :> k2)
====
