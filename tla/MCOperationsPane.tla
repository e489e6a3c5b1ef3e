------------------------- MODULE MCOperationsPane -------------------------
(***************************************************************************)
(* Instances of OperationsPane for TLC.                                    *)
(***************************************************************************)
EXTENDS OperationsPane, TLC

CONSTANTS h1

\* 1 and 2 are retries of one URL; 3 is decided without a hold.
Retries == (1 :> h1) @@ (2 :> h1) @@ (3 :> None)

\* 2 and 3 fold when they are resolved.
Groups == (1 :> "a") @@ (2 :> "b") @@ (3 :> "b")
====
