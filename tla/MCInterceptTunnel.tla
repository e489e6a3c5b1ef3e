------------------------- MODULE MCInterceptTunnel -------------------------
(***************************************************************************)
(* Instances of InterceptTunnel for TLC.                                   *)
(***************************************************************************)
EXTENDS InterceptTunnel, TLC

CONSTANTS t1, t2, r1, r2, r3, k1, k2

Get(r) == <<Part(r, "head")>>

Upload(r) == <<Part(r, "head"), Part(r, "sample"), Part(r, "drained")>>

LongUpload(r) == Upload(r) \o <<Part(r, "rest")>>

\* One tunnel with an upload that is longer than what is drained before a hold, or
\* is not, and a request without a body; two tunnels whose requests can share a hold.
Uploads == {t1 :> LongUpload(r1) \o Get(r2) @@ t2 :> <<>>,
            t1 :> <<>> @@ t2 :> Upload(r1) \o Get(r2),
            t1 :> Get(r1) @@ t2 :> Get(r3)}

SharedKey == r1 :> k1 @@ r2 :> k2 @@ r3 :> k1

\* Besides the denial of Shutdown; who allows makes no difference to a tunnel.
AllowOnly == {Decision("ask_user_resolved_allow", "approval_queue")}
====
