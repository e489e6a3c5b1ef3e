------------------------- MODULE MCRequestPipeline -------------------------
(***************************************************************************)
(* Instances of RequestPipeline for TLC.                                   *)
(***************************************************************************)
EXTENDS RequestPipeline, TLC

CONSTANTS h1, c1, k1, k2

\* The requests need a hold each.
TwoKeys == (h1 :> k1) @@ (c1 :> k2)

\* They can share one.
OneKey == (h1 :> k1) @@ (c1 :> k1)

\* Every request is asked about.
Ask == {[k \in Keys |-> "ask_user"]}

NoLists == [allow |-> {}, deny |-> {}]
BothK1 == [allow |-> {k1}, deny |-> {k1}]

SomeLists == {NoLists, BothK1}

EmptyLists == {NoLists}

\* One verdict of each kind: an operator allows, the advisor denies, a timer fires
\* under either on_timeout.
OneOfEach == {Decision("ask_user_resolved_allow", "approval_queue"),
              Decision("deny", "llm_advisor")} \cup TimeoutVerdicts
====
