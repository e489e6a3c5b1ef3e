--------------------------- MODULE MCControlPlane ---------------------------
(***************************************************************************)
(* Instances of ControlPlane for TLC.                                      *)
(***************************************************************************)
EXTENDS ControlPlane, TLC

CONSTANTS t1, p, wide, bad, h1

Empty == [content |-> [l \in {"allow", "deny", "declined"} |-> {}], form |-> "good"]

OnLists(allow, deny) ==
    [Empty EXCEPT !.content["allow"] = allow, !.content["deny"] = deny]

\* Somebody put p on both lists.
SomeFiles == {OnLists({p}, {p})}

TheLine == h1 :> p

\* Two offers of the same sources.
TheGist == [o \in 1..2 |->
               [list |-> "allow", pattern |-> wide, sources |-> {p}, row |-> wide]]

\* Operators far away and at the console: the same hold, the same offer (a scan, or the
\* next tick, puts another in its place), the same pattern, and one that does not compile.
SomeRequests ==
    {Asks("attach", "approve", h1), Asks("attach", "add", Line("deny", bad)),
     Asks("local", "move", Line("deny", p)),
     Asks("local", "add", Line("allow", bad)),
     Asks("attach", "accept", 1), Asks("local", "decline", 1), Asks("local", "skip", 1),
     Asks("attach", "scan", None), Asks("local", "open", None)}
====
