--------------------------- MODULE MCConfigStore ---------------------------
(***************************************************************************)
(* Instances of ConfigStore for TLC.                                       *)
(***************************************************************************)
EXTENDS ConfigStore, TLC

CONSTANTS w1, w2, t1, p, q, bad

Content(allow, deny, declined) ==
    [l \in Lists |-> CASE l = "allow" -> allow
                       [] l = "deny" -> deny
                       [] l = "declined" -> declined]

Good(allow, deny) == [content |-> Content(allow, deny, {}), form |-> "good"]

\* An editor leaves p denied, or q allowed and a broken file, or a line that does not compile.
SomeEdits == {Good({}, {p}),
              [content |-> Content({q}, {}, {}), form |-> "unparsable"],
              Good({q, bad}, {})}

\* The console worker and the daemon's other goroutines: each kind of edit, each
\* rule for reloading, a generalization to a pattern that is denied, a line that
\* does not compile.
ConsoleAndDaemon ==
    w1 :> ConsoleMove(p) \cup {ConsoleRemove(p)} @@
    w2 :> Persist(p) \cup {RemoveFrom("deny", p), Generalize("allow", p, {q}),
                           AddDeclinedSuggestion(q), RemoveFrom("allow", bad),
                           Op(OperatorDeny(bad), "last changed", FALSE)}
====
