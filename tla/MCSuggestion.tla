---------------------------- MODULE MCSuggestion ----------------------------
(***************************************************************************)
(* Instances of Suggestion for TLC.                                        *)
(***************************************************************************)
EXTENDS Suggestion

CONSTANTS c1, c2

Arm == <<"management", "azure", "com">>

Https(method, host, path) == MakeLine(method, "https", host, AnyPort, path)

\* Two virtual machines of one subscription (a url_segment and a pattern candidate
\* of the same sources), and another path of the host (a host-wide candidate).
Vm(n) == Https("GET", Arm, <<"subscriptions", "s", "providers", "compute", "vm", n>>)

Tenant == Https("GET", Arm, <<"tenants", "t">>)

StartWith(allow, deny, rules) ==
    [lists |-> [allow |-> allow, deny |-> deny, declined |-> {}, enabled |-> TRUE], rules |-> rules]

Machines == {StartWith({Vm("1"), Vm("2"), Tenant}, {}, <<>>)}

\* A key of each of three vaults denied (a pattern candidate only); the first is on the
\* allow list too, and a rule of the operator allows the second vault.
Key(n) == Https("GET", <<n, "vault", "azure", "net">>, <<"keys", n>>)

OwnRule ==
    [id |-> <<"own", {}>>,
     rule |-> [pattern |-> "azure_keyvault", components |-> [vault |-> "2"],
               method |-> "GET", effect |-> "allow"]]

Vaults == {StartWith({Key("1")}, {Key("1"), Key("2"), Key("3")}, <<OwnRule>>)}

\* Two keys were allowed once, and became a rule; now they are denied.
OldRule ==
    [id |-> <<"azure_keyvault", {Key("1"), Key("2")}>>,
     rule |-> [pattern |-> "azure_keyvault", components |-> <<>>, method |-> "GET", effect |-> "allow"]]

Reversed == {StartWith({}, {Key("1"), Key("2")}, <<OldRule>>)}

\* An editor takes the first of them out, and puts it back.
OneMachine == {l \in {Vm("1"), Vm("2")} : l = Vm("1")}

\* A path, pages below it and another path: under the default threshold the prefix
\* is synthesized, and offered.
Page(path) == Https("GET", <<"x", "com">>, path)

Pages == {Page(<<"a">>), Page(<<"a", "1">>), Page(<<"a", "2", "i">>), Page(<<"a", "3", "i">>), Page(<<"b">>)}

PageLists == {StartWith(Pages, {}, <<>>)}

AllStarts == Machines \cup Vaults \cup Reversed \cup PageLists

\* The requests that the lines were written for, and another.
SomeRequests == {Vm("1"), Vm("2"), Vm("3"), Tenant} \cup {Key(n) : n \in {"1", "2", "3"}} \cup Pages
=============================================================================
