----------------------------- MODULE MCDecision -----------------------------
(***************************************************************************)
(* Instances of Decision for TLC.                                          *)
(***************************************************************************)
EXTENDS Decision

CONSTANTS h1, h2

Api == <<"api", "x", "com">>
Vault == <<"v", "vault", "azure", "net">>

Request(method, scheme, host, path, body) ==
    [method |-> method, scheme |-> scheme, host |-> host, port |-> 443, path |-> path,
     identity |-> "i", headers |-> "plain", body |-> body]

Upload == Request("POST", "http", Api, <<"up">>, "secret")
Tunnel == Request("CONNECT", "https-tunneled", Vault, NoPath, NoBody)

TwoRequests == {Upload, Tunnel}

ApiLine == MakeLine(Star, AnyScheme, <<Star, "x", "com">>, AnyPort, NoPath)
VaultLine == MakeLine("CONNECT", AnyScheme, Vault, AnyPort, <<"">>)

Opening == [allow |-> {ApiLine}, deny |-> {}, mode |-> "default-ask"]
Closing == [allow |-> {ApiLine}, deny |-> {MakeLine("POST", "http", Api, 443, <<"up">>)}, mode |-> "default-deny"]

TwoFiles == {Opening, Closing}
OneLine == {l \in {ApiLine, VaultLine} : l = VaultLine}

Rule == [priority |-> 0, host |-> {}, port |-> {}, method |-> {}, paths |-> {},
         identity |-> "", headers |-> {}, bodies |-> {}, window |-> NoClause, prior |-> NoClause,
         pattern |-> "", components |-> <<>>, effect |-> "allow"]

\* No secrets are sent; the vault is asked about at night, and what the operator has
\* denied stays denied for two minutes.
Careful == [ok |-> TRUE, rules |-> <<
    [Rule EXCEPT !.method = {"POST"}, !.bodies = {"secret"}, !.effect = "deny"],
    [Rule EXCEPT !.pattern = "azure_keyvault", !.components = [vault |-> "v"], !.effect = "ask_llm",
                 !.window = [weekdays |-> {0}, from |-> 1320, to |-> 240]],
    [Rule EXCEPT !.priority = 200, !.effect = "deny",
                 !.prior = [effect |-> "ask_user_resolved_deny", sameHost |-> TRUE, sameIdentity |-> TRUE,
                            within |-> 2]]>>]

Lax == [ok |-> TRUE, rules |-> <<[Rule EXCEPT !.host = {<<Star, "x", "com">>}, !.effect = "ask_user"]>>]
Broken == [ok |-> FALSE, rules |-> <<>>]

ThreeRuleFiles == {Careful, Lax, Broken}

Verdict(effect, confidence) == [effect |-> effect, confidence |-> confidence]

Verdicts == {Verdict("allow", "high"), Verdict("deny", "low"), Verdict("grant", "high")}

FewTicks == {2}

Workers == Permutations(Handlers)

-----------------------------------------------------------------------------
(***************************************************************************)
(* Lines of every form, and requests around them.                          *)
(***************************************************************************)
Hosts == {<<Star>>, <<Star, "x", "com">>, <<Star, "api", "x", "com">>, <<"x", "com">>, Api, <<"a", "api", "x", "com">>}

Paths == {NoPath, <<Star>>, <<"">>, <<"a">>, <<"a", "">>, <<"a", "b">>, <<"a", Star>>, <<"a", "b", Star>>, <<"b", Star>>}

Forms == {MakeLine(m, s, h, p, path) : m \in {Star, "GET"}, s \in {AnyScheme, "http"},
                                      h \in Hosts, p \in {AnyPort, 443}, path \in Paths}

Probes == {MakeLine(m, s, h, p, path) : m \in {"GET", "PUT"}, s \in {"http", "https"},
                                       h \in {host \in Hosts : Head(host) # Star}, p \in {80, 443},
                                       path \in {path \in Paths : path # NoPath /\ Last(path) # Star}}

\* A form that some form subsumes and does not cover.
Unsound == {e \in Forms : LET covered == {r \in Probes : Matches(e, r)}
                          IN  \E p \in Forms : subsumes(p, e) /\ \E r \in covered : ~Matches(p, r)}

\* No line that a list has or may get loses a request when it is pruned for another
\* one that subsumes it (hostlist: subsumes against Match).
SubsumptionIsSound ==
    \A e \in Unsound : e \notin lists.allow \cup lists.deny \cup Forms
=============================================================================
