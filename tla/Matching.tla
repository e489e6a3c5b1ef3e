------------------------------ MODULE Matching ------------------------------
(***************************************************************************)
(* What a request is matched against: the lines of the allow and deny      *)
(* lists (internal/hostlist/hostlist.go), the built-in URL patterns        *)
(* (internal/pattern) and the pattern clause of a rule                     *)
(* (internal/policy/rule.go).  Operators only.                             *)
(*                                                                         *)
(* A line  [METHOD ][scheme://]host[:port][/path]  is the record of its    *)
(* parts after parsePattern.  A host is the sequence of its labels, a path *)
(* the sequence of its segments ("/" is <<"">>, "/a/" is <<"a", "">>):     *)
(* the prefixes and suffixes that the code compares begin at a dot or a    *)
(* slash.                                                                  *)
(***************************************************************************)
EXTENDS Integers, Sequences, SequencesExt, FiniteSets

Star == "*"        \* any method; any host label sequence; any further path
AnyScheme == ""    \* no scheme in the line; a CONNECT has none either
AnyPort == 0
NoPath == <<>>     \* no path in the line
Empty == ""        \* what is between two slashes, or after the last one

MakeLine(method, scheme, host, port, path) ==
    [method |-> method, scheme |-> scheme, host |-> host, port |-> port, path |-> path]

-----------------------------------------------------------------------------
(***************************************************************************)
(* Does a line fire on a request?                                          *)
(***************************************************************************)
anyPath(p) == p \in {NoPath, <<Star>>}

matchPrefix(p) == ~anyPath(p) /\ Last(p) = Star

wildcardPrefix(h) == Len(h) > 1 /\ Head(h) = Star

matchHostPattern(h, host) ==
    \/ h = <<Star>>
    \/ wildcardPrefix(h) /\ IsStrictSuffix(Tail(h), host)
    \/ h = host

matchPathPattern(p, path) ==
    \/ anyPath(p)
    \/ matchPrefix(p) /\ IsStrictPrefix(Front(p), path)
    \/ p = path

Matches(line, r) ==
    /\ line.method \in {Star, r.method}
    /\ line.scheme \in {AnyScheme, r.scheme}
    /\ matchHostPattern(line.host, r.host)
    /\ line.port \in {AnyPort, r.port}
    /\ matchPathPattern(line.path, r.path)

\* HostList.Match, but for the line that is reported.
Match(list, r) == \E line \in list : Matches(line, r)

(***************************************************************************)
(* Does a line make another one redundant?                                 *)
(***************************************************************************)
\* Mutant: the suffix is compared without its leading dot.
hostSubsumesByLabel(p, e) ==
    \/ p = <<Star>>
    \/ wildcardPrefix(p) /\ IsSuffix(Tail(p), e)
    \/ p = e

\* Tail(p) is the suffix without its leading dot: of an exact host something must
\* precede it, of a wildcard host at least the "*" does.
hostSubsumes(p, e) ==
    \/ p = <<Star>>
    \/ wildcardPrefix(p) /\ IsStrictSuffix(Tail(p), e)
    \/ p = e

pathSubsumes(p, e) ==
    \/ anyPath(p)
    \/ matchPrefix(p) /\ ~anyPath(e) /\ IsPrefix(Front(p), Front(e))
    \/ p = e

subsumes(p, e) ==
    /\ p.method \in {Star, e.method}
    /\ p.scheme \in {AnyScheme, e.scheme}
    /\ hostSubsumes(p.host, e.host)
    /\ p.port \in {AnyPort, e.port}
    /\ pathSubsumes(p.path, e.path)

-----------------------------------------------------------------------------
(***************************************************************************)
(* Built-in URL patterns: the name of the first one that recognizes a URL, *)
(* with the value of each component it declares ("" where the URL has      *)
(* none).                                                                  *)
(***************************************************************************)
NotRecognized == [name |-> "", components |-> <<>>]

segment(s, i) == IF i <= Len(s) THEN s[i] ELSE Empty

armComponents(sub, rg, s) ==
    [subscription |-> sub, resource_group |-> rg, provider |-> segment(s, 1),
     resource_type |-> segment(s, 2), resource_name |-> segment(s, 3)]

splitPath(path) == IF path # <<>> /\ Last(path) = Empty THEN Front(path) ELSE path

\* The "resourceGroups" keywords that the walk passes, each with its name.
passed(s) ==
    CHOOSE n \in 0..(Len(s) \div 2) :
        /\ \A i \in 1..n : s[2*i - 1] = "resourceGroups"
        /\ \/ 2*n + 2 > Len(s)
           \/ s[2*n + 1] # "resourceGroups"

azureARM(host, path) ==
    LET segs == splitPath(path)
        walk == SubSeq(segs, 3, Len(segs))
        rg == segment(walk, 2 * passed(walk))
        rest == SubSeq(walk, 2 * passed(walk) + 1, Len(walk))
    IN  IF host # <<"management", "azure", "com">> THEN NotRecognized
        ELSE CASE Len(segs) >= 2 /\ segs[1] = "subscriptions" ->
                    [name |-> "azure_arm",
                     components |-> armComponents(segs[2], IF passed(walk) = 0 THEN Empty ELSE rg,
                         IF segment(rest, 1) = "providers" THEN Tail(rest) ELSE <<>>)]
               [] Len(segs) >= 1 /\ segs[1] = "providers" ->
                    [name |-> "azure_arm", components |-> armComponents(Empty, Empty, Tail(segs))]
               [] OTHER -> NotRecognized

azureKeyVault(host) ==
    IF Len(host) = 4 /\ Tail(host) = <<"vault", "azure", "net">>
    THEN [name |-> "azure_keyvault", components |-> [vault |-> host[1]]]
    ELSE NotRecognized

Recognize(host, path) ==
    IF azureARM(host, path) # NotRecognized
    THEN azureARM(host, path)
    ELSE azureKeyVault(host)

(***************************************************************************)
(* The pattern clause of a rule: the constant components of the rule must  *)
(* be the request's.                                                       *)
(***************************************************************************)
patternClause(rule, r) ==
    LET mp == Recognize(r.host, r.path)
    IN  /\ mp.name = rule.pattern
        /\ \A k \in DOMAIN rule.components :
               \/ rule.components[k] \in {Empty, Star}
               \/ k \in DOMAIN mp.components /\ mp.components[k] = rule.components[k]
=============================================================================
