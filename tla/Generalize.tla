----------------------------- MODULE Generalize -----------------------------
(***************************************************************************)
(* The detectors of internal/generalize: sets of lines of one list that    *)
(* one broader line, or one pattern rule, could replace.  Operators only,  *)
(* over sets of lines; a candidate's list of sources is the set of them.   *)
(***************************************************************************)
EXTENDS Matching

\* Labels of a registrable domain (golang.org/x/net/publicsuffix: the hosts of an
\* instance are all under one public suffix of a single label).
RegistrableLabels == 2

NoRule == [pattern |-> "", components |-> <<>>, method |-> "", effect |-> ""]

Candidate(axis, list, sources, line, rule) ==
    [axis |-> axis, list |-> list, sources |-> sources, line |-> line, rule |-> rule]

\* Candidate.CanonicalKey.
CanonicalKey(c) == c.sources

PatternShaped(c) == c.rule # NoRule

-----------------------------------------------------------------------------
(***************************************************************************)
(* Parsing.                                                                *)
(***************************************************************************)
\* parseEntry: a line with a wildcard in its URL is not generalized.
concrete(line) == Star \notin ToSet(line.host) \cup ToSet(line.path)

\* The port of a scheme is no port.
port(line) ==
    IF <<line.scheme, line.port>> \in {<<"https", 443>>, <<"http", 80>>}
    THEN AnyPort ELSE line.port

\* strings.TrimRight(path, "/").
trimmed(path) ==
    SubSeq(path, 1, CHOOSE n \in 0..Len(path) :
        /\ n > 0 => path[n] # Empty
        /\ \A i \in (n + 1)..Len(path) : path[i] = Empty)

\* The path up to its last "/", and what follows.
prefix(path) == IF trimmed(path) = <<>> THEN <<>> ELSE Front(trimmed(path))

trailing(path) == Last(trimmed(path))

\* The host without its first label, <<>> where a wildcard would cross into the
\* public suffix.
parentBelowPublicSuffix(host) ==
    IF Len(host) <= RegistrableLabels THEN <<>> ELSE Tail(host)

\* The classes of S under a key.
GroupsBy(S, key(_)) == {{f \in S : key(f) = key(e)} : e \in S}

Some(S) == CHOOSE e \in S : TRUE

-----------------------------------------------------------------------------
(***************************************************************************)
(* One detector for each axis.                                             *)
(***************************************************************************)
methodKey(e) == <<e.scheme, e.host, port(e), e.path>>

DetectMethod(entries, list) ==
    {Candidate("method", list, g,
         MakeLine(Star, Some(g).scheme, Some(g).host, port(Some(g)), Some(g).path), NoRule) :
        g \in {g \in GroupsBy({e \in entries : concrete(e)}, methodKey) :
                  Cardinality({e.method : e \in g}) >= 2}}

segmentKey(e) == <<e.method, e.scheme, e.host, port(e), prefix(e.path)>>

DetectURLSegment(entries, list) ==
    {Candidate("url_segment", list, g,
         MakeLine(Some(g).method, Some(g).scheme, Some(g).host, port(Some(g)),
                  Append(prefix(Some(g).path), Star)), NoRule) :
        g \in {g \in GroupsBy({e \in entries : concrete(e) /\ trimmed(e.path) # <<>>}, segmentKey) :
                  Cardinality({trailing(e.path) : e \in g}) >= 2}}

hostKey(e) == <<e.method, e.scheme, e.host, port(e)>>

DetectHostPath(entries, list) ==
    {Candidate("url_segment", list, g,
         MakeLine(Some(g).method, Some(g).scheme, Some(g).host, port(Some(g)), <<Star>>), NoRule) :
        g \in {g \in GroupsBy({e \in entries : concrete(e) /\ e.path # NoPath}, hostKey) :
                  /\ Cardinality({prefix(e.path) : e \in g}) >= 2
                  /\ Cardinality({trimmed(e.path) : e \in g}) >= 2}}

parentKey(e) == <<e.method, e.scheme, port(e), e.path, parentBelowPublicSuffix(e.host)>>

DetectHostnameBelowTLD(entries, list) ==
    {Candidate("hostname_below_tld", list, g,
         MakeLine(Some(g).method, Some(g).scheme, <<Star>> \o parentBelowPublicSuffix(Some(g).host),
                  port(Some(g)), Some(g).path), NoRule) :
        g \in {g \in GroupsBy({e \in entries :
                      concrete(e) /\ parentBelowPublicSuffix(e.host) # <<>>}, parentKey) :
                  Cardinality({e.host : e \in g}) >= 2}}

recognized(e) == Recognize(e.host, e.path)

patternKey(e) == <<recognized(e).name, e.method>>

\* Mutant: the components of one member are taken for constant.
componentsOfOne(g) == recognized(Some(g)).components

\* The components that all members share.
intersectComponents(g) ==
    LET all == recognized(Some(g)).components
        same == {k \in DOMAIN all : \A e \in g : recognized(e).components[k] = all[k]}
    IN  [k \in same |-> all[k]]

\* detectPatternForList.  The summary that the card shows is left out.
DetectPattern(entries, list) ==
    {Candidate("pattern:" \o recognized(Some(g)).name, list, g, MakeLine(Star, "", <<>>, 0, <<>>),
         [pattern |-> recognized(Some(g)).name, components |-> intersectComponents(g),
          method |-> Some(g).method, effect |-> list]) :
        g \in {g \in GroupsBy({e \in entries : concrete(e) /\ recognized(e) # NotRecognized},
                              patternKey) :
                  Cardinality(g) >= 2}}

DetectList(entries, list) ==
    UNION {DetectMethod(entries, list), DetectURLSegment(entries, list),
           DetectHostPath(entries, list), DetectHostnameBelowTLD(entries, list),
           DetectPattern(entries, list)}

\* The two lists are never mixed in one candidate.
DetectAllWithRecognizer(allow, deny) == DetectList(allow, "allow") \cup DetectList(deny, "deny")
=============================================================================
