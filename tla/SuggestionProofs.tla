-------------------------- MODULE SuggestionProofs --------------------------
(***************************************************************************)
(* Proofs about Suggestion for any files, lines, requests, threshold and   *)
(* number of answers: pruning loses no request, one answer ends an offer,  *)
(* what was decided is not offered again, and an accepted offer keeps what *)
(* the files covered.                                                      *)
(***************************************************************************)
EXTENDS Suggestion, SequenceTheorems, WellFoundedInduction, TLAPS

-----------------------------------------------------------------------------
(***************************************************************************)
(* Lines that make others redundant.                                       *)
(***************************************************************************)
LEMMA PrefixMeans ==
    ASSUME NEW S, NEW s \in Seq(S), NEW t \in Seq(S)
    PROVE  IsPrefix(s, t) <=> Len(s) <= Len(t) /\ \A i \in 1..Len(s) : s[i] = t[i]
<1>1. Len(s) \in Nat /\ Len(t) \in Nat
  BY LenProperties
<1>2. SUFFICES ASSUME Len(s) <= Len(t)
               PROVE  SubSeq(s, 1, Len(s)) = SubSeq(t, 1, Len(s))
                         <=> \A i \in 1..Len(s) : s[i] = t[i]
  BY DEF IsPrefix
<1>3. /\ \A i \in 1..Len(s) : s[i] \in S /\ t[i] \in S
  BY <1>1, <1>2, ElementOfSeq
<1>4. /\ SubSeq(s, 1, Len(s)) \in Seq(S) /\ SubSeq(t, 1, Len(s)) \in Seq(S)
      /\ Len(SubSeq(s, 1, Len(s))) = Len(s) /\ Len(SubSeq(t, 1, Len(s))) = Len(s)
      /\ \A i \in 1..Len(s) : SubSeq(s, 1, Len(s))[i] = s[i]
      /\ \A i \in 1..Len(s) : SubSeq(t, 1, Len(s))[i] = t[i]
  BY <1>1, <1>3, SubSeqProperties
<1> QED
  BY <1>4, SeqEqual

LEMMA ReverseMeans ==
    ASSUME NEW S, NEW s \in Seq(S)
    PROVE  /\ Reverse(s) \in Seq(S) /\ Len(Reverse(s)) = Len(s)
           /\ \A i \in 1..Len(s) : Reverse(s)[i] = s[(Len(s) - i) + 1]
<1>1. Len(s) \in Nat
  BY LenProperties
<1>2. \A i \in 1..Len(s) : (Len(s) - i) + 1 \in 1..Len(s)
  BY <1>1
<1>3. \A i \in 1..Len(s) : s[(Len(s) - i) + 1] \in S
  BY <1>2, ElementOfSeq
<1>4. Reverse(s) \in [1..Len(s) -> S]
  BY <1>3 DEF Reverse
<1>5. Reverse(s) \in Seq(S)
  BY <1>1, <1>4, SeqDef
<1>6. Len(Reverse(s)) = Len(s)
  BY <1>1, <1>4, <1>5, LenProperties
<1> QED
  BY <1>5, <1>6 DEF Reverse

LEMMA SuffixMeans ==
    ASSUME NEW S, NEW s \in Seq(S), NEW t \in Seq(S)
    PROVE  IsSuffix(s, t) <=>
              /\ Len(s) <= Len(t)
              /\ \A i \in 1..Len(s) : s[(Len(s) - i) + 1] = t[(Len(t) - i) + 1]
<1>1. Len(s) \in Nat /\ Len(t) \in Nat
  BY LenProperties
<1>2. /\ Reverse(s) \in Seq(S) /\ Len(Reverse(s)) = Len(s)
      /\ \A i \in 1..Len(s) : Reverse(s)[i] = s[(Len(s) - i) + 1]
  BY ReverseMeans
<1>3. /\ Reverse(t) \in Seq(S) /\ Len(Reverse(t)) = Len(t)
      /\ \A i \in 1..Len(t) : Reverse(t)[i] = t[(Len(t) - i) + 1]
  BY ReverseMeans
<1>4. IsSuffix(s, t) <=> /\ Len(s) <= Len(t)
                         /\ \A i \in 1..Len(s) : Reverse(s)[i] = Reverse(t)[i]
  BY <1>2, <1>3, PrefixMeans DEF IsSuffix
<1>5. Len(s) <= Len(t) =>
        \A i \in 1..Len(s) : /\ Reverse(s)[i] = s[(Len(s) - i) + 1]
                             /\ Reverse(t)[i] = t[(Len(t) - i) + 1]
  BY <1>1, <1>2, <1>3
<1> QED
  BY <1>4, <1>5

\* A strict suffix or prefix is shorter.
LEMMA StrictIsShorter ==
    ASSUME NEW S, NEW s \in Seq(S), NEW t \in Seq(S)
    PROVE  /\ IsStrictSuffix(s, t) <=> IsSuffix(s, t) /\ Len(s) < Len(t)
           /\ IsStrictPrefix(s, t) <=> IsPrefix(s, t) /\ Len(s) < Len(t)
<1>1. Len(s) \in Nat /\ Len(t) \in Nat
  BY LenProperties
<1>2. IsSuffix(s, t) /\ Len(s) = Len(t) => s = t
  <2> SUFFICES ASSUME IsSuffix(s, t), Len(s) = Len(t) PROVE s = t
    OBVIOUS
  <2>1. \A i \in 1..Len(s) : s[(Len(s) - i) + 1] = t[(Len(s) - i) + 1]
    BY SuffixMeans
  <2>2. ASSUME NEW i \in 1..Len(s) PROVE s[i] = t[i]
    <3>1. (Len(s) - i) + 1 \in 1..Len(s) /\ (Len(s) - ((Len(s) - i) + 1)) + 1 = i
      BY <1>1
    <3> QED
      BY <2>1, <3>1
  <2> QED
    BY <2>2, SeqEqual
<1>3. IsPrefix(s, t) /\ Len(s) = Len(t) => s = t
  BY PrefixMeans, SeqEqual
<1>4. (IsSuffix(s, t) => Len(s) <= Len(t)) /\ (IsPrefix(s, t) => Len(s) <= Len(t))
  BY PrefixMeans, SuffixMeans
<1> QED
  BY <1>1, <1>2, <1>3, <1>4 DEF IsStrictSuffix, IsStrictPrefix

LEMMA SuffixTransitive ==
    ASSUME NEW S, NEW s \in Seq(S), NEW t \in Seq(S), NEW u \in Seq(S),
           IsSuffix(s, t), IsSuffix(t, u)
    PROVE  IsSuffix(s, u)
<1>1. Len(s) \in Nat /\ Len(t) \in Nat /\ Len(u) \in Nat
  BY LenProperties
<1>2. /\ Len(s) <= Len(t) /\ Len(t) <= Len(u)
      /\ \A i \in 1..Len(s) : s[(Len(s) - i) + 1] = t[(Len(t) - i) + 1]
      /\ \A i \in 1..Len(t) : t[(Len(t) - i) + 1] = u[(Len(u) - i) + 1]
  BY SuffixMeans
<1>3. Len(s) <= Len(u) /\ \A i \in 1..Len(s) : s[(Len(s) - i) + 1] = u[(Len(u) - i) + 1]
  BY <1>1, <1>2
<1> QED
  BY <1>3, SuffixMeans

LEMMA PrefixTransitive ==
    ASSUME NEW S, NEW s \in Seq(S), NEW t \in Seq(S), NEW u \in Seq(S),
           IsPrefix(s, t), IsPrefix(t, u)
    PROVE  IsPrefix(s, u)
<1>1. Len(s) \in Nat /\ Len(t) \in Nat /\ Len(u) \in Nat
  BY LenProperties
<1>2. /\ Len(s) <= Len(t) /\ Len(t) <= Len(u)
      /\ \A i \in 1..Len(s) : s[i] = t[i]
      /\ \A i \in 1..Len(t) : t[i] = u[i]
  BY PrefixMeans
<1>3. Len(s) <= Len(u) /\ \A i \in 1..Len(s) : s[i] = u[i]
  BY <1>1, <1>2
<1> QED
  BY <1>3, PrefixMeans

LEMMA TailOf ==
    ASSUME NEW S, NEW s \in Seq(S), Len(s) > 1
    PROVE  Tail(s) \in Seq(S) /\ Len(Tail(s)) = Len(s) - 1 /\ IsSuffix(Tail(s), s)
<1>1. Len(s) \in Nat /\ s # <<>>
  BY LenProperties, EmptySeq
<1>2. /\ Tail(s) \in Seq(S) /\ Len(Tail(s)) = Len(s) - 1
      /\ \A i \in 1..Len(Tail(s)) : Tail(s)[i] = s[i + 1]
  BY <1>1, HeadTailProperties
<1>3. ASSUME NEW i \in 1..Len(Tail(s))
      PROVE  Tail(s)[(Len(Tail(s)) - i) + 1] = s[(Len(s) - i) + 1]
  <2>1. (Len(Tail(s)) - i) + 1 \in 1..Len(Tail(s)) /\ ((Len(Tail(s)) - i) + 1) + 1 = (Len(s) - i) + 1
    BY <1>1, <1>2
  <2> QED
    BY <1>2, <2>1
<1>4. Len(Tail(s)) <= Len(s)
  BY <1>1, <1>2
<1> QED
  BY <1>2, <1>3, <1>4, SuffixMeans

LEMMA FrontOf ==
    ASSUME NEW S, NEW s \in Seq(S), s # <<>>
    PROVE  Front(s) \in Seq(S) /\ Len(Front(s)) = Len(s) - 1 /\ IsPrefix(Front(s), s)
<1>1. Len(s) \in Nat \ {0}
  BY LenProperties, EmptySeq
<1>2. PICK n \in Nat : n = Len(s) - 1
  BY <1>1
<1>3. \A i \in 1..n : s[i] \in S
  BY <1>1, <1>2, ElementOfSeq
<1>4. /\ SubSeq(s, 1, n) \in Seq(S) /\ Len(SubSeq(s, 1, n)) = IF 1 <= n THEN n - 1 + 1 ELSE 0
      /\ \A i \in 1..(n - 1 + 1) : SubSeq(s, 1, n)[i] = s[1 + i - 1]
  BY <1>3, SubSeqProperties
<1>5. Front(s) = SubSeq(s, 1, n) /\ Len(Front(s)) = n /\ \A i \in 1..n : Front(s)[i] = s[i]
  BY <1>2, <1>4 DEF Front
<1> QED
  <2>1. Front(s) \in Seq(S) /\ Len(Front(s)) <= Len(s) /\ Len(Front(s)) = Len(s) - 1
    BY <1>1, <1>2, <1>4, <1>5
  <2>2. \A i \in 1..Len(Front(s)) : Front(s)[i] = s[i]
    BY <1>5
  <2> QED
    BY <2>1, <2>2, PrefixMeans

\* A strict suffix of a wildcard host is a suffix of what follows the "*".
LEMMA SuffixOfTail ==
    ASSUME NEW S, NEW s \in Seq(S), NEW t \in Seq(S), Len(t) > 1, IsStrictSuffix(s, t)
    PROVE  IsSuffix(s, Tail(t))
<1>1. Len(s) \in Nat /\ Len(t) \in Nat /\ Len(s) < Len(t)
  BY LenProperties, StrictIsShorter
<1>2. Tail(t) \in Seq(S) /\ Len(Tail(t)) = Len(t) - 1
  BY TailOf
<1>3. \A i \in 1..Len(s) : s[(Len(s) - i) + 1] = t[(Len(t) - i) + 1]
  BY SuffixMeans DEF IsStrictSuffix
<1>4. \A i \in 1..Len(Tail(t)) : Tail(t)[(Len(Tail(t)) - i) + 1] = t[(Len(t) - i) + 1]
  BY <1>2, TailOf, SuffixMeans
<1>5. Len(s) <= Len(Tail(t))
  BY <1>1, <1>2
<1>6. ASSUME NEW i \in 1..Len(s)
      PROVE  s[(Len(s) - i) + 1] = Tail(t)[(Len(Tail(t)) - i) + 1]
  <2>1. i \in 1..Len(Tail(t))
    BY <1>1, <1>2
  <2> QED
    BY <1>3, <1>4, <2>1
<1> QED
  BY <1>2, <1>5, <1>6, SuffixMeans

LEMMA HostCovered ==
    ASSUME NEW S, NEW p \in Seq(S), NEW e \in Seq(S), NEW host \in Seq(S),
           hostSubsumes(p, e), matchHostPattern(e, host)
    PROVE  matchHostPattern(p, host)
<1>1. CASE p = <<Star>> \/ p = e
  BY <1>1 DEF matchHostPattern
<1>2. CASE wildcardPrefix(p) /\ IsStrictSuffix(Tail(p), e)
  <2>1. Len(p) \in Nat /\ Len(e) \in Nat /\ Len(host) \in Nat /\ Len(p) > 1
    BY <1>2, LenProperties DEF wildcardPrefix
  <2>2. Tail(p) \in Seq(S) /\ Len(Tail(p)) = Len(p) - 1
    BY <2>1, TailOf
  <2>3. Len(Tail(p)) < Len(e)
    BY <1>2, <2>2, StrictIsShorter
  <2>4. CASE e = <<Star>>
    <3>1. Len(e) = 1
      BY <2>4
    <3> QED
      BY <2>1, <2>2, <2>3, <3>1
  <2>5. CASE e = host
    BY <1>2, <2>5 DEF matchHostPattern
  <2>6. CASE wildcardPrefix(e) /\ IsStrictSuffix(Tail(e), host)
    <3>1. Len(e) > 1 /\ Tail(e) \in Seq(S)
      BY <2>6, TailOf DEF wildcardPrefix
    <3>2. IsSuffix(Tail(p), Tail(e))
      BY <1>2, <2>2, <3>1, SuffixOfTail
    <3>3. IsSuffix(Tail(e), host) /\ Len(Tail(e)) < Len(host)
      BY <2>6, <3>1, StrictIsShorter
    <3>4. IsSuffix(Tail(p), host)
      BY <2>2, <3>1, <3>2, <3>3, SuffixTransitive
    <3>5. Len(Tail(p)) <= Len(Tail(e)) /\ Len(Tail(e)) \in Nat /\ Len(Tail(p)) \in Nat
      BY <2>2, <3>1, <3>2, SuffixMeans, LenProperties
    <3>6. Len(Tail(p)) < Len(host)
      BY <2>1, <3>3, <3>5
    <3>7. IsStrictSuffix(Tail(p), host)
      BY <2>2, <3>4, <3>6, StrictIsShorter
    <3> QED
      BY <1>2, <3>7 DEF matchHostPattern
  <2> QED
    BY <2>4, <2>5, <2>6 DEF matchHostPattern
<1> QED
  BY <1>1, <1>2 DEF hostSubsumes

LEMMA PathCovered ==
    ASSUME NEW S, NEW p \in Seq(S), NEW e \in Seq(S), NEW path \in Seq(S),
           pathSubsumes(p, e), matchPathPattern(e, path)
    PROVE  matchPathPattern(p, path)
<1>1. CASE anyPath(p) \/ p = e
  BY <1>1 DEF matchPathPattern
<1>2. CASE matchPrefix(p) /\ ~anyPath(e) /\ IsPrefix(Front(p), Front(e))
  <2>1. p # <<>> /\ e # <<>>
    BY <1>2 DEF matchPrefix, anyPath, NoPath
  <2>2. Front(p) \in Seq(S)
    BY <2>1, FrontOf
  <2>3. Front(e) \in Seq(S) /\ Len(Front(e)) = Len(e) - 1 /\ IsPrefix(Front(e), e)
    BY <2>1, FrontOf
  <2>4. Len(Front(p)) <= Len(Front(e))
    BY <1>2, <2>2, <2>3, PrefixMeans
  <2>5. Len(Front(p)) \in Nat /\ Len(e) \in Nat \ {0} /\ Len(path) \in Nat
    BY <2>1, <2>2, LenProperties, EmptySeq
  <2>6. CASE matchPrefix(e) /\ IsStrictPrefix(Front(e), path)
    <3>1. IsPrefix(Front(e), path) /\ Len(Front(e)) < Len(path)
      BY <2>3, <2>6, StrictIsShorter
    <3>2. IsPrefix(Front(p), path)
      BY <1>2, <2>2, <2>3, <3>1, PrefixTransitive
    <3>3. Len(Front(p)) < Len(path)
      BY <2>3, <2>4, <2>5, <3>1
    <3>4. IsStrictPrefix(Front(p), path)
      BY <2>2, <3>2, <3>3, StrictIsShorter
    <3> QED
      BY <1>2, <3>4 DEF matchPathPattern
  <2>7. CASE e = path
    <3>1. IsPrefix(Front(p), e)
      BY <1>2, <2>2, <2>3, PrefixTransitive
    <3>2. Len(Front(p)) < Len(e)
      BY <2>3, <2>4, <2>5
    <3>3. IsStrictPrefix(Front(p), path)
      BY <2>2, <2>7, <3>1, <3>2, StrictIsShorter
    <3> QED
      BY <1>2, <3>3 DEF matchPathPattern
  <2> QED
    BY <1>2, <2>6, <2>7 DEF matchPathPattern
<1> QED
  BY <1>1, <1>2 DEF pathSubsumes

\* hostlist.go, subsumes against Match: a line covers every request that a line it
\* subsumes covers, so a list that is pruned of the latter matches what it matched.
\* For hosts and paths of any length, over any labels.
THEOREM PruningLosesNoRequest ==
    ASSUME NEW S, NEW list, NEW p \in list, NEW e \in list, p # e, NEW r,
           p.host \in Seq(S), e.host \in Seq(S), r.host \in Seq(S),
           p.path \in Seq(S), e.path \in Seq(S), r.path \in Seq(S),
           subsumes(p, e)
    PROVE  Match(list \ {e}, r) <=> Match(list, r)
<1>1. ASSUME Matches(e, r) PROVE Matches(p, r)
  <2>1. matchHostPattern(p.host, r.host)
    BY <1>1, HostCovered DEF subsumes, Matches
  <2>2. matchPathPattern(p.path, r.path)
    BY <1>1, PathCovered DEF subsumes, Matches
  <2> QED
    BY <1>1, <2>1, <2>2 DEF subsumes, Matches
<1> QED
  BY <1>1 DEF Match


-----------------------------------------------------------------------------
(***************************************************************************)
(* What the detectors find: the line, or the rule, of a candidate fires on *)
(* every request that its sources fire on.                                 *)
(***************************************************************************)
LineFires(c, synthesized, r) ==
    \/ Matches(c.line, r)
    \/ synthesized /\ r.path = Front(c.line.path)

Replaces(c, synthesized) ==
    \A e \in c.sources, r \in Requests :
        Matches(e, r) => IF PatternShaped(c) THEN RuleFires(c.rule, r)
                         ELSE LineFires(c, synthesized, r)

CandInv(c, synthesized) ==
    /\ c.list \in Effects
    /\ c.sources \subseteq {e \in Lines : concrete(e)}
    /\ PatternShaped(c) => c.rule.effect = c.list
    /\ ~PatternShaped(c) => c.line \in Lines
    /\ Replaces(c, synthesized)

\* A line without a wildcard in its URL fires on that URL.
LEMMA ConcreteMatches ==
    ASSUME NEW e \in Lines, concrete(e), NEW r \in Lines, Matches(e, r)
    PROVE  /\ e.method \in {Star, r.method} /\ e.scheme \in {AnyScheme, r.scheme}
           /\ r.host = e.host /\ port(e) \in {AnyPort, r.port}
           /\ e.path # <<>> => r.path = e.path
<1>1. e.host \in Seq(STRING) /\ e.path \in Seq(STRING)
  BY DEF Lines
<1>2. \A s \in Seq(STRING) : \A i \in 1..Len(s) : s[i] \in ToSet(s)
  BY DEF ToSet
<1>3. ASSUME e.host = <<Star>> \/ wildcardPrefix(e.host) PROVE FALSE
  <2>1. Len(e.host) \in Nat /\ Len(e.host) >= 1 /\ e.host[1] = Star
    <3>1. CASE e.host = <<Star>>
      BY <3>1
    <3>2. CASE wildcardPrefix(e.host)
      <4>1. Len(e.host) \in Nat /\ Len(e.host) > 1 /\ Head(e.host) = Star
        BY <1>1, <3>2, LenProperties DEF wildcardPrefix
      <4>2. Head(e.host) = e.host[1]
        BY <1>1, <4>1, HeadTailProperties, EmptySeq
      <4> QED
        BY <4>1, <4>2
    <3> QED
      BY <1>3, <3>1, <3>2
  <2>2. Star \in ToSet(e.host)
    BY <1>1, <1>2, <2>1
  <2> QED
    BY <2>2 DEF concrete
<1>4. ASSUME e.path = <<Star>> \/ matchPrefix(e.path) PROVE FALSE
  <2>1. Len(e.path) \in Nat
    BY <1>1, LenProperties
  <2>2. Len(e.path) >= 1 /\ e.path[Len(e.path)] = Star
    <3>1. CASE e.path = <<Star>>
      BY <3>1
    <3>2. CASE matchPrefix(e.path)
      BY <1>1, <2>1, <3>2, EmptySeq DEF matchPrefix, anyPath, NoPath, Last
    <3> QED
      BY <1>4, <3>1, <3>2
  <2>3. Star \in ToSet(e.path)
    BY <1>1, <1>2, <2>1, <2>2
  <2> QED
    BY <2>3 DEF concrete
<1>5. r.host = e.host
  BY <1>3 DEF Matches, matchHostPattern
<1>6. e.path # <<>> => r.path = e.path
  BY <1>4 DEF Matches, matchPathPattern, anyPath, NoPath
<1>7. port(e) \in {AnyPort, r.port}
  BY DEF Matches, port
<1> QED
  BY <1>5, <1>6, <1>7 DEF Matches

\* A group is one class of its key.
LEMMA MethodGroup ==
    ASSUME NEW S, NEW g \in GroupsBy(S, methodKey)
    PROVE  g # {} /\ g \subseteq S /\ \A e, f \in g : methodKey(e) = methodKey(f)
BY DEF GroupsBy

LEMMA SomeOf ==
    ASSUME NEW g, g # {}
    PROVE  Some(g) \in g
BY DEF Some

LEMMA PortIsPort ==
    ASSUME NEW e \in Lines
    PROVE  port(e) \in Nat
BY DEF port, Lines, AnyPort

LEMMA MethodReplaces ==
    ASSUME NEW S \in SUBSET Lines, NEW list \in Effects, NEW c \in DetectMethod(S, list)
    PROVE  CandInv(c, FALSE)
<1>1. PICK g \in GroupsBy({e \in S : concrete(e)}, methodKey) :
          c = Candidate("method", list, g,
                MakeLine(Star, Some(g).scheme, Some(g).host, port(Some(g)), Some(g).path), NoRule)
  BY DEF DetectMethod
<1>a. g # {} /\ g \subseteq {e \in S : concrete(e)} /\ \A e, f \in g : methodKey(e) = methodKey(f)
  BY MethodGroup
<1>2. g \subseteq {e \in Lines : concrete(e)} /\ Some(g) \in g
      /\ \A e \in g : methodKey(e) = methodKey(Some(g))
  BY <1>a, SomeOf
<1>3. c.list = list /\ c.sources = g /\ c.rule = NoRule
      /\ c.line = MakeLine(Star, Some(g).scheme, Some(g).host, port(Some(g)), Some(g).path)
  BY <1>1 DEF Candidate
<1>4. ~PatternShaped(c)
  BY <1>3 DEF PatternShaped
<1>5. c.line \in Lines
  <2>1. /\ Some(g).scheme \in STRING /\ Some(g).host \in Seq(STRING) /\ Some(g).path \in Seq(STRING)
        /\ port(Some(g)) \in Nat
    BY <1>2, PortIsPort DEF Lines
  <2> QED
    BY <1>3, <2>1, LinesAssumption DEF MakeLine, Lines
<1>6. ASSUME NEW e \in g, NEW r \in Requests, Matches(e, r) PROVE Matches(c.line, r)
  <2>1. /\ e.scheme = Some(g).scheme /\ e.host = Some(g).host
        /\ port(e) = port(Some(g)) /\ e.path = Some(g).path
    BY <1>2 DEF methodKey
  <2>2. port(e) \in {AnyPort, r.port} /\ r.host = e.host
    BY <1>2, <1>6, ConcreteMatches, LinesAssumption
  <2> QED
    BY <1>3, <1>6, <2>1, <2>2 DEF Matches, MakeLine, matchHostPattern
<1> QED
  BY <1>2, <1>3, <1>4, <1>5, <1>6 DEF CandInv, Replaces, LineFires


LEMMA LeastNumber ==
    ASSUME NEW T, T \subseteq Nat, T # {}
    PROVE  \E x \in T : \A y \in T : x <= y
<1>1. PICK x \in T : \A y \in T : ~(<<y, x>> \in OpToRel(<, Nat))
  BY WFMin, NatLessThanWellFounded, Zenon
<1>2. \A y \in T : ~(y < x)
  BY <1>1 DEF OpToRel
<1> QED
  BY <1>2

\* A path without its trailing slashes is a prefix of it.
LEMMA TrimmedOf ==
    ASSUME NEW path \in Seq(STRING)
    PROVE  \E n \in 0..Len(path) : trimmed(path) = SubSeq(path, 1, n)
<1>1. Len(path) \in Nat
  BY LenProperties
<1> DEFINE T == {n \in 0..Len(path) : \A i \in (n + 1)..Len(path) : path[i] = Empty}
<1>2. T \subseteq Nat /\ Len(path) \in T
  <2>1. Len(path) \in 0..Len(path) /\ \A i \in (Len(path) + 1)..Len(path) : FALSE
    BY <1>1
  <2> QED
    BY <2>1
<1>3. PICK n \in T : \A m \in T : n <= m
  <2> HIDE DEF T
  <2> QED
    BY <1>2, LeastNumber
<1>4. n > 0 => path[n] # Empty
  <2> SUFFICES ASSUME n > 0, path[n] = Empty PROVE FALSE
    OBVIOUS
  <2>1. n \in Nat /\ n <= Len(path) /\ \A i \in (n + 1)..Len(path) : path[i] = Empty
    BY <1>1
  <2>2. n - 1 \in 0..Len(path)
    BY <1>1, <2>1
  <2>3. ASSUME NEW i \in ((n - 1) + 1)..Len(path) PROVE path[i] = Empty
    <3>1. i = n \/ i \in (n + 1)..Len(path)
      BY <1>1, <2>1
    <3> QED
      BY <2>1, <3>1
  <2>4. n - 1 \in T
    BY <2>2, <2>3
  <2> QED
    BY <1>3, <2>1, <2>4
<1>5. \E m \in 0..Len(path) : /\ m > 0 => path[m] # Empty
                              /\ \A i \in (m + 1)..Len(path) : path[i] = Empty
  BY <1>3, <1>4
<1> QED
  BY <1>5 DEF trimmed

\* What is before the last slash is a strict prefix.
LEMMA PrefixOf ==
    ASSUME NEW path \in Seq(STRING), trimmed(path) # <<>>
    PROVE  prefix(path) \in Seq(STRING) /\ IsStrictPrefix(prefix(path), path)
<1>1. PICK n \in 0..Len(path) : trimmed(path) = SubSeq(path, 1, n)
  BY TrimmedOf
<1>2. Len(path) \in Nat
  BY LenProperties
<1>3. /\ SubSeq(path, 1, n) \in Seq(STRING) /\ Len(SubSeq(path, 1, n)) = n
      /\ \A i \in 1..n : SubSeq(path, 1, n)[i] = path[i]
  <2>1. \A i \in 1..n : path[i] \in STRING
    BY <1>2, ElementOfSeq
  <2> QED
    BY <1>2, <2>1, SubSeqProperties
<1>4. IsPrefix(trimmed(path), path) /\ Len(trimmed(path)) = n /\ trimmed(path) \in Seq(STRING)
  <2>1. n <= Len(path)
    BY <1>2
  <2> QED
    BY <1>1, <1>3, <2>1, PrefixMeans
<1>5. /\ Front(trimmed(path)) \in Seq(STRING) /\ Len(Front(trimmed(path))) = n - 1
      /\ IsPrefix(Front(trimmed(path)), trimmed(path))
  BY <1>4, FrontOf
<1>6. IsPrefix(Front(trimmed(path)), path)
  BY <1>4, <1>5, PrefixTransitive
<1>7. IsStrictPrefix(Front(trimmed(path)), path)
  BY <1>2, <1>5, <1>6, StrictIsShorter
<1> QED
  BY <1>5, <1>7 DEF prefix

LEMMA AppendedOne ==
    ASSUME NEW S, NEW q \in Seq(S), NEW x \in S
    PROVE  /\ Append(q, x) \in Seq(S) /\ Len(Append(q, x)) = Len(q) + 1
           /\ \A i \in 1..(Len(q) + 1) : Append(q, x)[i] = IF i = Len(q) + 1 THEN x ELSE q[i]
BY AppendProperties

LEMMA AppendedStar ==
    ASSUME NEW q \in Seq(STRING)
    PROVE  /\ Append(q, Star) \in Seq(STRING) /\ Append(q, Star) # <<>>
           /\ Front(Append(q, Star)) = q /\ Last(Append(q, Star)) = Star
<1>1. /\ Append(q, Star) \in Seq(STRING) /\ Len(Append(q, Star)) = Len(q) + 1
      /\ Append(q, Star)[Len(q) + 1] = Star
      /\ \A i \in 1..Len(q) : Append(q, Star)[i] = q[i]
  <2>1. Star \in STRING
    BY LinesAssumption
  <2>2. /\ Append(q, Star) \in Seq(STRING) /\ Len(Append(q, Star)) = Len(q) + 1
        /\ \A i \in 1..(Len(q) + 1) : Append(q, Star)[i] = IF i = Len(q) + 1 THEN Star ELSE q[i]
    BY <2>1, AppendedOne
  <2>3. Len(q) \in Nat
    BY LenProperties
  <2> QED
    BY <2>2, <2>3
<1>2. Len(q) \in Nat /\ Append(q, Star) # <<>>
  BY <1>1, LenProperties, EmptySeq
<1>3. Last(Append(q, Star)) = Star
  BY <1>1 DEF Last
<1>4. Front(Append(q, Star)) = q
  <2>a. (Len(q) + 1) - 1 = Len(q)
    BY <1>2
  <2>1. /\ Front(Append(q, Star)) \in Seq(STRING) /\ Len(Front(Append(q, Star))) = Len(q)
        /\ IsPrefix(Front(Append(q, Star)), Append(q, Star))
    BY <1>1, <1>2, <2>a, FrontOf
  <2>b. \A i \in 1..Len(Front(Append(q, Star))) : Front(Append(q, Star))[i] = Append(q, Star)[i]
    BY <1>1, <2>1, PrefixMeans
  <2>2. \A i \in 1..Len(q) : Front(Append(q, Star))[i] = Append(q, Star)[i]
    BY <2>1, <2>b
  <2>3. \A i \in 1..Len(q) : Front(Append(q, Star))[i] = q[i]
    BY <1>1, <2>2
  <2> QED
    BY <2>1, <2>3, SeqEqual
<1> QED
  BY <1>1, <1>2, <1>3, <1>4

\* A path with a "*" after a strict prefix of it.
LEMMA UnderPrefix ==
    ASSUME NEW path \in Seq(STRING), NEW q \in Seq(STRING), IsStrictPrefix(q, path)
    PROVE  Append(q, Star) \in Seq(STRING) /\ matchPathPattern(Append(q, Star), path)
<1>1. /\ Append(q, Star) \in Seq(STRING) /\ Append(q, Star) # <<>>
      /\ Front(Append(q, Star)) = q /\ Last(Append(q, Star)) = Star
  BY AppendedStar
<1>2. anyPath(Append(q, Star)) \/ matchPrefix(Append(q, Star))
  BY <1>1 DEF matchPrefix
<1> QED
  BY <1>1, <1>2 DEF matchPathPattern

LEMMA SegmentGroup ==
    ASSUME NEW S, NEW g \in GroupsBy(S, segmentKey)
    PROVE  g # {} /\ g \subseteq S /\ \A e, f \in g : segmentKey(e) = segmentKey(f)
BY DEF GroupsBy

LEMMA SegmentReplaces ==
    ASSUME NEW S \in SUBSET Lines, NEW list \in Effects, NEW c \in DetectURLSegment(S, list)
    PROVE  CandInv(c, FALSE)
<1>1. PICK g \in GroupsBy({e \in S : concrete(e) /\ trimmed(e.path) # <<>>}, segmentKey) :
          c = Candidate("url_segment", list, g,
                MakeLine(Some(g).method, Some(g).scheme, Some(g).host, port(Some(g)),
                         Append(prefix(Some(g).path), Star)), NoRule)
  BY DEF DetectURLSegment
<1>a. /\ g # {} /\ g \subseteq {e \in S : concrete(e) /\ trimmed(e.path) # <<>>}
      /\ \A e, f \in g : segmentKey(e) = segmentKey(f)
  BY SegmentGroup
<1>2. g \subseteq {e \in Lines : concrete(e)} /\ Some(g) \in g
      /\ \A e \in g : segmentKey(e) = segmentKey(Some(g)) /\ trimmed(e.path) # <<>>
  BY <1>a, SomeOf
<1>3. c.list = list /\ c.sources = g /\ c.rule = NoRule
      /\ c.line = MakeLine(Some(g).method, Some(g).scheme, Some(g).host, port(Some(g)),
                           Append(prefix(Some(g).path), Star))
  BY <1>1 DEF Candidate
<1>4. ~PatternShaped(c)
  BY <1>3 DEF PatternShaped
<1>5. \A e \in g : /\ e.path \in Seq(STRING) /\ e.path # <<>> /\ prefix(e.path) = prefix(Some(g).path)
                   /\ Append(prefix(Some(g).path), Star) \in Seq(STRING)
                   /\ matchPathPattern(Append(prefix(Some(g).path), Star), e.path)
  <2> SUFFICES ASSUME NEW e \in g
               PROVE  /\ e.path \in Seq(STRING) /\ e.path # <<>> /\ prefix(e.path) = prefix(Some(g).path)
                      /\ Append(prefix(e.path), Star) \in Seq(STRING)
                      /\ matchPathPattern(Append(prefix(e.path), Star), e.path)
    BY <1>2 DEF segmentKey
  <2>1. e.path \in Seq(STRING) /\ trimmed(e.path) # <<>>
    BY <1>2 DEF Lines
  <2>2. prefix(e.path) \in Seq(STRING) /\ IsStrictPrefix(prefix(e.path), e.path)
    BY <2>1, PrefixOf
  <2>3. Len(prefix(e.path)) < Len(e.path) /\ Len(prefix(e.path)) \in Nat
    BY <2>1, <2>2, StrictIsShorter, LenProperties
  <2>4. e.path # <<>>
    BY <2>1, <2>3, EmptySeq
  <2> QED
    BY <1>2, <2>1, <2>2, <2>4, UnderPrefix DEF segmentKey
<1>6. c.line \in Lines
  BY <1>2, <1>3, <1>5 DEF MakeLine, Lines, port, AnyPort
<1>7. ASSUME NEW e \in g, NEW r \in Requests, Matches(e, r) PROVE Matches(c.line, r)
  <2>1. /\ e.method = Some(g).method /\ e.scheme = Some(g).scheme /\ e.host = Some(g).host
        /\ port(e) = port(Some(g))
    BY <1>2 DEF segmentKey
  <2>2. port(e) \in {AnyPort, r.port} /\ r.host = e.host /\ r.path = e.path
    BY <1>2, <1>5, <1>7, ConcreteMatches, LinesAssumption
  <2>3. matchPathPattern(Append(prefix(Some(g).path), Star), r.path)
    BY <1>5, <2>2
  <2> QED
    BY <1>3, <1>7, <2>1, <2>2, <2>3 DEF Matches, MakeLine, matchHostPattern
<1> QED
  BY <1>2, <1>3, <1>4, <1>6, <1>7 DEF CandInv, Replaces, LineFires


LEMMA HostGroup ==
    ASSUME NEW S, NEW g \in GroupsBy(S, hostKey)
    PROVE  g # {} /\ g \subseteq S /\ \A e, f \in g : hostKey(e) = hostKey(f)
BY DEF GroupsBy

LEMMA HostPathReplaces ==
    ASSUME NEW S \in SUBSET Lines, NEW list \in Effects, NEW c \in DetectHostPath(S, list)
    PROVE  CandInv(c, FALSE)
<1>1. PICK g \in GroupsBy({e \in S : concrete(e) /\ e.path # NoPath}, hostKey) :
          c = Candidate("url_segment", list, g,
                MakeLine(Some(g).method, Some(g).scheme, Some(g).host, port(Some(g)), <<Star>>), NoRule)
  BY DEF DetectHostPath
<1>a. g # {} /\ g \subseteq {e \in S : concrete(e) /\ e.path # NoPath}
      /\ \A e, f \in g : hostKey(e) = hostKey(f)
  BY HostGroup
<1>2. g \subseteq {e \in Lines : concrete(e)} /\ Some(g) \in g
      /\ \A e \in g : hostKey(e) = hostKey(Some(g))
  BY <1>a, SomeOf
<1>3. c.list = list /\ c.sources = g /\ c.rule = NoRule
      /\ c.line = MakeLine(Some(g).method, Some(g).scheme, Some(g).host, port(Some(g)), <<Star>>)
  BY <1>1 DEF Candidate
<1>4. ~PatternShaped(c)
  BY <1>3 DEF PatternShaped
<1>5. c.line \in Lines
  <2>1. /\ Some(g).method \in STRING /\ Some(g).scheme \in STRING /\ Some(g).host \in Seq(STRING)
        /\ port(Some(g)) \in Nat
    BY <1>2, PortIsPort DEF Lines
  <2>2. Star \in STRING
    BY LinesAssumption
  <2>3. <<Star>> \in Seq(STRING)
    BY <2>2
  <2> QED
    BY <1>3, <2>1, <2>3 DEF MakeLine, Lines
<1>6. ASSUME NEW e \in g, NEW r \in Requests, Matches(e, r) PROVE Matches(c.line, r)
  <2>1. /\ e.method = Some(g).method /\ e.scheme = Some(g).scheme /\ e.host = Some(g).host
        /\ port(e) = port(Some(g))
    BY <1>2 DEF hostKey
  <2>2. port(e) \in {AnyPort, r.port} /\ r.host = e.host
    BY <1>2, <1>6, ConcreteMatches, LinesAssumption
  <2> QED
    BY <1>3, <1>6, <2>1, <2>2 DEF Matches, MakeLine, matchHostPattern, matchPathPattern, anyPath
<1> QED
  BY <1>2, <1>3, <1>4, <1>5, <1>6 DEF CandInv, Replaces, LineFires

\* A "*" before what follows the first label of a host.
LEMMA UnderParent ==
    ASSUME NEW host \in Seq(STRING), Len(host) > RegistrableLabels
    PROVE  /\ <<Star>> \o Tail(host) \in Seq(STRING)
           /\ matchHostPattern(<<Star>> \o Tail(host), host)
<1>1. Len(host) \in Nat /\ Len(host) > 2
  BY LenProperties DEF RegistrableLabels
<1>2. Tail(host) \in Seq(STRING) /\ Len(Tail(host)) = Len(host) - 1 /\ IsSuffix(Tail(host), host)
  BY <1>1, TailOf
<1>3. <<Star>> \in Seq(STRING) /\ Len(<<Star>>) = 1
  BY LinesAssumption
<1> DEFINE wide == <<Star>> \o Tail(host)
<1>4. /\ wide \in Seq(STRING) /\ Len(wide) = Len(host)
      /\ wide[1] = Star /\ \A i \in 1..Len(Tail(host)) : wide[i + 1] = Tail(host)[i]
  <2>1. /\ wide \in Seq(STRING) /\ Len(wide) = Len(<<Star>>) + Len(Tail(host))
        /\ \A i \in 1..(Len(<<Star>>) + Len(Tail(host))) :
              wide[i] = IF i <= Len(<<Star>>) THEN <<Star>>[i] ELSE Tail(host)[i - Len(<<Star>>)]
    BY <1>2, <1>3, ConcatProperties
  <2>2. \A i \in 1..(1 + Len(Tail(host))) :
              wide[i] = IF i <= 1 THEN <<Star>>[i] ELSE Tail(host)[i - 1]
    BY <1>3, <2>1
  <2>3. Len(wide) = Len(host) /\ wide[1] = Star
    BY <1>1, <1>2, <1>3, <2>1, <2>2
  <2>4. ASSUME NEW i \in 1..Len(Tail(host)) PROVE wide[i + 1] = Tail(host)[i]
    <3>1. i + 1 \in 1..(1 + Len(Tail(host))) /\ ~(i + 1 <= 1) /\ (i + 1) - 1 = i
      BY <1>1, <1>2
    <3> QED
      BY <2>2, <3>1
  <2> QED
    BY <2>1, <2>3, <2>4
<1> HIDE DEF wide
<1>5. Head(wide) = Star /\ Len(wide) > 1 /\ wide # <<>>
  BY <1>1, <1>4, HeadTailProperties, EmptySeq
<1>6. Tail(wide) = Tail(host)
  <2>1. /\ Tail(wide) \in Seq(STRING) /\ Len(Tail(wide)) = Len(wide) - 1
        /\ \A i \in 1..Len(Tail(wide)) : Tail(wide)[i] = wide[i + 1]
    BY <1>4, <1>5, HeadTailProperties
  <2>2. Len(Tail(wide)) = Len(Tail(host))
    BY <1>2, <1>4, <2>1
  <2>3. \A i \in 1..Len(Tail(wide)) : Tail(wide)[i] = Tail(host)[i]
    BY <1>4, <2>1, <2>2
  <2> QED
    BY <1>2, <2>1, <2>2, <2>3, SeqEqual
<1>7. IsStrictSuffix(Tail(host), host)
  <2>1. Len(Tail(host)) < Len(host)
    BY <1>1, <1>2
  <2> QED
    BY <1>2, <2>1, StrictIsShorter
<1>8. matchHostPattern(wide, host)
  BY <1>5, <1>6, <1>7 DEF matchHostPattern, wildcardPrefix
<1> QED
  BY <1>4, <1>8 DEF wide

LEMMA ParentGroup ==
    ASSUME NEW S, NEW g \in GroupsBy(S, parentKey)
    PROVE  g # {} /\ g \subseteq S /\ \A e, f \in g : parentKey(e) = parentKey(f)
BY DEF GroupsBy

LEMMA ParentReplaces ==
    ASSUME NEW S \in SUBSET Lines, NEW list \in Effects, NEW c \in DetectHostnameBelowTLD(S, list)
    PROVE  CandInv(c, FALSE)
<1>1. PICK g \in GroupsBy({e \in S : concrete(e) /\ parentBelowPublicSuffix(e.host) # <<>>}, parentKey) :
          c = Candidate("hostname_below_tld", list, g,
                MakeLine(Some(g).method, Some(g).scheme,
                         <<Star>> \o parentBelowPublicSuffix(Some(g).host),
                         port(Some(g)), Some(g).path), NoRule)
  BY DEF DetectHostnameBelowTLD
<1>a. /\ g # {} /\ g \subseteq {e \in S : concrete(e) /\ parentBelowPublicSuffix(e.host) # <<>>}
      /\ \A e, f \in g : parentKey(e) = parentKey(f)
  BY ParentGroup
<1>2. /\ g \subseteq {e \in Lines : concrete(e)} /\ Some(g) \in g
      /\ \A e \in g : parentKey(e) = parentKey(Some(g)) /\ parentBelowPublicSuffix(e.host) # <<>>
  BY <1>a, SomeOf
<1> DEFINE wide == <<Star>> \o parentBelowPublicSuffix(Some(g).host)
<1>3. c.list = list /\ c.sources = g /\ c.rule = NoRule
      /\ c.line = MakeLine(Some(g).method, Some(g).scheme, wide, port(Some(g)), Some(g).path)
  BY <1>1 DEF Candidate
<1>4. ~PatternShaped(c)
  BY <1>3 DEF PatternShaped
<1>5. ASSUME NEW e \in g PROVE wide \in Seq(STRING) /\ matchHostPattern(wide, e.host)
  <2>1. e.host \in Seq(STRING) /\ Len(e.host) \in Nat
    BY <1>2, LenProperties DEF Lines
  <2>2. Len(e.host) > RegistrableLabels /\ parentBelowPublicSuffix(e.host) = Tail(e.host)
    BY <1>2, <2>1 DEF parentBelowPublicSuffix, RegistrableLabels
  <2>3. wide = <<Star>> \o Tail(e.host)
    BY <1>2, <2>2 DEF parentKey
  <2> QED
    BY <2>1, <2>2, <2>3, UnderParent
<1>6. wide \in Seq(STRING)
  BY <1>2, <1>5
<1> HIDE DEF wide
<1>7. c.line \in Lines
  <2>1. /\ Some(g).method \in STRING /\ Some(g).scheme \in STRING /\ Some(g).path \in Seq(STRING)
        /\ port(Some(g)) \in Nat
    BY <1>2, PortIsPort DEF Lines
  <2> QED
    BY <1>3, <1>6, <2>1 DEF MakeLine, Lines
<1>8. ASSUME NEW e \in g, NEW r \in Requests, Matches(e, r) PROVE Matches(c.line, r)
  <2>1. /\ e.method = Some(g).method /\ e.scheme = Some(g).scheme
        /\ port(e) = port(Some(g)) /\ e.path = Some(g).path
    BY <1>2 DEF parentKey
  <2>2. port(e) \in {AnyPort, r.port} /\ r.host = e.host
    BY <1>2, <1>8, ConcreteMatches, LinesAssumption
  <2>3. matchHostPattern(wide, r.host)
    BY <1>5, <2>2
  <2> QED
    BY <1>3, <1>8, <2>1, <2>2, <2>3 DEF Matches, MakeLine
<1> QED
  BY <1>2, <1>3, <1>4, <1>7, <1>8 DEF CandInv, Replaces, LineFires


\* A recognized URL has the components of its pattern.
LEMMA RecognizedShape ==
    ASSUME NEW host, NEW path, Recognize(host, path) # NotRecognized
    PROVE  \/ /\ Recognize(host, path).name = "azure_arm"
              /\ DOMAIN Recognize(host, path).components =
                    {"subscription", "resource_group", "provider", "resource_type", "resource_name"}
           \/ /\ Recognize(host, path).name = "azure_keyvault"
              /\ DOMAIN Recognize(host, path).components = {"vault"}
<1>1. CASE azureARM(host, path) # NotRecognized
  <2>1. \E a, b, s : azureARM(host, path) =
           [name |-> "azure_arm", components |-> armComponents(a, b, s)]
    BY <1>1 DEF azureARM
  <2>2. PICK a, b, s : azureARM(host, path) =
           [name |-> "azure_arm", components |-> armComponents(a, b, s)]
    BY <2>1
  <2> DEFINE comps == armComponents(a, b, s)
  <2>3. DOMAIN comps =
           {"subscription", "resource_group", "provider", "resource_type", "resource_name"}
    BY DEF armComponents
  <2> HIDE DEF comps
  <2>4. Recognize(host, path) = [name |-> "azure_arm", components |-> comps]
    BY <1>1, <2>2 DEF Recognize, comps
  <2> QED
    BY <2>3, <2>4
<1>2. CASE azureARM(host, path) = NotRecognized
  <2>1. Recognize(host, path) = azureKeyVault(host)
    BY <1>2 DEF Recognize
  <2>2. azureKeyVault(host) = [name |-> "azure_keyvault", components |-> [vault |-> host[1]]]
    BY <2>1 DEF azureKeyVault
  <2> QED
    BY <2>1, <2>2
<1> QED
  BY <1>1, <1>2

\* A key vault is recognized by its host.
LEMMA RecognizedWithoutPath ==
    ASSUME NEW host, NEW path, Recognize(host, NoPath) # NotRecognized
    PROVE  Recognize(host, path) = Recognize(host, NoPath)
<1>1. azureARM(host, NoPath) = NotRecognized
  <2>1. splitPath(NoPath) = <<>> /\ Len(<<>>) = 0
    BY DEF splitPath, NoPath
  <2> QED
    BY <2>1 DEF azureARM
<1>2. Recognize(host, NoPath) = azureKeyVault(host)
  BY <1>1 DEF Recognize
<1>3. Len(host) = 4
  BY <1>2 DEF azureKeyVault
<1>4. host # <<"management", "azure", "com">>
  BY <1>3
<1>5. azureARM(host, path) = NotRecognized
  BY <1>4 DEF azureARM
<1> QED
  BY <1>2, <1>5 DEF Recognize

LEMMA PatternGroup ==
    ASSUME NEW S, NEW g \in GroupsBy(S, patternKey)
    PROVE  g # {} /\ g \subseteq S /\ \A e, f \in g : patternKey(e) = patternKey(f)
BY DEF GroupsBy

LEMMA PatternReplaces ==
    ASSUME NEW S \in SUBSET Lines, NEW list \in Effects, NEW c \in DetectPattern(S, list)
    PROVE  CandInv(c, FALSE)
<1>1. PICK g \in GroupsBy({e \in S : concrete(e) /\ recognized(e) # NotRecognized}, patternKey) :
          c = Candidate("pattern:" \o recognized(Some(g)).name, list, g, MakeLine(Star, "", <<>>, 0, <<>>),
                [pattern |-> recognized(Some(g)).name, components |-> intersectComponents(g),
                 method |-> Some(g).method, effect |-> list])
  BY DEF DetectPattern
<1>a. /\ g # {} /\ g \subseteq {e \in S : concrete(e) /\ recognized(e) # NotRecognized}
      /\ \A e, f \in g : patternKey(e) = patternKey(f)
  BY PatternGroup
<1>2. /\ g \subseteq {e \in Lines : concrete(e)} /\ Some(g) \in g
      /\ \A e \in g : patternKey(e) = patternKey(Some(g)) /\ recognized(e) # NotRecognized
  BY <1>a, SomeOf
<1>3. /\ c.list = list /\ c.sources = g
      /\ c.rule = [pattern |-> recognized(Some(g)).name, components |-> intersectComponents(g),
                   method |-> Some(g).method, effect |-> list]
  BY <1>1 DEF Candidate
<1>4. /\ c.rule.pattern = recognized(Some(g)).name /\ c.rule.method = Some(g).method
      /\ c.rule.components = intersectComponents(g) /\ c.rule.effect = list
  BY <1>3
<1>5. PatternShaped(c)
  <2>1. recognized(Some(g)).name \in {"azure_arm", "azure_keyvault"}
    BY <1>2, RecognizedShape DEF recognized
  <2>2. recognized(Some(g)).name # ""
    BY <2>1
  <2>3. NoRule.pattern = ""
    BY DEF NoRule
  <2> QED
    BY <1>4, <2>2, <2>3 DEF PatternShaped
<1> DEFINE Shape(x) ==
      \/ /\ x.name = "azure_arm"
         /\ DOMAIN x.components =
               {"subscription", "resource_group", "provider", "resource_type", "resource_name"}
      \/ x.name = "azure_keyvault" /\ DOMAIN x.components = {"vault"}
<1>b. \A e \in g : Shape(recognized(e))
  BY <1>2, RecognizedShape DEF recognized
<1>c. \A x, y : Shape(x) /\ Shape(y) /\ x.name = y.name => DOMAIN x.components = DOMAIN y.components
  OBVIOUS
<1> HIDE DEF Shape
<1>6. ASSUME NEW e \in g PROVE DOMAIN recognized(e).components = DOMAIN recognized(Some(g)).components
  <2>1. recognized(e).name = recognized(Some(g)).name
    BY <1>2 DEF patternKey
  <2>2. Shape(recognized(e)) /\ Shape(recognized(Some(g)))
    BY <1>2, <1>b
  <2> QED
    BY <1>c, <2>1, <2>2
<1>7. ASSUME NEW e \in g, NEW r \in Requests, Matches(e, r) PROVE RuleFires(c.rule, r)
  <2>1. Recognize(r.host, r.path) = recognized(e)
    <3>1. r.host = e.host /\ (e.path # <<>> => r.path = e.path)
      BY <1>2, <1>7, ConcreteMatches, LinesAssumption
    <3>2. CASE e.path # <<>>
      BY <3>1, <3>2 DEF recognized
    <3>3. CASE e.path = <<>>
      BY <1>2, <3>1, <3>3, RecognizedWithoutPath DEF recognized, NoPath
    <3> QED
      BY <3>2, <3>3
  <2>2. recognized(e).name = c.rule.pattern /\ e.method = c.rule.method
    BY <1>2, <1>4 DEF patternKey
  <2>3. e.method \in {Star, r.method}
    BY <1>7 DEF Matches
  <2>4. ASSUME NEW k \in DOMAIN c.rule.components
        PROVE  /\ k \in DOMAIN recognized(e).components
               /\ recognized(e).components[k] = c.rule.components[k]
    <3>1. /\ k \in DOMAIN recognized(Some(g)).components
          /\ recognized(e).components[k] = recognized(Some(g)).components[k]
          /\ c.rule.components[k] = recognized(Some(g)).components[k]
      BY <1>4, <2>4 DEF intersectComponents
    <3> QED
      BY <1>6, <3>1
  <2>5. patternClause(c.rule, r)
    BY <2>1, <2>2, <2>4 DEF patternClause
  <2> QED
    BY <2>2, <2>3, <2>5 DEF RuleFires
<1> QED
  BY <1>2, <1>3, <1>4, <1>5, <1>7 DEF CandInv, Replaces


LEMMA DetectedReplace ==
    ASSUME NEW allow \in SUBSET Lines, NEW deny \in SUBSET Lines,
           NEW c \in DetectAllWithRecognizer(allow, deny)
    PROVE  CandInv(c, FALSE)
<1>1. ASSUME NEW S \in SUBSET Lines, NEW list \in Effects, c \in DetectList(S, list)
      PROVE  CandInv(c, FALSE)
  <2>1. \/ c \in DetectMethod(S, list) \/ c \in DetectURLSegment(S, list)
        \/ c \in DetectHostPath(S, list) \/ c \in DetectHostnameBelowTLD(S, list)
        \/ c \in DetectPattern(S, list)
    BY <1>1 DEF DetectList
  <2> QED
    BY <2>1, MethodReplaces, SegmentReplaces, HostPathReplaces, ParentReplaces, PatternReplaces
<1> QED
  BY <1>1 DEF DetectAllWithRecognizer, Effects

-----------------------------------------------------------------------------
(***************************************************************************)
(* What a scan picks.                                                      *)
(***************************************************************************)
LEMMA GroupOf ==
    ASSUME NEW cands, NEW g \in groups(cands)
    PROVE  g # {} /\ g \subseteq cands /\ \A c, d \in g : CanonicalKey(c) = CanonicalKey(d)
BY DEF groups, GroupsBy

LEMMA FirstOf ==
    ASSUME NEW chosen, chosen # {}
    PROVE  first(chosen) \in chosen
<1> HIDE DEF PatternShaped
<1>1. CASE \E c \in chosen : ~PatternShaped(c) /\ c.list # "deny"
  BY <1>1 DEF first, before
<1>2. CASE /\ \A c \in chosen : ~PatternShaped(c) => c.list = "deny"
           /\ \E c \in chosen : ~PatternShaped(c)
  BY <1>2 DEF first, before
<1>3. CASE /\ \A c \in chosen : PatternShaped(c)
           /\ \E c \in chosen : c.list # "deny"
  BY <1>3 DEF first, before
<1>4. CASE \A c \in chosen : PatternShaped(c) /\ c.list = "deny"
  BY <1>4 DEF first, before
<1> QED
  BY <1>1, <1>2, <1>3, <1>4

\* Truncation leaves candidates out, and adds none.
LEMMA TruncatedOf ==
    ASSUME NEW chosen
    PROVE  truncated(chosen) \subseteq chosen
BY DEF truncated

LEMMA ClusterOf ==
    ASSUME NEW c, NEW g \in Clusters(c)
    PROVE  g # {} /\ g \subseteq c.sources /\ \A e, f \in g : e.path[1] = f.path[1]
BY DEF Clusters, GroupsBy, CanonicalKey

\* "/a/*" fires below "/a", and not on "/a" itself.
LEMMA UnderFirst ==
    ASSUME NEW path \in Seq(STRING), path # <<>>
    PROVE  /\ <<path[1], Star>> \in Seq(STRING) /\ Front(<<path[1], Star>>) = <<path[1]>>
           /\ matchPathPattern(<<path[1], Star>>, path) \/ path = <<path[1]>>
<1>a. Len(path) \in Nat /\ Len(path) >= 1
  BY EmptySeq, LenProperties
<1>1. Len(path) \in Nat /\ Len(path) >= 1 /\ path[1] \in STRING
  BY <1>a, ElementOfSeq
<1> DEFINE p == <<path[1]>>
<1>2. p \in Seq(STRING) /\ Len(p) = 1 /\ p[1] = path[1]
  BY <1>1
<1>3. <<path[1], Star>> = Append(p, Star) /\ <<path[1], Star>> \in Seq(STRING)
  BY <1>1, LinesAssumption
<1>4. Front(<<path[1], Star>>) = p
  BY <1>2, <1>3, AppendedStar
<1> HIDE DEF p
<1>5. CASE Len(path) = 1
  <2>1. path = p
    BY <1>1, <1>2, <1>5, SeqEqual
  <2> QED
    BY <1>3, <1>4, <2>1 DEF p
<1>6. CASE Len(path) > 1
  <2>1. IsPrefix(p, path)
    BY <1>1, <1>2, <1>6, PrefixMeans
  <2>2. IsStrictPrefix(p, path)
    BY <1>2, <1>6, <2>1, StrictIsShorter
  <2>3. matchPathPattern(Append(p, Star), path)
    BY <1>2, <2>2, UnderPrefix
  <2> QED
    BY <1>3, <1>4, <2>3 DEF p
<1>7. Len(path) = 1 \/ Len(path) > 1
  <2> DEFINE n == Len(path)
  <2>1. n \in Nat /\ n >= 1
    BY <1>a
  <2> HIDE DEF n
  <2>2. n = 1 \/ n > 1
    BY <2>1
  <2> QED
    BY <2>2 DEF n
<1> QED
  BY <1>5, <1>6, <1>7, Zenon


\* What is synthesized from the first candidate of a group: its line fires on all that
\* its sources fire on, or the request is for the prefix itself.
LEMMA NarrowedReplace ==
    ASSUME NEW c, CandInv(c, FALSE), narrowable(c),
           NEW d \in synthesizeNarrowerFromConcentration(c)
    PROVE  CandInv(d, TRUE)
<1>1. PICK g \in Clusters(c) :
          d = Candidate(c.axis, c.list, g, [c.line EXCEPT !.path = <<Some(g).path[1], Star>>], NoRule)
  BY DEF synthesizeNarrowerFromConcentration
<1>a. g # {} /\ g \subseteq c.sources /\ \A e, f \in g : e.path[1] = f.path[1]
  BY ClusterOf
<1>b. Some(g) \in g
  BY <1>a, SomeOf
<1>2. /\ c.line \in Lines /\ c.sources \subseteq {e \in Lines : concrete(e)}
      /\ \A e \in c.sources : trimmed(e.path) # <<>>
  BY DEF CandInv, narrowable, CanonicalKey
<1>3. ASSUME NEW e \in g
      PROVE  /\ e \in Lines /\ concrete(e) /\ e.path \in Seq(STRING) /\ e.path # <<>>
             /\ e.path[1] = Some(g).path[1]
  <2>1. e \in Lines /\ concrete(e) /\ e.path \in Seq(STRING) /\ trimmed(e.path) # <<>>
    BY <1>2, <1>a DEF Lines
  <2>2. prefix(e.path) \in Seq(STRING) /\ IsStrictPrefix(prefix(e.path), e.path)
    BY <2>1, PrefixOf
  <2>3. Len(prefix(e.path)) < Len(e.path) /\ Len(prefix(e.path)) \in Nat
    BY <2>1, <2>2, StrictIsShorter, LenProperties
  <2>4. e.path # <<>>
    BY <2>1, <2>3, EmptySeq
  <2> QED
    BY <1>a, <1>b, <2>1, <2>4
<1> DEFINE under == <<Some(g).path[1], Star>>
<1>4. ASSUME NEW e \in g
      PROVE  /\ under \in Seq(STRING) /\ Front(under) = <<Some(g).path[1]>>
             /\ matchPathPattern(under, e.path) \/ e.path = <<Some(g).path[1]>>
  <2>1. e.path \in Seq(STRING) /\ e.path # <<>> /\ e.path[1] = Some(g).path[1]
    BY <1>3
  <2> QED
    BY <2>1, UnderFirst
<1>5. under \in Seq(STRING) /\ Front(under) = <<Some(g).path[1]>>
  BY <1>4, <1>b
<1> HIDE DEF under
<1>6. /\ d.list = c.list /\ d.sources = g /\ d.rule = NoRule
      /\ d.line = [c.line EXCEPT !.path = under]
  BY <1>1 DEF Candidate, under
<1>7. ~PatternShaped(d) /\ ~PatternShaped(c)
  BY <1>6 DEF PatternShaped, narrowable
<1>8. /\ d.line \in Lines /\ d.line.path = under
      /\ d.line.method = c.line.method /\ d.line.scheme = c.line.scheme
      /\ d.line.host = c.line.host /\ d.line.port = c.line.port
  BY <1>2, <1>5, <1>6 DEF Lines
<1>9. ASSUME NEW e \in g, NEW r \in Requests, Matches(e, r) PROVE LineFires(d, TRUE, r)
  <2>1. Matches(c.line, r)
    BY <1>7, <1>9, <1>a DEF CandInv, Replaces, LineFires
  <2>2. r.path = e.path
    BY <1>3, <1>9, ConcreteMatches, LinesAssumption
  <2>3. matchPathPattern(under, r.path) \/ r.path = Front(under)
    BY <1>4, <1>5, <2>2
  <2> QED
    BY <1>8, <2>1, <2>3 DEF Matches, LineFires
<1>10. d.sources \subseteq {e \in Lines : concrete(e)} /\ d.list \in Effects
  BY <1>2, <1>6, <1>a DEF CandInv
<1> QED
  BY <1>6, <1>7, <1>8, <1>9, <1>10 DEF CandInv, Replaces

LEMMA PickedReplace ==
    ASSUME NEW cands, \A c \in cands : CandInv(c, FALSE), NEW chosen \in Picks(cands)
    PROVE  \A c \in chosen : CandInv(c, chosen \notin groups(cands))
<1>1. CASE chosen \in groups(cands)
  BY <1>1, GroupOf
<1>2. CASE chosen \notin groups(cands)
  <2>1. PICK g \in groups(cands) : chosen \in preferNarrowerOnConcentration(g, cands)
    BY DEF Picks, Best
  <2>2. /\ narrowable(first(g))
        /\ \E d \in synthesizeNarrowerFromConcentration(first(g)) : chosen = {d}
    BY <1>2, <2>1 DEF preferNarrowerOnConcentration, BestNarrower, Narrower
  <2>3. CandInv(first(g), FALSE)
    BY <2>1, GroupOf, FirstOf
  <2> QED
    BY <1>2, <2>2, <2>3, NarrowedReplace
<1> QED
  BY <1>1, <1>2


-----------------------------------------------------------------------------
(***************************************************************************)
(* Files, offers and answers under way.                                    *)
(***************************************************************************)
FilesInv ==
    /\ file \in Lists /\ mem \in Lists
    /\ mem.declined \subseteq file.declined

\* A rule fires on what the sources it is numbered by fire on.
RulesInv ==
    /\ \E S : ruleFile \in Seq(S)
    /\ \A i \in DOMAIN ruleFile, r \in Requests : \A e \in ruleFile[i].id[2] :
          Matches(e, r) => RuleFires(ruleFile[i].rule, r)

OfferInv(offer) ==
    /\ DOMAIN offer = {"id", "cand", "all", "offered", "synthesized", "barred"}
    /\ offer.cand \in offer.all
    /\ \A d \in offer.all : CandInv(d, offer.synthesized)

ActiveInv == active # None => OfferInv(active)

ScansInv ==
    /\ DOMAIN scan = Scans
    /\ \A p \in Scans : scan[p].pc = "asking" =>
          \A d \in scan[p].chosen : CandInv(d, scan[p].synthesized)

CallOK(x) ==
    x # Idle =>
        /\ DOMAIN x = {"pc", "offer"}
        /\ OfferInv(x.offer)
        /\ x.pc = "generalize" => ~PatternShaped(x.offer.cand)
        /\ x.pc \in {"append rule", "remove sources"} => PatternShaped(x.offer.cand)
        /\ x.pc = "remove sources" =>
              \E i \in DOMAIN ruleFile : ruleFile[i].id = patternRuleID(x.offer.cand)
        /\ x.pc = "reload declined" => sourcesOf(x.offer) \in file.declined

CallsInv ==
    /\ DOMAIN call = Calls
    /\ \A c \in Calls : CallOK(call[c])

SoundInv == FilesInv /\ RulesInv /\ ActiveInv /\ ScansInv /\ CallsInv

\* One list of a file is rewritten.
Rewritten(f, list, S) == [f EXCEPT ![list] = S]

LEMMA ListRewritten ==
    ASSUME NEW f \in Lists, NEW list \in Effects, NEW S \in SUBSET Lines
    PROVE  /\ Rewritten(f, list, S) \in Lists /\ Rewritten(f, list, S).declined = f.declined
           /\ f[list] \in SUBSET Lines
           /\ \A effect \in Effects :
                 Rewritten(f, list, S)[effect] = IF effect = list THEN S ELSE f[effect]
<1>1. CASE list = "allow"
  BY <1>1 DEF Lists, Effects, Rewritten
<1>2. CASE list = "deny"
  BY <1>2 DEF Lists, Effects, Rewritten
<1> QED
  BY <1>1, <1>2 DEF Effects

\* What an answer does to the offer it took.
LEMMA TakenSound ==
    ASSUME SoundInv, NEW c \in Calls, call[c] # Idle
    PROVE  /\ DOMAIN call[c] = {"pc", "offer"}
           /\ OfferInv(call[c].offer) /\ CandInv(call[c].offer.cand, call[c].offer.synthesized)
           /\ call[c].offer.cand.list \in Effects
           /\ sourcesOf(call[c].offer) \in SUBSET Lines
           /\ call[c].pc = "generalize" =>
                 ~PatternShaped(call[c].offer.cand) /\ call[c].offer.cand.line \in Lines
<1>1. CallOK(call[c])
  BY DEF SoundInv, CallsInv
<1>2. DOMAIN call[c] = {"pc", "offer"} /\ OfferInv(call[c].offer)
  BY <1>1 DEF CallOK
<1>3. CandInv(call[c].offer.cand, call[c].offer.synthesized)
  BY <1>2 DEF OfferInv
<1> QED
  BY <1>1, <1>2, <1>3 DEF CandInv, CallOK, sourcesOf, CanonicalKey

LEMMA Busy ==
    ASSUME NEW c, NEW pc, at(c, pc), pc # "idle"
    PROVE  call[c] # Idle /\ call[c].pc = pc
<1>1. Idle.pc = "idle"
  BY DEF Idle
<1> QED
  BY <1>1 DEF at

\* The files after a rewrite of lines.
LEMMA GeneralizeWrites ==
    ASSUME SoundInv, NEW c \in Calls, Generalize(c)
    PROVE  /\ file' \in Lists /\ file'.declined = file.declined
           /\ call[c] # Idle /\ call[c].pc = "generalize"
           /\ \A effect \in Effects : file'[effect] =
                 IF effect # call[c].offer.cand.list THEN file[effect]
                 ELSE {e \in file[effect] : e \notin call[c].offer.cand.sources
                                              /\ ~subsumes(call[c].offer.cand.line, e)}
                         \cup {call[c].offer.cand.line}
<1>1. call[c] # Idle /\ call[c].pc = "generalize"
  BY DEF Generalize, at, Idle
<1> DEFINE cand == call[c].offer.cand
           new == {e \in file[cand.list] : e \notin cand.sources /\ ~subsumes(cand.line, e)}
                     \cup {cand.line}
<1>2. cand.list \in Effects /\ cand.line \in Lines /\ file \in Lists
  BY <1>1, TakenSound DEF SoundInv, FilesInv
<1>3. file[cand.list] \in SUBSET Lines
  BY <1>2, ListRewritten
<1>4. new \in SUBSET Lines
  BY <1>2, <1>3
<1>5. file' = Rewritten(file, cand.list, new)
  BY DEF Generalize, Rewritten
<1> HIDE DEF new
<1>6. /\ file' \in Lists /\ file'.declined = file.declined
      /\ \A effect \in Effects : file'[effect] = IF effect = cand.list THEN new ELSE file[effect]
  BY <1>2, <1>4, <1>5, ListRewritten
<1> QED
  BY <1>1, <1>6 DEF new

LEMMA RemoveWrites ==
    ASSUME SoundInv, NEW c \in Calls, RemoveSources(c)
    PROVE  /\ file' \in Lists /\ file'.declined = file.declined
           /\ call[c] # Idle /\ call[c].pc = "remove sources"
           /\ \A effect \in Effects : file'[effect] =
                 IF effect # call[c].offer.cand.list THEN file[effect]
                 ELSE file[effect] \ call[c].offer.cand.sources
<1>1. call[c] # Idle /\ call[c].pc = "remove sources"
  BY Busy DEF RemoveSources
<1> DEFINE cand == call[c].offer.cand
           new == file[cand.list] \ cand.sources
<1>2. cand.list \in Effects /\ file \in Lists
  BY <1>1, TakenSound DEF SoundInv, FilesInv
<1>3. new \in SUBSET Lines
  BY <1>2, ListRewritten
<1>4. file' = Rewritten(file, cand.list, new)
  BY DEF RemoveSources, Rewritten
<1> HIDE DEF new
<1>5. /\ file' \in Lists /\ file'.declined = file.declined
      /\ \A effect \in Effects : file'[effect] = IF effect = cand.list THEN new ELSE file[effect]
  BY <1>2, <1>3, <1>4, ListRewritten
<1> QED
  BY <1>1, <1>5 DEF new

LEMMA Appended ==
    ASSUME NEW S, NEW s \in Seq(S), NEW x
    PROVE  /\ \E T : Append(s, x) \in Seq(T)
           /\ Len(s) \in Nat /\ DOMAIN s = 1..Len(s) /\ DOMAIN Append(s, x) = 1..(Len(s) + 1)
           /\ Append(s, x)[Len(s) + 1] = x
           /\ \A i \in DOMAIN s : Append(s, x)[i] = s[i]
<1> DEFINE T == S \cup {x}
<1>1. s \in Seq(T) /\ x \in T /\ Len(s) \in Nat /\ DOMAIN s = 1..Len(s)
  <2>1. Len(s) \in Nat /\ DOMAIN s = 1..Len(s)
    BY LenProperties
  <2>2. \A i \in 1..Len(s) : s[i] \in S
    BY ElementOfSeq
  <2>3. s \in [1..Len(s) -> T]
    BY <2>1, <2>2
  <2> QED
    BY <2>1, <2>3, SeqDef
<1> HIDE DEF T
<1>2. /\ Append(s, x) \in Seq(T) /\ Len(Append(s, x)) = Len(s) + 1
      /\ \A i \in 1..(Len(s) + 1) : Append(s, x)[i] = IF i = Len(s) + 1 THEN x ELSE s[i]
  BY <1>1, AppendProperties
<1>3. DOMAIN Append(s, x) = 1..(Len(s) + 1)
  BY <1>2, LenProperties
<1>4. ASSUME NEW i \in DOMAIN s PROVE Append(s, x)[i] = s[i]
  BY <1>1, <1>2
<1>5. Append(s, x)[Len(s) + 1] = x
  BY <1>1, <1>2
<1> QED
  BY <1>1, <1>2, <1>3, <1>4, <1>5

\* The rule file after a rule was appended, or found there.
LEMMA AppendWrites ==
    ASSUME SoundInv, NEW c \in Calls, AppendRule(c)
    PROVE  LET new == [id |-> patternRuleID(call[c].offer.cand), rule |-> call[c].offer.cand.rule]
           IN  /\ file' = file
               /\ \/ /\ ruleFile' = ruleFile
                     /\ \E i \in DOMAIN ruleFile : ruleFile[i].id = new.id
                  \/ /\ \E S : ruleFile' \in Seq(S)
                     /\ Len(ruleFile) \in Nat /\ DOMAIN ruleFile = 1..Len(ruleFile)
                     /\ DOMAIN ruleFile' = 1..(Len(ruleFile) + 1)
                     /\ ruleFile'[Len(ruleFile) + 1] = new
                     /\ \A i \in DOMAIN ruleFile : ruleFile'[i] = ruleFile[i]
<1> DEFINE new == [id |-> patternRuleID(call[c].offer.cand), rule |-> call[c].offer.cand.rule]
<1>1. PICK S : ruleFile \in Seq(S)
  BY DEF SoundInv, RulesInv
<1>2. /\ file' = file
      /\ ruleFile' = IF numbered(ruleFile, patternRuleID(call[c].offer.cand)) # {} THEN ruleFile
                     ELSE Append(ruleFile, new)
  BY DEF AppendRule
<1>3. new.id = patternRuleID(call[c].offer.cand)
  OBVIOUS
<1> HIDE DEF new
<1>4. CASE numbered(ruleFile, patternRuleID(call[c].offer.cand)) # {}
  BY <1>2, <1>3, <1>4 DEF numbered, new
<1>5. CASE ruleFile' = Append(ruleFile, new)
  <2>1. /\ \E T : Append(ruleFile, new) \in Seq(T)
        /\ Len(ruleFile) \in Nat /\ DOMAIN ruleFile = 1..Len(ruleFile)
        /\ DOMAIN Append(ruleFile, new) = 1..(Len(ruleFile) + 1)
        /\ Append(ruleFile, new)[Len(ruleFile) + 1] = new
        /\ \A i \in DOMAIN ruleFile : Append(ruleFile, new)[i] = ruleFile[i]
    BY <1>1, Appended
  <2> QED
    BY <1>2, <1>5, <2>1 DEF new
<1> QED
  BY <1>2, <1>4, <1>5

\* Rules and declines are only ever added.
LEMMA OnlyAdded ==
    ASSUME SoundInv, [Next]_vars
    PROVE  /\ \A i \in DOMAIN ruleFile : i \in DOMAIN ruleFile' /\ ruleFile'[i] = ruleFile[i]
           /\ file.declined \subseteq file'.declined
<1>1. CASE UNCHANGED <<file, ruleFile>>
  BY <1>1
<1>2. ASSUME NEW c \in Calls, Generalize(c)
      PROVE  ruleFile' = ruleFile /\ file'.declined = file.declined
  BY <1>2, GeneralizeWrites DEF Generalize
<1>3. ASSUME NEW c \in Calls, RemoveSources(c)
      PROVE  ruleFile' = ruleFile /\ file'.declined = file.declined
  BY <1>3, RemoveWrites DEF RemoveSources
<1>4. ASSUME NEW c \in Calls, AppendRule(c)
      PROVE  /\ \A i \in DOMAIN ruleFile : i \in DOMAIN ruleFile' /\ ruleFile'[i] = ruleFile[i]
             /\ file' = file
  <2>1. CASE ruleFile' = ruleFile
    BY <1>4, <2>1 DEF AppendRule
  <2>2. CASE ruleFile' # ruleFile
    <3>1. /\ Len(ruleFile) \in Nat /\ DOMAIN ruleFile = 1..Len(ruleFile)
          /\ DOMAIN ruleFile' = 1..(Len(ruleFile) + 1)
          /\ \A i \in DOMAIN ruleFile : ruleFile'[i] = ruleFile[i]
      BY <1>4, <2>2, AppendWrites
    <3>2. file' = file
      BY <1>4 DEF AppendRule
    <3>3. \A i \in DOMAIN ruleFile : i \in DOMAIN ruleFile'
      BY <3>1
    <3> QED
      BY <3>1, <3>2, <3>3
  <2> QED
    BY <2>1, <2>2
<1>5. ASSUME NEW c \in Calls, AddDeclinedSuggestion(c)
      PROVE  ruleFile' = ruleFile /\ file.declined \subseteq file'.declined
  BY <1>5 DEF AddDeclinedSuggestion, SoundInv, FilesInv, Lists
<1>6. ASSUME NEW l, Add(l) \/ Withdraw(l) \/ Toggle
      PROVE  ruleFile' = ruleFile /\ file'.declined = file.declined
  BY <1>6 DEF Add, Withdraw, Toggle, EditWith, SoundInv, FilesInv, Lists
<1> QED
  BY <1>1, <1>2, <1>3, <1>4, <1>5, <1>6
  DEF Next, Answers, Tick, revalidateActive, SuggestNow, Detect, Offer, AskFails, Accept, DeclineAxis,
      DeclineLast, Skip, WriteFails, Reload, WatcherReloads, RulesReload, Restart, vars, files


LEMMA FilesStep ==
    ASSUME SoundInv, [Next]_vars
    PROVE  FilesInv'
<1>0. file \in Lists /\ mem \in Lists /\ mem.declined \subseteq file.declined
  BY DEF SoundInv, FilesInv
<1>1. CASE UNCHANGED <<file, mem>>
  BY <1>0, <1>1 DEF FilesInv
<1>2. ASSUME NEW c \in Calls, Generalize(c) PROVE FilesInv'
  <2>1. mem' = mem
    BY <1>2 DEF Generalize, writes
  <2> QED
    BY <1>0, <1>2, <2>1, GeneralizeWrites DEF FilesInv
<1>3. ASSUME NEW c \in Calls, RemoveSources(c) PROVE FilesInv'
  <2>1. mem' = mem
    BY <1>3 DEF RemoveSources, writes
  <2> QED
    BY <1>0, <1>3, <2>1, RemoveWrites DEF FilesInv
<1>4. ASSUME NEW c \in Calls, AddDeclinedSuggestion(c) PROVE FilesInv'
  <2>1. call[c] # Idle
    BY <1>4, Busy DEF AddDeclinedSuggestion
  <2>2. sourcesOf(call[c].offer) \in SUBSET Lines
    BY <2>1, TakenSound
  <2>3. /\ mem' = mem
        /\ file' = [file EXCEPT !.declined = @ \cup {sourcesOf(call[c].offer)}]
    BY <1>4 DEF AddDeclinedSuggestion, writes
  <2> QED
    BY <1>0, <2>2, <2>3 DEF FilesInv, Lists
<1>5. ASSUME NEW l \in Editable, Add(l) \/ Withdraw(l) PROVE FilesInv'
  <2>1. l \in Lines
    BY LinesAssumption
  <2>2. /\ mem' = mem
        /\ \/ file' = [file EXCEPT !.allow = @ \cup {l}]
           \/ file' = [file EXCEPT !.allow = @ \ {l}]
    BY <1>5 DEF Add, Withdraw, Toggle, EditWith
  <2> QED
    BY <1>0, <2>1, <2>2 DEF FilesInv, Lists
<1>6. CASE file' = file /\ mem' = file
  BY <1>0, <1>6 DEF FilesInv
<1>7. CASE Toggle
  <2>1. mem' = mem /\ file' = [file EXCEPT !.enabled = ~@]
    BY <1>7 DEF Toggle, EditWith
  <2>2. file' \in Lists /\ file'.declined = file.declined
    BY <1>0, <2>1 DEF Lists
  <2> QED
    BY <1>0, <2>1, <2>2 DEF FilesInv
<1> QED
  BY <1>1, <1>2, <1>3, <1>4, <1>5, <1>6, <1>7
  DEF Next, Answers, Tick, revalidateActive, SuggestNow, Detect, Offer, AskFails, Accept, DeclineAxis,
      DeclineLast, Skip, AppendRule, WriteFails, Reload, WatcherReloads, RulesReload, Restart, vars, files

LEMMA RulesStep ==
    ASSUME SoundInv, [Next]_vars
    PROVE  RulesInv'
<1>0. RulesInv
  BY DEF SoundInv
<1>1. CASE ruleFile' = ruleFile
  BY <1>0, <1>1 DEF RulesInv
<1>2. ASSUME NEW c \in Calls, AppendRule(c) PROVE RulesInv'
  <2>1. call[c] # Idle /\ call[c].pc = "append rule"
    BY <1>2, Busy DEF AppendRule
  <2> DEFINE cand == call[c].offer.cand
  <2>2. CandInv(cand, call[c].offer.synthesized) /\ PatternShaped(cand)
    BY <2>1, TakenSound DEF SoundInv, CallsInv, CallOK
  <2>3. CASE ruleFile' = ruleFile
    BY <1>1, <2>3
  <2>4. CASE ruleFile' # ruleFile
    <3> DEFINE new == [id |-> patternRuleID(cand), rule |-> cand.rule]
    <3>1. /\ \E S : ruleFile' \in Seq(S)
          /\ Len(ruleFile) \in Nat /\ DOMAIN ruleFile = 1..Len(ruleFile)
          /\ DOMAIN ruleFile' = 1..(Len(ruleFile) + 1)
          /\ ruleFile'[Len(ruleFile) + 1] = new
          /\ \A i \in DOMAIN ruleFile : ruleFile'[i] = ruleFile[i]
      BY <1>2, <2>4, AppendWrites
    <3>2. new.id[2] = cand.sources /\ new.rule = cand.rule
      BY DEF patternRuleID
    <3>3. \A e \in cand.sources, r \in Requests : Matches(e, r) => RuleFires(cand.rule, r)
      BY <2>2 DEF CandInv, Replaces
    <3> HIDE DEF new
    <3>4. ASSUME NEW i \in DOMAIN ruleFile', NEW r \in Requests, NEW e \in ruleFile'[i].id[2],
                 Matches(e, r)
          PROVE  RuleFires(ruleFile'[i].rule, r)
      <4>1. i \in DOMAIN ruleFile \/ i = Len(ruleFile) + 1
        BY <3>1
      <4>2. CASE i \in DOMAIN ruleFile
        BY <1>0, <3>1, <3>4, <4>2 DEF RulesInv
      <4>3. CASE i = Len(ruleFile) + 1
        BY <3>1, <3>2, <3>3, <3>4, <4>3
      <4> QED
        BY <4>1, <4>2, <4>3
    <3> QED
      BY <3>1, <3>4 DEF RulesInv
  <2> QED
    BY <2>3, <2>4
<1> QED
  BY <1>1, <1>2
  DEF Next, Answers, Tick, revalidateActive, SuggestNow, Detect, Offer, AskFails, Accept, DeclineAxis,
      DeclineLast, Skip, Generalize, RemoveSources, AddDeclinedSuggestion, WriteFails, Reload,
      Add, Withdraw, Toggle, EditWith, WatcherReloads, RulesReload, Restart, vars, files

LEMMA ActiveStep ==
    ASSUME SoundInv, [Next]_vars
    PROVE  ActiveInv'
<1>0. ActiveInv
  BY DEF SoundInv
<1>1. CASE active' = active \/ active' = None
  BY <1>0, <1>1 DEF ActiveInv
<1>2. ASSUME NEW p \in Scans, Offer(p) PROVE ActiveInv'
  <2>1. \A d \in scan[p].chosen : CandInv(d, scan[p].synthesized)
    BY <1>2 DEF SoundInv, ScansInv, Offer
  <2>2. PICK top \in scan[p].chosen :
           active' = [id |-> scan[p].id, cand |-> top, all |-> scan[p].chosen,
                      offered |-> {top.axis},
                      synthesized |-> scan[p].synthesized, barred |-> scan[p].barred]
    BY <1>2 DEF Offer
  <2> QED
    BY <2>1, <2>2 DEF ActiveInv, OfferInv
<1>3. CASE DeclineAxis
  <2>1. OfferInv(active)
    BY <1>0, <1>3 DEF ActiveInv, DeclineAxis
  <2>2. PICK next \in otherAxes(active) :
           active' = [active EXCEPT !.cand = next, !.offered = @ \cup {next.axis}]
    BY <1>3 DEF DeclineAxis
  <2>3. next \in active.all
    BY DEF otherAxes
  <2>4. /\ DOMAIN active' = DOMAIN active /\ active'.cand = next
        /\ active'.all = active.all /\ active'.synthesized = active.synthesized
    BY <2>1, <2>2 DEF OfferInv
  <2> QED
    BY <2>1, <2>3, <2>4 DEF ActiveInv, OfferInv
<1> QED
  BY <1>1, <1>2, <1>3
  DEF Next, Answers, Tick, revalidateActive, SuggestNow, Detect, AskFails, Accept, Take,
      DeclineLast, Skip, Generalize, AppendRule, RemoveSources, AddDeclinedSuggestion, WriteFails, Reload,
      writes, manager, Add, Withdraw, Toggle, EditWith, WatcherReloads, RulesReload, Restart, vars

LEMMA ScansStep ==
    ASSUME SoundInv, [Next]_vars
    PROVE  ScansInv'
<1>0. /\ DOMAIN scan = Scans
      /\ \A p \in Scans : scan[p].pc = "asking" =>
            \A d \in scan[p].chosen : CandInv(d, scan[p].synthesized)
  BY DEF SoundInv, ScansInv
<1>1. CASE scan' = scan
  BY <1>0, <1>1 DEF ScansInv
<1>2. ASSUME NEW p \in Scans, NEW x, scan' = [scan EXCEPT ![p] = x],
             x.pc = "asking" => \A d \in x.chosen : CandInv(d, x.synthesized)
      PROVE  ScansInv'
  <2>1. DOMAIN scan' = Scans /\ scan'[p] = x /\ \A q \in Scans : q # p => scan'[q] = scan[q]
    BY <1>0, <1>2
  <2> QED
    BY <1>0, <1>2, <2>1 DEF ScansInv
<1>3. ASSUME NEW p \in Scans, NEW x, scan' = [scan EXCEPT ![p] = x], x.pc # "asking"
      PROVE  ScansInv'
  BY <1>2, <1>3
<1>4. Idle.pc # "asking"
  BY DEF Idle
<1>5. CASE Tick
  <2>1. /\ "tick" \in Scans /\ [pc |-> "revalidating", offer |-> active].pc # "asking"
        /\ [pc |-> "detecting"].pc # "asking"
    BY DEF Scans
  <2>2. \/ scan' = [scan EXCEPT !["tick"] = [pc |-> "revalidating", offer |-> active]]
        \/ scan' = [scan EXCEPT !["tick"] = [pc |-> "detecting"]]
    BY <1>5 DEF Tick
  <2> QED
    BY <1>3, <2>1, <2>2
<1>6. CASE revalidateActive
  BY <1>3, <1>4, <1>6 DEF revalidateActive, Scans
<1>7. CASE SuggestNow
  <2>1. "now" \in Scans /\ [pc |-> "detecting"].pc # "asking"
    BY DEF Scans
  <2>2. scan' = [scan EXCEPT !["now"] = [pc |-> "detecting"]]
    BY <1>7 DEF SuggestNow
  <2> QED
    BY <1>3, <2>1, <2>2
<1>8. ASSUME NEW p \in Scans, Offer(p) \/ AskFails(p) PROVE ScansInv'
  BY <1>3, <1>4, <1>8 DEF Offer, AskFails
<1>9. ASSUME NEW p \in Scans, Detect(p) PROVE ScansInv'
  <2>1. CASE scan' = [scan EXCEPT ![p] = Idle]
    BY <1>3, <1>4, <2>1
  <2>2. ASSUME NEW chosen \in Picks(Filtered),
               scan' = [scan EXCEPT ![p] =
                   [pc |-> "asking", chosen |-> truncated(chosen), id |-> offers + 1,
                    synthesized |-> chosen \notin groups(Filtered), barred |-> settled]]
        PROVE  ScansInv'
    <3>1. \A d \in Filtered : CandInv(d, FALSE)
      BY DetectedReplace DEF Filtered, SoundInv, FilesInv, Lists
    <3>2. \A d \in chosen : CandInv(d, chosen \notin groups(Filtered))
      BY <3>1, PickedReplace
    <3> DEFINE x == [pc |-> "asking", chosen |-> truncated(chosen), id |-> offers + 1,
                     synthesized |-> chosen \notin groups(Filtered), barred |-> settled]
    <3>3. x.chosen = truncated(chosen) /\ x.synthesized = (chosen \notin groups(Filtered))
      OBVIOUS
    <3>4. scan' = [scan EXCEPT ![p] = x]
      BY <2>2
    <3> HIDE DEF x
    <3> QED
      BY <1>2, <3>2, <3>3, <3>4, TruncatedOf
  <2> QED
    BY <1>9, <2>1, <2>2 DEF Detect
<1>10. CASE Restart
  BY <1>4, <1>10 DEF Restart, ScansInv
<1> QED
  BY <1>1, <1>5, <1>6, <1>7, <1>8, <1>9, <1>10
  DEF Next, Answers, Accept, DeclineAxis, DeclineLast, Skip, Generalize, AppendRule, RemoveSources,
      AddDeclinedSuggestion, WriteFails, Reload, writes, Add, Withdraw, Toggle, EditWith, WatcherReloads,
      RulesReload, vars


LEMMA CallStep ==
    ASSUME SoundInv, [Next]_vars, NEW c \in Calls, NEW x,
           call' = [call EXCEPT ![c] = x], CallOK(x)'
    PROVE  CallsInv'
<1>0. /\ DOMAIN call = Calls /\ \A d \in Calls : CallOK(call[d])
      /\ \A i \in DOMAIN ruleFile : i \in DOMAIN ruleFile' /\ ruleFile'[i] = ruleFile[i]
      /\ file.declined \subseteq file'.declined
  BY OnlyAdded DEF SoundInv, CallsInv
<1>2. /\ DOMAIN call' = Calls /\ call'[c] = x
      /\ \A d \in Calls : d # c => call'[d] = call[d]
  BY <1>0
<1>3. ASSUME NEW d \in Calls, d # c PROVE CallOK(call[d])'
  <2> PICK y : y = call[d]
    OBVIOUS
  <2>1. CallOK(y)
    BY <1>0
  <2>2. CallOK(y)'
    BY <1>0, <2>1 DEF CallOK
  <2>3. call'[d] = y
    BY <1>2, <1>3
  <2> QED
    BY <2>2, <2>3
<1> QED
  BY <1>2, <1>3 DEF CallsInv

LEMMA CallsUnchanged ==
    ASSUME SoundInv, [Next]_vars, call' = call
    PROVE  CallsInv'
<1>0. /\ DOMAIN call = Calls /\ \A d \in Calls : CallOK(call[d])
      /\ \A i \in DOMAIN ruleFile : i \in DOMAIN ruleFile' /\ ruleFile'[i] = ruleFile[i]
      /\ file.declined \subseteq file'.declined
  BY OnlyAdded DEF SoundInv, CallsInv
<1>1. ASSUME NEW d \in Calls PROVE CallOK(call[d])'
  <2> PICK y : y = call[d]
    OBVIOUS
  <2>1. CallOK(y)
    BY <1>0
  <2>2. CallOK(y)'
    BY <1>0, <2>1 DEF CallOK
  <2> QED
    BY <2>2
<1> QED
  BY <1>0, <1>1 DEF CallsInv

LEMMA CallsStep ==
    ASSUME SoundInv, [Next]_vars
    PROVE  CallsInv'
<1>0. /\ DOMAIN call = Calls /\ \A d \in Calls : CallOK(call[d]) /\ ActiveInv
  BY DEF SoundInv, CallsInv
<1>1. CASE call' = call
  BY <1>1, CallsUnchanged
<1>2. CallOK(Idle)'
  BY DEF CallOK
\* An answer takes the offer.
<1>3. ASSUME NEW c \in Calls, NEW pc, Take(c, pc),
             pc \in {"append rule", "generalize", "add declined"},
             pc = "append rule" => PatternShaped(active.cand),
             pc = "generalize" => ~PatternShaped(active.cand)
      PROVE  CallsInv'
  <2>1. OfferInv(active) /\ call' = [call EXCEPT ![c] = [pc |-> pc, offer |-> active]]
    BY <1>0, <1>3 DEF Take, ActiveInv, SoundInv
  <2> PICK offer : offer = active
    OBVIOUS
  <2> DEFINE x == [pc |-> pc, offer |-> offer]
  <2>2. /\ DOMAIN x = {"pc", "offer"} /\ x.pc = pc /\ x.offer = offer
        /\ call' = [call EXCEPT ![c] = x]
    BY <2>1
  <2>3. OfferInv(offer)
    BY <2>1
  <2> HIDE DEF x
  <2>4. CallOK(x)'
    BY <1>3, <2>2, <2>3 DEF CallOK
  <2> QED
    BY <2>2, <2>4, CallStep
<1>4. ASSUME NEW c \in Calls, Accept(c) PROVE CallsInv'
  <2>1. \/ PatternShaped(active.cand) /\ Take(c, "append rule")
        \/ ~PatternShaped(active.cand) /\ Take(c, "generalize")
    BY <1>4 DEF Accept
  <2> QED
    BY <1>3, <2>1
<1>5. ASSUME NEW c \in Calls, DeclineLast(c) PROVE CallsInv'
  BY <1>3, <1>5 DEF DeclineLast
\* An answer goes on.
<1>6. ASSUME NEW c \in Calls, NEW pc, call[c] # Idle, step(c, pc), pc # "idle",
             pc \in {"remove sources", "reload", "reload declined"},
             pc = "remove sources" =>
                 /\ PatternShaped(call[c].offer.cand)
                 /\ \E i \in DOMAIN ruleFile' : ruleFile'[i].id = patternRuleID(call[c].offer.cand),
             pc = "reload declined" => sourcesOf(call[c].offer) \in file'.declined
      PROVE  CallsInv'
  <2> PICK y : y = call[c]
    OBVIOUS
  <2>1. call' = [call EXCEPT ![c] = [y EXCEPT !.pc = pc]]
    BY <1>6 DEF step
  <2> DEFINE x == [y EXCEPT !.pc = pc]
  <2>2. DOMAIN y = {"pc", "offer"} /\ OfferInv(y.offer)
    BY <1>6, TakenSound
  <2>3. DOMAIN x = {"pc", "offer"} /\ x.pc = pc /\ x.offer = y.offer
    BY <2>2
  <2> HIDE DEF x
  <2>4. CallOK(x)'
    BY <1>6, <2>2, <2>3 DEF CallOK
  <2> QED
    BY <2>1, <2>4, CallStep DEF x
<1>7. ASSUME NEW c \in Calls, Generalize(c) PROVE CallsInv'
  BY <1>6, <1>7, GeneralizeWrites DEF Generalize, writes
<1>8. ASSUME NEW c \in Calls, AppendRule(c) PROVE CallsInv'
  <2>1. call[c] # Idle /\ call[c].pc = "append rule"
    BY <1>8, Busy DEF AppendRule
  <2>2. PatternShaped(call[c].offer.cand)
    BY <1>0, <2>1 DEF CallOK
  <2>3. step(c, "remove sources")
    BY <1>8 DEF AppendRule
  <2>4. \E i \in DOMAIN ruleFile' : ruleFile'[i].id = patternRuleID(call[c].offer.cand)
    <3> DEFINE new == [id |-> patternRuleID(call[c].offer.cand), rule |-> call[c].offer.cand.rule]
    <3>1. new.id = patternRuleID(call[c].offer.cand)
      OBVIOUS
    <3>2. \/ ruleFile' = ruleFile /\ \E i \in DOMAIN ruleFile : ruleFile[i].id = new.id
          \/ /\ Len(ruleFile) \in Nat /\ DOMAIN ruleFile' = 1..(Len(ruleFile) + 1)
             /\ ruleFile'[Len(ruleFile) + 1] = new
      BY <1>8, AppendWrites
    <3> HIDE DEF new
    <3>3. CASE ruleFile' = ruleFile /\ \E i \in DOMAIN ruleFile : ruleFile[i].id = new.id
      BY <3>1, <3>3
    <3>4. CASE /\ Len(ruleFile) \in Nat /\ DOMAIN ruleFile' = 1..(Len(ruleFile) + 1)
               /\ ruleFile'[Len(ruleFile) + 1] = new
      <4>1. Len(ruleFile) + 1 \in DOMAIN ruleFile'
        BY <3>4
      <4> QED
        BY <3>1, <3>4, <4>1
    <3> QED
      BY <3>2, <3>3, <3>4
  <2> QED
    BY <1>6, <2>1, <2>2, <2>3, <2>4
<1>9. ASSUME NEW c \in Calls, RemoveSources(c) PROVE CallsInv'
  BY <1>6, <1>9, RemoveWrites DEF RemoveSources, writes
<1>10. ASSUME NEW c \in Calls, AddDeclinedSuggestion(c) PROVE CallsInv'
  <2>1. call[c] # Idle
    BY <1>10, Busy DEF AddDeclinedSuggestion
  <2>2. step(c, "reload declined") /\ sourcesOf(call[c].offer) \in file'.declined
    BY <1>10 DEF AddDeclinedSuggestion, writes, SoundInv, FilesInv, Lists
  <2> QED
    BY <1>6, <2>1, <2>2
\* An answer ends.
<1>11. ASSUME NEW c \in Calls, step(c, "idle") PROVE CallsInv'
  BY <1>2, <1>11, CallStep DEF step
<1>12. ASSUME NEW c \in Calls, WriteFails(c) \/ Reload(c) PROVE CallsInv'
  BY <1>11, <1>12 DEF WriteFails, Reload
<1>13. CASE Restart
  BY <1>2, <1>13 DEF Restart, CallsInv
<1> QED
  BY <1>1, <1>4, <1>5, <1>7, <1>8, <1>9, <1>10, <1>12, <1>13
  DEF Next, Answers, Tick, revalidateActive, SuggestNow, Detect, Offer, AskFails, DeclineAxis, Skip,
      Add, Withdraw, Toggle, EditWith, WatcherReloads, RulesReload, vars


LEMMA SoundInit ==
    ASSUME Init
    PROVE  SoundInv
<1>1. file \in Lists /\ mem = file /\ active = None
  BY LinesAssumption DEF Init
<1>4. RulesInv
  <2>1. PICK s \in Starts : ruleFile = s.rules
    BY DEF Init
  <2>2. /\ s.rules \in Seq(ToSet(s.rules))
        /\ \A i \in DOMAIN s.rules, r \in Requests : \A e \in s.rules[i].id[2] :
              Matches(e, r) => RuleFires(s.rules[i].rule, r)
    BY LinesAssumption
  <2> QED
    BY <2>1, <2>2 DEF RulesInv
<1>2. /\ DOMAIN scan = Scans /\ \A p \in Scans : scan[p] = Idle
      /\ DOMAIN call = Calls /\ \A c \in Calls : call[c] = Idle
  BY DEF Init
<1>3. Idle.pc # "asking"
  BY DEF Idle
<1> QED
  BY <1>1, <1>2, <1>3, <1>4
  DEF SoundInv, FilesInv, ActiveInv, ScansInv, CallsInv, CallOK

LEMMA SoundInvariant == Spec => []SoundInv
<1>1. SoundInv /\ [Next]_vars => SoundInv'
  BY FilesStep, RulesStep, ActiveStep, ScansStep, CallsStep DEF SoundInv
<1> QED
  BY <1>1, SoundInit, PTL DEF Spec

-----------------------------------------------------------------------------
(***************************************************************************)
(* What was decided.                                                       *)
(***************************************************************************)
SettledInv ==
    /\ settled \subseteq skipped \cup mem.declined
    /\ active # None /\ ~active.synthesized =>
          \A d \in active.all : CanonicalKey(d) \notin active.barred
    /\ \A p \in Scans : scan[p].pc = "asking" /\ ~scan[p].synthesized =>
          \A d \in scan[p].chosen : CanonicalKey(d) \notin scan[p].barred

\* What is settled stays out of a scan's choice: the first filter or the third.
LEMMA SettledFiltered ==
    ASSUME settled \subseteq skipped \cup mem.declined,
           NEW chosen \in groups(Filtered), NEW d \in chosen
    PROVE  CanonicalKey(d) \notin settled
<1>1. d \in Filtered
  BY GroupOf
<1> QED
  BY <1>1 DEF Filtered

LEMMA SettledStep ==
    ASSUME SoundInv, SoundInv', SettledInv, [Next]_vars
    PROVE  SettledInv'
<1>0. /\ settled \subseteq skipped \cup mem.declined
      /\ mem.declined \subseteq file.declined
      /\ DOMAIN scan = Scans
  BY DEF SettledInv, SoundInv, FilesInv, ScansInv
\* The history, and what was asked and offered, one by one.
<1>1. (settled \subseteq skipped \cup mem.declined)'
  <2>1. CASE UNCHANGED <<settled, skipped, mem>>
    BY <1>0, <2>1
  <2>2. ASSUME NEW c \in Calls, Skip(c) PROVE (settled \subseteq skipped \cup mem.declined)'
    BY <1>0, <2>2 DEF Skip, files
  <2>3. ASSUME NEW c \in Calls, Reload(c) PROVE (settled \subseteq skipped \cup mem.declined)'
    <3>1. mem' = file /\ skipped' = skipped
      BY <2>3 DEF Reload, manager
    <3>2. CASE at(c, "reload declined")
      <4>1. call[c] # Idle /\ call[c].pc = "reload declined"
        BY <3>2, Busy
      <4>2. sourcesOf(call[c].offer) \in file.declined
        BY <4>1 DEF SoundInv, CallsInv, CallOK
      <4>3. settled' = settled \cup {sourcesOf(call[c].offer)}
        BY <2>3, <3>2 DEF Reload
      <4> QED
        BY <1>0, <3>1, <4>2, <4>3
    <3>3. CASE ~at(c, "reload declined")
      <4>1. settled' = settled
        BY <2>3, <3>3 DEF Reload
      <4> QED
        BY <1>0, <3>1, <4>1
    <3> QED
      BY <3>2, <3>3
  <2>4. CASE WatcherReloads
    BY <1>0, <2>4 DEF WatcherReloads, manager, history
  <2>5. CASE Restart
    BY <1>0, <2>5 DEF Restart
  <2> QED
    BY <2>1, <2>2, <2>3, <2>4, <2>5
    DEF Next, Answers, Tick, revalidateActive, SuggestNow, Detect, Offer, AskFails, Accept, Take,
        DeclineAxis, DeclineLast, Generalize, AppendRule, RemoveSources, AddDeclinedSuggestion,
        writes, WriteFails, Add, Withdraw, Toggle, EditWith, RulesReload, vars, files, manager, history
<1>2. (active # None /\ ~active.synthesized =>
          \A d \in active.all : CanonicalKey(d) \notin active.barred)'
  <2> DEFINE Kept == active # None /\ ~active.synthesized =>
                        \A d \in active.all : CanonicalKey(d) \notin active.barred
  <2>1. CASE active' = active \/ active' = None
    BY <2>1 DEF SettledInv
  <2>2. ASSUME NEW p \in Scans, Offer(p) PROVE Kept'
    <3>1. PICK top \in scan[p].chosen :
             active' = [id |-> scan[p].id, cand |-> top, all |-> scan[p].chosen,
                        offered |-> {top.axis},
                        synthesized |-> scan[p].synthesized, barred |-> scan[p].barred]
      BY <2>2 DEF Offer
    <3>2. /\ active'.synthesized = scan[p].synthesized /\ active'.all = scan[p].chosen
          /\ active'.barred = scan[p].barred
      BY <3>1
    <3>3. scan[p].pc = "asking"
      BY <2>2 DEF Offer
    <3> QED
      BY <3>2, <3>3 DEF SettledInv
  <2>3. CASE DeclineAxis
    <3>1. active # None /\ OfferInv(active)
      BY <2>3 DEF DeclineAxis, SoundInv, ActiveInv
    <3>2. PICK next \in otherAxes(active) :
             active' = [active EXCEPT !.cand = next, !.offered = @ \cup {next.axis}]
      BY <2>3 DEF DeclineAxis
    <3>3. /\ active'.all = active.all /\ active'.synthesized = active.synthesized
          /\ active'.barred = active.barred
      BY <3>1, <3>2 DEF OfferInv
    <3> QED
      BY <3>1, <3>3 DEF SettledInv
  <2> QED
    BY <2>1, <2>2, <2>3
    DEF Next, Answers, Tick, revalidateActive, SuggestNow, Detect, AskFails, Accept, Take,
        DeclineLast, Skip, Generalize, AppendRule, RemoveSources, AddDeclinedSuggestion, WriteFails,
        Reload, writes, manager, Add, Withdraw, Toggle, EditWith, WatcherReloads, RulesReload, Restart, vars
<1> DEFINE Asked(x) == x.pc = "asking" /\ ~x.synthesized =>
                          \A d \in x.chosen : CanonicalKey(d) \notin x.barred
<1>3. (\A p \in Scans : Asked(scan[p]))'
  <2>0. \A p \in Scans : Asked(scan[p])
    BY DEF SettledInv
  <2>a. ASSUME NEW x, x.pc # "asking" PROVE Asked(x)
    BY <2>a
  <2>b. Asked(Idle)
    <3>1. Idle.pc # "asking"
      BY DEF Idle
    <3> QED
      BY <3>1
  <2> HIDE DEF Asked
  <2>1. CASE scan' = scan
    BY <2>0, <2>1
  <2>2. ASSUME NEW p \in Scans, NEW x, scan' = [scan EXCEPT ![p] = x], Asked(x)
        PROVE  (\A q \in Scans : Asked(scan[q]))'
    <3>1. \A q \in Scans : scan'[q] = IF q = p THEN x ELSE scan[q]
      BY <1>0, <2>2
    <3> QED
      BY <2>0, <2>2, <3>1
  <2>3. CASE Tick
    <3>1. /\ "tick" \in Scans /\ [pc |-> "revalidating", offer |-> active].pc # "asking"
          /\ [pc |-> "detecting"].pc # "asking"
      BY DEF Scans
    <3>2. \/ scan' = [scan EXCEPT !["tick"] = [pc |-> "revalidating", offer |-> active]]
          \/ scan' = [scan EXCEPT !["tick"] = [pc |-> "detecting"]]
      BY <2>3 DEF Tick
    <3> QED
      BY <2>2, <2>a, <3>1, <3>2
  <2>4. CASE revalidateActive
    BY <2>2, <2>b, <2>4 DEF revalidateActive, Scans
  <2>5. CASE SuggestNow
    <3>1. "now" \in Scans /\ [pc |-> "detecting"].pc # "asking"
      BY DEF Scans
    <3>2. scan' = [scan EXCEPT !["now"] = [pc |-> "detecting"]]
      BY <2>5 DEF SuggestNow
    <3> QED
      BY <2>2, <2>a, <3>1, <3>2
  <2>6. ASSUME NEW p \in Scans, Offer(p) \/ AskFails(p)
        PROVE  (\A q \in Scans : Asked(scan[q]))'
    BY <2>2, <2>b, <2>6 DEF Offer, AskFails
  <2>7. ASSUME NEW p \in Scans, Detect(p) PROVE (\A q \in Scans : Asked(scan[q]))'
    <3>1. CASE scan' = [scan EXCEPT ![p] = Idle]
      BY <2>2, <2>b, <3>1
    <3>2. ASSUME NEW chosen \in Picks(Filtered),
                 scan' = [scan EXCEPT ![p] =
                     [pc |-> "asking", chosen |-> truncated(chosen), id |-> offers + 1,
                      synthesized |-> chosen \notin groups(Filtered), barred |-> settled]]
          PROVE  (\A q \in Scans : Asked(scan[q]))'
      <4> DEFINE x == [pc |-> "asking", chosen |-> truncated(chosen), id |-> offers + 1,
                       synthesized |-> chosen \notin groups(Filtered), barred |-> settled]
      <4>1. /\ x.chosen = truncated(chosen) /\ x.synthesized = (chosen \notin groups(Filtered))
            /\ x.barred = settled /\ scan' = [scan EXCEPT ![p] = x]
        BY <3>2
      <4> HIDE DEF x
      <4>2. ~x.synthesized => chosen \in groups(Filtered)
        BY <4>1, Zenon
      <4>3. Asked(x)
        BY <1>0, <4>1, <4>2, SettledFiltered, TruncatedOf DEF Asked
      <4> QED
        BY <2>2, <4>1, <4>3
    <3> QED
      BY <2>7, <3>1, <3>2 DEF Detect
  <2>8. CASE Restart
    BY <2>b, <2>8 DEF Restart
  <2> QED
    BY <2>1, <2>3, <2>4, <2>5, <2>6, <2>7, <2>8
    DEF Next, Answers, Accept, DeclineAxis, DeclineLast, Skip, Generalize, AppendRule, RemoveSources,
        AddDeclinedSuggestion, WriteFails, Reload, writes, Add, Withdraw, Toggle, EditWith, WatcherReloads,
        RulesReload, vars
<1> QED
  BY <1>1, <1>2, <1>3 DEF SettledInv

\* What was skipped, or declined to the last axis, is not offered by a scan that began
\* later (Manager.produce's filters, Skip, Decline, AddDeclinedSuggestion), whatever
\* the lists, the scans and the answers under way.
THEOREM DecidedStaysDecided == Spec => []DecidedIsNotOfferedAgain
<1>1. Init => SettledInv
  <2>1. Idle.pc # "asking"
    BY DEF Idle
  <2> QED
    BY <2>1 DEF Init, SettledInv
<1>2. SoundInv /\ SoundInv' /\ SettledInv /\ [Next]_vars => SettledInv'
  BY SettledStep
<1>3. SoundInv /\ SettledInv => DecidedIsNotOfferedAgain
  BY DEF SettledInv, SoundInv, ActiveInv, OfferInv, DecidedIsNotOfferedAgain, sourcesOf
<1> QED
  BY <1>1, <1>2, <1>3, SoundInvariant, PTL DEF Spec


-----------------------------------------------------------------------------
(***************************************************************************)
(* One answer for an offer.                                                *)
(***************************************************************************)
detecting(p) == scan[p].pc = "detecting"

asking(p) == scan[p].pc = "asking"

\* A number is given to each scan that found something.
NumbersInv ==
    /\ offers \in 0..(MaxOffers + 1)
    /\ \A p \in Scans : detecting(p) => offers <= MaxOffers
    /\ (\A p \in Scans : detecting(p)) => offers < MaxOffers

AnswersInv ==
    /\ DOMAIN answered = Ids
    /\ \A n \in Ids : answered[n] \in 0..1 /\ (n > offers => answered[n] = 0)
    /\ active # None => active.id \in 1..offers /\ answered[active.id] = 0
    /\ \A p \in Scans : asking(p) =>
          /\ scan[p].id \in 1..offers /\ answered[scan[p].id] = 0
          /\ active # None => active.id # scan[p].id
          /\ \A q \in Scans : asking(q) /\ q # p => scan[q].id # scan[p].id

\* What a step may do to the numbers: nothing that counts, take one, offer, answer.
Quiet ==
    /\ UNCHANGED <<offers, answered>>
    /\ active' \in {active, None}
    /\ \A p \in Scans : /\ asking(p)' => asking(p) /\ scan'[p] = scan[p]
                        /\ detecting(p)' => detecting(p) \/ offers < MaxOffers

TakesNumber(p) ==
    /\ detecting(p) /\ offers' = offers + 1
    /\ asking(p)' /\ scan'[p].id = offers + 1
    /\ \A q \in Scans \ {p} : scan'[q] = scan[q]
    /\ UNCHANGED <<active, answered>>

Shows(p) ==
    /\ asking(p) /\ ~asking(p)' /\ ~detecting(p)'
    /\ active'.id = scan[p].id
    /\ \A q \in Scans \ {p} : scan'[q] = scan[q]
    /\ UNCHANGED <<offers, answered>>

Answered ==
    /\ active # None /\ active' = None
    /\ answered' = [answered EXCEPT ![active.id] = @ + 1]
    /\ UNCHANGED <<offers, scan>>

AnotherAxis ==
    /\ active # None /\ active'.id = active.id
    /\ UNCHANGED <<offers, scan, answered>>

LEMMA StepKinds ==
    ASSUME SoundInv, [Next]_vars
    PROVE  Quiet \/ (\E p \in Scans : TakesNumber(p) \/ Shows(p)) \/ Answered \/ AnotherAxis
<1>0. DOMAIN scan = Scans /\ (active # None => OfferInv(active))
  BY DEF SoundInv, ScansInv, ActiveInv
<1>a. Idle.pc # "asking" /\ Idle.pc # "detecting"
  BY DEF Idle
<1>1. CASE UNCHANGED <<offers, answered, scan>> /\ active' \in {active, None}
  BY <1>1 DEF Quiet, asking, detecting
<1>2. ASSUME NEW p \in Scans, NEW x, scan' = [scan EXCEPT ![p] = x],
             UNCHANGED <<offers, answered>>, active' \in {active, None},
             x.pc # "asking", x.pc = "detecting" => offers < MaxOffers
      PROVE  Quiet
  <2>1. \A q \in Scans : scan'[q] = IF q = p THEN x ELSE scan[q]
    BY <1>0, <1>2
  <2> QED
    BY <1>2, <2>1 DEF Quiet, asking, detecting
<1>3. CASE Tick
  <2> DEFINE again == [pc |-> "revalidating", offer |-> active]
             anew == [pc |-> "detecting"]
  <2>1. "tick" \in Scans /\ again.pc = "revalidating" /\ anew.pc = "detecting"
    BY DEF Scans
  <2>2. /\ UNCHANGED <<offers, answered, active>>
        /\ \/ scan' = [scan EXCEPT !["tick"] = again]
           \/ scan' = [scan EXCEPT !["tick"] = anew] /\ offers < MaxOffers
    BY <1>3 DEF Tick, counters, history, manager
  <2> HIDE DEF again, anew
  <2> QED
    BY <1>2, <2>1, <2>2
<1>4. CASE revalidateActive
  BY <1>2, <1>4, <1>a DEF revalidateActive, Scans, counters, history
<1>5. CASE SuggestNow
  <2> DEFINE anew == [pc |-> "detecting"]
  <2>1. "now" \in Scans /\ anew.pc = "detecting"
    BY DEF Scans
  <2>2. /\ UNCHANGED <<offers, answered>> /\ active' = None
        /\ scan' = [scan EXCEPT !["now"] = anew] /\ offers < MaxOffers
    BY <1>5 DEF SuggestNow, counters, history
  <2> HIDE DEF anew
  <2> QED
    BY <1>2, <2>1, <2>2
<1>6. ASSUME NEW p \in Scans, AskFails(p) PROVE Quiet
  BY <1>2, <1>6, <1>a DEF AskFails, manager, history
<1>7. CASE Restart
  BY <1>7, <1>a DEF Restart, Quiet, asking, detecting
<1>8. ASSUME NEW p \in Scans, Detect(p) PROVE Quiet \/ TakesNumber(p)
  <2>0. scan[p].pc = "detecting" /\ UNCHANGED <<active, answered>>
    BY <1>8 DEF Detect, manager, history
  <2>1. CASE scan' = [scan EXCEPT ![p] = Idle] /\ offers' = offers
    BY <1>2, <1>a, <2>0, <2>1
  <2>2. ASSUME NEW chosen, offers' = offers + 1,
               scan' = [scan EXCEPT ![p] =
                   [pc |-> "asking", chosen |-> truncated(chosen), id |-> offers + 1,
                    synthesized |-> chosen \notin groups(Filtered), barred |-> settled]]
        PROVE  TakesNumber(p)
    <3> DEFINE x == [pc |-> "asking", chosen |-> truncated(chosen), id |-> offers + 1,
                     synthesized |-> chosen \notin groups(Filtered), barred |-> settled]
    <3>1. x.pc = "asking" /\ x.id = offers + 1 /\ scan' = [scan EXCEPT ![p] = x]
      BY <2>2
    <3> HIDE DEF x
    <3>2. scan'[p] = x /\ \A q \in Scans \ {p} : scan'[q] = scan[q]
      BY <1>0, <3>1
    <3> QED
      BY <2>0, <2>2, <3>1, <3>2 DEF TakesNumber, asking, detecting
  <2> QED
    BY <1>8, <2>1, <2>2 DEF Detect
<1>9. ASSUME NEW p \in Scans, Offer(p) PROVE Shows(p)
  <2>1. /\ scan[p].pc = "asking" /\ scan' = [scan EXCEPT ![p] = Idle]
        /\ UNCHANGED <<offers, answered>>
    BY <1>9 DEF Offer, counters, history
  <2>2. scan'[p] = Idle /\ \A q \in Scans \ {p} : scan'[q] = scan[q]
    BY <1>0, <2>1
  <2>3. active'.id = scan[p].id
    BY <1>9 DEF Offer
  <2> QED
    BY <1>a, <2>1, <2>2, <2>3 DEF Shows, asking, detecting
<1>10. ASSUME NEW c \in Calls, NEW pc, Take(c, pc), UNCHANGED <<offers, scan>> PROVE Answered
  BY <1>10 DEF Take, Answered
<1>11. ASSUME NEW c \in Calls, Accept(c) \/ DeclineLast(c) PROVE Answered
  BY <1>10, <1>11 DEF Accept, DeclineLast, counters
<1>12. ASSUME NEW c \in Calls, Skip(c) PROVE Answered
  BY <1>12 DEF Skip, Answered, counters
<1>13. CASE DeclineAxis
  <2>1. active # None /\ OfferInv(active)
    BY <1>0, <1>13 DEF DeclineAxis
  <2>2. PICK next \in otherAxes(active) :
           active' = [active EXCEPT !.cand = next, !.offered = @ \cup {next.axis}]
    BY <1>13 DEF DeclineAxis
  <2>3. active'.id = active.id
    BY <2>1, <2>2 DEF OfferInv
  <2> QED
    BY <1>13, <2>1, <2>3 DEF DeclineAxis, AnotherAxis, counters, history
<1> QED
  BY <1>1, <1>3, <1>4, <1>5, <1>6, <1>7, <1>8, <1>9, <1>11, <1>12, <1>13
  DEF Next, Answers, Generalize, AppendRule, RemoveSources, AddDeclinedSuggestion, WriteFails, Reload,
      writes, manager, counters, history, Add, Withdraw, Toggle, EditWith, WatcherReloads, RulesReload, vars

LEMMA NumbersStep ==
    ASSUME SoundInv, NumbersInv, [Next]_vars
    PROVE  NumbersInv'
<1>0. offers \in Nat /\ MaxOffers \in Nat
  BY ConstantsAssumption DEF NumbersInv
<1>1. CASE Quiet
  BY <1>0, <1>1 DEF Quiet, NumbersInv
<1>2. ASSUME NEW p \in Scans, TakesNumber(p) PROVE NumbersInv'
  <2>1. detecting(p) /\ ~detecting(p)' /\ offers' = offers + 1
    BY <1>2 DEF TakesNumber, asking, detecting
  <2>2. offers <= MaxOffers
    BY <2>1 DEF NumbersInv
  <2>3. ASSUME NEW q \in Scans, detecting(q)' PROVE offers < MaxOffers
    <3>1. detecting(q) /\ q # p
      BY <1>2, <2>1, <2>3 DEF TakesNumber, detecting
    <3>2. \A s \in Scans : s = p \/ s = q
      BY <3>1 DEF Scans
    <3> QED
      BY <2>1, <3>1, <3>2 DEF NumbersInv
  <2>4. offers' \in 0..(MaxOffers + 1)
    BY <1>0, <2>1, <2>2
  <2>5. ASSUME NEW q \in Scans, detecting(q)' PROVE offers' <= MaxOffers
    BY <1>0, <2>1, <2>3, <2>5
  <2> QED
    BY <2>1, <2>4, <2>5 DEF NumbersInv
<1>3. ASSUME NEW p \in Scans, Shows(p) PROVE NumbersInv'
  <2>1. offers' = offers /\ \A q \in Scans : detecting(q)' => detecting(q)
    BY <1>3 DEF Shows, detecting
  <2> QED
    BY <2>1 DEF NumbersInv
<1>4. CASE Answered
  BY <1>4 DEF Answered, NumbersInv, detecting
<1>5. CASE AnotherAxis
  BY <1>5 DEF AnotherAxis, NumbersInv, detecting
<1> QED
  BY <1>1, <1>2, <1>3, <1>4, <1>5, StepKinds

LEMMA AnswersStep ==
    ASSUME SoundInv, NumbersInv, AnswersInv, [Next]_vars
    PROVE  AnswersInv'
<1>0. offers \in Nat /\ MaxOffers \in Nat /\ offers <= MaxOffers + 1
  BY ConstantsAssumption DEF NumbersInv
<1>1. CASE Quiet
  BY <1>1 DEF Quiet, AnswersInv, asking
<1>2. ASSUME NEW p \in Scans, TakesNumber(p) PROVE AnswersInv'
  <2>0. /\ offers' = offers + 1 /\ offers + 1 \in Ids
        /\ answered' = answered /\ active' = active /\ scan'[p].id = offers + 1
        /\ \A q \in Scans \ {p} : scan'[q] = scan[q]
    BY <1>0, <1>2 DEF TakesNumber, NumbersInv, Ids
  <2>1. /\ DOMAIN answered' = Ids
        /\ \A n \in Ids : answered'[n] \in 0..1 /\ (n > offers' => answered'[n] = 0)
    BY <1>0, <2>0 DEF AnswersInv, Ids
  <2>2. answered[offers + 1] = 0
    BY <1>0, <2>0 DEF AnswersInv
  <2>3. active # None => active.id \in 1..offers /\ answered[active.id] = 0
    BY DEF AnswersInv
  <2>4. active # None => active.id \in 1..offers' /\ active.id # offers + 1
    BY <1>0, <2>0, <2>3
  <2>5. ASSUME NEW q \in Scans, q # p, asking(q)'
        PROVE  /\ scan'[q].id \in 1..offers' /\ answered'[scan'[q].id] = 0
               /\ scan'[q].id # offers + 1
               /\ active' # None => active'.id # scan'[q].id
               /\ asking(q)
    <3>1. scan'[q] = scan[q] /\ asking(q)
      BY <2>0, <2>5 DEF asking
    <3>2. /\ scan[q].id \in 1..offers /\ answered[scan[q].id] = 0
          /\ active # None => active.id # scan[q].id
      BY <3>1 DEF AnswersInv
    <3>3. scan[q].id \in 1..offers' /\ scan[q].id # offers + 1
      BY <1>0, <2>0, <3>2
    <3> QED
      BY <2>0, <3>1, <3>2, <3>3
  <2>6. offers + 1 \in 1..offers'
    BY <1>0, <2>0
  <2>7. ASSUME NEW q \in Scans, NEW s \in Scans, q # s, asking(q)', asking(s)'
        PROVE  scan'[q].id # scan'[s].id
    <3>1. CASE q # p /\ s # p
      BY <2>0, <2>5, <2>7, <3>1 DEF AnswersInv, asking
    <3>2. CASE q = p \/ s = p
      BY <2>0, <2>5, <2>7, <3>2
    <3> QED
      BY <3>1, <3>2
  <2> QED
    BY <2>0, <2>1, <2>2, <2>3, <2>4, <2>5, <2>6, <2>7 DEF AnswersInv
<1>3. ASSUME NEW p \in Scans, Shows(p) PROVE AnswersInv'
  <2>0. /\ offers' = offers /\ answered' = answered /\ active'.id = scan[p].id
        /\ asking(p) /\ ~asking(p)'
        /\ \A q \in Scans : asking(q)' => q # p /\ asking(q) /\ scan'[q] = scan[q]
    BY <1>3 DEF Shows, asking
  <2>1. /\ scan[p].id \in 1..offers /\ answered[scan[p].id] = 0
        /\ \A q \in Scans : asking(q) /\ q # p => scan[q].id # scan[p].id
    BY <2>0 DEF AnswersInv
  <2> QED
    BY <2>0, <2>1 DEF AnswersInv
<1>4. CASE Answered
  <2>0. /\ active # None /\ active' = None /\ offers' = offers /\ scan' = scan
        /\ answered' = [answered EXCEPT ![active.id] = @ + 1]
    BY <1>4 DEF Answered
  <2>1. active.id \in 1..offers /\ answered[active.id] = 0 /\ DOMAIN answered = Ids
    BY <2>0 DEF AnswersInv
  <2>2. /\ DOMAIN answered' = Ids
        /\ \A n \in Ids : answered'[n] = IF n = active.id THEN 1 ELSE answered[n]
    BY <2>0, <2>1
  <2>3. \A n \in Ids : answered'[n] \in 0..1 /\ (n > offers' => answered'[n] = 0)
    BY <1>0, <2>0, <2>1, <2>2 DEF AnswersInv
  <2>4. ASSUME NEW p \in Scans, asking(p)'
        PROVE  /\ scan'[p].id \in 1..offers' /\ answered'[scan'[p].id] = 0
               /\ \A q \in Scans : asking(q)' /\ q # p => scan'[q].id # scan'[p].id
    <3>1. /\ scan[p].id \in 1..offers /\ answered[scan[p].id] = 0 /\ active.id # scan[p].id
          /\ \A q \in Scans : asking(q) /\ q # p => scan[q].id # scan[p].id
      BY <2>0, <2>4 DEF AnswersInv, asking
    <3>2. scan[p].id \in Ids
      BY <1>0, <3>1 DEF Ids
    <3> QED
      BY <2>0, <2>2, <3>1, <3>2 DEF asking
  <2> QED
    BY <2>0, <2>2, <2>3, <2>4 DEF AnswersInv
<1>5. CASE AnotherAxis
  <2>1. /\ active # None /\ active'.id = active.id
        /\ offers' = offers /\ answered' = answered /\ scan' = scan
    BY <1>5 DEF AnotherAxis
  <2> QED
    BY <2>1 DEF AnswersInv, asking
<1> QED
  BY <1>1, <1>2, <1>3, <1>4, <1>5, StepKinds

\* Two consoles, or a console and a scan, at one offer: an offer is answered at most
\* once (the lock and the id check of Accept, Decline and Skip), whatever the number
\* of answers under way.
THEOREM OneAnswerEndsAnOffer == Spec => []OfferIsAnsweredOnce
<1>1. Init => NumbersInv /\ AnswersInv
  <2> SUFFICES ASSUME Init PROVE NumbersInv /\ AnswersInv
    OBVIOUS
  <2>1. Idle.pc # "asking" /\ Idle.pc # "detecting" /\ "tick" \in Scans
    BY DEF Idle, Scans
  <2>2. \A p \in Scans : ~asking(p) /\ ~detecting(p)
    BY <2>1 DEF Init, asking, detecting
  <2>3. MaxOffers \in Nat /\ offers = 0
    BY ConstantsAssumption DEF Init
  <2>4. NumbersInv
    BY <2>1, <2>2, <2>3 DEF NumbersInv
  <2>5. AnswersInv
    BY <2>2, <2>3 DEF Init, AnswersInv
  <2> QED
    BY <2>4, <2>5
<1>2. SoundInv /\ NumbersInv /\ AnswersInv /\ [Next]_vars => NumbersInv' /\ AnswersInv'
  BY NumbersStep, AnswersStep
<1>3. AnswersInv => OfferIsAnsweredOnce
  BY DEF AnswersInv, OfferIsAnsweredOnce
<1> QED
  BY <1>1, <1>2, <1>3, SoundInvariant, PTL DEF Spec


-----------------------------------------------------------------------------
(***************************************************************************)
(* What the files cover.                                                   *)
(***************************************************************************)
LEMMA SubsumedIsCovered ==
    ASSUME NEW p \in Lines, NEW e \in Lines, NEW r \in Lines, subsumes(p, e), Matches(e, r)
    PROVE  Matches(p, r)
<1>1. /\ p.host \in Seq(STRING) /\ e.host \in Seq(STRING) /\ r.host \in Seq(STRING)
      /\ p.path \in Seq(STRING) /\ e.path \in Seq(STRING) /\ r.path \in Seq(STRING)
  BY DEF Lines
<1>2. matchHostPattern(p.host, r.host)
  BY <1>1, HostCovered DEF subsumes, Matches
<1>3. matchPathPattern(p.path, r.path)
  BY <1>1, PathCovered DEF subsumes, Matches
<1> QED
  BY <1>2, <1>3 DEF subsumes, Matches

\* The first of the rules that fire decides.
LEMMA FirstFires ==
    ASSUME NEW S, NEW rules \in Seq(S), NEW r, firing(rules, r) # {}
    PROVE  \E i \in firing(rules, r) : /\ \A j \in firing(rules, r) : i <= j
                                       /\ ByRules(rules, r) = rules[i].rule.effect
<1>1. firing(rules, r) \subseteq Nat
  BY LenProperties DEF firing
<1>2. \E i \in firing(rules, r) : \A j \in firing(rules, r) : i <= j
  BY <1>1, LeastNumber
<1> DEFINE i == CHOOSE i \in firing(rules, r) : \A j \in firing(rules, r) : i <= j
<1>3. i \in firing(rules, r) /\ \A j \in firing(rules, r) : i <= j
  BY <1>2
<1>4. ByRules(rules, r) = rules[i].rule.effect
  BY DEF ByRules
<1> HIDE DEF i
<1> QED
  BY <1>3, <1>4

\* A rule after all others changes what the rules say only where none of them fires.
LEMMA AppendedDecides ==
    ASSUME NEW S, NEW T, NEW old \in Seq(S), NEW new \in Seq(T), NEW x, NEW r,
           DOMAIN old = 1..Len(old), Len(old) \in Nat, DOMAIN new = 1..(Len(old) + 1),
           new[Len(old) + 1] = x, \A i \in DOMAIN old : new[i] = old[i]
    PROVE  \/ ByRules(new, r) = ByRules(old, r)
           \/ RuleFires(x.rule, r) /\ ByRules(new, r) = x.rule.effect
<1> DEFINE n == Len(old) + 1
<1>1. /\ n \in Nat /\ DOMAIN new = 1..n /\ \A i \in DOMAIN old : i < n /\ i \in DOMAIN new
      /\ \A i \in DOMAIN new : i = n \/ i \in DOMAIN old
  OBVIOUS
<1>2. new[n] = x
  OBVIOUS
<1> HIDE DEF n
<1>3. /\ firing(old, r) \subseteq firing(new, r)
      /\ \A i \in firing(new, r) : i \in firing(old, r) \/ (i = n /\ RuleFires(x.rule, r))
  BY <1>1, <1>2 DEF firing
<1>4. CASE firing(new, r) = {}
  BY <1>3, <1>4 DEF ByRules
<1>5. CASE firing(new, r) # {}
  <2>1. PICK i \in firing(new, r) : /\ \A j \in firing(new, r) : i <= j
                                     /\ ByRules(new, r) = new[i].rule.effect
    BY <1>5, FirstFires
  <2>2. CASE i \notin firing(old, r)
    BY <1>2, <1>3, <2>1, <2>2
  <2>3. CASE i \in firing(old, r)
    <3>1. PICK k \in firing(old, r) : /\ \A j \in firing(old, r) : k <= j
                                       /\ ByRules(old, r) = old[k].rule.effect
      BY <2>3, FirstFires
    <3>2. i <= k /\ k <= i /\ i \in Nat /\ k \in Nat
      BY <1>3, <2>1, <2>3, <3>1 DEF firing
    <3>3. i = k /\ new[i] = old[i]
      BY <2>3, <3>2 DEF firing
    <3> QED
      BY <2>1, <3>1, <3>3
  <2> QED
    BY <2>2, <2>3
<1> QED
  BY <1>4, <1>5

LEMMA DoneWith ==
    ASSUME SoundInv, NEW c \in Calls, NEW pc, at(c, pc), pc # "idle",
           NEW next, next # "idle", next # pc, step(c, next)
    PROVE  Doing(c, pc)
<1>1. call[c] # Idle /\ call[c].pc = pc
  BY Busy
<1>2. DOMAIN call = Calls /\ DOMAIN call[c] = {"pc", "offer"}
  BY <1>1, TakenSound DEF SoundInv, CallsInv
<1> PICK y : y = call[c]
  OBVIOUS
<1>3. call' = [call EXCEPT ![c] = [y EXCEPT !.pc = next]]
  BY DEF step
<1>4. call'[c].pc = next
  BY <1>2, <1>3
<1> QED
  BY <1>1, <1>4 DEF Doing, at

LEMMA SameDecision ==
    ASSUME NEW lists, NEW more, NEW rules, NEW r,
           \A effect \in Effects : Match(more[effect], r) <=> Match(lists[effect], r)
    PROVE  Decided(more, rules, r) = Decided(lists, rules, r)
<1>1. /\ Match(more.deny, r) <=> Match(lists.deny, r)
      /\ Match(more.allow, r) <=> Match(lists.allow, r)
  BY DEF Effects
<1> QED
  BY <1>1 DEF Decided

\* The broader line decides what it fires on; what its sources and what it subsumes
\* fired on, but for the prefix of a synthesized one, is that.
LEMMA GeneralizeDecides ==
    ASSUME SoundInv, NEW c \in Calls, Generalize(c), NEW r \in Requests
    PROVE  Justified(r)
<1> DEFINE cand == call[c].offer.cand
<1>1. /\ ruleFile' = ruleFile /\ call[c] # Idle /\ at(c, "generalize") /\ step(c, "reload")
      /\ \A effect \in Effects : file'[effect] =
            IF effect # cand.list THEN file[effect]
            ELSE {e \in file[effect] : e \notin cand.sources /\ ~subsumes(cand.line, e)}
                    \cup {cand.line}
  BY GeneralizeWrites DEF Generalize, writes
<1>2. /\ CandInv(cand, call[c].offer.synthesized) /\ ~PatternShaped(cand) /\ cand.line \in Lines
      /\ cand.list \in Effects
  BY <1>1, TakenSound DEF at
<1>3. Doing(c, "generalize")
  BY <1>1, DoneWith
<1>4. CASE Matches(cand.line, r)
  <2>1. Match(file'[cand.list], r)
    BY <1>1, <1>2, <1>4 DEF Match
  <2>2. CASE cand.list = "deny"
    <3>1. Decided(file', ruleFile', r) = cand.list
      BY <2>1, <2>2 DEF Decided
    <3> QED
      BY <1>3, <1>4, <3>1 DEF Justified, Extends
  <2>3. CASE cand.list = "allow"
    <3>1. file'.deny = file.deny
      BY <1>1, <2>3 DEF Effects
    <3>2. CASE Match(file.deny, r)
      BY <3>1, <3>2 DEF Justified, Decided
    <3>3. CASE ~Match(file.deny, r)
      <4>1. Decided(file', ruleFile', r) = cand.list
        BY <2>1, <2>3, <3>1, <3>3 DEF Decided
      <4> QED
        BY <1>3, <1>4, <4>1 DEF Justified, Extends
    <3> QED
      BY <3>2, <3>3
  <2> QED
    BY <1>2, <2>2, <2>3 DEF Effects
<1>5. CASE ~Matches(cand.line, r) /\ ~AtSynthesizedPrefix(c, r)
  <2>1. ASSUME Match(file[cand.list], r) PROVE Match(file'[cand.list], r)
    <3>1. PICK e \in file[cand.list] : Matches(e, r)
      BY <2>1 DEF Match
    <3>2. e \in Lines /\ r \in Lines
      BY <1>2, LinesAssumption, ListRewritten DEF SoundInv, FilesInv
    <3>3. ~subsumes(cand.line, e)
      BY <1>2, <1>5, <3>1, <3>2, SubsumedIsCovered
    <3>4. e \notin cand.sources
      <4> SUFFICES ASSUME e \in cand.sources PROVE AtSynthesizedPrefix(c, r)
        BY <1>5
      <4>1. call[c].offer.synthesized /\ r.path = Front(cand.line.path)
        BY <1>2, <1>5, <3>1 DEF CandInv, Replaces, LineFires
      <4>2. Match(sourcesOf(call[c].offer), r)
        BY <3>1 DEF Match, sourcesOf, CanonicalKey
      <4> QED
        BY <1>3, <4>1, <4>2 DEF AtSynthesizedPrefix
    <3> QED
      BY <1>1, <1>2, <3>1, <3>3, <3>4 DEF Match
  <2>2. ASSUME Match(file'[cand.list], r) PROVE Match(file[cand.list], r)
    BY <1>1, <1>2, <1>5, <2>2 DEF Match
  <2>3. \A effect \in Effects : Match(file'[effect], r) <=> Match(file[effect], r)
    BY <1>1, <2>1, <2>2
  <2> QED
    BY <1>1, <2>3, SameDecision DEF Justified
<1> QED
  BY <1>4, <1>5 DEF Justified

\* The rule that was appended fires on what the sources fired on; where it does not
\* decide, a line or a rule that is asked before it does.
LEMMA RemoveDecides ==
    ASSUME SoundInv, NEW c \in Calls, RemoveSources(c), NEW r \in Requests
    PROVE  Justified(r)
<1> DEFINE cand == call[c].offer.cand
<1>1. /\ ruleFile' = ruleFile /\ call[c] # Idle /\ at(c, "remove sources") /\ step(c, "reload")
      /\ cand.list \in Effects
      /\ \A effect \in Effects :
            file'[effect] = IF effect # cand.list THEN file[effect] ELSE file[effect] \ cand.sources
  BY RemoveWrites, TakenSound DEF RemoveSources, at, writes
<1>2. Doing(c, "remove sources")
  BY <1>1, DoneWith
<1>3. ASSUME Match(file'[cand.list], r) PROVE Match(file[cand.list], r)
  BY <1>1, <1>3 DEF Match
<1>4. CASE Match(file[cand.list], r) <=> Match(file'[cand.list], r)
  <2>1. \A effect \in Effects : Match(file'[effect], r) <=> Match(file[effect], r)
    BY <1>1, <1>4
  <2>2. Decided(file', ruleFile, r) = Decided(file, ruleFile, r)
    BY <2>1, SameDecision
  <2> QED
    BY <1>1, <2>2 DEF Justified
<1>5. CASE Match(file[cand.list], r) /\ ~Match(file'[cand.list], r) /\ ~RuleOfOtherList(c, r) /\ ~Yields(c, r)
  <2>1. PICK e \in cand.sources : Matches(e, r)
    BY <1>1, <1>5 DEF Match
  <2>2. Match(cand.sources, r)
    BY <2>1 DEF Match
  <2>3. PICK x \in DOMAIN ruleFile : ruleFile[x].id = patternRuleID(cand)
    BY <1>1 DEF SoundInv, CallsInv, CallOK, at
  <2>4. x \in numbered(ruleFile, patternRuleID(cand))
    BY <2>3 DEF numbered
  <2>5. ruleFile[x].rule.effect = cand.list
    BY <1>2, <1>5, <2>2, <2>4 DEF RuleOfOtherList
  <2>6. x \in firing(ruleFile, r)
    <3>1. ruleFile[x].id[2] = cand.sources
      BY <2>3 DEF patternRuleID
    <3>2. RuleFires(ruleFile[x].rule, r)
      BY <2>1, <3>1 DEF SoundInv, RulesInv
    <3> QED
      BY <3>2 DEF firing
  <2>7. PICK S : ruleFile \in Seq(S)
    BY DEF SoundInv, RulesInv
  <2>8. PICK i \in firing(ruleFile, r) : /\ \A j \in firing(ruleFile, r) : i <= j
                                         /\ ByRules(ruleFile, r) = ruleFile[i].rule.effect
    BY <2>6, <2>7, FirstFires
  <2>9. i = x \/ i < x
    <3>1. i \in Nat /\ x \in Nat
      BY <2>6, <2>7, <2>8, LenProperties DEF firing
    <3> QED
      BY <2>6, <2>8, <3>1
  <2>10. ByRules(ruleFile, r) = cand.list
    BY <1>2, <1>5, <2>2, <2>4, <2>5, <2>8, <2>9 DEF Yields
  <2>11. CASE cand.list = "deny"
    <3>1. file'.allow = file.allow
      BY <1>1, <2>11 DEF Effects
    <3>2. ~Match(file.allow, r)
      BY <1>2, <1>5, <2>2, <2>11 DEF Yields
    <3>3. Decided(file, ruleFile, r) = "deny"
      BY <1>5, <2>11 DEF Decided
    <3>4. Decided(file', ruleFile', r) = "deny"
      BY <1>1, <1>5, <2>10, <2>11, <3>1, <3>2 DEF Decided
    <3> QED
      BY <3>3, <3>4 DEF Justified
  <2>12. CASE cand.list = "allow"
    <3>1. file'.deny = file.deny
      BY <1>1, <2>12 DEF Effects
    <3> QED
      BY <1>1, <1>5, <2>10, <2>12, <3>1 DEF Decided, Justified
  <2> QED
    BY <1>1, <2>11, <2>12 DEF Effects
<1> QED
  BY <1>3, <1>4, <1>5 DEF Justified

\* The rule decides what no list and no rule before it does.
LEMMA AppendDecides ==
    ASSUME SoundInv, NEW c \in Calls, AppendRule(c), NEW r \in Requests
    PROVE  Justified(r)
<1> DEFINE cand == call[c].offer.cand
           new == [id |-> patternRuleID(cand), rule |-> cand.rule]
<1>1. call[c] # Idle /\ at(c, "append rule") /\ step(c, "remove sources") /\ file' = file
  BY Busy DEF AppendRule
<1>2. Doing(c, "append rule")
  BY <1>1, DoneWith
<1>3. cand.rule.effect = cand.list
  <2>1. CallOK(call[c])
    BY DEF SoundInv, CallsInv
  <2>2. PatternShaped(cand)
    BY <1>1, <2>1 DEF CallOK, at
  <2> QED
    BY <1>1, <2>2, TakenSound DEF CandInv
<1>4. new.rule = cand.rule
  OBVIOUS
<1>5. CASE ruleFile' = ruleFile
  BY <1>1, <1>5 DEF Justified
<1>6. CASE ruleFile' # ruleFile
  <2>1. /\ \E S : ruleFile' \in Seq(S)
        /\ Len(ruleFile) \in Nat /\ DOMAIN ruleFile = 1..Len(ruleFile)
        /\ DOMAIN ruleFile' = 1..(Len(ruleFile) + 1)
        /\ ruleFile'[Len(ruleFile) + 1] = new
        /\ \A i \in DOMAIN ruleFile : ruleFile'[i] = ruleFile[i]
    BY <1>6, AppendWrites
  <2> HIDE DEF new
  <2>2. PICK S : ruleFile \in Seq(S)
    BY DEF SoundInv, RulesInv
  <2>3. PICK T : ruleFile' \in Seq(T)
    BY <2>1
  <2>4. \/ ByRules(ruleFile', r) = ByRules(ruleFile, r)
        \/ RuleFires(new.rule, r) /\ ByRules(ruleFile', r) = new.rule.effect
    BY <2>1, <2>2, <2>3, AppendedDecides
  <2>5. CASE \/ Decided(file', ruleFile', r) = Decided(file, ruleFile, r)
             \/ RuleFires(cand.rule, r) /\ Decided(file', ruleFile', r) = cand.list
    BY <1>2, <2>5 DEF Justified, Extends
  <2>6. \/ Decided(file', ruleFile', r) = Decided(file, ruleFile, r)
        \/ RuleFires(cand.rule, r) /\ Decided(file', ruleFile', r) = cand.list
    BY <1>1, <1>3, <1>4, <2>4 DEF Decided
  <2> QED
    BY <2>5, <2>6
<1> QED
  BY <1>5, <1>6

\* What the files say of a request changes by an editor's hand or as the operator
\* accepted (Manager.Accept, acceptPattern, configwrite.Generalize), for lists, rules
\* and requests of any hosts and paths; but for the prefix of a synthesized line, a
\* rule that the other list left behind, and where the rule yields.
THEOREM AcceptedDecisions == Spec => AcceptKeepsDecisions
<1> DEFINE Kept == \A r \in Requests : Justified(r)
<1>1. ASSUME SoundInv, [Next]_vars, edits' = edits, edits \in Nat, ~UNCHANGED <<file, ruleFile>>
      PROVE  Kept
  <2>1. ASSUME NEW c \in Calls, Generalize(c) PROVE Kept
    BY <1>1, <2>1, GeneralizeDecides
  <2>2. ASSUME NEW c \in Calls, RemoveSources(c) PROVE Kept
    BY <1>1, <2>2, RemoveDecides
  <2>3. ASSUME NEW c \in Calls, AppendRule(c) PROVE Kept
    BY <1>1, <2>3, AppendDecides
  <2>4. ASSUME NEW c \in Calls, AddDeclinedSuggestion(c) PROVE Kept
    <3>1. ruleFile' = ruleFile /\ \A effect \in Effects : file'[effect] = file[effect]
      BY <1>1, <2>4 DEF AddDeclinedSuggestion, SoundInv, FilesInv, Lists, Effects
    <3>2. ASSUME NEW r \in Requests PROVE Justified(r)
      BY <3>1, SameDecision DEF Justified
    <3> QED
      BY <3>2
  <2>5. ASSUME NEW l, Add(l) \/ Withdraw(l) \/ Toggle PROVE FALSE
    BY <1>1, <2>5 DEF Add, Withdraw, Toggle, EditWith
  <2> HIDE DEF Kept
  <2> QED
    BY <1>1, <2>1, <2>2, <2>3, <2>4, <2>5
    DEF Next, Answers, Tick, revalidateActive, SuggestNow, Detect, Offer, AskFails, Accept, DeclineAxis,
        DeclineLast, Skip, WriteFails, Reload, WatcherReloads, RulesReload, Restart, vars, files
<1>2. SoundInv /\ edits \in Nat /\ [Next]_vars =>
         [edits' = edits /\ ~UNCHANGED <<file, ruleFile>> => Kept]_<<file, ruleFile>>
  BY <1>1
<1>3. Init => edits \in Nat
  BY DEF Init
<1>4. ASSUME edits \in Nat, [Next]_vars PROVE edits' \in Nat
  <2>1. CASE edits' = edits
    BY <1>4, <2>1
  <2>2. ASSUME NEW l, Add(l) \/ Withdraw(l) \/ Toggle PROVE edits' \in Nat
    <3>1. edits' = edits + 1
      BY <2>2 DEF Add, Withdraw, Toggle, EditWith
    <3> QED
      BY <1>4, <3>1
  <2> QED
    BY <1>4, <2>1, <2>2
    DEF Next, Answers, Tick, revalidateActive, SuggestNow, Detect, Offer, AskFails, Accept, Take,
        DeclineAxis, DeclineLast, Skip, Generalize, AppendRule, RemoveSources,
        AddDeclinedSuggestion, writes, WriteFails, Reload, WatcherReloads, RulesReload, Restart,
        vars, counters
<1>5. edits \in Nat /\ [Next]_vars => (edits \in Nat)'
  BY <1>4
<1> QED
  BY <1>2, <1>3, <1>5, SoundInvariant, PTL DEF Spec, AcceptKeepsDecisions
=============================================================================
