----------------------------- MODULE Suggestion -----------------------------
(***************************************************************************)
(* Quiet-moment suggestions: the Manager (internal/suggestion), which      *)
(* looks for lines of the lists that one broader line or a pattern rule    *)
(* could replace (Generalize), asks the advisor to rank what it found,     *)
(* offers it, and writes what the operators answer to the configuration    *)
(* and rule files (internal/configwrite); with the daemon's copies of      *)
(* those files, their reloads, and restarts.                               *)
(*                                                                         *)
(* One goroutine ticks; a scan on demand (SuggestNow) runs beside it, and  *)
(* so does every answer.  A scan reads the lists, waits for the advisor    *)
(* and only then stores its offer.  The interleavings inside one reload    *)
(* are ConfigStore's; here a reload is one step.                           *)
(***************************************************************************)
EXTENDS Generalize

CONSTANTS Starts,       \* [lists, rules]: the files that the daemon may start with
          Editable,     \* lines an editor may add to or take from lists.allow
          Requests,     \* requests by which lists and rules are told apart
          Calls,        \* answers of operators that may be under way at once
          Threshold,    \* path_concentration_threshold, in percent
          MaxCandidates,  \* max_candidates
          MaxOffers,    \* bound: scans begun
          MaxMishaps,   \* bound: edits, failures and restarts
          None

ASSUME ConstantsAssumption ==
    /\ Threshold \in 1..100
    /\ MaxCandidates \in Nat \ {0}
    /\ {MaxOffers, MaxMishaps} \subseteq Nat

Lines == [method : STRING, scheme : STRING, host : Seq(STRING), port : Nat, path : Seq(STRING)]

\* trollbridge.yaml, as far as suggestions go.
Lists == [allow : SUBSET Lines, deny : SUBSET Lines, declined : SUBSET SUBSET Lines,
          enabled : BOOLEAN]

RuleFires(rule, r) == rule.method \in {Star, r.method} /\ patternClause(rule, r)

\* Of the rules that the daemon starts with, those that bear the id of sources were
\* appended for them.
ASSUME LinesAssumption ==
    /\ {Star, AnyScheme} \subseteq STRING
    /\ \A s \in Starts :
          /\ s.lists \in Lists
          /\ s.rules \in Seq(ToSet(s.rules))
          /\ \A i \in DOMAIN s.rules, r \in Requests : \A e \in s.rules[i].id[2] :
                Matches(e, r) => RuleFires(s.rules[i].rule, r)
    /\ Editable \subseteq Lines /\ Requests \subseteq Lines

Scans == {"tick", "now"}

\* Both scans may begin below the bound.
Ids == 1..(MaxOffers + 1)

Idle == [pc |-> "idle"]

VARIABLES
    file,      \* trollbridge.yaml: allow, deny, declined_suggestions, and the switch
    ruleFile,  \* the rules in the first policy.include file, in order, each with its id
    mem,       \* the same in the matcher and in Server.cfg
    engine,    \* Engine.rules
    unseen,    \* the file changed since Watcher.seenMTime
    active,    \* Manager.active
    declinedAxes,  \* Manager.sessionDeclined: <<key, axis>> pairs
    skipped,   \* Manager.sessionSkipped
    scan,      \* where Tick and SuggestNow are
    call,      \* where an answer is
    offers, edits, mishaps,  \* how many scans, edits, failures and restarts so far
    settled,   \* history: keys that were skipped, or declined and reloaded
    answered   \* history: how many answers ended an offer

files == <<file, ruleFile, mem, engine, unseen>>
manager == <<active, declinedAxes, skipped>>
counters == <<offers, edits, mishaps>>
history == <<settled, answered>>
vars == <<files, manager, scan, call, counters, history>>

Init ==
    /\ \E s \in Starts : file = s.lists /\ ruleFile = s.rules
    /\ mem = file /\ engine = ruleFile
    /\ unseen = FALSE
    /\ active = None /\ declinedAxes = {} /\ skipped = {}
    /\ scan = [p \in Scans |-> Idle]
    /\ call = [c \in Calls |-> Idle]
    /\ offers = 0 /\ edits = 0 /\ mishaps = 0
    /\ settled = {} /\ answered = [n \in Ids |-> 0]

-----------------------------------------------------------------------------
(***************************************************************************)
(* Which of the candidates is offered.                                     *)
(***************************************************************************)
\* The candidates that survive the three filters.
Filtered ==
    {c \in DetectAllWithRecognizer(mem.allow, mem.deny) :
        /\ CanonicalKey(c) \notin mem.declined
        /\ <<CanonicalKey(c), c.axis>> \notin declinedAxes
        /\ CanonicalKey(c) \notin skipped}

groups(cands) == GroupsBy(cands, CanonicalKey)

coverage(g) == Cardinality(CanonicalKey(Some(g)))

\* Coverage first, then the number of axes; the shuffle of the process decides ties.
Best(cands) ==
    {g \in groups(cands) : \A h \in groups(cands) :
        \/ coverage(g) > coverage(h)
        \/ coverage(g) = coverage(h) /\ Cardinality(g) >= Cardinality(h)}

concentrated(part, whole) == 100 * part >= Threshold * whole

Narrower(chosen, cands) ==
    {g \in groups(cands) :
        /\ coverage(g) < coverage(chosen)
        /\ CanonicalKey(Some(g)) \subseteq CanonicalKey(Some(chosen))
        /\ concentrated(coverage(g), coverage(chosen))}

\* The highest ratio, then the fewest axes; map order decides ties.
BestNarrower(chosen, cands) ==
    {g \in Narrower(chosen, cands) : \A h \in Narrower(chosen, cands) :
        \/ coverage(g) > coverage(h)
        \/ coverage(g) = coverage(h) /\ Cardinality(g) <= Cardinality(h)}

\* The order of the detectors, and in each of the lists.  Of one set of sources at
\* most one detector of lines makes a candidate.
before(d, c) ==
    \/ ~PatternShaped(d) /\ PatternShaped(c)
    \/ PatternShaped(d) = PatternShaped(c) /\ d.list = "allow" /\ c.list = "deny"

first(chosen) == CHOOSE c \in chosen : \A d \in chosen : ~before(d, c)

\* What the advisor is asked about: at most max_candidates of a group.
truncated(chosen) ==
    {c \in chosen : Cardinality({d \in chosen : before(d, c)}) < MaxCandidates}

Clusters(c) == GroupsBy(CanonicalKey(c), LAMBDA e : e.path[1])

synthesizeNarrowerFromConcentration(c) ==
    {Candidate(c.axis, c.list, g,
         [c.line EXCEPT !.path = <<Some(g).path[1], Star>>], NoRule) :
        g \in {g \in Clusters(c) :
                  /\ g # CanonicalKey(c)
                  /\ \A h \in Clusters(c) : Cardinality(g) >= Cardinality(h)
                  /\ concentrated(Cardinality(g), Cardinality(CanonicalKey(c)))}}

narrowable(c) ==
    /\ ~PatternShaped(c) /\ c.line.scheme # AnyScheme
    /\ c.line.path # NoPath /\ Last(c.line.path) = Star
    /\ \A e \in CanonicalKey(c) : e.method = c.line.method /\ trimmed(e.path) # <<>>

preferNarrowerOnConcentration(chosen, cands) ==
    LET synthesized == IF narrowable(first(chosen))
                       THEN synthesizeNarrowerFromConcentration(first(chosen)) ELSE {}
    IN  IF Narrower(chosen, cands) # {} THEN BestNarrower(chosen, cands)
        ELSE IF synthesized # {} THEN {{c} : c \in synthesized}
        ELSE {chosen}

Picks(cands) == UNION {preferNarrowerOnConcentration(g, cands) : g \in Best(cands)}

-----------------------------------------------------------------------------
(***************************************************************************)
(* Scans.                                                                  *)
(***************************************************************************)
\* Tick does nothing while suggestions are switched off.  An offer that is up is only
\* looked at again; otherwise a scan begins.  It does when nothing is pending and
\* nothing has arrived for a while; the model lets it at any tick.
Tick ==
    /\ scan["tick"] = Idle /\ mem.enabled
    /\ active # None \/ offers < MaxOffers
    /\ scan' = [scan EXCEPT !["tick"] =
           IF active # None THEN [pc |-> "revalidating", offer |-> active] ELSE [pc |-> "detecting"]]
    /\ UNCHANGED <<files, manager, call, counters, history>>

sourcesOf(offer) == CanonicalKey(offer.cand)

forget(key) == {d \in declinedAxes : d[1] # key}

\* Mutant: the offer goes only when none of its sources is left.
revalidateActiveAny ==
    /\ scan["tick"].pc = "revalidating"
    /\ LET offer == scan["tick"].offer
           gone == /\ sourcesOf(offer) \cap (mem.allow \cup mem.deny) = {}
                   /\ active # None
                   /\ active.id = offer.id
       IN  /\ active' = IF gone THEN None ELSE active
           /\ declinedAxes' = IF gone THEN forget(sourcesOf(offer)) ELSE declinedAxes
    /\ scan' = [scan EXCEPT !["tick"] = Idle]
    /\ UNCHANGED <<files, skipped, call, counters, history>>

\* Tick with an offer up: one whose sources are not all on a list any more goes,
\* unless another offer has taken its place.
revalidateActive ==
    /\ scan["tick"].pc = "revalidating"
    /\ LET offer == scan["tick"].offer
           gone == /\ ~(sourcesOf(offer) \subseteq mem.allow \cup mem.deny)
                   /\ active # None
                   /\ active.id = offer.id
       IN  /\ active' = IF gone THEN None ELSE active
           /\ declinedAxes' = IF gone THEN forget(sourcesOf(offer)) ELSE declinedAxes
    /\ scan' = [scan EXCEPT !["tick"] = Idle]
    /\ UNCHANGED <<files, skipped, call, counters, history>>

\* SuggestNow: the quiet predicate does not matter, the switch does, and the current
\* offer goes.
SuggestNow ==
    /\ scan["now"] = Idle /\ mem.enabled /\ offers < MaxOffers
    /\ active' = None
    /\ scan' = [scan EXCEPT !["now"] = [pc |-> "detecting"]]
    /\ UNCHANGED <<files, declinedAxes, skipped, call, counters, history>>

\* produce, up to the call of the advisor.  What the scan remembers besides: whether
\* its pick is synthesized, and what had been settled when it filtered.
Detect(p) ==
    /\ scan[p].pc = "detecting"
    /\ IF Filtered = {}
       THEN /\ scan' = [scan EXCEPT ![p] = Idle]
            /\ UNCHANGED offers
       ELSE /\ \E chosen \in Picks(Filtered) :
                  scan' = [scan EXCEPT ![p] =
                      [pc |-> "asking", chosen |-> truncated(chosen), id |-> offers + 1,
                       synthesized |-> chosen \notin groups(Filtered), barred |-> settled]]
            /\ offers' = offers + 1
    /\ UNCHANGED <<files, manager, call, edits, mishaps, history>>

\* The advisor ranks the candidates, a SuggestProvider in any order (the order of
\* axes that the service itself falls back to is one); what it puts first is offered.
Offer(p) ==
    /\ scan[p].pc = "asking"
    /\ \E top \in scan[p].chosen :
          active' = [id |-> scan[p].id, cand |-> top, all |-> scan[p].chosen,
                     offered |-> {top.axis},
                     synthesized |-> scan[p].synthesized, barred |-> scan[p].barred]
    /\ scan' = [scan EXCEPT ![p] = Idle]
    /\ UNCHANGED <<files, declinedAxes, skipped, call, counters, history>>

\* The advisor does not answer, or not in its schema.
AskFails(p) ==
    /\ scan[p].pc = "asking"
    /\ edits + mishaps < MaxMishaps
    /\ mishaps' = mishaps + 1
    /\ scan' = [scan EXCEPT ![p] = Idle]
    /\ UNCHANGED <<files, manager, call, offers, edits, history>>

-----------------------------------------------------------------------------
(***************************************************************************)
(* Answers.  One whose id is not that of the current offer is refused and  *)
(* changes nothing.                                                        *)
(***************************************************************************)
\* Mutant: the offer stays up until its answer has been written.
TakeLater(c, pc) ==
    /\ active # None /\ call[c] = Idle
    /\ call' = [call EXCEPT ![c] = [pc |-> pc, offer |-> active]]
    /\ answered' = [answered EXCEPT ![active.id] = @ + 1]
    /\ UNCHANGED active

\* An answer takes the offer down, under the lock, before it writes anything.
Take(c, pc) ==
    /\ active # None /\ call[c] = Idle
    /\ call' = [call EXCEPT ![c] = [pc |-> pc, offer |-> active]]
    /\ answered' = [answered EXCEPT ![active.id] = @ + 1]
    /\ active' = None

Accept(c) ==
    /\ active # None
    /\ Take(c, IF PatternShaped(active.cand) THEN "append rule" ELSE "generalize")
    /\ declinedAxes' = forget(sourcesOf(active))
    /\ UNCHANGED <<files, skipped, scan, counters, settled>>

\* The axes of the same sources that were not offered yet.
otherAxes(offer) == {d \in offer.all : CanonicalKey(d) = sourcesOf(offer) /\ d.axis \notin offer.offered}

\* Decline: the next axis takes the offer's place, in the same offer.
DeclineAxis ==
    /\ active # None
    /\ \E next \in otherAxes(active) :
          active' = [active EXCEPT !.cand = next, !.offered = @ \cup {next.axis}]
    /\ declinedAxes' = declinedAxes \cup {<<sourcesOf(active), active.cand.axis>>}
    /\ UNCHANGED <<files, skipped, scan, call, counters, history>>

\* Decline of the last axis.
DeclineLast(c) ==
    /\ active # None /\ otherAxes(active) = {}
    /\ Take(c, "add declined")
    /\ declinedAxes' = forget(sourcesOf(active))
    /\ UNCHANGED <<files, skipped, scan, counters, settled>>

Skip(c) ==
    /\ active # None /\ call[c] = Idle
    /\ active' = None
    /\ answered' = [answered EXCEPT ![active.id] = @ + 1]
    /\ skipped' = skipped \cup {sourcesOf(active)}
    /\ settled' = settled \cup {sourcesOf(active)}
    /\ UNCHANGED <<files, declinedAxes, scan, call, counters>>

-----------------------------------------------------------------------------
(***************************************************************************)
(* What an answer writes.                                                  *)
(***************************************************************************)
at(c, pc) == call[c].pc = pc

step(c, pc) == call' = [call EXCEPT ![c] = IF pc = "idle" THEN Idle ELSE [@ EXCEPT !.pc = pc]]

writes(c, pc) ==
    /\ step(c, pc)
    /\ unseen' = TRUE
    /\ UNCHANGED <<mem, engine, manager, scan, counters, history>>

\* configwrite.Generalize: the broader line for the sources and for whatever else
\* it makes redundant, in one rewrite.
Generalize(c) ==
    /\ at(c, "generalize")
    /\ LET cand == call[c].offer.cand
           kept == {e \in file[cand.list] : e \notin cand.sources /\ ~subsumes(cand.line, e)}
       IN  file' = [file EXCEPT ![cand.list] = kept \cup {cand.line}]
    /\ UNCHANGED ruleFile
    /\ writes(c, "reload")

\* patternRuleID: the pattern and the sources.
patternRuleID(cand) == <<cand.rule.pattern, cand.sources>>

numbered(rules, id) == {i \in DOMAIN rules : rules[i].id = id}

\* AcceptPatternSuggestion, first: the rule, after all others, unless one of that id
\* is there.
AppendRule(c) ==
    /\ at(c, "append rule")
    /\ LET cand == call[c].offer.cand
       IN  ruleFile' = IF numbered(ruleFile, patternRuleID(cand)) # {} THEN ruleFile
                       ELSE Append(ruleFile, [id |-> patternRuleID(cand), rule |-> cand.rule])
    /\ step(c, "remove sources")
    /\ UNCHANGED <<file, mem, engine, unseen, manager, scan, counters, history>>

\* Then its sources leave the list.
RemoveSources(c) ==
    /\ at(c, "remove sources")
    /\ LET cand == call[c].offer.cand
       IN  file' = [file EXCEPT ![cand.list] = @ \ cand.sources]
    /\ UNCHANGED ruleFile
    /\ writes(c, "reload")

AddDeclinedSuggestion(c) ==
    /\ at(c, "add declined")
    /\ file' = [file EXCEPT !.declined = @ \cup {sourcesOf(call[c].offer)}]
    /\ UNCHANGED ruleFile
    /\ writes(c, "reload declined")

\* Any of these writes fails: the answer ends there.
WriteFails(c) ==
    /\ call[c].pc \in {"generalize", "append rule", "remove sources", "add declined"}
    /\ edits + mishaps < MaxMishaps
    /\ mishaps' = mishaps + 1
    /\ step(c, "idle")
    /\ UNCHANGED <<files, manager, scan, offers, edits, history>>

\* Mutant: the answer does not reload.
ReloadNothing(c) ==
    /\ call[c].pc \in {"reload", "reload declined"}
    /\ unseen' = FALSE
    /\ settled' = IF at(c, "reload declined") THEN settled \cup {sourcesOf(call[c].offer)} ELSE settled
    /\ step(c, "idle")
    /\ UNCHANGED <<file, ruleFile, mem, engine, manager, scan, counters, answered>>

\* reloadAfterInternalWrite: the lists and the configuration, not the rules; then
\* the watcher is told that the file has been read.
Reload(c) ==
    /\ call[c].pc \in {"reload", "reload declined"}
    /\ mem' = file
    /\ unseen' = FALSE
    /\ settled' = IF at(c, "reload declined") THEN settled \cup {sourcesOf(call[c].offer)} ELSE settled
    /\ step(c, "idle")
    /\ UNCHANGED <<file, ruleFile, engine, manager, scan, counters, answered>>

-----------------------------------------------------------------------------
(***************************************************************************)
(* Around the manager.                                                     *)
(***************************************************************************)
EditWith(new) ==
    /\ edits + mishaps < MaxMishaps
    /\ edits' = edits + 1
    /\ file' = new
    /\ unseen' = TRUE
    /\ UNCHANGED <<ruleFile, mem, engine, manager, scan, call, offers, mishaps, history>>

Add(l) == l \notin file.allow /\ EditWith([file EXCEPT !.allow = @ \cup {l}])

Withdraw(l) == l \in file.allow /\ EditWith([file EXCEPT !.allow = @ \ {l}])

\* approvals.suggestion.enabled.
Toggle == EditWith([file EXCEPT !.enabled = ~@])

\* The watcher's callback: lists, rules and configuration.
WatcherReloads ==
    /\ unseen
    /\ mem' = file /\ engine' = ruleFile /\ unseen' = FALSE
    /\ UNCHANGED <<file, ruleFile, manager, scan, call, counters, history>>

\* SIGHUP.
RulesReload ==
    /\ engine # ruleFile
    /\ engine' = ruleFile
    /\ UNCHANGED <<file, ruleFile, mem, unseen, manager, scan, call, counters, history>>

\* The daemon ends and starts again: what was under way stops where it is.
Restart ==
    /\ edits + mishaps < MaxMishaps
    /\ mishaps' = mishaps + 1
    /\ mem' = file /\ engine' = ruleFile /\ unseen' = FALSE
    /\ active' = None /\ declinedAxes' = {} /\ skipped' = {}
    /\ scan' = [p \in Scans |-> Idle]
    /\ call' = [c \in Calls |-> Idle]
    /\ settled' = settled \cap file.declined
    /\ UNCHANGED <<file, ruleFile, offers, edits, answered>>

Answers(c) ==
    \/ Accept(c) \/ DeclineLast(c) \/ Skip(c)
    \/ Generalize(c) \/ AppendRule(c) \/ RemoveSources(c) \/ AddDeclinedSuggestion(c)
    \/ WriteFails(c) \/ Reload(c)

Next ==
    \/ Tick \/ revalidateActive \/ SuggestNow
    \/ \E p \in Scans : Detect(p) \/ Offer(p) \/ AskFails(p)
    \/ DeclineAxis
    \/ \E c \in Calls : Answers(c)
    \/ \E l \in Editable : Add(l) \/ Withdraw(l)
    \/ Toggle
    \/ WatcherReloads \/ RulesReload \/ Restart

Spec == Init /\ [][Next]_vars

\* The ticker keeps ticking, which counts while suggestions are on, and a scan ends: the
\* code between two ticks does not block, and the call of the advisor has a timeout.
FairSpec ==
    /\ Spec
    /\ WF_vars(Tick) /\ WF_vars(revalidateActive)
    /\ []<>(scan["tick"].pc \notin {"detecting", "asking"})

-----------------------------------------------------------------------------
(***************************************************************************)
(* Properties.                                                             *)
(***************************************************************************)
Effects == {"allow", "deny"}

firing(rules, r) == {i \in DOMAIN rules : RuleFires(rules[i].rule, r)}

\* The first rule of the file, or the mode.
ByRules(rules, r) ==
    IF firing(rules, r) = {} THEN "mode"
    ELSE rules[CHOOSE i \in firing(rules, r) : \A j \in firing(rules, r) : i <= j].rule.effect

\* The deny list, the allow list, then the rules.
Decided(lists, rules, r) ==
    IF Match(lists.deny, r) THEN "deny"
    ELSE IF Match(lists.allow, r) THEN "allow"
    ELSE ByRules(rules, r)

Doing(c, pc) == at(c, pc) /\ ~at(c, pc)'

\* What was accepted fires on r, and its list decides now.
Extends(c, r) ==
    LET cand == call[c].offer.cand
    IN  /\ \/ Doing(c, "generalize") /\ Matches(cand.line, r)
           \/ Doing(c, "append rule") /\ RuleFires(cand.rule, r)
        /\ Decided(file', ruleFile', r) = cand.list

\* The line of a synthesized offer, "/a/*", does not fire on "/a" itself, although
\* "/a" may be one of the sources.
AtSynthesizedPrefix(c, r) ==
    LET offer == call[c].offer
    IN  /\ Doing(c, "generalize")
        /\ offer.synthesized
        /\ Match(sourcesOf(offer), r)
        /\ r.path = Front(offer.cand.line.path)

\* A rule does not take the place of its sources everywhere: the allow list is asked
\* before a rule that denies, and an earlier rule before this one.
Yields(c, r) ==
    LET cand == call[c].offer.cand
    IN  /\ Doing(c, "remove sources")
        /\ Match(cand.sources, r)
        /\ \/ cand.list = "deny" /\ Match(file.allow, r)
           \/ \E i \in firing(ruleFile, r), j \in numbered(ruleFile, patternRuleID(cand)) :
                 i < j /\ ruleFile[i].rule.effect # cand.list

\* patternRuleID does not tell the lists apart: where the same sources became a rule
\* of the other effect before, none is appended.
RuleOfOtherList(c, r) ==
    LET cand == call[c].offer.cand
    IN  /\ Doing(c, "remove sources")
        /\ Match(cand.sources, r)
        /\ \E i \in numbered(ruleFile, patternRuleID(cand)) : ruleFile[i].rule.effect # cand.list

Justified(r) ==
    \/ Decided(file', ruleFile', r) = Decided(file, ruleFile, r)
    \/ \E c \in Calls : \/ Extends(c, r) \/ AtSynthesizedPrefix(c, r)
                       \/ Yields(c, r) \/ RuleOfOtherList(c, r)

\* What the files say of a request changes by an editor's hand, or as the operator
\* accepted: no answer, failed write, restart or reload between its two writes takes a
\* decision back, but in the three cases above (Manager.Accept, acceptPattern,
\* configwrite.Generalize, AcceptPatternSuggestion; suggestion.go:779-919, and the
\* order of asking in server.go:614-621, 1798-1816).
AcceptKeepsDecisions ==
    [][edits' = edits /\ ~UNCHANGED <<file, ruleFile>> =>
          \A r \in Requests : Justified(r)]_<<file, ruleFile>>

\* What was skipped, or declined to the last axis, is not offered by any scan that
\* began later in the process; a decline outlives the process (Manager.produce's
\* filters, Skip, Decline, AddDeclinedSuggestion).  The filters do not see what
\* preferNarrowerOnConcentration synthesizes after them.
DecidedIsNotOfferedAgain ==
    active # None /\ ~active.synthesized => sourcesOf(active) \notin active.barred

\* Two consoles answering one offer: one of them does (the lock and the id check of
\* Accept, Decline and Skip).
OfferIsAnsweredOnce ==
    \A n \in Ids : answered[n] <= 1

stale == active # None /\ ~(sourcesOf(active) \subseteq mem.allow \cup mem.deny)

\* An offer whose sources have left the lists does not stay up while suggestions are
\* on (Manager.Tick, revalidateActive): switched off, the manager leaves it there.
StaleOfferIsWithdrawn ==
    stale ~> ~stale \/ ~mem.enabled
=============================================================================
