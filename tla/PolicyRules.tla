----------------------------- MODULE PolicyRules -----------------------------
(***************************************************************************)
(* What the rules say of a request (internal/policy): the clauses of a     *)
(* rule, the time window, the prior-decision clause over the history of    *)
(* decisions, and the rule that decides.  Operators only.                  *)
(*                                                                         *)
(* A rule file is [ok, rules]: ok is FALSE when Reload rejects it.  In a   *)
(* rule the clause {} (or "", or NoClause) is the absent one; paths stands *)
(* for the clauses path, path_prefix and path_regex, headers for           *)
(* header_match and content_type, bodies for the bodies that body_pattern  *)
(* matches; expires is read by nobody.  Time is counted in minutes from a  *)
(* Monday, 00:00.                                                          *)
(***************************************************************************)
EXTENDS Matching

CONSTANT NoClause

NoBody == ""       \* no sample: over the cap, or a method that carries no body

MinutesPerDay == 1440

weekday(t) == (t \div MinutesPerDay) % 7

weekdayMatch(t, days) == days = {} \/ weekday(t) \in days

\* A window without hours is 0 to MinutesPerDay.  The weekday is the one of t, on
\* both sides of midnight.
inWindow(w, t) ==
    LET cur == t % MinutesPerDay
    IN  /\ weekdayMatch(t, w.weekdays)
        /\ IF w.from <= w.to
           THEN w.from <= cur /\ cur < w.to
           ELSE w.from <= cur \/ cur < w.to

(***************************************************************************)
(* The history: [when, identity, host, effect], oldest first.              *)
(***************************************************************************)
\* Match walks from the newest entry and stops at the first one before the cutoff.
HistoryMatch(history, m, r, t) ==
    \E i \in DOMAIN history :
        /\ \A j \in i..Len(history) : history[j].when >= t - m.within
        /\ m.effect \in {"", history[i].effect}
        /\ m.sameIdentity => history[i].identity = r.identity
        /\ m.sameHost => history[i].host = r.host

\* An entry is dropped from the front of a full buffer.
Recorded(history, cap, e) ==
    Append(IF Len(history) >= cap THEN Tail(history) ELSE history, e)

(***************************************************************************)
(* The clauses of a rule.                                                  *)
(***************************************************************************)
matchHost(patterns, host) ==
    \E p \in patterns : \/ p = host
                        \/ wildcardPrefix(p) /\ IsStrictSuffix(Tail(p), host)

clause(set, value) == set = {} \/ value \in set

\* Every clause but body_pattern.
matchesIgnoringBody(rule, r, t, history) ==
    /\ rule.host = {} \/ matchHost(rule.host, r.host)
    /\ clause(rule.port, r.port)
    /\ clause(rule.method, r.method)
    /\ clause(rule.paths, r.path)
    /\ rule.identity \in {"", r.identity}
    /\ clause(rule.headers, r.headers)
    /\ rule.window = NoClause \/ inWindow(rule.window, t)
    /\ rule.prior = NoClause \/ HistoryMatch(history, rule.prior, r, t)
    /\ rule.pattern = "" \/ patternClause(rule, r)

matches(rule, r, t, history) ==
    /\ matchesIgnoringBody(rule, r, t, history)
    /\ clause(rule.bodies, r.body)

\* Mutant: a body rule without a sample is passed over.
failsOpen(rule, r, t, history) == FALSE

\* A body rule with no sample to look at decides as well: it denies.
failsClosed(rule, r, t, history) ==
    /\ rule.bodies # {}
    /\ r.body = NoBody
    /\ matchesIgnoringBody(rule, r, t, history)

(***************************************************************************)
(* The rule that decides: the first in order of priority, then of the file.*)
(***************************************************************************)
priority(rule) == IF rule.priority = 0 THEN 100 ELSE rule.priority

before(rules, i, j) ==
    \/ priority(rules[i]) > priority(rules[j])
    \/ priority(rules[i]) = priority(rules[j]) /\ i < j

\* The index of that rule, or of none.
deciding(rules, r, t, history) ==
    LET speaking == {i \in DOMAIN rules : \/ failsClosed(rules[i], r, t, history)
                                          \/ matches(rules[i], r, t, history)}
    IN  {i \in speaking : \A j \in speaking \ {i} : before(rules, i, j)}

MakeDecision(effect, source) == [effect |-> effect, source |-> source]

byDefault(mode) ==
    MakeDecision(CASE mode = "default-allow" -> "allow"
                   [] mode = "default-ask" -> "ask_user"
                   [] OTHER -> "deny", "default")

engineDecision(rules, mode, r, t, history) ==
    LET chosen == deciding(rules, r, t, history)
        rule == rules[CHOOSE i \in chosen : TRUE]
    IN  IF chosen = {}
        THEN byDefault(mode)
        ELSE MakeDecision(IF failsClosed(rule, r, t, history) THEN "deny" ELSE rule.effect, "rule")
=============================================================================
